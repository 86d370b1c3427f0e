----------------------------- MODULE PoolProofs -----------------------------
(***************************************************************************)
(* The pool with a mutex, for any number of pages and callers and any time *)
(* to live, and the NUMA pool, with one thread that allocates and any      *)
(* number that free, for any number of nodes and pages: no page is ever in *)
(* two places, and none is missing.                                        *)
(***************************************************************************)
EXTENDS PagePool, PagePoolNUMA, SequenceTheorems, FiniteSetTheorems,
        WellFoundedInduction, TLAPS

-----------------------------------------------------------------------------
(* Induction and the loops *)

(* Induction up to n, for a set. *)
LEMMA UpTo ==
    ASSUME NEW n \in Nat, NEW S, 0 \in S,
           \A i \in 1..n : i - 1 \in S => i \in S
    PROVE  \A i \in 0..n : i \in S
<1> DEFINE T == {i \in 0..n : i \notin S}
<1> SUFFICES ASSUME T # {} PROVE FALSE
  OBVIOUS
<1>1. PICK i \in T : \A j \in T : ~(<<j, i>> \in OpToRel(<, Nat))
  <2>1. T \subseteq Nat
    OBVIOUS
  <2> HIDE DEF T
  <2> QED
    BY <2>1, NatLessThanWellFounded, WFMin
<1>2. \A j \in T : j \in 0..n /\ j \in Nat /\ j \notin S
  OBVIOUS
<1>3. i \in 0..n /\ i \in Nat /\ i \notin S /\ i # 0
  BY <1>2
<1>4. i \in 1..n /\ i - 1 \in 0..n /\ i - 1 \in Nat /\ i - 1 < i
  BY <1>3
<1>5. i - 1 \in T
  BY <1>3, <1>4
<1>6. <<i - 1, i>> \in OpToRel(<, Nat)
  BY <1>3, <1>4 DEF OpToRel
<1> QED
  BY <1>1, <1>5, <1>6

(* What the loops work on. *)
Loop == [list |-> free_list, pages |-> pages, bal |-> balance]

(* g does the first n turns of free_pages' loop. *)
Frees(g, n, ids) ==
    g = [i \in 0..n |-> IF i = 0 THEN Loop ELSE FreeOne(g[i - 1], ids[i])]

(* There is such a function: the recursion is well defined. *)
LEMMA FreesExist ==
    ASSUME NEW ids, NEW n \in Nat
    PROVE  \E g : Frees(g, n, ids)
<1> DEFINE S == {i \in Nat : \E g : Frees(g, i, ids)}
<1>1. 0 \in S
  <2> DEFINE g == [i \in 0..0 |-> Loop]
  <2>1. Frees(g, 0, ids)
    BY DEF Frees
  <2> QED
    BY <2>1
<1>2. ASSUME NEW i \in 1..n, i - 1 \in S
      PROVE  i \in S
  <2>1. PICK g : Frees(g, i - 1, ids)
    BY <1>2
  <2> DEFINE h == [j \in 0..i |-> IF j = i THEN FreeOne(g[i - 1], ids[i]) ELSE g[j]]
  <2>2. ASSUME NEW j \in 0..i
        PROVE  h[j] = IF j = 0 THEN Loop ELSE FreeOne(h[j - 1], ids[j])
    <3>1. CASE j = i
      <4>1. j # 0 /\ h[j - 1] = g[i - 1]
        BY <3>1
      <4> QED
        BY <3>1, <4>1
    <3>2. CASE j # i
      <4>1. j \in 0..(i - 1) /\ h[j] = g[j]
        BY <3>2
      <4>2. j # 0 => h[j - 1] = g[j - 1]
        BY <3>2
      <4>3. g[j] = IF j = 0 THEN Loop ELSE FreeOne(g[j - 1], ids[j])
        BY <2>1, <4>1 DEF Frees
      <4> QED
        BY <4>1, <4>2, <4>3
    <3> QED
      BY <3>1, <3>2
  <2>3. Frees(h, i, ids)
    <3> HIDE DEF h
    <3>1. h = [j \in 0..i |-> h[j]]
      BY DEF h
    <3> QED
      BY <2>2, <3>1 DEF Frees
  <2> QED
    BY <2>3
<1>3. \A i \in 0..n : i \in S
  <2> HIDE DEF S
  <2> QED
    BY <1>1, <1>2, UpTo
<1> QED
  BY <1>3

(* What FreeTurns is. *)
LEMMA FreeTurnsDef ==
    ASSUME NEW ids, Len(ids) \in Nat
    PROVE  /\ FreeTurns(ids)[0] = Loop
           /\ \A i \in 1..Len(ids) : FreeTurns(ids)[i] = FreeOne(FreeTurns(ids)[i - 1], ids[i])
<1> DEFINE g == FreeTurns(ids)
           n == Len(ids)
<1>1. g = CHOOSE f : Frees(f, n, ids)
  BY DEF FreeTurns, Frees, Loop
<1>2. Frees(g, n, ids)
  <2> HIDE DEF g, n
  <2> QED
    BY <1>1, FreesExist DEF n
<1> HIDE DEF g
<1>3. g[0] = Loop
  BY <1>2 DEF Frees
<1>4. ASSUME NEW i \in 1..n
      PROVE  g[i] = FreeOne(g[i - 1], ids[i])
  BY <1>2 DEF Frees
<1> QED
  BY <1>3, <1>4 DEF g

(* One turn of leak_scan's loops. *)
ScanOne(state, p) == IF p \in Orphans THEN Push(state, p) ELSE state

(* g does the first n turns of leak_scan's loops. *)
Scans(g, n) == g = [i \in 0..n |-> IF i = 0 THEN Loop ELSE ScanOne(g[i - 1], i - 1)]

(* There is such a function, too. *)
LEMMA ScansExist ==
    ASSUME NEW n \in Nat
    PROVE  \E g : Scans(g, n)
<1> DEFINE S == {i \in Nat : \E g : Scans(g, i)}
<1>1. 0 \in S
  <2> DEFINE g == [i \in 0..0 |-> Loop]
  <2>1. Scans(g, 0)
    BY DEF Scans
  <2> QED
    BY <2>1
<1>2. ASSUME NEW i \in 1..n, i - 1 \in S
      PROVE  i \in S
  <2>1. PICK g : Scans(g, i - 1)
    BY <1>2
  <2> DEFINE h == [j \in 0..i |-> IF j = i THEN ScanOne(g[i - 1], i - 1) ELSE g[j]]
  <2>2. ASSUME NEW j \in 0..i
        PROVE  h[j] = IF j = 0 THEN Loop ELSE ScanOne(h[j - 1], j - 1)
    <3>1. CASE j = i
      <4>1. j # 0 /\ h[j - 1] = g[i - 1]
        BY <3>1
      <4> QED
        BY <3>1, <4>1
    <3>2. CASE j # i
      <4>1. j \in 0..(i - 1) /\ h[j] = g[j]
        BY <3>2
      <4>2. j # 0 => h[j - 1] = g[j - 1]
        BY <3>2
      <4>3. g[j] = IF j = 0 THEN Loop ELSE ScanOne(g[j - 1], j - 1)
        BY <2>1, <4>1 DEF Scans
      <4> QED
        BY <4>1, <4>2, <4>3
    <3> QED
      BY <3>1, <3>2
  <2>3. Scans(h, i)
    <3> HIDE DEF h
    <3>1. h = [j \in 0..i |-> h[j]]
      BY DEF h
    <3> QED
      BY <2>2, <3>1 DEF Scans
  <2> QED
    BY <2>3
<1>3. \A i \in 0..n : i \in S
  <2> HIDE DEF S
  <2> QED
    BY <1>1, <1>2, UpTo
<1> QED
  BY <1>3

(* What ScanTurns is. *)
LEMMA ScanTurnsDef ==
    /\ ScanTurns[0] = Loop
    /\ \A i \in 1..PoolSize : ScanTurns[i] = ScanOne(ScanTurns[i - 1], i - 1)
<1> DEFINE g == ScanTurns
<1>0. PoolSize \in Nat
  BY MutexPoolAssumption
<1>1. g = CHOOSE f : Scans(f, PoolSize)
  BY DEF ScanTurns, Scans, Loop, ScanOne
<1>2. Scans(g, PoolSize)
  <2> HIDE DEF g
  <2> QED
    BY <1>0, <1>1, ScansExist
<1> HIDE DEF g
<1>3. g[0] = Loop
  BY <1>0, <1>2 DEF Scans
<1>4. ASSUME NEW i \in 1..PoolSize
      PROVE  g[i] = ScanOne(g[i - 1], i - 1)
  BY <1>0, <1>2 DEF Scans
<1> QED
  BY <1>3, <1>4 DEF g

-----------------------------------------------------------------------------
(* The pool with a mutex *)

(* A page, and what the loops of the pool work on. *)
Page == [freed : BOOLEAN, owner : Traces \cup {""}, age : Nat]

LoopState == [list : Seq(Ids), pages : [Ids -> Page], bal : Int]

(* Free list, flags and counters of c agree. *)
Listed(c) ==
    /\ c \in LoopState
    /\ \A i, j \in 1..Len(c.list) : c.list[i] = c.list[j] => i = j
    /\ \A p \in Ids : c.pages[p].freed <=> \E i \in 1..Len(c.list) : c.list[i] = p
    /\ c.bal = PoolSize - Len(c.list)

(* They do after a page in use is put on the list. *)
LEMMA Pushed ==
    ASSUME NEW c, Listed(c), NEW p \in Ids, ~c.pages[p].freed
    PROVE  /\ Listed(Push(c, p))
           /\ Push(c, p).pages[p].freed
           /\ \A q \in Ids : q # p => Push(c, p).pages[q] = c.pages[q]
<1>1. PICK r, L : r = Push(c, p) /\ L = Len(c.list)
  OBVIOUS
<1>2. /\ c \in LoopState /\ L \in Nat /\ c.list \in Seq(Ids) /\ c.bal \in Int
      /\ c.pages \in [Ids -> Page] /\ c.pages[p] \in Page
  BY <1>1, LenProperties DEF Listed, LoopState
<1>3. /\ r.list = Append(c.list, p) /\ r.bal = c.bal - 1
      /\ r.pages = [c.pages EXCEPT ![p] = [c.pages[p] EXCEPT !.freed = TRUE, !.owner = ""]]
  BY <1>1, <1>2 DEF Push
<1>4. /\ Len(r.list) = L + 1 /\ r.list[L + 1] = p
      /\ \A i \in 1..L : r.list[i] = c.list[i]
  BY <1>1, <1>2, <1>3, AppendProperties
<1>5. r \in LoopState
  <2>1. Append(c.list, p) \in Seq(Ids)
    BY <1>2, AppendProperties
  <2>2. [c.pages[p] EXCEPT !.freed = TRUE, !.owner = ""] \in Page
    BY <1>2 DEF Page
  <2>3. r.pages \in [Ids -> Page]
    BY <1>2, <1>3, <2>2
  <2>4. r.bal \in Int
    BY <1>2, <1>3
  <2> QED
    BY <1>1, <1>3, <2>1, <2>3, <2>4 DEF LoopState, Push
<1>6. r.pages[p].freed /\ \A q \in Ids : q # p => r.pages[q] = c.pages[q]
  <2>1. r.pages[p] = [c.pages[p] EXCEPT !.freed = TRUE, !.owner = ""]
    BY <1>2, <1>3
  <2>2. r.pages[p].freed
    BY <1>2, <2>1 DEF Page
  <2> QED
    BY <1>2, <1>3, <2>2
<1>7. /\ \A i \in 1..(L + 1) : i \in 1..L \/ i = L + 1
      /\ \A i \in 1..L : i \in 1..(L + 1)
      /\ L + 1 \in 1..(L + 1)
  BY <1>2
<1>8. \A i \in 1..L : c.list[i] # p
  BY <1>1 DEF Listed
<1>9. \A i, j \in 1..(L + 1) : r.list[i] = r.list[j] => i = j
  <2>1. \A i, j \in 1..L : c.list[i] = c.list[j] => i = j
    BY <1>1 DEF Listed
  <2> QED
    BY <1>4, <1>7, <1>8, <2>1
<1>10. ASSUME NEW q \in Ids
       PROVE  r.pages[q].freed <=> \E i \in 1..(L + 1) : r.list[i] = q
  <2>1. CASE q = p
    BY <1>4, <1>6, <1>7, <2>1
  <2>2. CASE q # p
    <3>1. r.pages[q].freed <=> \E i \in 1..L : c.list[i] = q
      BY <1>1, <1>6, <2>2 DEF Listed
    <3> QED
      BY <1>4, <1>7, <2>2, <3>1
  <2> QED
    BY <2>1, <2>2
<1>11. r.bal = PoolSize - (L + 1)
  BY <1>1, <1>2, <1>3, MutexPoolAssumption DEF Listed
<1> QED
  BY <1>1, <1>4, <1>5, <1>6, <1>9, <1>10, <1>11 DEF Listed

(* The inductive invariant: and each page in use is one of its owner's. *)
Owned == \A p \in Ids : ~pages[p].freed =>
             pages[p].owner \in Traces /\ p \in mine[pages[p].owner]

(* The inductive invariant of the pool with a mutex. *)
MutexInv == Listed(Loop) /\ mine \in [Traces -> SUBSET Ids] /\ Owned

(* What the loop of free_pages has done after i turns: what it has seen is *)
(* free, what is not free is as it was.                                    *)
LEMMA FreeLoop ==
    ASSUME Listed(Loop), NEW n \in Nat, NEW ids \in [1..n -> Ids]
    PROVE  /\ Len(ids) = n /\ Range(ids) = {ids[m] : m \in 1..n}
           /\ Listed(FreeTurns(ids)[n])
           /\ \A m \in 1..n : FreeTurns(ids)[n].pages[ids[m]].freed
           /\ \A p \in Ids : FreeTurns(ids)[n].pages[p].freed \/ FreeTurns(ids)[n].pages[p] = pages[p]
<1> DEFINE D(i) == FreeTurns(ids)[i]
           S == {i \in 0..n : /\ Listed(D(i))
                              /\ \A m \in 1..i : D(i).pages[ids[m]].freed
                              /\ \A p \in Ids : D(i).pages[p].freed \/ D(i).pages[p] = pages[p]}
<1>1. ids \in Seq(Ids) /\ Len(ids) = n /\ DOMAIN ids = 1..n
  BY IsASeq, LenProperties
<1>2. D(0) = Loop /\ \A i \in 1..n : D(i) = FreeOne(D(i - 1), ids[i])
  BY <1>1, FreeTurnsDef
<1>3. 0 \in S
  BY <1>2 DEF Loop
<1>4. ASSUME NEW i \in 1..n, i - 1 \in S
      PROVE  i \in S
  <2>1. PICK d, e, p : d = D(i - 1) /\ e = D(i) /\ p = ids[i]
    OBVIOUS
  <2>2. /\ Listed(d) /\ p \in Ids
        /\ \A m \in 1..(i - 1) : ids[m] \in Ids /\ d.pages[ids[m]].freed
        /\ \A q \in Ids : d.pages[q].freed \/ d.pages[q] = pages[q]
    BY <1>4, <2>1
  <2>3. e = FreeOne(d, p)
    BY <1>2, <2>1
  <2>4. /\ Listed(e) /\ e.pages[p].freed
        /\ \A q \in Ids : q # p => e.pages[q] = d.pages[q]
    <3>1. CASE d.pages[p].freed
      BY <2>2, <2>3, <3>1 DEF FreeOne
    <3>2. CASE ~d.pages[p].freed
      BY <2>2, <2>3, <3>2, Pushed DEF FreeOne
    <3> QED
      BY <3>1, <3>2
  <2>5. \A m \in 1..i : m = i \/ m \in 1..(i - 1)
    OBVIOUS
  <2>6. \A m \in 1..i : e.pages[ids[m]].freed
    BY <2>1, <2>2, <2>4, <2>5
  <2>7. \A q \in Ids : e.pages[q].freed \/ e.pages[q] = pages[q]
    BY <2>2, <2>4
  <2> QED
    BY <2>1, <2>4, <2>6, <2>7
<1> HIDE DEF S
<1>5. \A i \in 0..n : i \in S
  BY <1>3, <1>4, UpTo
<1>6. n \in S
  BY <1>5
<1> QED
  BY <1>1, <1>6 DEF S, Range

(* And that of leak_scan: what is not collected is as it was. *)
LEMMA ScanLoop ==
    ASSUME Listed(Loop)
    PROVE  /\ Listed(ScanTurns[PoolSize])
           /\ \A p \in Ids : \/ ScanTurns[PoolSize].pages[p].freed
                             \/ ScanTurns[PoolSize].pages[p] = pages[p]
<1> DEFINE D(i) == ScanTurns[i]
           S == {i \in 0..PoolSize :
                    /\ Listed(D(i))
                    /\ \A p \in Ids : p >= i => D(i).pages[p] = pages[p]
                    /\ \A p \in Ids : D(i).pages[p].freed \/ D(i).pages[p] = pages[p]}
<1>1. PoolSize \in Nat
  BY MutexPoolAssumption
<1>2. D(0) = Loop /\ \A i \in 1..PoolSize : D(i) = ScanOne(D(i - 1), i - 1)
  BY ScanTurnsDef
<1>3. 0 \in S
  BY <1>1, <1>2 DEF Loop
<1>4. ASSUME NEW i \in 1..PoolSize, i - 1 \in S
      PROVE  i \in S
  <2>1. PICK d, e, p : d = D(i - 1) /\ e = D(i) /\ p = i - 1
    OBVIOUS
  <2>2. /\ Listed(d) /\ p \in Ids
        /\ \A q \in Ids : q >= p => d.pages[q] = pages[q]
        /\ \A q \in Ids : d.pages[q].freed \/ d.pages[q] = pages[q]
    BY <1>1, <1>4, <2>1 DEF Ids
  <2>3. e = ScanOne(d, p)
    BY <1>2, <2>1
  <2>4. /\ Listed(e)
        /\ \A q \in Ids : q # p => e.pages[q] = d.pages[q]
        /\ e.pages[p].freed \/ e.pages[p] = d.pages[p]
    <3>1. CASE p \notin Orphans
      BY <2>2, <2>3, <3>1 DEF ScanOne
    <3>2. CASE p \in Orphans
      <4>1. ~d.pages[p].freed
        <5>1. d.pages[p] = pages[p]
          BY <2>2 DEF Ids
        <5> QED
          BY <3>2, <5>1 DEF Orphans
      <4> QED
        BY <2>2, <2>3, <3>2, <4>1, Pushed DEF ScanOne
    <3> QED
      BY <3>1, <3>2
  <2>5. \A q \in Ids : q >= i => q >= p /\ q # p
    BY <1>1, <2>1 DEF Ids
  <2>6. \A q \in Ids : q >= i => e.pages[q] = pages[q]
    BY <2>2, <2>4, <2>5
  <2>7. \A q \in Ids : e.pages[q].freed \/ e.pages[q] = pages[q]
    BY <2>2, <2>4
  <2> QED
    BY <1>1, <2>1, <2>4, <2>6, <2>7
<1> HIDE DEF S
<1>5. \A i \in 0..PoolSize : i \in S
  BY <1>1, <1>3, <1>4, UpTo
<1>6. PoolSize \in S
  BY <1>1, <1>5
<1> QED
  BY <1>6 DEF S

(* alloc takes the back of the list. *)
LEMMA AllocKeeps ==
    ASSUME MutexInv, NEW o \in Traces, NEW n \in Nat \ {0}, pool_alloc(o, n)
    PROVE  MutexInv'
<1>1. PICK L, m, got : /\ L = Len(free_list) /\ m = L - n
                       /\ got = {free_list[i] : i \in (m + 1)..L}
  OBVIOUS
<1>2. /\ free_list \in Seq(Ids) /\ L \in Nat /\ pages \in [Ids -> Page] /\ balance \in Int
      /\ \A i, j \in 1..L : free_list[i] = free_list[j] => i = j
      /\ \A p \in Ids : pages[p].freed <=> \E i \in 1..L : free_list[i] = p
      /\ balance = PoolSize - L
      /\ mine \in [Traces -> SUBSET Ids] /\ Owned
  <2>1. Listed(Loop) /\ mine \in [Traces -> SUBSET Ids] /\ Owned
    BY DEF MutexInv
  <2>2. Loop.list = free_list /\ Loop.pages = pages /\ Loop.bal = balance
    BY DEF Loop
  <2>3. free_list \in Seq(Ids) /\ pages \in [Ids -> Page] /\ balance \in Int
    BY <2>1, <2>2 DEF Listed, LoopState
  <2> QED
    BY <1>1, <2>1, <2>2, <2>3, LenProperties DEF Listed
<1>3. /\ n <= L /\ free_list' = SubSeq(free_list, 1, m)
      /\ pages' = [p \in Ids |-> IF p \in got THEN [freed |-> FALSE, owner |-> o, age |-> 0]
                                              ELSE pages[p]]
      /\ balance' = balance + n
      /\ mine' = [mine EXCEPT ![o] = @ \cup got]
  <2>1. got = {free_list[i] : i \in Len(free_list) - n + 1 .. Len(free_list)}
    BY <1>1
  <2> QED
    BY <1>1, <1>2, <2>1 DEF pool_alloc
<1>4. m \in Nat /\ m <= L /\ 1..m \subseteq 1..L /\ (m + 1)..L \subseteq 1..L
  BY <1>1, <1>2, <1>3
<1>5. /\ free_list' \in Seq(Ids) /\ Len(free_list') = m
      /\ \A i \in 1..m : free_list'[i] = free_list[i]
  <2>1. m \in Int /\ \A i \in 1..m : free_list[i] \in Ids
    BY <1>1, <1>2, <1>4, ElementOfSeq
  <2>2. /\ free_list' \in Seq(Ids)
        /\ Len(free_list') = IF 1 <= m THEN m - 1 + 1 ELSE 0
        /\ \A i \in 1 .. (m - 1 + 1) : free_list'[i] = free_list[1 + i - 1]
    BY <1>1, <1>2, <1>3, <2>1, SubSeqProperties
  <2>3. m - 1 + 1 = m /\ (~(1 <= m) => m = 0) /\ \A i \in 1..m : 1 + i - 1 = i
    BY <1>4
  <2> QED
    BY <2>2, <2>3
<1>6. \A i \in 1..L : free_list[i] \in Ids
  BY <1>1, <1>2, ElementOfSeq
<1>7. got \subseteq Ids
  BY <1>1, <1>4, <1>6
<1>8. \A p \in got : pages'[p] = [freed |-> FALSE, owner |-> o, age |-> 0]
  BY <1>3, <1>7
<1>9. \A p \in Ids \ got : pages'[p] = pages[p]
  BY <1>3
<1>10. \A p \in got : ~pages'[p].freed /\ pages'[p].owner = o
  BY <1>8
<1>11. pages' \in [Ids -> Page]
  <2>1. [freed |-> FALSE, owner |-> o, age |-> 0] \in Page
    BY DEF Page
  <2> QED
    BY <1>2, <1>3, <2>1
<1>12. ASSUME NEW p \in Ids
       PROVE  pages'[p].freed <=> \E i \in 1..m : free_list'[i] = p
  <2>1. CASE p \in got
    <3>1. PICK j \in (m + 1)..L : free_list[j] = p
      BY <1>1, <2>1
    <3>2. \A i \in 1..m : i # j /\ i \in 1..L /\ j \in 1..L
      BY <1>4, <3>1
    <3>3. \A i \in 1..m : free_list[i] # p
      BY <1>2, <3>1, <3>2
    <3> QED
      BY <1>5, <1>10, <2>1, <3>3
  <2>2. CASE p \notin got
    <3>1. \A i \in 1..L : free_list[i] = p => i \in 1..m
      <4>1. \A i \in 1..L : i \in 1..m \/ i \in (m + 1)..L
        BY <1>4
      <4> QED
        BY <1>1, <2>2, <4>1
    <3>2. pages'[p].freed <=> \E i \in 1..L : free_list[i] = p
      BY <1>2, <1>9, <2>2
    <3> QED
      BY <1>4, <1>5, <3>1, <3>2
  <2> QED
    BY <2>1, <2>2
<1>13. Listed(Loop)'
  <2>1. Loop' = [list |-> free_list', pages |-> pages', bal |-> balance']
    BY DEF Loop
  <2>2. balance' \in Int /\ balance' = PoolSize - m
    BY <1>1, <1>2, <1>3, MutexPoolAssumption
  <2>3. Loop' \in LoopState
    BY <1>5, <1>11, <2>1, <2>2 DEF LoopState
  <2>4. \A i, j \in 1..m : free_list'[i] = free_list'[j] => i = j
    BY <1>2, <1>4, <1>5
  <2>5. Loop'.list = free_list' /\ Loop'.pages = pages' /\ Loop'.bal = balance'
    BY <2>1
  <2> QED
    BY <1>5, <1>12, <2>2, <2>3, <2>4, <2>5 DEF Listed
<1>14. mine' \in [Traces -> SUBSET Ids]
  BY <1>2, <1>3, <1>7
<1>15. Owned'
  <2> SUFFICES ASSUME NEW p \in Ids, ~pages'[p].freed
               PROVE  pages'[p].owner \in Traces /\ p \in mine'[pages'[p].owner]
    BY DEF Owned
  <2>1. CASE p \in got
    BY <1>2, <1>3, <1>10, <2>1
  <2>2. CASE p \notin got
    BY <1>2, <1>3, <1>9, <2>2 DEF Owned
  <2> QED
    BY <2>1, <2>2
<1> QED
  BY <1>13, <1>14, <1>15 DEF MutexInv

(* A step whose loop ends in d, after which every page in use is as it was *)
(* and none of the ids R that caller o has given up is in use.             *)
LEMMA LoopKeeps ==
    ASSUME MutexInv, NEW d, Listed(d),
           \A p \in Ids : d.pages[p].freed \/ d.pages[p] = pages[p],
           NEW R, \A p \in R : p \in Ids => d.pages[p].freed,
           free_list' = d.list, pages' = d.pages, balance' = d.bal,
           mine' \in [Traces -> SUBSET Ids],
           \A o \in Traces : mine[o] \ R \subseteq mine'[o]
    PROVE  MutexInv'
<1>1. Loop' = d
  <2>1. d = [list |-> d.list, pages |-> d.pages, bal |-> d.bal]
    BY DEF Listed, LoopState
  <2> QED
    BY <2>1 DEF Loop
<1>2. Owned'
  BY DEF Owned, MutexInv
<1> QED
  BY <1>1, <1>2 DEF MutexInv

(* Every operation keeps it. *)
LEMMA MutexInductive ==
    ASSUME MutexInv, [PoolNext]_mutexVars
    PROVE  MutexInv'
<1>0. /\ Listed(Loop) /\ mine \in [Traces -> SUBSET Ids] /\ Owned
      /\ Loop.list = free_list /\ Loop.pages = pages /\ Loop.bal = balance
  BY DEF MutexInv, Loop
<1>1. /\ Loop \in LoopState /\ free_list \in Seq(Ids) /\ pages \in [Ids -> Page]
      /\ balance \in Int
  BY <1>0 DEF Listed, LoopState
<1>2. ASSUME NEW o \in Traces, NEW n \in 1..Batch, pool_alloc(o, n)
      PROVE  MutexInv'
  BY <1>2, AllocKeeps
<1>3. ASSUME NEW o \in Traces, NEW n \in 1..Batch, NEW ids \in [1..n -> mine[o]],
             pool_free_pages(o, ids)
      PROVE  MutexInv'
  <2>1. n \in Nat /\ ids \in [1..n -> Ids]
    BY <1>0
  <2>2. PICK d : d = FreeTurns(ids)[n]
    OBVIOUS
  <2>3. /\ Len(ids) = n /\ Listed(d)
        /\ \A p \in Range(ids) : d.pages[p].freed
        /\ \A p \in Ids : d.pages[p].freed \/ d.pages[p] = pages[p]
    BY <1>0, <2>1, <2>2, FreeLoop
  <2>4. /\ free_list' = d.list /\ pages' = d.pages /\ balance' = d.bal
        /\ mine' = [mine EXCEPT ![o] = @ \ Range(ids)]
    BY <1>3, <2>2, <2>3 DEF pool_free_pages
  <2>5. /\ mine' \in [Traces -> SUBSET Ids]
        /\ \A x \in Traces : mine[x] \ Range(ids) \subseteq mine'[x]
    BY <1>0, <2>4
  <2> QED
    BY <2>3, <2>4, <2>5, LoopKeeps
<1>4. CASE pool_leak_scan
  <2>1. PICK d : d = ScanTurns[PoolSize]
    OBVIOUS
  <2>2. /\ Listed(d)
        /\ \A p \in Ids : d.pages[p].freed \/ d.pages[p] = pages[p]
    BY <1>0, <2>1, ScanLoop
  <2>3. /\ free_list' = d.list /\ pages' = d.pages /\ balance' = d.bal /\ mine' = mine
    BY <1>4, <2>1 DEF pool_leak_scan
  <2>4. PICK R : R = {}
    OBVIOUS
  <2>5. /\ \A p \in R : p \in Ids => d.pages[p].freed
        /\ mine' \in [Traces -> SUBSET Ids] /\ \A o \in Traces : mine[o] \ R \subseteq mine'[o]
    BY <1>0, <2>3, <2>4
  <2> QED
    BY <2>2, <2>3, <2>5, LoopKeeps
<1>5. ASSUME UNCHANGED <<free_list, balance, mine>>, pages' \in [Ids -> Page],
             \A p \in Ids : pages'[p].freed = pages[p].freed /\ pages'[p].owner = pages[p].owner
      PROVE  MutexInv'
  <2>1. Owned'
    BY <1>0, <1>5 DEF Owned
  <2>2. Loop' = [list |-> free_list, pages |-> pages', bal |-> balance]
    BY <1>5 DEF Loop
  <2>3. Loop'.list = free_list /\ Loop'.pages = pages' /\ Loop'.bal = balance
    BY <2>2
  <2>4. Loop' \in LoopState
    BY <1>1, <1>5, <2>2 DEF LoopState
  <2>5. Listed(Loop)'
    BY <1>0, <1>5, <2>3, <2>4 DEF Listed
  <2> QED
    BY <1>0, <1>5, <2>1, <2>5 DEF MutexInv
<1>6. ASSUME NEW p \in Ids, pool_touch(p)
      PROVE  MutexInv'
  <2>1. pages' = [pages EXCEPT ![p].age = 0] /\ UNCHANGED <<free_list, balance, mine>>
    BY <1>6 DEF pool_touch
  <2>2. pages' \in [Ids -> Page]
    BY <1>1, <2>1 DEF Page
  <2>3. \A q \in Ids : pages'[q].freed = pages[q].freed /\ pages'[q].owner = pages[q].owner
    BY <1>1, <2>1 DEF Page
  <2> QED
    BY <1>5, <2>1, <2>2, <2>3
<1>7. CASE PoolTick
  <2>1. /\ pages' = [p \in Ids |-> [pages[p] EXCEPT !.age = IF @ > Ttl THEN @ ELSE @ + 1]]
        /\ UNCHANGED <<free_list, balance, mine>>
    BY <1>7 DEF PoolTick
  <2>2. ASSUME NEW q \in Ids
        PROVE  /\ pages'[q] \in Page
               /\ pages'[q].freed = pages[q].freed /\ pages'[q].owner = pages[q].owner
    <3>1. pages[q] \in Page /\ pages[q].age \in Nat
      BY <1>1 DEF Page
    <3>2. PICK x \in Nat : pages'[q] = [pages[q] EXCEPT !.age = x]
      <4>1. (IF pages[q].age > Ttl THEN pages[q].age ELSE pages[q].age + 1) \in Nat
        BY <3>1
      <4> QED
        BY <2>1, <4>1
    <3> QED
      BY <3>1, <3>2 DEF Page
  <2>3. pages' \in [Ids -> Page]
    BY <2>1, <2>2
  <2> QED
    BY <1>5, <2>1, <2>2, <2>3
<1>8. CASE UNCHANGED mutexVars
  BY <1>8 DEF mutexVars, MutexInv, Listed, Loop, Owned
<1>9. ASSUME NEW o \in Traces, NEW p \in mine[o], pool_touch(p)
      PROVE  MutexInv'
  BY <1>0, <1>6, <1>9
<1>10. ASSUME NEW o \in Traces,
              \E ids \in UNION {[1 .. n -> mine[o]] : n \in 1 .. Batch} : pool_free_pages(o, ids)
       PROVE  MutexInv'
  BY <1>3, <1>10
<1> QED
  BY <1>2, <1>4, <1>7, <1>8, <1>9, <1>10 DEF PoolNext

(* The list has every free page once and no other, the counters differ by  *)
(* the pages in use, and a page in use is one of its owner's, whatever     *)
(* callers free: pages that leak_scan took, that others own, or twice.     *)
THEOREM FreeListAlwaysSound == PoolSpec => []FreeListSound
<1>1. PoolInit => MutexInv
  <2> SUFFICES ASSUME PoolInit PROVE MutexInv
    OBVIOUS
  <2>0. PoolSize \in Nat
    BY MutexPoolAssumption
  <2>1. /\ free_list \in [1..PoolSize -> Ids]
        /\ \A i \in 1..PoolSize : free_list[i] = i - 1
    BY <2>0 DEF PoolInit, Ids
  <2>2. free_list \in Seq(Ids) /\ Len(free_list) = PoolSize
    BY <2>0, <2>1, IsASeq, LenProperties
  <2>3. \A p \in Ids : p + 1 \in 1..PoolSize /\ free_list[p + 1] = p
    BY <2>0, <2>1 DEF Ids
  <2>4. pages \in [Ids -> Page] /\ \A p \in Ids : pages[p].freed
    BY DEF PoolInit, FreePage, Page
  <2>5. balance = 0 /\ mine \in [Traces -> SUBSET Ids]
    BY DEF PoolInit
  <2>6. Loop.list = free_list /\ Loop.pages = pages /\ Loop.bal = balance /\ Loop \in LoopState
    BY <2>2, <2>4, <2>5 DEF Loop, LoopState
  <2>7. \A i, j \in 1..PoolSize : free_list[i] = free_list[j] => i = j
    BY <2>0, <2>1
  <2>8. Listed(Loop)
    BY <2>0, <2>2, <2>3, <2>4, <2>5, <2>6, <2>7 DEF Listed
  <2> QED
    BY <2>4, <2>5, <2>8 DEF MutexInv, Owned
<1>2. MutexInv /\ [PoolNext]_mutexVars => MutexInv'
  BY MutexInductive
<1>3. MutexInv => FreeListSound
  <2> SUFFICES ASSUME MutexInv PROVE FreeListSound
    OBVIOUS
  <2>1. PICK n, o, F : n = Len(free_list) /\ o = free_list /\ F = {p \in Ids : pages[p].freed}
    OBVIOUS
  <2>2. /\ o \in Seq(Ids) /\ n \in Nat /\ o \in [1..n -> Ids] /\ balance = PoolSize - n
        /\ \A i, j \in 1..n : o[i] = o[j] => i = j
        /\ \A p \in Ids : pages[p].freed <=> \E i \in 1..n : o[i] = p
    <3>1. Listed(Loop) /\ Loop.list = free_list /\ Loop.pages = pages /\ Loop.bal = balance
      BY DEF MutexInv, Loop
    <3>2. free_list \in Seq(Ids)
      BY <3>1 DEF Listed, LoopState
    <3> QED
      BY <2>1, <3>1, <3>2, LenProperties DEF Listed
  <2>3. Range(free_list) = F
    <3>1. Range(free_list) = {o[i] : i \in 1..n}
      BY <2>1, <2>2, RangeEquality
    <3> QED
      BY <2>1, <2>2, <3>1
  <2>4. n = Cardinality(F)
    <3>1. o \in [1..n -> F]
      BY <2>1, <2>2
    <3>2. \A i, j \in DOMAIN o : o[i] = o[j] => i = j
      BY <2>2
    <3>3. \A p \in F : \E i \in 1..n : o[i] = p
      BY <2>1, <2>2
    <3>4. o \in Bijection(1..n, F)
      BY <3>1, <3>2, <3>3 DEF Bijection, Injection, Surjection, IsInjective
    <3>5. ExistsBijection(1..n, F)
      BY <3>4 DEF ExistsBijection
    <3>6. IsFiniteSet(1..n) /\ Cardinality(1..n) = n
      BY <2>2, FS_Interval
    <3> QED
      BY <3>5, <3>6, FS_Bijection
  <2>5. Owned
    BY DEF MutexInv
  <2> QED
    BY <2>1, <2>2, <2>3, <2>4, <2>5 DEF FreeListSound, Owned
<1> QED
  BY <1>1, <1>2, <1>3, PTL DEF PoolSpec

-----------------------------------------------------------------------------
(* The NUMA pool: global and local ids *)

(* The node of a global id, and its number there. *)
NodeOf(g) == split(g)[1]
LocalOf(g) == split(g)[2]

(* A page of a node has a global id, from which split finds it. *)
LEMMA GlobalIds ==
    ASSUME NEW i \in Nodes, NEW l \in Locals
    PROVE  /\ global_id(i, l) \in Gids
           /\ NodeOf(global_id(i, l)) = i /\ LocalOf(global_id(i, l)) = l
<1>0. PagesPerNode \in Nat \ {0} /\ NNodes \in Nat \ {0}
  BY NumaAssumption
<1>1. i \in 0..(NNodes - 1) /\ l \in 0..(PagesPerNode - 1) /\ i \in Nat
  BY <1>0 DEF Nodes, Locals
<1>2. i * PagesPerNode + l \in 0..(NNodes * PagesPerNode - 1)
  BY <1>0, <1>1
<1>3. (i * PagesPerNode + l) \div PagesPerNode = i
  BY <1>0, <1>1
<1>4. (i * PagesPerNode + l) % PagesPerNode = l
  BY <1>0, <1>1
<1> QED
  BY <1>2, <1>3, <1>4 DEF global_id, Gids, NodeOf, LocalOf, split

(* Each global id is that of one page of one node. *)
LEMMA LocalIds ==
    ASSUME NEW g \in Gids
    PROVE  /\ NodeOf(g) \in Nodes /\ LocalOf(g) \in Locals
           /\ global_id(NodeOf(g), LocalOf(g)) = g
<1>0. PagesPerNode \in Nat \ {0} /\ NNodes \in Nat \ {0}
  BY NumaAssumption
<1>1. g \in 0..(NNodes * PagesPerNode - 1) /\ g \in Nat
  BY <1>0 DEF Gids
<1>2. g \div PagesPerNode \in 0..(NNodes - 1)
  BY <1>0, <1>1
<1>3. g % PagesPerNode \in 0..(PagesPerNode - 1)
  BY <1>0, <1>1
<1>4. g = PagesPerNode * (g \div PagesPerNode) + (g % PagesPerNode)
  BY <1>0, <1>1
<1>5. g = (g \div PagesPerNode) * PagesPerNode + (g % PagesPerNode)
  BY <1>0, <1>1, <1>2, <1>4
<1> QED
  BY <1>2, <1>3, <1>5 DEF global_id, Nodes, Locals, NodeOf, LocalOf, split

(* split finds every page's home. *)
LEMMA SplitFindsHome ==
    ASSUME NEW g \in Gids
    PROVE  HomeOf(g)[1] = NodeOf(g) /\ HomeOf(g)[2] = LocalOf(g)
<1>1. PICK i \in Nodes, l \in Locals : i = NodeOf(g) /\ l = LocalOf(g)
  BY LocalIds
<1>2. g = i * PagesPerNode + l
  BY <1>1, LocalIds DEF global_id
<1>3. \A j \in Nodes, m \in Locals : g = j * PagesPerNode + m => j = i /\ m = l
  BY <1>1, GlobalIds DEF global_id
<1>4. \E h \in Nodes \X Locals : g = h[1] * PagesPerNode + h[2]
  <2>1. <<i, l>> \in Nodes \X Locals /\ g = <<i, l>>[1] * PagesPerNode + <<i, l>>[2]
    BY <1>2
  <2> QED
    BY <2>1
<1>5. HomeOf(g) \in Nodes \X Locals /\ g = HomeOf(g)[1] * PagesPerNode + HomeOf(g)[2]
  BY <1>4 DEF HomeOf
<1> QED
  BY <1>1, <1>3, <1>5

(* A set of natural numbers has a least one. *)
LEMMA LeastIn ==
    ASSUME NEW S, S \subseteq Nat, S # {}
    PROVE  Min(S) \in S
<1>1. PICK x \in S : \A y \in S : ~(<<y, x>> \in OpToRel(<, Nat))
  BY NatLessThanWellFounded, WFMin
<1>2. ASSUME NEW y \in S PROVE x <= y
  <2>1. x \in Nat /\ y \in Nat
    OBVIOUS
  <2>2. ASSUME y < x PROVE <<y, x>> \in OpToRel(<, Nat)
    BY <2>1, <2>2 DEF OpToRel
  <2>3. ~(y < x)
    BY <1>1, <2>2
  <2> QED
    BY <2>1, <2>3
<1> QED
  BY <1>2 DEF Min

-----------------------------------------------------------------------------
(* The NUMA pool: where a page is *)

(* The variables have their types. *)
NumaTypes ==
    /\ nfree \in [Nodes -> SUBSET Locals]
    /\ npc \in [Workers -> {"idle", "take", "return", "free", "scan", "reclaim"}]
    /\ node \in Nodes /\ at \in Nodes
    /\ hand \subseteq Locals
    /\ batch \in [Workers -> SUBSET Gids]
    /\ gids \subseteq Gids /\ astray \subseteq Gids

(* Page g is at place <<j, v>>: in its pool, lost, held, in the hand of    *)
(* the leader's call, or in a free_pages of thread v.                      *)
At(j, v, g) ==
    \/ j = "pool" /\ v = 0 /\ LocalOf(g) \in nfree[NodeOf(g)]
    \/ j = "lost" /\ v = 0 /\ g \in astray
    \/ j = "held" /\ v = 0 /\ g \in gids
    \/ j = "hand" /\ v = 0 /\ at = NodeOf(g) /\ LocalOf(g) \in hand
    \/ j = "given" /\ v \in Workers /\ g \in batch[v]

(* Page g is at one place, and at no other. *)
OnePlace(g) == \E i, u : \A j, v : At(j, v, g) <=> (j = i /\ v = u)

(* The inductive invariant: besides, only a free_pages has a batch, and    *)
(* only a call on a node has pages in hand.                                *)
NumaInv ==
    /\ NumaTypes
    /\ \A t \in Workers : npc[t] # "free" => batch[t] = {}
    /\ npc[Leader] \in {"idle", "free", "scan"} => hand = {}
    /\ \A g \in Gids : OnePlace(g)

(* A page that stays where it is, *)
LEMMA Stays ==
    ASSUME NEW g, OnePlace(g), \A j, v : At(j, v, g)' <=> At(j, v, g)
    PROVE  OnePlace(g)'
<1>1. PICK i, u : \A j, v : At(j, v, g) <=> (j = i /\ v = u)
  BY DEF OnePlace
<1>2. \A j, v : At(j, v, g)' <=> (j = i /\ v = u)
  BY <1>1
<1>3. \E x, y : \A j, v : At(j, v, g)' <=> (j = x /\ v = y)
  <2> WITNESS i, u
  <2> QED
    BY <1>2
<1> QED
  BY <1>3 DEF OnePlace

(* and one that goes from a place to another, are in one place. *)
Went(g, i, u, k, w) ==
    /\ At(i, u, g)
    /\ \A j, v : At(j, v, g)' <=> \/ j = k /\ v = w
                                  \/ At(j, v, g) /\ ~(j = i /\ v = u)

(* The latter. *)
LEMMA Goes ==
    ASSUME NEW g, OnePlace(g), NEW i, NEW u, NEW k, NEW w, Went(g, i, u, k, w)
    PROVE  OnePlace(g)'
<1>1. \A j, v : At(j, v, g) <=> j = i /\ v = u
  BY DEF OnePlace, Went
<1>2. \A j, v : At(j, v, g)' <=> j = k /\ v = w
  BY <1>1 DEF Went
<1>3. \E x, y : \A j, v : At(j, v, g)' <=> (j = x /\ v = y)
  <2> WITNESS k, w
  <2> QED
    BY <1>2
<1> QED
  BY <1>3 DEF OnePlace

(* The global ids of pages of a node. *)
LEMMA IdsOfNode ==
    ASSUME NEW a \in Nodes, NEW S, S \subseteq Locals, NEW g \in Gids
    PROVE  g \in {global_id(a, l) : l \in S} <=> NodeOf(g) = a /\ LocalOf(g) \in S
<1>1. ASSUME g \in {global_id(a, l) : l \in S}
      PROVE  NodeOf(g) = a /\ LocalOf(g) \in S
  <2>1. PICK l \in S : g = global_id(a, l)
    BY <1>1
  <2> QED
    BY <2>1, GlobalIds
<1>2. ASSUME NodeOf(g) = a, LocalOf(g) \in S
      PROVE  g \in {global_id(a, l) : l \in S}
  BY <1>2, LocalIds
<1> QED
  BY <1>1, <1>2

(* A step of the leader, or of its callers, that moves no page. *)
LEMMA NothingMoves ==
    ASSUME NumaInv, NumaTypes', UNCHANGED <<nfree, batch, gids, astray, hand>>,
           hand = {} \/ at' = at
    PROVE  \A g \in Gids : OnePlace(g)'
<1> SUFFICES ASSUME NEW g \in Gids PROVE OnePlace(g)'
  OBVIOUS
<1>1. NodeOf(g)' = NodeOf(g) /\ LocalOf(g)' = LocalOf(g)
  BY DEF NodeOf, LocalOf, split
<1>2. \A j, v : At(j, v, g)' <=> At(j, v, g)
  BY <1>1 DEF At
<1> QED
  BY <1>2, Stays DEF NumaInv

(* What is visible of a step of the leader's call besides what it moves. *)
LEMMA LeaderGoes ==
    ASSUME NumaInv, UNCHANGED batch, npc[Leader] # "free",
           NEW l \in {"idle", "take", "return", "scan", "reclaim"},
           npc' = [npc EXCEPT ![Leader] = l]
    PROVE  /\ npc' \in [Workers -> {"idle", "take", "return", "free", "scan", "reclaim"}]
           /\ npc'[Leader] = l
           /\ \A t \in Workers : npc'[t] # "free" => batch'[t] = {}
<1>1. Leader \in Workers
  BY NumaAssumption
<1> QED
  BY <1>1 DEF NumaInv, NumaTypes

(* Calls begin and end, and pass from node to node, with empty hands. *)
LEMMA CallsKeep ==
    ASSUME NumaInv,
           \/ \E n, current, tid : tid \in Int /\ numa_alloc(n, current, tid)
           \/ numa_leak_scan \/ NodeNext \/ NodeScanned \/ NodeShort
    PROVE  NumaInv'
<1>0. NumaTypes /\ NNodes \in Nat \ {0} /\ 0 \in Nodes /\ Leader \in Workers
  BY NumaAssumption DEF NumaInv, Nodes
<1>1. ASSUME NEW i \in Nodes, NEW k \in Nodes, NEW l \in {"idle", "take", "return", "scan"},
             npc[Leader] # "free", npc' = [npc EXCEPT ![Leader] = l],
             at' = i, node' = k, hand' = hand, hand = {} \/ (at' = at /\ l = "return"),
             UNCHANGED <<nfree, batch, gids, astray>>
      PROVE  NumaInv'
  <2>1. /\ npc' \in [Workers -> {"idle", "take", "return", "free", "scan", "reclaim"}]
        /\ npc'[Leader] = l
        /\ \A t \in Workers : npc'[t] # "free" => batch'[t] = {}
    BY <1>1, LeaderGoes
  <2>2. NumaTypes'
    BY <1>0, <1>1, <2>1 DEF NumaTypes
  <2>3. \A g \in Gids : OnePlace(g)'
    BY <1>1, <2>2, NothingMoves
  <2> QED
    BY <1>1, <2>1, <2>2, <2>3 DEF NumaInv
<1>2. ASSUME NEW n, NEW current, NEW tid \in Int, numa_alloc(n, current, tid)
      PROVE  NumaInv'
  <2>1. PICK i : i = IF current \in Nodes THEN current ELSE tid % NNodes
    OBVIOUS
  <2>2. tid % NNodes \in Nodes
    BY <1>0 DEF Nodes
  <2>3. i \in Nodes
    BY <2>1, <2>2
  <2>4. /\ npc[Leader] = "idle" /\ npc' = [npc EXCEPT ![Leader] = "take"]
        /\ at' = i /\ node' = i /\ UNCHANGED <<nfree, hand, batch, gids, astray>>
    BY <1>2, <2>1 DEF numa_alloc, NGoto
  <2>5. hand = {}
    BY <2>4 DEF NumaInv
  <2> QED
    BY <1>1, <2>3, <2>4, <2>5
<1>3. CASE numa_leak_scan
  <2>1. /\ npc[Leader] = "idle" /\ npc' = [npc EXCEPT ![Leader] = "scan"]
        /\ at' = 0 /\ node' = node /\ UNCHANGED <<nfree, hand, batch, gids, astray>>
    BY <1>3 DEF numa_leak_scan, NGoto
  <2>2. hand = {} /\ node \in Nodes
    BY <1>0, <2>1 DEF NumaInv, NumaTypes
  <2> QED
    BY <1>0, <1>1, <2>1, <2>2
<1>4. CASE NodeNext
  <2> DEFINE alts == {i \in Nodes \ {node} : at = node \/ i > at}
  <2>1. npc[Leader] = "return" /\ hand = {} /\ UNCHANGED <<nfree, batch, gids, astray>>
    BY <1>4 DEF NodeNext
  <2>2. CASE alts = {} /\ NReturn
    <3>1. npc' = [npc EXCEPT ![Leader] = "idle"] /\ at' = 0 /\ node' = 0 /\ hand' = hand
      BY <2>1, <2>2 DEF NReturn, NGoto
    <3> QED
      BY <1>0, <1>1, <2>1, <3>1
  <2>3. CASE alts # {} /\ NGoto(Leader, "take") /\ at' = Min(alts) /\ UNCHANGED <<node, asked, hand>>
    <3>1. alts \subseteq Nat /\ alts \subseteq Nodes
      BY NumaAssumption DEF Nodes
    <3>2. Min(alts) \in Nodes
      <4> HIDE DEF alts
      <4> QED
        BY <2>3, <3>1, LeastIn
    <3>3. npc' = [npc EXCEPT ![Leader] = "take"] /\ node' = node /\ hand' = hand /\ node \in Nodes
      BY <1>0, <2>3 DEF NGoto, NumaTypes
    <3> HIDE DEF alts
    <3> QED
      BY <1>1, <2>1, <2>3, <3>2, <3>3
  <2> QED
    BY <1>4, <2>2, <2>3 DEF NodeNext
<1>5. CASE NodeScanned
  <2>1. npc[Leader] = "reclaim" /\ hand = {} /\ UNCHANGED <<nfree, batch, gids, astray>>
    BY <1>5 DEF NodeScanned
  <2>2. CASE at + 1 \in Nodes
    <3>1. npc' = [npc EXCEPT ![Leader] = "scan"] /\ at' = at + 1 /\ node' = node /\ hand' = hand
          /\ node \in Nodes
      BY <1>0, <1>5, <2>2 DEF NodeScanned, NGoto, NumaTypes
    <3> QED
      BY <1>1, <2>1, <2>2, <3>1
  <2>3. CASE at + 1 \notin Nodes
    <3>1. npc' = [npc EXCEPT ![Leader] = "idle"] /\ at' = 0 /\ node' = 0 /\ hand' = hand
      BY <1>5, <2>1, <2>3 DEF NodeScanned, NReturn, NGoto
    <3> QED
      BY <1>0, <1>1, <2>1, <3>1
  <2> QED
    BY <2>2, <2>3
<1>6. CASE NodeShort
  <2>1. /\ npc[Leader] = "take" /\ npc' = [npc EXCEPT ![Leader] = "return"]
        /\ at' = at /\ node' = node /\ UNCHANGED <<nfree, hand, batch, gids, astray>>
        /\ at \in Nodes /\ node \in Nodes
    BY <1>0, <1>6 DEF NodeShort, leaderVars, NGoto, NumaTypes
  <2> QED
    BY <1>1, <2>1
<1> QED
  BY <1>2, <1>3, <1>4, <1>5, <1>6

(* alloc succeeds: the pages go from its hand to the caller. *)
LEMMA AllocMoves ==
    ASSUME NumaInv, NodeAlloc
    PROVE  NumaInv'
<1>0. NumaTypes /\ 0 \in Nodes /\ at \in Nodes /\ hand \subseteq Locals
  BY NumaAssumption DEF NumaInv, Nodes, NumaTypes
<1>1. /\ npc[Leader] = "take" /\ npc' = [npc EXCEPT ![Leader] = "idle"]
      /\ gids' = gids \cup {global_id(at, l) : l \in hand}
      /\ at' = 0 /\ node' = 0 /\ hand' = {} /\ UNCHANGED <<nfree, batch, astray>>
  BY DEF NodeAlloc, NReturn, NGoto
<1>2. /\ npc' \in [Workers -> {"idle", "take", "return", "free", "scan", "reclaim"}]
      /\ npc'[Leader] = "idle"
      /\ \A t \in Workers : npc'[t] # "free" => batch'[t] = {}
  BY <1>1, LeaderGoes
<1>3. {global_id(at, l) : l \in hand} \subseteq Gids
  BY <1>0, GlobalIds
<1>4. NumaTypes'
  BY <1>0, <1>1, <1>2, <1>3 DEF NumaTypes
<1>5. ASSUME NEW g \in Gids PROVE OnePlace(g)'
  <2>1. NodeOf(g)' = NodeOf(g) /\ LocalOf(g)' = LocalOf(g)
    BY DEF NodeOf, LocalOf, split
  <2>2. g \in {global_id(at, l) : l \in hand} <=> NodeOf(g) = at /\ LocalOf(g) \in hand
    BY <1>0, IdsOfNode
  <2>3. CASE NodeOf(g) = at /\ LocalOf(g) \in hand
    <3>1. At("hand", 0, g)
      BY <2>3 DEF At
    <3>2. \A j, v : At(j, v, g)' <=> \/ j = "held" /\ v = 0
                                     \/ At(j, v, g) /\ ~(j = "hand" /\ v = 0)
      BY <1>1, <2>1, <2>2, <2>3 DEF At
    <3>3. OnePlace(g) /\ Went(g, "hand", 0, "held", 0)
      BY <3>1, <3>2 DEF NumaInv, Went
    <3> QED
      BY <3>3, Goes
  <2>4. CASE ~(NodeOf(g) = at /\ LocalOf(g) \in hand)
    <3>1. \A j, v : At(j, v, g)' <=> At(j, v, g)
      BY <1>1, <2>1, <2>2, <2>4 DEF At
    <3> QED
      BY <3>1, Stays DEF NumaInv
  <2> QED
    BY <2>3, <2>4
<1> QED
  BY <1>1, <1>2, <1>4, <1>5 DEF NumaInv

(* A page goes from the node's pool to the leader's hand, *)
LEMMA PopMoves ==
    ASSUME NumaInv, NEW l \in Locals, NodePop(l)
    PROVE  NumaInv'
<1>0. NumaTypes /\ at \in Nodes /\ Leader \in Workers
  BY NumaAssumption DEF NumaInv, NumaTypes
<1>1. /\ npc[Leader] = "take" /\ l \in nfree[at]
      /\ nfree' = [nfree EXCEPT ![at] = nfree[at] \ {l}]
      /\ hand' = hand \cup {l} /\ UNCHANGED <<npc, node, at, batch, gids, astray>>
  BY <1>0 DEF NodePop, NumaTypes
<1>2. NumaTypes'
  BY <1>0, <1>1 DEF NumaTypes
<1>3. ASSUME NEW g \in Gids PROVE OnePlace(g)'
  <2>0. NodeOf(g) \in Nodes
    BY LocalIds
  <2>1. NodeOf(g)' = NodeOf(g) /\ LocalOf(g)' = LocalOf(g)
    BY DEF NodeOf, LocalOf, split
  <2>2. LocalOf(g) \in nfree'[NodeOf(g)]
          <=> LocalOf(g) \in nfree[NodeOf(g)] /\ ~(NodeOf(g) = at /\ LocalOf(g) = l)
    BY <1>0, <1>1, <2>0 DEF NumaTypes
  <2>3. CASE NodeOf(g) = at /\ LocalOf(g) = l
    <3>1. At("pool", 0, g)
      BY <1>1, <2>3 DEF At
    <3>2. \A j, v : At(j, v, g)' <=> \/ j = "hand" /\ v = 0
                                     \/ At(j, v, g) /\ ~(j = "pool" /\ v = 0)
      BY <1>1, <2>1, <2>2, <2>3 DEF At
    <3>3. OnePlace(g) /\ Went(g, "pool", 0, "hand", 0)
      BY <3>1, <3>2 DEF NumaInv, Went
    <3> QED
      BY <3>3, Goes
  <2>4. CASE ~(NodeOf(g) = at /\ LocalOf(g) = l)
    <3>1. \A j, v : At(j, v, g)' <=> At(j, v, g)
      BY <1>1, <2>1, <2>2, <2>4 DEF At
    <3> QED
      BY <3>1, Stays DEF NumaInv
  <2> QED
    BY <2>3, <2>4
<1> QED
  BY <1>1, <1>2, <1>3 DEF NumaInv

(* and back to where it came from. *)
LEMMA PushMoves ==
    ASSUME NumaInv, NEW l \in Locals, NodePush(l)
    PROVE  NumaInv'
<1>0. NumaTypes /\ at \in Nodes /\ Leader \in Workers
  BY NumaAssumption DEF NumaInv, NumaTypes
<1>1. /\ npc[Leader] \in {"return", "reclaim"} /\ l \in hand
      /\ nfree' = [nfree EXCEPT ![at] = nfree[at] \cup {l}]
      /\ hand' = hand \ {l} /\ UNCHANGED <<npc, node, at, batch, gids, astray>>
  BY <1>0 DEF NodePush, NumaTypes
<1>2. NumaTypes'
  BY <1>0, <1>1 DEF NumaTypes
<1>3. ASSUME NEW g \in Gids PROVE OnePlace(g)'
  <2>0. NodeOf(g) \in Nodes
    BY LocalIds
  <2>1. NodeOf(g)' = NodeOf(g) /\ LocalOf(g)' = LocalOf(g)
    BY DEF NodeOf, LocalOf, split
  <2>2. LocalOf(g) \in nfree'[NodeOf(g)]
          <=> LocalOf(g) \in nfree[NodeOf(g)] \/ (NodeOf(g) = at /\ LocalOf(g) = l)
    BY <1>0, <1>1, <2>0 DEF NumaTypes
  <2>3. CASE NodeOf(g) = at /\ LocalOf(g) = l
    <3>1. At("hand", 0, g)
      BY <1>1, <2>3 DEF At
    <3>2. \A j, v : At(j, v, g)' <=> \/ j = "pool" /\ v = 0
                                     \/ At(j, v, g) /\ ~(j = "hand" /\ v = 0)
      BY <1>1, <2>1, <2>2, <2>3 DEF At
    <3>3. OnePlace(g) /\ Went(g, "hand", 0, "pool", 0)
      BY <3>1, <3>2 DEF NumaInv, Went
    <3> QED
      BY <3>3, Goes
  <2>4. CASE ~(NodeOf(g) = at /\ LocalOf(g) = l)
    <3>1. \A j, v : At(j, v, g)' <=> At(j, v, g)
      BY <1>1, <2>1, <2>2, <2>4 DEF At
    <3> QED
      BY <3>1, Stays DEF NumaInv
  <2> QED
    BY <2>3, <2>4
<1> QED
  BY <1>1, <1>2, <1>3 DEF NumaInv

(* free_pages takes pages from its callers. *)
LEMMA GiveMoves ==
    ASSUME NumaInv, NEW t \in Workers, NEW G, G \subseteq gids, numa_free_pages(t, G)
    PROVE  NumaInv'
<1>0. NumaTypes /\ \A u \in Workers : npc[u] # "free" => batch[u] = {}
  BY DEF NumaInv
<1>1. /\ npc[t] = "idle" /\ npc' = [npc EXCEPT ![t] = "free"]
      /\ batch' = [batch EXCEPT ![t] = G] /\ gids' = gids \ G
      /\ UNCHANGED <<nfree, node, at, hand, astray>>
  BY DEF numa_free_pages, leaderVars, NGoto
<1>2. NumaTypes'
  BY <1>0, <1>1 DEF NumaTypes
<1>3. \A u \in Workers : npc'[u] # "free" => batch'[u] = {}
  BY <1>0, <1>1 DEF NumaTypes
<1>4. npc'[Leader] \in {"idle", "free", "scan"} => hand' = {}
  BY <1>0, <1>1, NumaAssumption DEF NumaInv, NumaTypes
<1>5. ASSUME NEW g \in Gids PROVE OnePlace(g)'
  <2>1. NodeOf(g)' = NodeOf(g) /\ LocalOf(g)' = LocalOf(g)
    BY DEF NodeOf, LocalOf, split
  <2>2. g \in gids' <=> g \in gids /\ g \notin G
    BY <1>1
  <2>3. \A v \in Workers : g \in batch'[v] <=> g \in batch[v] \/ (v = t /\ g \in G)
    BY <1>0, <1>1 DEF NumaTypes
  <2>4. CASE g \in G
    <3>1. At("held", 0, g)
      BY <2>4 DEF At
    <3>2. \A j, v : At(j, v, g)' <=> \/ j = "given" /\ v = t
                                     \/ At(j, v, g) /\ ~(j = "held" /\ v = 0)
      BY <1>1, <2>1, <2>2, <2>3, <2>4 DEF At
    <3>3. OnePlace(g) /\ Went(g, "held", 0, "given", t)
      BY <3>1, <3>2 DEF NumaInv, Went
    <3> QED
      BY <3>3, Goes
  <2>5. CASE g \notin G
    <3>1. \A j, v : At(j, v, g)' <=> At(j, v, g)
      BY <1>1, <2>1, <2>2, <2>3, <2>5 DEF At
    <3> QED
      BY <3>1, Stays DEF NumaInv
  <2> QED
    BY <2>4, <2>5
<1> QED
  BY <1>2, <1>3, <1>4, <1>5 DEF NumaInv

(* A caller may also lose one. *)
LEMMA LossMoves ==
    ASSUME NumaInv, NEW p \in gids, LosePage(p)
    PROVE  NumaInv'
<1>0. NumaTypes
  BY DEF NumaInv
<1>1. /\ gids' = gids \ {p} /\ astray' = astray \cup {p}
      /\ UNCHANGED <<nfree, npc, node, at, hand, batch>>
  BY DEF LosePage, leaderVars
<1>2. NumaTypes' /\ p \in Gids
  BY <1>0, <1>1 DEF NumaTypes
<1>3. ASSUME NEW g \in Gids PROVE OnePlace(g)'
  <2>1. NodeOf(g)' = NodeOf(g) /\ LocalOf(g)' = LocalOf(g)
    BY DEF NodeOf, LocalOf, split
  <2>2. CASE g = p
    <3>1. At("held", 0, g)
      BY <2>2 DEF At
    <3>2. \A j, v : At(j, v, g)' <=> \/ j = "lost" /\ v = 0
                                     \/ At(j, v, g) /\ ~(j = "held" /\ v = 0)
      BY <1>1, <2>1, <2>2 DEF At
    <3>3. OnePlace(g) /\ Went(g, "held", 0, "lost", 0)
      BY <3>1, <3>2 DEF NumaInv, Went
    <3> QED
      BY <3>3, Goes
  <2>3. CASE g # p
    <3>1. \A j, v : At(j, v, g)' <=> At(j, v, g)
      BY <1>1, <2>1, <2>3 DEF At
    <3> QED
      BY <3>1, Stays DEF NumaInv
  <2> QED
    BY <2>2, <2>3
<1> QED
  BY <1>1, <1>2, <1>3 DEF NumaInv

(* free_pages gives a page to the pool of its node. *)
LEMMA FreeMoves ==
    ASSUME NumaInv, NEW t \in Workers, NEW p \in batch[t], NodeFree(t, p)
    PROVE  NumaInv'
<1>0. NumaTypes /\ \A u \in Workers : npc[u] # "free" => batch[u] = {}
  BY DEF NumaInv
<1>1. PICK i, l : i = NodeOf(p) /\ l = LocalOf(p)
  OBVIOUS
<1>2. p \in Gids /\ i \in Nodes /\ l \in Locals
  BY <1>0, <1>1, LocalIds DEF NumaTypes
<1>3. /\ npc[t] = "free"
      /\ nfree' = [nfree EXCEPT ![i] = nfree[i] \cup {l}]
      /\ batch' = [batch EXCEPT ![t] = batch[t] \ {p}]
      /\ npc' = [npc EXCEPT ![t] = IF batch[t] = {p} THEN "idle" ELSE "free"]
      /\ UNCHANGED <<node, at, hand, gids, astray>>
  BY <1>0, <1>1, <1>2 DEF NodeFree, NGoto, NumaTypes, NodeOf, LocalOf
<1>4. NumaTypes'
  <2>1. npc' \in [Workers -> {"idle", "take", "return", "free", "scan", "reclaim"}]
    BY <1>0, <1>3 DEF NumaTypes
  <2>2. batch' \in [Workers -> SUBSET Gids] /\ nfree' \in [Nodes -> SUBSET Locals]
    BY <1>0, <1>2, <1>3 DEF NumaTypes
  <2> QED
    BY <1>0, <1>3, <2>1, <2>2 DEF NumaTypes
<1>5. \A u \in Workers : npc'[u] # "free" => batch'[u] = {}
  BY <1>0, <1>3 DEF NumaTypes
<1>6. npc'[Leader] \in {"idle", "free", "scan"} => hand' = {}
  BY <1>0, <1>3, NumaAssumption DEF NumaInv, NumaTypes
<1>7. ASSUME NEW g \in Gids PROVE OnePlace(g)'
  <2>1. NodeOf(g)' = NodeOf(g) /\ LocalOf(g)' = LocalOf(g) /\ NodeOf(g) \in Nodes
    BY LocalIds DEF NodeOf, LocalOf, split
  <2>2. \A v \in Workers : g \in batch'[v] <=> g \in batch[v] /\ ~(v = t /\ g = p)
    BY <1>0, <1>3 DEF NumaTypes
  <2>3. NodeOf(g) = i /\ LocalOf(g) = l <=> g = p
    <3>1. g = global_id(NodeOf(g), LocalOf(g)) /\ p = global_id(i, l)
      BY <1>1, <1>2, LocalIds
    <3> QED
      BY <1>1, <3>1
  <2>4. LocalOf(g) \in nfree'[NodeOf(g)] <=> LocalOf(g) \in nfree[NodeOf(g)] \/ g = p
    BY <1>0, <1>2, <1>3, <2>1, <2>3 DEF NumaTypes
  <2>5. CASE g = p
    <3>1. At("given", t, g)
      BY <2>5 DEF At
    <3>2. \A j, v : At(j, v, g)' <=> \/ j = "pool" /\ v = 0
                                     \/ At(j, v, g) /\ ~(j = "given" /\ v = t)
      BY <1>3, <2>1, <2>2, <2>4, <2>5 DEF At
    <3>3. OnePlace(g) /\ Went(g, "given", t, "pool", 0)
      BY <3>1, <3>2 DEF NumaInv, Went
    <3> QED
      BY <3>3, Goes
  <2>6. CASE g # p
    <3>1. \A j, v : At(j, v, g)' <=> At(j, v, g)
      BY <1>3, <2>1, <2>2, <2>4, <2>6 DEF At
    <3> QED
      BY <3>1, Stays DEF NumaInv
  <2> QED
    BY <2>5, <2>6
<1> QED
  BY <1>4, <1>5, <1>6, <1>7 DEF NumaInv

(* leak_scan takes lost pages of a node in hand. *)
LEMMA ScanMoves ==
    ASSUME NumaInv, NEW S, S \subseteq {l \in Locals : global_id(at, l) \in astray}, NodeScan(S)
    PROVE  NumaInv'
<1>0. NumaTypes /\ at \in Nodes /\ S \subseteq Locals
  BY DEF NumaInv, NumaTypes
<1>1. /\ npc[Leader] = "scan" /\ npc' = [npc EXCEPT ![Leader] = "reclaim"]
      /\ hand' = S /\ astray' = astray \ {global_id(at, l) : l \in S}
      /\ UNCHANGED <<nfree, node, at, batch, gids>>
  BY DEF NodeScan, NGoto
<1>2. /\ npc' \in [Workers -> {"idle", "take", "return", "free", "scan", "reclaim"}]
      /\ npc'[Leader] = "reclaim"
      /\ \A t \in Workers : npc'[t] # "free" => batch'[t] = {}
  BY <1>1, LeaderGoes
<1>3. NumaTypes'
  BY <1>0, <1>1, <1>2 DEF NumaTypes
<1>4. hand = {}
  BY <1>1 DEF NumaInv
<1>5. ASSUME NEW g \in Gids PROVE OnePlace(g)'
  <2>1. NodeOf(g)' = NodeOf(g) /\ LocalOf(g)' = LocalOf(g)
    BY DEF NodeOf, LocalOf, split
  <2>2. g \in astray' <=> g \in astray /\ ~(NodeOf(g) = at /\ LocalOf(g) \in S)
    BY <1>0, <1>1, IdsOfNode
  <2>3. NodeOf(g) = at /\ LocalOf(g) \in S => g \in astray
    BY LocalIds
  <2>4. CASE NodeOf(g) = at /\ LocalOf(g) \in S
    <3>1. At("lost", 0, g)
      BY <2>3, <2>4 DEF At
    <3>2. \A j, v : At(j, v, g)' <=> \/ j = "hand" /\ v = 0
                                     \/ At(j, v, g) /\ ~(j = "lost" /\ v = 0)
      BY <1>1, <1>4, <2>1, <2>2, <2>4 DEF At
    <3>3. OnePlace(g) /\ Went(g, "lost", 0, "hand", 0)
      BY <3>1, <3>2 DEF NumaInv, Went
    <3> QED
      BY <3>3, Goes
  <2>5. CASE ~(NodeOf(g) = at /\ LocalOf(g) \in S)
    <3>1. \A j, v : At(j, v, g)' <=> At(j, v, g)
      BY <1>1, <1>4, <2>1, <2>2, <2>5 DEF At
    <3> QED
      BY <3>1, Stays DEF NumaInv
  <2> QED
    BY <2>4, <2>5
<1> QED
  BY <1>2, <1>3, <1>5 DEF NumaInv

(* A set that is empty, or has one element. *)
LEMMA Counts ==
    ASSUME NEW S
    PROVE  /\ (\A x : x \notin S) => Cardinality(S) = 0
           /\ \A x : (\A y : y \in S <=> y = x) => Cardinality(S) = 1
<1>1. ASSUME \A x : x \notin S PROVE Cardinality(S) = 0
  <2>1. S = {}
    BY <1>1
  <2> QED
    BY <2>1, FS_EmptySet
<1>2. ASSUME NEW x, \A y : y \in S <=> y = x PROVE Cardinality(S) = 1
  <2>1. S = {x}
    BY <1>2
  <2> QED
    BY <2>1, FS_Singleton
<1> QED
  BY <1>1, <1>2

(* Every page is in one place, and if that is a pool, in that of its node, *)
(* however the page-by-page steps of one thread's alloc and leak_scan and  *)
(* of any number of threads' free_pages on any number of nodes come in     *)
(* between each other; no page is lost for ever to a failing alloc, and    *)
(* none is given to two callers.                                           *)
THEOREM PagesAlwaysGoHome == NumaSpec => []PagesGoHome
<1>1. NumaInit => NumaInv
  <2> SUFFICES ASSUME NumaInit PROVE NumaInv
    OBVIOUS
  <2>1. 0 \in Nodes
    BY NumaAssumption DEF Nodes
  <2>2. NumaTypes
    BY <2>1 DEF NumaInit, NumaTypes
  <2>3. ASSUME NEW g \in Gids PROVE OnePlace(g)
    <3>1. NodeOf(g) \in Nodes /\ LocalOf(g) \in Locals
      BY LocalIds
    <3>2. \A j, v : At(j, v, g) <=> j = "pool" /\ v = 0
      BY <3>1 DEF NumaInit, At
    <3> QED
      BY <3>2 DEF OnePlace
  <2> QED
    BY <2>2, <2>3 DEF NumaInit, NumaInv
<1>2. ASSUME NumaInv, [NumaNext]_numaVars PROVE NumaInv'
  <2>1. CASE UNCHANGED numaVars
    BY <1>2, <2>1
    DEF numaVars, leaderVars, NumaInv, NumaTypes, OnePlace, At, NodeOf, LocalOf, split
  <2>2. ASSUME NEW n \in 1 .. MaxRequest, NEW current \in -1 .. NNodes,
               NEW tid \in 0 .. NNodes, numa_alloc(n, current, tid)
        PROVE  NumaInv'
    BY <1>2, <2>2, CallsKeep
  <2>3. ASSUME NEW t \in Workers, NEW G \in SUBSET gids \ {{}}, numa_free_pages(t, G)
        PROVE  NumaInv'
    BY <1>2, <2>3, GiveMoves
  <2>4. CASE NodeShort \/ NodeNext \/ numa_leak_scan \/ NodeScanned
    BY <1>2, <2>4, CallsKeep
  <2> QED
    BY <1>2, <2>1, <2>2, <2>3, <2>4, AllocMoves, PopMoves, PushMoves, FreeMoves,
       ScanMoves, LossMoves DEF NumaNext
<1>3. NumaInv => PagesGoHome
  <2> SUFFICES ASSUME NumaInv, NEW g \in Gids
               PROVE  LET h == HomeOf(g)
                          inPool == {i \in {h[1]} : h[2] \in nfree[i]}
                          inHand == {i \in {h[1]} : at = i /\ h[2] \in hand}
                          given == {t \in Workers : g \in batch[t]}
                      IN  Cardinality(inPool) + Cardinality(inHand) + Cardinality(given)
                            + Cardinality({g} \cap gids) + Cardinality({g} \cap astray) = 1
    BY DEF PagesGoHome
  <2>1. PICK n, m : n = NodeOf(g) /\ m = LocalOf(g) /\ HomeOf(g)[1] = n /\ HomeOf(g)[2] = m
    BY SplitFindsHome
  <2>2. PICK A, B, C, D, E :
           /\ A = {i \in {n} : m \in nfree[i]}
           /\ B = {i \in {n} : at = i /\ m \in hand}
           /\ C = {t \in Workers : g \in batch[t]}
           /\ D = {g} \cap gids
           /\ E = {g} \cap astray
    OBVIOUS
  <2>3. PICK j, u : \A i, v : At(i, v, g) <=> i = j /\ v = u
    BY DEF NumaInv, OnePlace
  <2>4. /\ \A i : i \in A <=> j = "pool" /\ 0 = u /\ i = n
        /\ \A i : i \in B <=> j = "hand" /\ 0 = u /\ i = n
        /\ \A t : t \in C <=> j = "given" /\ t = u
        /\ \A p : p \in D <=> j = "held" /\ 0 = u /\ p = g
        /\ \A p : p \in E <=> j = "lost" /\ 0 = u /\ p = g
    <3>1. \A i : i \in A <=> At("pool", 0, g) /\ i = n
      BY <2>1, <2>2 DEF At
    <3>2. \A i : i \in B <=> At("hand", 0, g) /\ i = n
      BY <2>1, <2>2 DEF At
    <3>3. \A t : t \in C <=> At("given", t, g)
      BY <2>2 DEF At
    <3>4. \A p : p \in D <=> At("held", 0, g) /\ p = g
      BY <2>2 DEF At
    <3>5. \A p : p \in E <=> At("lost", 0, g) /\ p = g
      BY <2>2 DEF At
    <3> QED
      BY <2>3, <3>1, <3>2, <3>3, <3>4, <3>5
  <2>5. \/ j = "given" \/ (j = "hand" /\ u = 0) \/ (j = "held" /\ u = 0)
        \/ (j = "pool" /\ u = 0) \/ (j = "lost" /\ u = 0)
    <3>1. At(j, u, g)
      BY <2>3
    <3> QED
      BY <3>1 DEF At
  <2>6. ASSUME NEW S, NEW i, NEW x, \A y : y \in S <=> j = i /\ 0 = u /\ y = x,
               j = i => u = 0
        PROVE  Cardinality(S) = IF j = i THEN 1 ELSE 0
    <3>1. CASE j = i
      <4>1. \A y : y \in S <=> y = x
        BY <2>6, <3>1
      <4> QED
        BY <3>1, <4>1, Counts
    <3>2. CASE j # i
      <4>1. \A y : y \notin S
        BY <2>6, <3>2
      <4> QED
        BY <3>2, <4>1, Counts
    <3> QED
      BY <3>1, <3>2
  <2>7. Cardinality(A) = IF j = "pool" THEN 1 ELSE 0
    <3>1. CASE j = "pool"
      <4>1. \A y : y \in A <=> y = n
        BY <2>4, <2>5, <3>1
      <4> QED
        BY <3>1, <4>1, Counts
    <3>2. CASE j # "pool"
      <4>1. \A y : y \notin A
        BY <2>4, <3>2
      <4> QED
        BY <3>2, <4>1, Counts
    <3> QED
      BY <3>1, <3>2
  <2>h. Cardinality(B) = IF j = "hand" THEN 1 ELSE 0
    <3>1. CASE j = "hand"
      <4>1. \A y : y \in B <=> y = n
        BY <2>4, <2>5, <3>1
      <4> QED
        BY <3>1, <4>1, Counts
    <3>2. CASE j # "hand"
      <4>1. \A y : y \notin B
        BY <2>4, <3>2
      <4> QED
        BY <3>2, <4>1, Counts
    <3> QED
      BY <3>1, <3>2
  <2>8. Cardinality(C) = IF j = "given" THEN 1 ELSE 0
    BY <2>4, Counts
  <2>9. Cardinality(D) = IF j = "held" THEN 1 ELSE 0
    <3>1. (\A y : y \in D <=> j = "held" /\ 0 = u /\ y = g) /\ (j = "held" => u = 0)
      BY <2>4, <2>5
    <3> QED
      BY <2>6, <3>1
  <2>p. Cardinality(E) = IF j = "lost" THEN 1 ELSE 0
    <3>1. (\A y : y \in E <=> j = "lost" /\ 0 = u /\ y = g) /\ (j = "lost" => u = 0)
      BY <2>4, <2>5
    <3> QED
      BY <2>6, <3>1
  <2>10. Cardinality(A) + Cardinality(B) + Cardinality(C) + Cardinality(D) + Cardinality(E) = 1
    BY <2>5, <2>7, <2>h, <2>8, <2>9, <2>p
  <2> QED
    BY <2>1, <2>2, <2>10
<1> QED
  BY <1>1, <1>2, <1>3, PTL DEF NumaSpec

=============================================================================
