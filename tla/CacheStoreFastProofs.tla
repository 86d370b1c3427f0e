------------------------ MODULE CacheStoreFastProofs ------------------------
(***************************************************************************)
(* The two-tier cache for any number of threads, keys, puts, faults and    *)
(* crashes, whatever the sizes and the limit: L1's accounts, what the      *)
(* clock evicts, and that L1 agrees with the disk.                         *)
(***************************************************************************)
EXTENDS CacheStoreProofs, SequenceTheorems, FiniteSetTheorems, WellFoundedInduction

-----------------------------------------------------------------------------
(* Induction and the two recursive functions *)

(* Induction up to n, for a set. *)
LEMMA UpTo ==
    ASSUME NEW n \in Nat, NEW S, 0 \in S,
           \A i \in 1..n : i - 1 \in S => i \in S
    PROVE  \A i \in 0..n : i \in S
<1> DEFINE T == {i \in 0..n : i \notin S}
<1> SUFFICES ASSUME T # {} PROVE FALSE
  OBVIOUS
<1>1. PICK i \in T : \A j \in T : ~(<<j, i>> \in OpToRel(<, Nat))
  <2>1. T \subseteq Nat
    OBVIOUS
  <2> HIDE DEF T
  <2> QED
    BY <2>1, NatLessThanWellFounded, WFMin
<1>2. \A j \in T : j \in 0..n /\ j \in Nat /\ j \notin S
  OBVIOUS
<1>3. i \in 0..n /\ i \in Nat /\ i \notin S /\ i # 0
  BY <1>2
<1>4. i \in 1..n /\ i - 1 \in 0..n /\ i - 1 \in Nat /\ i - 1 < i
  BY <1>3
<1>5. i - 1 \in T
  BY <1>3, <1>4
<1>6. <<i - 1, i>> \in OpToRel(<, Nat)
  BY <1>3, <1>4 DEF OpToRel
<1> QED
  BY <1>1, <1>5, <1>6

(* What L1 is made of. *)
L1State == [data : [Keys -> Vals \cup {None}], used : [Keys -> BOOLEAN],
            order : Seq(Keys), bytes : Int]

(* g does the first n turns of a pass. *)
Does(g, n, c, needed) ==
    g = [i \in 0..n |-> IF i = 0 THEN [c EXCEPT !.order = <<>>]
                                 ELSE Visit(g[i - 1], c.order[i], needed)]

(* There is such a function: the recursion is well defined. *)
LEMMA TurnsExist ==
    ASSUME NEW c, NEW needed, NEW n \in Nat
    PROVE  \E g : Does(g, n, c, needed)
<1> DEFINE S == {i \in Nat : \E g : Does(g, i, c, needed)}
<1>1. 0 \in S
  <2> DEFINE g == [i \in 0..0 |-> [c EXCEPT !.order = <<>>]]
  <2>1. Does(g, 0, c, needed)
    BY DEF Does
  <2> QED
    BY <2>1
<1>2. ASSUME NEW i \in 1..n, i - 1 \in S
      PROVE  i \in S
  <2>1. PICK g : Does(g, i - 1, c, needed)
    BY <1>2
  <2> DEFINE h == [j \in 0..i |-> IF j = i THEN Visit(g[i - 1], c.order[i], needed) ELSE g[j]]
  <2>2. ASSUME NEW j \in 0..i
        PROVE  h[j] = IF j = 0 THEN [c EXCEPT !.order = <<>>]
                               ELSE Visit(h[j - 1], c.order[j], needed)
    <3>1. CASE j = i
      <4>1. j # 0 /\ h[j - 1] = g[i - 1]
        BY <3>1
      <4> QED
        BY <3>1, <4>1
    <3>2. CASE j # i
      <4>1. j \in 0..(i - 1) /\ h[j] = g[j]
        BY <3>2
      <4>2. j # 0 => h[j - 1] = g[j - 1]
        BY <3>2
      <4>3. g[j] = IF j = 0 THEN [c EXCEPT !.order = <<>>]
                            ELSE Visit(g[j - 1], c.order[j], needed)
        BY <2>1, <4>1 DEF Does
      <4> QED
        BY <4>1, <4>2, <4>3
    <3> QED
      BY <3>1, <3>2
  <2>3. Does(h, i, c, needed)
    <3> HIDE DEF h
    <3>1. h = [j \in 0..i |-> h[j]]
      BY DEF h
    <3> QED
      BY <2>2, <3>1 DEF Does
  <2> QED
    BY <2>3
<1>3. \A i \in 0..n : i \in S
  <2> HIDE DEF S
  <2> QED
    BY <1>1, <1>2, UpTo
<1> QED
  BY <1>3

(* What Turns is. *)
LEMMA TurnsDef ==
    ASSUME NEW c, NEW needed, Len(c.order) \in Nat
    PROVE  /\ Turns(c, needed)[0] = [c EXCEPT !.order = <<>>]
           /\ \A i \in 1..Len(c.order) :
                 Turns(c, needed)[i] = Visit(Turns(c, needed)[i - 1], c.order[i], needed)
<1> DEFINE g == Turns(c, needed)
           n == Len(c.order)
<1>1. g = CHOOSE f : Does(f, n, c, needed)
  BY DEF Turns, Does
<1>2. Does(g, n, c, needed)
  <2> HIDE DEF g, n
  <2> QED
    BY <1>1, TurnsExist DEF n
<1> HIDE DEF g
<1>3. g[0] = [c EXCEPT !.order = <<>>]
  BY <1>2 DEF Does
<1>4. ASSUME NEW i \in 1..n
      PROVE  g[i] = Visit(g[i - 1], c.order[i], needed)
  BY <1>2, SMTT(20) DEF Does
<1> QED
  BY <1>3, <1>4 DEF g

(* g adds up the first n entries. *)
Adds(g, n, c) ==
    g = [i \in 0..n |-> IF i = 0 THEN 0 ELSE g[i - 1] + Size(c.data[c.order[i]])]

(* There is such a function, too. *)
LEMMA SumsExist ==
    ASSUME NEW c, NEW n \in Nat
    PROVE  \E g : Adds(g, n, c)
<1> DEFINE S == {i \in Nat : \E g : Adds(g, i, c)}
<1>1. 0 \in S
  <2> DEFINE g == [i \in 0..0 |-> 0]
  <2>1. Adds(g, 0, c)
    BY DEF Adds
  <2> QED
    BY <2>1
<1>2. ASSUME NEW i \in 1..n, i - 1 \in S
      PROVE  i \in S
  <2>1. PICK g : Adds(g, i - 1, c)
    BY <1>2
  <2> DEFINE h == [j \in 0..i |-> IF j = i THEN g[i - 1] + Size(c.data[c.order[i]]) ELSE g[j]]
  <2>2. ASSUME NEW j \in 0..i
        PROVE  h[j] = IF j = 0 THEN 0 ELSE h[j - 1] + Size(c.data[c.order[j]])
    <3>1. CASE j = i
      <4>1. j # 0 /\ h[j - 1] = g[i - 1]
        BY <3>1
      <4> QED
        BY <3>1, <4>1
    <3>2. CASE j # i
      <4>1. j \in 0..(i - 1) /\ h[j] = g[j]
        BY <3>2
      <4>2. j # 0 => h[j - 1] = g[j - 1]
        BY <3>2
      <4>3. g[j] = IF j = 0 THEN 0 ELSE g[j - 1] + Size(c.data[c.order[j]])
        BY <2>1, <4>1 DEF Adds
      <4> QED
        BY <4>1, <4>2, <4>3
    <3> QED
      BY <3>1, <3>2
  <2>3. Adds(h, i, c)
    <3> HIDE DEF h
    <3>1. h = [j \in 0..i |-> h[j]]
      BY DEF h
    <3> QED
      BY <2>2, <3>1 DEF Adds
  <2> QED
    BY <2>3
<1>3. \A i \in 0..n : i \in S
  <2> HIDE DEF S
  <2> QED
    BY <1>1, <1>2, UpTo
<1> QED
  BY <1>3

(* What SumTo is. *)
LEMMA SumDef ==
    ASSUME NEW c, Len(c.order) \in Nat
    PROVE  /\ SumTo(c)[0] = 0
           /\ \A i \in 1..Len(c.order) :
                 SumTo(c)[i] = SumTo(c)[i - 1] + Size(c.data[c.order[i]])
<1> DEFINE g == SumTo(c)
           n == Len(c.order)
<1>1. g = CHOOSE f : Adds(f, n, c)
  BY DEF SumTo, Adds
<1>2. Adds(g, n, c)
  <2> HIDE DEF g, n
  <2> QED
    BY <1>1, SumsExist DEF n
<1> HIDE DEF g
<1>3. g[0] = 0
  BY <1>2 DEF Adds
<1>4. ASSUME NEW i \in 1..n
      PROVE  g[i] = g[i - 1] + Size(c.data[c.order[i]])
  <2>1. i \in 0..n /\ i # 0
    OBVIOUS
  <2>2. g[i] = IF i = 0 THEN 0 ELSE g[i - 1] + Size(c.data[c.order[i]])
    BY <1>2, <2>1 DEF Adds
  <2> QED
    BY <2>1, <2>2
<1> QED
  BY <1>3, <1>4 DEF g

(* The entries of the clock have values. *)
Filled(c) == \A i \in 1..Len(c.order) : c.data[c.order[i]] # None

(* A filled clock's entries have sizes. *)
LEMMA EntrySize ==
    ASSUME NEW c \in L1State, Filled(c), NEW i \in 1..Len(c.order)
    PROVE  c.order[i] \in Keys /\ c.data[c.order[i]] \in Vals /\ Size(c.data[c.order[i]]) \in Nat
<1>1. c.order[i] \in Keys
  BY ElementOfSeq DEF L1State
<1> QED
  BY <1>1, FastAssumption DEF L1State, Filled

(* The sums are natural numbers. *)
LEMMA SumType ==
    ASSUME NEW c \in L1State, Filled(c)
    PROVE  \A i \in 0..Len(c.order) : SumTo(c)[i] \in Nat
<1> DEFINE n == Len(c.order)
           S == {i \in 0..n : SumTo(c)[i] \in Nat}
<1>1. n \in Nat
  BY LenProperties DEF L1State
<1>2. 0 \in S
  BY <1>1, SumDef
<1>3. ASSUME NEW i \in 1..n, i - 1 \in S
      PROVE  i \in S
  <2>1. SumTo(c)[i] = SumTo(c)[i - 1] + Size(c.data[c.order[i]])
    BY <1>1, SumDef
  <2>2. Size(c.data[c.order[i]]) \in Nat
    BY EntrySize
  <2> QED
    BY <1>1, <1>3, <2>1, <2>2
<1> HIDE DEF S
<1>4. \A i \in 0..n : i \in S
  BY <1>1, <1>2, <1>3, UpTo
<1> QED
  BY <1>4 DEF S

(* Clocks that agree on the first m entries agree on their sum. *)
LEMMA SumAgrees ==
    ASSUME NEW c \in L1State, NEW d \in L1State,
           NEW m \in 0..Len(c.order), m <= Len(d.order),
           \A i \in 1..m : Size(c.data[c.order[i]]) = Size(d.data[d.order[i]])
    PROVE  SumTo(c)[m] = SumTo(d)[m]
<1> DEFINE S == {i \in 0..m : SumTo(c)[i] = SumTo(d)[i]}
<1>1. m \in Nat /\ Len(c.order) \in Nat /\ Len(d.order) \in Nat
  BY LenProperties DEF L1State
<1>2. 0 \in S
  BY <1>1, SumDef
<1>3. ASSUME NEW i \in 1..m, i - 1 \in S
      PROVE  i \in S
  <2>1. i \in 1..Len(c.order) /\ i \in 1..Len(d.order)
    BY <1>1
  <2>2. /\ SumTo(c)[i] = SumTo(c)[i - 1] + Size(c.data[c.order[i]])
        /\ SumTo(d)[i] = SumTo(d)[i - 1] + Size(d.data[d.order[i]])
    BY <1>1, <2>1, SumDef
  <2> QED
    BY <1>3, <2>2
<1> HIDE DEF S
<1>4. \A i \in 0..m : i \in S
  BY <1>1, <1>2, <1>3, UpTo
<1> QED
  BY <1>1, <1>4 DEF S

-----------------------------------------------------------------------------
(* One pass of the clock *)

(* A list without repetitions. *)
NoTwice(o) == \A i, j \in 1..Len(o) : o[i] = o[j] => i = j

(* The accounts are in order: every cached key is on the clock, once. *)
Accounted(c) ==
    /\ c \in L1State
    /\ NoTwice(c.order) /\ Filled(c)
    /\ \A k \in Keys : c.data[k] # None => \E i \in 1..Len(c.order) : c.order[i] = k
    /\ c.bytes = SumTo(c)[Len(c.order)]

(* d is c after i turns: what has been visited and kept is on the new      *)
(* list, in place of what was visited;                                     *)
Relisted(d, i, c) ==
    /\ NoTwice(d.order) /\ Filled(d)
    /\ \A p \in 1..Len(d.order) : \E m \in 1..i : d.order[p] = c.order[m]
    /\ \A m \in 1..i : d.data[c.order[m]] # None =>
          \E p \in 1..Len(d.order) : d.order[p] = c.order[m]

(* nothing has happened to the others, and to none but eviction;           *)
Ahead(d, i, c) ==
    /\ \A m \in (i + 1)..Len(c.order) : /\ d.data[c.order[m]] = c.data[c.order[m]]
                                        /\ d.used[c.order[m]] = c.used[c.order[m]]
    /\ \A k \in Keys : d.data[k] \in {c.data[k], None}

(* what was evicted is off the account;                                    *)
Paid(d, i, c) ==
    d.bytes = SumTo(d)[Len(d.order)] + SumTo(c)[Len(c.order)] - SumTo(c)[i]

(* and as long as there was no room, each entry got what its bit says.     *)
Judged(d, i, c, needed) ==
    /\ Fits(c, needed) => d.data = c.data /\ d.used = c.used /\ d.bytes = c.bytes
    /\ ~Fits(d, needed) =>
          \A m \in 1..i : IF c.used[c.order[m]]
                          THEN d.data[c.order[m]] # None /\ ~d.used[c.order[m]]
                          ELSE d.data[c.order[m]] = None
    /\ \A m \in 1..i : d.data[c.order[m]] = None => ~c.used[c.order[m]]

(* The loop invariant of a pass. *)
Turned(d, i, c, needed) ==
    d \in L1State /\ Relisted(d, i, c) /\ Ahead(d, i, c) /\ Paid(d, i, c)
    /\ Judged(d, i, c, needed)

(* Before the first turn. *)
LEMMA TurnStart ==
    ASSUME NEW c, Accounted(c), NEW needed \in Nat
    PROVE  Turned([c EXCEPT !.order = <<>>], 0, c, needed)
<1> DEFINE d == [c EXCEPT !.order = <<>>]
<1>1. /\ d \in L1State /\ d.order = <<>> /\ Len(d.order) = 0
      /\ d.data = c.data /\ d.used = c.used /\ d.bytes = c.bytes
  <2>1. c \in L1State /\ <<>> \in Seq(Keys) /\ Len(<<>>) = 0
    BY EmptySeq DEF Accounted
  <2> QED
    BY <2>1 DEF L1State
<1> HIDE DEF d
<1>2. Relisted(d, 0, c)
  BY <1>1 DEF Relisted, NoTwice, Filled
<1>3. Ahead(d, 0, c)
  BY <1>1 DEF Ahead
<1>4. Paid(d, 0, c)
  <2>1. Len(c.order) \in Nat /\ Len(d.order) \in Nat
    BY <1>1, LenProperties DEF Accounted, L1State
  <2>2. SumTo(c)[0] = 0 /\ SumTo(d)[0] = 0
    BY <2>1, SumDef
  <2>3. SumTo(c)[Len(c.order)] \in Nat
    BY <2>1, SumType DEF Accounted
  <2> QED
    BY <1>1, <2>2, <2>3 DEF Paid, Accounted
<1>5. Judged(d, 0, c, needed)
  BY <1>1 DEF Judged
<1> QED
  BY <1>1, <1>2, <1>3, <1>4, <1>5 DEF Turned, d

(* The entry visited next is not on the new list, and still as it was. *)
LEMMA NextEntry ==
    ASSUME NEW c, Accounted(c), NEW needed \in Nat, NEW i \in 1..Len(c.order),
           NEW d, Turned(d, i - 1, c, needed)
    PROVE  /\ c.order[i] \in Keys
           /\ c.data[c.order[i]] \in Vals /\ c.data[c.order[i]] # None
           /\ d.data[c.order[i]] = c.data[c.order[i]]
           /\ d.used[c.order[i]] = c.used[c.order[i]]
           /\ Size(c.data[c.order[i]]) \in Nat
           /\ \A m \in 1..(i - 1) : c.order[m] # c.order[i] /\ c.order[m] \in Keys
           /\ \A m \in (i + 1)..Len(c.order) : c.order[m] # c.order[i] /\ c.order[m] \in Keys
           /\ \A p \in 1..Len(d.order) : d.order[p] # c.order[i] /\ d.order[p] \in Keys
           /\ SumTo(c)[i] = SumTo(c)[i - 1] + Size(c.data[c.order[i]])
           /\ SumTo(c)[i] \in Nat /\ SumTo(c)[i - 1] \in Nat
           /\ SumTo(c)[Len(c.order)] \in Nat
           /\ Len(c.order) \in Nat /\ Len(d.order) \in Nat
           /\ SumTo(d)[Len(d.order)] \in Nat /\ d.bytes \in Int
<1>1. Len(c.order) \in Nat /\ Len(d.order) \in Nat /\ d.bytes \in Int
  BY LenProperties DEF Accounted, Turned, L1State
<1>2. /\ c.order[i] \in Keys /\ c.data[c.order[i]] \in Vals
      /\ Size(c.data[c.order[i]]) \in Nat
      /\ c.data[c.order[i]] # None
  BY EntrySize DEF Accounted, Filled
<1>3. \A m \in 1..Len(c.order) : c.order[m] \in Keys /\ (m # i => c.order[m] # c.order[i])
  BY EntrySize DEF Accounted, NoTwice
<1>4. /\ \A m \in 1..(i - 1) : m \in 1..Len(c.order) /\ m # i
      /\ \A m \in (i + 1)..Len(c.order) : m \in 1..Len(c.order) /\ m # i
      /\ i \in ((i - 1) + 1)..Len(c.order)
      /\ i \in 0..Len(c.order) /\ i - 1 \in 0..Len(c.order) /\ Len(c.order) \in 0..Len(c.order)
  BY <1>1
<1>5. /\ d.data[c.order[i]] = c.data[c.order[i]]
      /\ d.used[c.order[i]] = c.used[c.order[i]]
  BY <1>4 DEF Turned, Ahead
<1>6. \A p \in 1..Len(d.order) : d.order[p] # c.order[i] /\ d.order[p] \in Keys
  BY <1>3, <1>4 DEF Turned, Relisted
<1>7. SumTo(c)[i] = SumTo(c)[i - 1] + Size(c.data[c.order[i]])
  BY <1>1, SumDef
<1>8. SumTo(c)[i] \in Nat /\ SumTo(c)[i - 1] \in Nat /\ SumTo(c)[Len(c.order)] \in Nat
  BY <1>4, SumType DEF Accounted
<1>9. SumTo(d)[Len(d.order)] \in Nat
  BY <1>1, SumType DEF Turned, Relisted
<1> QED
  BY <1>1, <1>2, <1>3, <1>4, <1>5, <1>6, <1>7, <1>8, <1>9

(* The indices before and after position i, and those of a longer list. *)
LEMMA Positions ==
    ASSUME NEW n \in Nat, NEW i \in 1..n
    PROVE  /\ \A m \in 1..i : m \in 1..(i - 1) \/ m = i
           /\ \A m \in 1..(i - 1) : m \in 1..i
           /\ i \in 1..i
           /\ \A m \in (i + 1)..n : m \in ((i - 1) + 1)..n
OBVIOUS

(* The two ways in which the account changes. *)
LEMMA Balance ==
    ASSUME NEW x \in Int, NEW t \in Int, NEW a \in Int, NEW z \in Int
    PROVE  /\ x + t - a = (x + z) + t - (a + z)
           /\ (x + t - a) - z = x + t - (a + z)
OBVIOUS

(* A turn that keeps the entry. *)
LEMMA TurnKeeps ==
    ASSUME NEW c, Accounted(c), NEW needed \in Nat, NEW i \in 1..Len(c.order),
           NEW d, Turned(d, i - 1, c, needed),
           NEW e \in L1State, e.data = d.data, e.bytes = d.bytes,
           e.order = Append(d.order, c.order[i]),
           \A j \in Keys : j # c.order[i] => e.used[j] = d.used[j],
           Fits(d, needed) => e.used = d.used,
           ~Fits(d, needed) => d.used[c.order[i]] /\ ~e.used[c.order[i]]
    PROVE  Turned(e, i, c, needed)
<1>0. PICK k, L : k = c.order[i] /\ L = Len(d.order)
  OBVIOUS
<1>1. /\ k \in Keys /\ c.data[k] \in Vals /\ c.data[k] # None /\ d.data[k] = c.data[k] /\ d.used[k] = c.used[k]
      /\ Size(c.data[k]) \in Nat
      /\ \A m \in 1..(i - 1) : c.order[m] # k /\ c.order[m] \in Keys
      /\ \A m \in (i + 1)..Len(c.order) : c.order[m] # k /\ c.order[m] \in Keys
      /\ \A p \in 1..L : d.order[p] # k /\ d.order[p] \in Keys
      /\ SumTo(c)[i] = SumTo(c)[i - 1] + Size(c.data[k])
      /\ SumTo(c)[i] \in Nat /\ SumTo(c)[i - 1] \in Nat /\ SumTo(c)[Len(c.order)] \in Nat
      /\ Len(c.order) \in Nat /\ L \in Nat
      /\ SumTo(d)[L] \in Nat /\ d.bytes \in Int
  BY <1>0, NextEntry
<1>2. d.data[k] # None
  BY <1>1
<1>3. /\ d \in L1State /\ Relisted(d, i - 1, c) /\ Ahead(d, i - 1, c) /\ Paid(d, i - 1, c)
      /\ Judged(d, i - 1, c, needed)
  BY DEF Turned
<1>4. /\ Len(e.order) = L + 1 /\ e.order[L + 1] = k
      /\ \A p \in 1..L : e.order[p] = d.order[p]
  BY <1>0, <1>1, <1>3, AppendProperties DEF L1State
<1>5. /\ \A m \in 1..i : m \in 1..(i - 1) \/ m = i
      /\ \A m \in 1..(i - 1) : m \in 1..i
      /\ i \in 1..i
      /\ \A m \in (i + 1)..Len(c.order) : m \in ((i - 1) + 1)..Len(c.order)
      /\ \A p \in 1..(L + 1) : p \in 1..L \/ p = L + 1
      /\ \A p \in 1..L : p \in 1..(L + 1)
      /\ L + 1 \in 1..(L + 1)
  <2>1. /\ \A p \in 1..(L + 1) : p \in 1..L \/ p = L + 1
        /\ \A p \in 1..L : p \in 1..(L + 1)
        /\ L + 1 \in 1..(L + 1)
    BY <1>1
  <2> QED
    BY <1>1, <2>1, Positions
<1>6. Relisted(e, i, c)
  <2>1. NoTwice(e.order)
    BY <1>0, <1>1, <1>3, <1>4, <1>5, SMTT(20) DEF Relisted, NoTwice
  <2>2. Filled(e)
    BY <1>0, <1>2, <1>3, <1>4, <1>5 DEF Relisted, Filled
  <2>3. ASSUME NEW p \in 1..(L + 1)
        PROVE  \E m \in 1..i : e.order[p] = c.order[m]
    BY <1>0, <1>3, <1>4, <1>5 DEF Relisted
  <2>4. ASSUME NEW m \in 1..i, e.data[c.order[m]] # None
        PROVE  \E p \in 1..(L + 1) : e.order[p] = c.order[m]
    <3>1. CASE m = i
      BY <1>0, <1>4, <1>5, <3>1
    <3>2. CASE m \in 1..(i - 1)
      <4>1. PICK p \in 1..L : d.order[p] = c.order[m]
        BY <1>0, <1>3, <2>4, <3>2 DEF Relisted
      <4> QED
        BY <1>4, <1>5, <4>1
    <3> QED
      BY <1>5, <3>1, <3>2
  <2> QED
    BY <1>4, <2>1, <2>2, <2>3, <2>4 DEF Relisted
<1>7. Ahead(e, i, c)
  BY <1>0, <1>1, <1>3, <1>5 DEF Ahead
<1>8. Paid(e, i, c)
  <2>1. SumTo(e)[L] = SumTo(d)[L]
    <3>1. L \in 0..Len(e.order) /\ L <= Len(d.order)
      BY <1>0, <1>1, <1>4
    <3> QED
      BY <1>3, <1>4, <3>1, SumAgrees
  <2>2. SumTo(e)[L + 1] = SumTo(e)[(L + 1) - 1] + Size(e.data[e.order[L + 1]])
    <3>1. Len(e.order) \in Nat /\ L + 1 \in 1..Len(e.order)
      BY <1>1, <1>4
    <3> QED
      BY <3>1, SumDef
  <2>3. SumTo(e)[L + 1] = SumTo(d)[L] + Size(c.data[k])
    <3>1. (L + 1) - 1 = L
      BY <1>1
    <3> QED
      BY <1>1, <1>4, <2>1, <2>2, <3>1
  <2>4. d.bytes = SumTo(d)[L] + SumTo(c)[Len(c.order)] - SumTo(c)[i - 1]
    BY <1>0, <1>3 DEF Paid
  <2>5. /\ SumTo(c)[i] = SumTo(c)[i - 1] + Size(c.data[k])
        /\ SumTo(c)[i] \in Nat /\ SumTo(c)[i - 1] \in Nat /\ SumTo(c)[Len(c.order)] \in Nat
        /\ SumTo(d)[L] \in Nat /\ d.bytes \in Int /\ Size(c.data[k]) \in Nat
    BY <1>1
  <2>6. PICK x \in Int, t \in Int, a \in Int, z \in Int :
          /\ x = SumTo(d)[L] /\ t = SumTo(c)[Len(c.order)]
          /\ a = SumTo(c)[i - 1] /\ z = Size(c.data[k])
    BY <2>5
  <2>7. e.bytes = x + t - a /\ SumTo(e)[L + 1] = x + z /\ SumTo(c)[i] = a + z
    BY <2>3, <2>4, <2>5, <2>6
  <2>8. e.bytes = SumTo(e)[L + 1] + SumTo(c)[Len(c.order)] - SumTo(c)[i]
    <3>1. x + t - a = (x + z) + t - (a + z)
      BY Balance
    <3> QED
      BY <2>6, <2>7, <3>1
  <2> QED
    BY <1>4, <2>8 DEF Paid
<1>9. Judged(e, i, c, needed)
  <2>1. ASSUME Fits(c, needed)
        PROVE  e.data = c.data /\ e.used = c.used /\ e.bytes = c.bytes
    <3>1. d.data = c.data /\ d.used = c.used /\ d.bytes = c.bytes
      BY <1>3, <2>1 DEF Judged
    <3> QED
      BY <2>1, <3>1 DEF Fits
  <2>2. ASSUME ~Fits(e, needed), NEW m \in 1..i
        PROVE  IF c.used[c.order[m]]
               THEN e.data[c.order[m]] # None /\ ~e.used[c.order[m]]
               ELSE e.data[c.order[m]] = None
    <3>1. ~Fits(d, needed)
      BY <2>2 DEF Fits
    <3>2. CASE m = i
      BY <1>0, <1>1, <1>2, <3>1, <3>2
    <3>3. CASE m \in 1..(i - 1)
      BY <1>0, <1>1, <1>3, <3>1, <3>3 DEF Judged
    <3> QED
      BY <1>5, <3>2, <3>3
  <2>3. ASSUME NEW m \in 1..i, e.data[c.order[m]] = None
        PROVE  ~c.used[c.order[m]]
    BY <1>0, <1>2, <1>3, <1>5, <2>3 DEF Judged
  <2> QED
    BY <2>1, <2>2, <2>3 DEF Judged
<1> QED
  BY <1>6, <1>7, <1>8, <1>9 DEF Turned

(* A turn that evicts it. *)
LEMMA TurnEvicts ==
    ASSUME NEW c, Accounted(c), NEW needed \in Nat, NEW i \in 1..Len(c.order),
           NEW d, Turned(d, i - 1, c, needed),
           NEW e \in L1State, e.order = d.order,
           e.data[c.order[i]] = None,
           \A j \in Keys : j # c.order[i] => e.data[j] = d.data[j] /\ e.used[j] = d.used[j],
           e.bytes = d.bytes - Size(d.data[c.order[i]]),
           ~Fits(d, needed), ~d.used[c.order[i]]
    PROVE  Turned(e, i, c, needed)
<1>0. PICK k, L : k = c.order[i] /\ L = Len(d.order)
  OBVIOUS
<1>1. /\ k \in Keys /\ c.data[k] \in Vals /\ c.data[k] # None /\ d.data[k] = c.data[k] /\ d.used[k] = c.used[k]
      /\ Size(c.data[k]) \in Nat
      /\ \A m \in 1..(i - 1) : c.order[m] # k /\ c.order[m] \in Keys
      /\ \A m \in (i + 1)..Len(c.order) : c.order[m] # k /\ c.order[m] \in Keys
      /\ \A p \in 1..L : d.order[p] # k /\ d.order[p] \in Keys
      /\ SumTo(c)[i] = SumTo(c)[i - 1] + Size(c.data[k])
      /\ SumTo(c)[i] \in Nat /\ SumTo(c)[i - 1] \in Nat /\ SumTo(c)[Len(c.order)] \in Nat
      /\ Len(c.order) \in Nat /\ L \in Nat
      /\ SumTo(d)[L] \in Nat /\ d.bytes \in Int
  BY <1>0, NextEntry
<1>2. /\ d \in L1State /\ Relisted(d, i - 1, c) /\ Ahead(d, i - 1, c) /\ Paid(d, i - 1, c)
      /\ Judged(d, i - 1, c, needed)
  BY DEF Turned
<1>3. /\ \A m \in 1..i : m \in 1..(i - 1) \/ m = i
      /\ \A m \in 1..(i - 1) : m \in 1..i
      /\ i \in 1..i
      /\ \A m \in (i + 1)..Len(c.order) : m \in ((i - 1) + 1)..Len(c.order)
  BY <1>1, Positions
<1>4. Relisted(e, i, c)
  <2>0. /\ \A p \in 1..L : d.order[p] # k /\ d.order[p] \in Keys
        /\ \A m \in 1..(i - 1) : c.order[m] # k /\ c.order[m] \in Keys
    BY <1>1
  <2>1. NoTwice(e.order) /\ Filled(e)
    <3>1. NoTwice(e.order)
      BY <1>2 DEF Relisted
    <3>2. ASSUME NEW p \in 1..L PROVE e.data[e.order[p]] # None
      <4>1. d.data[d.order[p]] # None
        BY <1>0, <1>2 DEF Relisted, Filled
      <4> QED
        BY <1>0, <2>0, <4>1
    <3> QED
      BY <1>0, <3>1, <3>2 DEF Filled
  <2>2. ASSUME NEW p \in 1..L
        PROVE  \E m \in 1..i : e.order[p] = c.order[m]
    <3>1. PICK m \in 1..(i - 1) : d.order[p] = c.order[m]
      BY <1>0, <1>2 DEF Relisted
    <3> QED
      BY <1>3, <3>1
  <2>3. ASSUME NEW m \in 1..i, e.data[c.order[m]] # None
        PROVE  \E p \in 1..L : e.order[p] = c.order[m]
    <3>1. m \in 1..(i - 1)
      BY <1>3, <2>3
    <3>2. d.data[c.order[m]] # None
      BY <1>0, <2>0, <2>3, <3>1
    <3> QED
      BY <1>0, <1>2, <3>1, <3>2 DEF Relisted
  <2> QED
    BY <1>0, <2>1, <2>2, <2>3 DEF Relisted
<1>5. Ahead(e, i, c)
  <2>1. ASSUME NEW m \in (i + 1)..Len(c.order)
        PROVE  e.data[c.order[m]] = c.data[c.order[m]] /\ e.used[c.order[m]] = c.used[c.order[m]]
    <3>1. c.order[m] # k /\ c.order[m] \in Keys
      BY <1>1
    <3>2. d.data[c.order[m]] = c.data[c.order[m]] /\ d.used[c.order[m]] = c.used[c.order[m]]
      BY <1>2, <1>3 DEF Ahead
    <3> QED
      BY <1>0, <3>1, <3>2
  <2>2. ASSUME NEW j \in Keys
        PROVE  e.data[j] \in {c.data[j], None}
    <3>1. d.data[j] \in {c.data[j], None}
      BY <1>2 DEF Ahead
    <3> QED
      BY <1>0, <3>1
  <2> QED
    BY <2>1, <2>2 DEF Ahead
<1>6. Paid(e, i, c)
  <2>1. SumTo(e)[L] = SumTo(d)[L]
    <3>1. L \in 0..Len(e.order) /\ L <= Len(d.order)
      BY <1>0, <1>1
    <3>2. \A p \in 1..L : Size(e.data[e.order[p]]) = Size(d.data[d.order[p]])
      BY <1>0, <1>1
    <3> QED
      BY <1>2, <3>1, <3>2, SumAgrees
  <2>2. d.bytes = SumTo(d)[L] + SumTo(c)[Len(c.order)] - SumTo(c)[i - 1]
    BY <1>0, <1>2 DEF Paid
  <2>3. e.bytes = d.bytes - Size(c.data[k])
    BY <1>0, <1>1
  <2>4. /\ SumTo(c)[i] = SumTo(c)[i - 1] + Size(c.data[k])
        /\ SumTo(c)[i] \in Nat /\ SumTo(c)[i - 1] \in Nat /\ SumTo(c)[Len(c.order)] \in Nat
        /\ SumTo(d)[L] \in Nat /\ d.bytes \in Int /\ Size(c.data[k]) \in Nat
    BY <1>1
  <2>5. PICK x \in Int, t \in Int, a \in Int, z \in Int :
          /\ x = SumTo(d)[L] /\ t = SumTo(c)[Len(c.order)]
          /\ a = SumTo(c)[i - 1] /\ z = Size(c.data[k])
    BY <2>4
  <2>6. d.bytes = x + t - a /\ e.bytes = d.bytes - z /\ SumTo(e)[L] = x /\ SumTo(c)[i] = a + z
    BY <2>1, <2>2, <2>3, <2>4, <2>5
  <2>7. e.bytes = SumTo(e)[L] + SumTo(c)[Len(c.order)] - SumTo(c)[i]
    <3>1. (x + t - a) - z = x + t - (a + z)
      BY Balance
    <3> QED
      BY <2>5, <2>6, <3>1
  <2> QED
    BY <1>0, <2>7 DEF Paid
<1>7. Judged(e, i, c, needed)
  <2>1. ~Fits(c, needed)
    BY <1>2 DEF Judged, Fits
  <2>2. ASSUME NEW m \in 1..i
        PROVE  IF c.used[c.order[m]]
               THEN e.data[c.order[m]] # None /\ ~e.used[c.order[m]]
               ELSE e.data[c.order[m]] = None
    <3>1. CASE m = i
      BY <1>0, <1>1, <3>1
    <3>2. CASE m \in 1..(i - 1)
      BY <1>0, <1>1, <1>2, <3>2 DEF Judged
    <3> QED
      BY <1>3, <3>1, <3>2
  <2>3. ASSUME NEW m \in 1..i, e.data[c.order[m]] = None
        PROVE  ~c.used[c.order[m]]
    BY <2>2, <2>3
  <2> QED
    BY <2>1, <2>2, <2>3 DEF Judged
<1> QED
  BY <1>4, <1>5, <1>6, <1>7 DEF Turned

(* Every turn does one or the other. *)
LEMMA EveryTurn ==
    ASSUME NEW c, Accounted(c), NEW needed \in Nat
    PROVE  \A i \in 0..Len(c.order) : Turned(Turns(c, needed)[i], i, c, needed)
<1> DEFINE n == Len(c.order)
           S == {i \in 0..n : Turned(Turns(c, needed)[i], i, c, needed)}
<1>1. n \in Nat
  BY LenProperties DEF Accounted, L1State
<1>2. 0 \in S
  <2>1. Turns(c, needed)[0] = [c EXCEPT !.order = <<>>]
    BY <1>1, TurnsDef
  <2> QED
    BY <1>1, <2>1, TurnStart
<1>3. ASSUME NEW i \in 1..n, i - 1 \in S
      PROVE  i \in S
  <2> DEFINE k == c.order[i]
  <2>0. Turns(c, needed)[i] = Visit(Turns(c, needed)[i - 1], c.order[i], needed)
    BY <1>1, TurnsDef
  <2>1. PICK d : d = Turns(c, needed)[i - 1]
    OBVIOUS
  <2>2. Turned(d, i - 1, c, needed)
    BY <1>3, <2>1
  <2>3. Turns(c, needed)[i] = Visit(d, k, needed)
    BY <2>0, <2>1
  <2>4. k \in Keys /\ d \in L1State /\ d.data[k] \in Vals /\ Size(d.data[k]) \in Nat
    <3>1. d.data[c.order[i]] = c.data[c.order[i]] /\ c.data[c.order[i]] \in Vals
      BY <2>2, NextEntry
    <3>2. c.order[i] \in Keys /\ Size(c.data[c.order[i]]) \in Nat
      BY <2>2, NextEntry
    <3> QED
      BY <2>2, <3>1, <3>2 DEF Turned
  <2>5. Append(d.order, k) \in Seq(Keys)
    BY <2>4, AppendProperties DEF L1State
  <2>6. Turned(Visit(d, k, needed), i, c, needed)
    <3>1. CASE Fits(d, needed)
      <4> DEFINE e == [d EXCEPT !.order = Append(d.order, k)]
      <4>1. /\ e \in L1State /\ e.data = d.data /\ e.used = d.used /\ e.bytes = d.bytes
            /\ e.order = Append(d.order, k)
        BY <2>4, <2>5 DEF L1State
      <4>2. Visit(d, k, needed) = e
        BY <3>1 DEF Visit
      <4> HIDE DEF e
      <4> QED
        BY <2>2, <3>1, <4>1, <4>2, TurnKeeps
    <3>2. CASE ~Fits(d, needed) /\ d.used[k]
      <4> DEFINE e == [d EXCEPT !.order = Append(d.order, k), !.used[k] = FALSE]
      <4>1. /\ e \in L1State /\ e.data = d.data /\ e.bytes = d.bytes
            /\ e.order = Append(d.order, k)
            /\ ~e.used[k] /\ \A j \in Keys : j # k => e.used[j] = d.used[j]
        BY <2>4, <2>5 DEF L1State
      <4>2. Visit(d, k, needed) = e
        BY <3>2 DEF Visit
      <4> HIDE DEF e
      <4> QED
        BY <2>2, <3>2, <4>1, <4>2, TurnKeeps
    <3>3. CASE ~Fits(d, needed) /\ ~d.used[k]
      <4> DEFINE e == Evict(d, k)
      <4>1. /\ e \in L1State /\ e.order = d.order /\ e.data[k] = None
            /\ \A j \in Keys : j # k => e.data[j] = d.data[j] /\ e.used[j] = d.used[j]
            /\ e.bytes = d.bytes - Size(d.data[k])
        <5>1. /\ d.data \in [Keys -> Vals \cup {None}] /\ d.used \in [Keys -> BOOLEAN]
              /\ d.bytes \in Int /\ d.order \in Seq(Keys)
          BY <2>4 DEF L1State
        <5>2. /\ e.order = d.order /\ e.data = [d.data EXCEPT ![k] = None]
              /\ e.used = [d.used EXCEPT ![k] = FALSE]
              /\ e.bytes = d.bytes - Size(d.data[k])
          BY <2>4 DEF L1State, Evict
        <5>3. e.bytes \in Int
          BY <2>4, <5>1, <5>2
        <5>4. e \in L1State
          BY <2>4, <5>1, <5>3 DEF L1State, Evict
        <5> HIDE DEF e
        <5> QED
          BY <2>4, <5>1, <5>2, <5>4
      <4>2. Visit(d, k, needed) = e
        BY <3>3 DEF Visit
      <4> HIDE DEF e
      <4> QED
        BY <2>2, <3>3, <4>1, <4>2, TurnEvicts
    <3> QED
      BY <3>1, <3>2, <3>3
  <2> QED
    BY <1>1, <2>3, <2>6
<1> HIDE DEF S
<1>4. \A i \in 0..n : i \in S
  BY <1>1, <1>2, <1>3, UpTo
<1> QED
  BY <1>4 DEF S

(* What a whole pass does to c: it evicts, and nothing if there was room;  *)
(* if there is none after it, every bit is clear and what had none is gone; *)
(* no entry whose bit was set is gone.                                     *)
Passed(e, c, needed) ==
    /\ \A k \in Keys : e.data[k] \in {c.data[k], None}
    /\ Fits(c, needed) => e.data = c.data /\ e.used = c.used /\ e.bytes = c.bytes
    /\ ~Fits(e, needed) =>
          \A k \in Keys : c.data[k] # None =>
              IF c.used[k] THEN e.data[k] # None /\ ~e.used[k] ELSE e.data[k] = None
    /\ \A k \in Keys : c.data[k] # None /\ e.data[k] = None => ~c.used[k]

(* A pass does that, and keeps the accounts. *)
LEMMA OnePass ==
    ASSUME NEW c, Accounted(c), NEW needed \in Nat
    PROVE  Accounted(ClockPass(c, needed)) /\ Passed(ClockPass(c, needed), c, needed)
<1>1. PICK n, e : n = Len(c.order) /\ e = ClockPass(c, needed)
  OBVIOUS
<1>2. n \in Nat /\ c \in L1State
  BY <1>1, LenProperties DEF Accounted, L1State
<1>3. Turned(e, n, c, needed)
  BY <1>1, <1>2, EveryTurn DEF ClockPass
<1>4. e \in L1State /\ Relisted(e, n, c) /\ Ahead(e, n, c) /\ Paid(e, n, c) /\ Judged(e, n, c, needed)
  BY <1>3 DEF Turned
<1>5. \A k \in Keys : c.data[k] # None => \E m \in 1..n : c.order[m] = k
  BY <1>1 DEF Accounted
<1>6. \A k \in Keys : e.data[k] \in {c.data[k], None}
  BY <1>4 DEF Ahead
<1>7. Passed(e, c, needed)
  BY <1>4, <1>5, <1>6 DEF Passed, Judged
<1>8. e.bytes = SumTo(e)[Len(e.order)]
  <2>1. Len(e.order) \in Nat
    BY <1>4, LenProperties DEF L1State
  <2>2. SumTo(c)[n] \in Int /\ SumTo(e)[Len(e.order)] \in Int
    BY <1>1, <1>2, <1>4, <2>1, SumType DEF Accounted, Relisted
  <2>3. PICK x \in Int, a \in Int : x = SumTo(e)[Len(e.order)] /\ a = SumTo(c)[n]
    BY <2>2
  <2>4. e.bytes = x + a - a
    BY <1>1, <1>4, <2>3 DEF Paid
  <2> QED
    BY <2>3, <2>4
<1>9. ASSUME NEW k \in Keys, e.data[k] # None
      PROVE  \E p \in 1..Len(e.order) : e.order[p] = k
  <2>1. PICK m \in 1..n : c.order[m] = k
    BY <1>5, <1>6, <1>9
  <2> QED
    BY <1>4, <1>9, <2>1 DEF Relisted
<1>10. Accounted(e)
  BY <1>4, <1>8, <1>9 DEF Accounted, Relisted
<1> QED
  BY <1>1, <1>7, <1>10

(* Two passes make room, or empty L1 trying; an entry whose bit was set is *)
(* gone only if those whose bit was clear are.                             *)
LEMMA TwoPasses ==
    ASSUME NEW c, Accounted(c), NEW needed \in Nat
    PROVE  LET g == evict_to_fit(c, needed)
           IN  /\ Accounted(g)
               /\ \A k \in Keys : g.data[k] \in {c.data[k], None}
               /\ Fits(g, needed) \/ g.bytes = 0
               /\ \A k, j \in Keys :
                     /\ c.data[k] # None /\ c.used[k] /\ g.data[k] = None
                     /\ c.data[j] # None /\ ~c.used[j]
                     => g.data[j] = None
<1>1. PICK d, g : d = ClockPass(c, needed) /\ g = ClockPass(d, needed)
  OBVIOUS
<1>2. Accounted(d) /\ Passed(d, c, needed)
  BY <1>1, OnePass
<1>3. Accounted(g) /\ Passed(g, d, needed)
  BY <1>1, <1>2, OnePass
<1>4. \A k \in Keys : g.data[k] \in {c.data[k], None}
  BY <1>2, <1>3 DEF Passed
<1>5. ASSUME ~Fits(g, needed)
      PROVE  g.bytes = 0
  <2>1. ~Fits(d, needed)
    BY <1>3, <1>5 DEF Passed, Fits
  <2>2. \A k \in Keys : d.data[k] # None => ~d.used[k]
    BY <1>2, <2>1 DEF Passed
  <2>3. \A k \in Keys : g.data[k] = None
    BY <1>3, <1>5, <2>2 DEF Passed
  <2>4. Len(g.order) \in Nat /\ g \in L1State /\ Filled(g) /\ g.bytes = SumTo(g)[Len(g.order)]
    BY <1>3, LenProperties DEF Accounted, L1State
  <2>5. Len(g.order) = 0
    <3>1. SUFFICES ASSUME 1 \in 1..Len(g.order) PROVE FALSE
      BY <2>4
    <3>2. g.order[1] \in Keys
      BY <2>4, <3>1, EntrySize
    <3> QED
      BY <2>3, <2>4, <3>1, <3>2 DEF Filled
  <2> QED
    BY <2>4, <2>5, SumDef
<1>6. ASSUME NEW k \in Keys, NEW j \in Keys,
             c.data[k] # None, c.used[k], g.data[k] = None, c.data[j] # None, ~c.used[j]
      PROVE  g.data[j] = None
  <2>1. d.data[k] # None
    BY <1>2, <1>6 DEF Passed
  <2>2. ~Fits(d, needed)
    BY <1>3, <1>6, <2>1 DEF Passed
  <2>3. d.data[j] = None
    BY <1>2, <1>6, <2>2 DEF Passed
  <2> QED
    BY <1>3, <2>3 DEF Passed
<1> QED
  BY <1>1, <1>3, <1>4, <1>5, <1>6 DEF evict_to_fit

-----------------------------------------------------------------------------
(* What put and get do to L1 *)

(* A new entry keeps the accounts. *)
LEMMA EntryAdded ==
    ASSUME NEW d, Accounted(d), NEW k \in Keys, d.data[k] = None, NEW v \in Vals,
           NEW r \in L1State, r.data = [d.data EXCEPT ![k] = v],
           r.order = Append(d.order, k), r.bytes = d.bytes + Size(v)
    PROVE  Accounted(r)
<1>0. PICK L : L = Len(d.order)
  OBVIOUS
<1>1. d \in L1State /\ L \in Nat /\ Filled(d) /\ NoTwice(d.order) /\ v # None
  BY <1>0, LenProperties, CacheAssumption DEF Accounted, L1State, Vals
<1>2. /\ Len(r.order) = L + 1 /\ r.order[L + 1] = k
      /\ \A p \in 1..L : r.order[p] = d.order[p]
  BY <1>0, <1>1, AppendProperties DEF L1State
<1>3. /\ \A p \in 1..(L + 1) : p \in 1..L \/ p = L + 1
      /\ \A p \in 1..L : p \in 1..(L + 1)
      /\ L + 1 \in 1..(L + 1) /\ L + 1 \in Nat /\ (L + 1) - 1 = L
      /\ L \in 0..(L + 1) /\ L + 1 \in 0..(L + 1)
  BY <1>1
<1>4. \A p \in 1..L : d.order[p] \in Keys /\ d.data[d.order[p]] # None /\ d.order[p] # k
  BY <1>0, <1>1, EntrySize DEF Filled
<1>5. r.data[k] = v /\ \A j \in Keys : j # k => r.data[j] = d.data[j]
  BY <1>1 DEF L1State
<1>6. NoTwice(r.order)
  BY <1>0, <1>1, <1>2, <1>3, <1>4 DEF NoTwice
<1>7. Filled(r)
  BY <1>1, <1>2, <1>3, <1>4, <1>5 DEF Filled
<1>8. ASSUME NEW j \in Keys, r.data[j] # None
      PROVE  \E p \in 1..Len(r.order) : r.order[p] = j
  <2>1. CASE j = k
    BY <1>2, <1>3, <2>1
  <2>2. CASE j # k
    <3>1. PICK p \in 1..L : d.order[p] = j
      BY <1>0, <1>5, <1>8, <2>2 DEF Accounted
    <3> QED
      BY <1>2, <1>3, <3>1
  <2> QED
    BY <2>1, <2>2
<1>9. r.bytes = SumTo(r)[L + 1]
  <2>1. SumTo(r)[L] = SumTo(d)[L]
    <3>1. \A p \in 1..L : Size(r.data[r.order[p]]) = Size(d.data[d.order[p]])
      BY <1>2, <1>4, <1>5
    <3>2. L \in 0..Len(r.order) /\ L <= Len(d.order)
      BY <1>0, <1>1, <1>2, <1>3
    <3> QED
      BY <1>1, <3>1, <3>2, SumAgrees
  <2>2. SumTo(r)[L + 1] = SumTo(r)[(L + 1) - 1] + Size(r.data[r.order[L + 1]])
    <3>1. Len(r.order) \in Nat /\ L + 1 \in 1..Len(r.order)
      BY <1>1, <1>2, <1>3
    <3> QED
      BY <3>1, SumDef
  <2> QED
    BY <1>0, <1>2, <1>3, <1>5, <2>1, <2>2 DEF Accounted
<1> QED
  BY <1>2, <1>6, <1>7, <1>8, <1>9 DEF Accounted

(* What an insertion of v for k makes of c: the accounts stay in order, k  *)
(* has its value, others are evicted at most, and the limit is kept if it  *)
(* can be.                                                                 *)
LEMMA Inserted ==
    ASSUME NEW c, Accounted(c), NEW k \in Keys, c.data[k] = None, NEW v \in Vals
    PROVE  LET r == l1_put_locked(c, k, v)
           IN  /\ Accounted(r)
               /\ r.data[k] = v
               /\ \A j \in Keys : j # k => r.data[j] \in {c.data[j], None}
               /\ MaxL1 # 0 /\ Size(v) <= MaxL1 => r.bytes <= MaxL1
               /\ \A j, h \in Keys :
                     /\ c.data[j] # None /\ c.used[j] /\ r.data[j] = None
                     /\ c.data[h] # None /\ ~c.used[h]
                     => r.data[h] = None
<1>1. PICK g, r : g = evict_to_fit(c, Size(v)) /\ r = l1_put_locked(c, k, v)
  OBVIOUS
<1>2. Size(v) \in Nat /\ MaxL1 \in Nat
  BY FastAssumption
<1>3. /\ Accounted(g)
      /\ \A j \in Keys : g.data[j] \in {c.data[j], None}
      /\ Fits(g, Size(v)) \/ g.bytes = 0
      /\ \A j, h \in Keys :
            /\ c.data[j] # None /\ c.used[j] /\ g.data[j] = None
            /\ c.data[h] # None /\ ~c.used[h]
            => g.data[h] = None
  BY <1>1, <1>2, TwoPasses
<1>4. /\ g \in L1State /\ g.data \in [Keys -> Vals \cup {None}] /\ g.used \in [Keys -> BOOLEAN]
      /\ g.order \in Seq(Keys) /\ g.bytes \in Int /\ g.data[k] = None
  BY <1>3 DEF Accounted, L1State
<1>5. r = [data |-> [g.data EXCEPT ![k] = v], used |-> [g.used EXCEPT ![k] = TRUE],
           order |-> Append(g.order, k), bytes |-> g.bytes + Size(v)]
  BY <1>1 DEF l1_put_locked
<1>6. /\ r.data = [g.data EXCEPT ![k] = v] /\ r.order = Append(g.order, k)
      /\ r.bytes = g.bytes + Size(v)
  BY <1>5
<1>7. r \in L1State
  <2>1. /\ [g.data EXCEPT ![k] = v] \in [Keys -> Vals \cup {None}]
        /\ [g.used EXCEPT ![k] = TRUE] \in [Keys -> BOOLEAN]
        /\ g.bytes + Size(v) \in Int
    BY <1>2, <1>4
  <2>2. Append(g.order, k) \in Seq(Keys)
    BY <1>4, AppendProperties
  <2> QED
    BY <1>5, <2>1, <2>2 DEF L1State
<1>8. Accounted(r)
  BY <1>3, <1>4, <1>6, <1>7, EntryAdded
<1>9. r.data[k] = v /\ \A j \in Keys : j # k => r.data[j] = g.data[j]
  BY <1>4, <1>6
<1>10. MaxL1 # 0 /\ Size(v) <= MaxL1 => r.bytes <= MaxL1
  BY <1>2, <1>3, <1>4, <1>6 DEF Fits
<1>11. v # None
  BY CacheAssumption DEF Vals
<1> QED
  BY <1>1, <1>3, <1>4, <1>8, <1>9, <1>10, <1>11

(* Sums that differ at one position differ from there on. *)
LEMMA SumMoves ==
    ASSUME NEW c \in L1State, Filled(c), NEW r \in L1State, Filled(r),
           r.order = c.order, NEW p \in 1..Len(c.order), NEW z \in Int,
           Size(r.data[r.order[p]]) = Size(c.data[c.order[p]]) + z,
           \A i \in 1..Len(c.order) :
              i # p => Size(r.data[r.order[i]]) = Size(c.data[c.order[i]])
    PROVE  SumTo(r)[Len(c.order)] = SumTo(c)[Len(c.order)] + z
<1> DEFINE n == Len(c.order)
           S == {i \in 0..n : SumTo(r)[i] = SumTo(c)[i] + IF i >= p THEN z ELSE 0}
<1>1. n \in Nat /\ Len(r.order) = n /\ p \in 1..n
  BY LenProperties DEF L1State
<1>2. 0 \in S
  <2>1. SumTo(r)[0] = 0 /\ SumTo(c)[0] = 0
    BY <1>1, SumDef
  <2> QED
    BY <1>1, <2>1
<1>3. ASSUME NEW i \in 1..n, i - 1 \in S
      PROVE  i \in S
  <2>1. /\ SumTo(c)[i] = SumTo(c)[i - 1] + Size(c.data[c.order[i]])
        /\ SumTo(r)[i] = SumTo(r)[i - 1] + Size(r.data[r.order[i]])
    BY <1>1, SumDef
  <2>2. Size(c.data[c.order[i]]) \in Nat /\ Size(r.data[r.order[i]]) \in Nat
    BY <1>1, EntrySize
  <2>3. SumTo(c)[i - 1] \in Nat /\ SumTo(r)[i - 1] \in Nat
    BY <1>1, SumType
  <2>4. PICK a \in Int, b \in Int, x \in Int, y \in Int :
          /\ a = SumTo(c)[i - 1] /\ b = SumTo(r)[i - 1]
          /\ x = Size(c.data[c.order[i]]) /\ y = Size(r.data[r.order[i]])
    BY <2>2, <2>3
  <2>5. b = a + IF i - 1 >= p THEN z ELSE 0
    BY <1>3, <2>4
  <2>6. IF i = p THEN y = x + z ELSE y = x
    BY <1>1, <2>4
  <2>7. SumTo(c)[i] = a + x /\ SumTo(r)[i] = b + y
    BY <2>1, <2>4
  <2>8. b + y = (a + x) + IF i >= p THEN z ELSE 0
    <3>1. i \in Int /\ p \in Int
      BY <1>1
    <3> QED
      BY <2>5, <2>6, <3>1
  <2>9. SumTo(r)[i] = SumTo(c)[i] + IF i >= p THEN z ELSE 0
    BY <2>7, <2>8
  <2>10. i \in 0..n
    BY <1>1
  <2> QED
    BY <2>9, <2>10
<1> HIDE DEF S
<1>4. \A i \in 0..n : i \in S
  BY <1>1, <1>2, <1>3, UpTo
<1> QED
  BY <1>1, <1>4 DEF S

(* A new value for an entry keeps the accounts, and evicts nothing. *)
LEMMA Updated ==
    ASSUME NEW c, Accounted(c), NEW k \in Keys, c.data[k] # None, NEW v \in Vals
    PROVE  LET r == l1_update(c, k, v)
           IN  /\ Accounted(r)
               /\ r.data[k] = v
               /\ \A j \in Keys : j # k => r.data[j] = c.data[j]
<1>1. PICK r : r = l1_update(c, k, v)
  OBVIOUS
<1>2. /\ c \in L1State /\ c.data \in [Keys -> Vals \cup {None}] /\ c.used \in [Keys -> BOOLEAN]
      /\ c.order \in Seq(Keys) /\ c.bytes \in Int /\ Len(c.order) \in Nat
      /\ Filled(c) /\ NoTwice(c.order)
  BY LenProperties DEF Accounted, L1State
<1>3. v # None /\ Size(v) \in Nat /\ c.data[k] \in Vals /\ Size(c.data[k]) \in Nat
  BY <1>2, CacheAssumption, FastAssumption DEF Vals
<1>4. /\ r.data = [c.data EXCEPT ![k] = v] /\ r.used = [c.used EXCEPT ![k] = TRUE]
      /\ r.order = c.order /\ r.bytes = c.bytes - Size(c.data[k]) + Size(v)
  BY <1>1, <1>2 DEF l1_update, L1State
<1>5. r \in L1State
  <2>1. /\ [c.data EXCEPT ![k] = v] \in [Keys -> Vals \cup {None}]
        /\ [c.used EXCEPT ![k] = TRUE] \in [Keys -> BOOLEAN]
        /\ c.bytes - Size(c.data[k]) + Size(v) \in Int
    BY <1>2, <1>3
  <2> QED
    BY <1>1, <1>2, <2>1 DEF l1_update, L1State
<1>6. r.data[k] = v /\ \A j \in Keys : j # k => r.data[j] = c.data[j]
  BY <1>2, <1>4
<1>7. \A i \in 1..Len(c.order) : c.order[i] \in Keys
  BY <1>2, EntrySize
<1>8. Filled(r)
  BY <1>2, <1>3, <1>4, <1>6, <1>7 DEF Filled
<1>9. PICK p \in 1..Len(c.order) : c.order[p] = k
  BY DEF Accounted
<1>10. \A i \in 1..Len(c.order) : i # p => c.order[i] # k
  BY <1>2, <1>9 DEF NoTwice
<1>11. r.bytes = SumTo(r)[Len(r.order)]
  <2>1. PICK z \in Int : z = Size(v) - Size(c.data[k])
    BY <1>3
  <2>2. Size(r.data[r.order[p]]) = Size(c.data[c.order[p]]) + z
    <3>1. r.data[r.order[p]] = v /\ c.data[c.order[p]] = c.data[k]
      BY <1>4, <1>6, <1>9
    <3>2. Size(v) = Size(c.data[k]) + z
      BY <1>3, <2>1
    <3> QED
      BY <3>1, <3>2
  <2>3. \A i \in 1..Len(c.order) :
           i # p => Size(r.data[r.order[i]]) = Size(c.data[c.order[i]])
    BY <1>4, <1>6, <1>7, <1>10
  <2>4. SumTo(r)[Len(c.order)] = SumTo(c)[Len(c.order)] + z
    BY <1>2, <1>4, <1>5, <1>8, <1>9, <2>1, <2>2, <2>3, SumMoves, SMTT(20)
  <2>5. c.bytes = SumTo(c)[Len(c.order)]
    BY DEF Accounted
  <2>6. r.bytes = c.bytes + z
    BY <1>2, <1>3, <1>4, <2>1
  <2> QED
    BY <1>4, <2>4, <2>5, <2>6
<1>12. ASSUME NEW j \in Keys, r.data[j] # None
       PROVE  \E i \in 1..Len(r.order) : r.order[i] = j
  <2>1. c.data[j] # None
    BY <1>6, <1>12
  <2> QED
    BY <1>4, <2>1 DEF Accounted
<1>13. Accounted(r)
  BY <1>2, <1>4, <1>5, <1>8, <1>11, <1>12 DEF Accounted
<1> QED
  BY <1>1, <1>6, <1>13

(* A hit keeps the accounts. *)
LEMMA Touched ==
    ASSUME NEW c, Accounted(c), NEW k \in Keys
    PROVE  LET r == [c EXCEPT !.used[k] = TRUE]
           IN  Accounted(r) /\ r.data = c.data /\ r.bytes = c.bytes
<1>1. PICK r : r = [c EXCEPT !.used[k] = TRUE]
  OBVIOUS
<1>2. c \in L1State /\ Len(c.order) \in Nat
  BY LenProperties DEF Accounted, L1State
<1>3. r \in L1State /\ r.data = c.data /\ r.order = c.order /\ r.bytes = c.bytes
  BY <1>1, <1>2 DEF L1State
<1>4. SumTo(r)[Len(c.order)] = SumTo(c)[Len(c.order)]
  <2>1. Len(c.order) \in 0..Len(r.order) /\ Len(c.order) <= Len(c.order)
    BY <1>2, <1>3
  <2> QED
    BY <1>2, <1>3, <2>1, SumAgrees
<1>5. Accounted(r)
  BY <1>3, <1>4 DEF Accounted, Filled
<1> QED
  BY <1>1, <1>3, <1>5

(* So does an empty L1. *)
LEMMA EmptyAccounted == Accounted(EmptyL1)
<1>1. PICK c : c = EmptyL1
  OBVIOUS
<1>2. <<>> \in Seq(Keys) /\ Len(<<>>) = 0
  BY EmptySeq
<1>3. /\ c \in L1State /\ c.order = <<>> /\ Len(c.order) = 0 /\ c.bytes = 0
      /\ \A k \in Keys : c.data[k] = None
  BY <1>1, <1>2 DEF EmptyL1, L1State
<1>4. SumTo(c)[0] = 0
  BY <1>3, SumDef
<1>5. Accounted(c)
  BY <1>3, <1>4 DEF Accounted, NoTwice, Filled
<1> QED
  BY <1>1, <1>5

(* What a step is to L1. *)
L1Same == l1' = l1 /\ crashes' = crashes

(* A get finds the key: its bit is set. *)
L1Hit == \E k \in Keys : l1' = [l1 EXCEPT !.used[k] = TRUE] /\ crashes' = crashes

(* A new key comes in, after eviction. *)
L1Insert ==
    \E k \in Keys, v \in Vals :
        l1.data[k] = None /\ l1' = l1_put_locked(l1, k, v) /\ crashes' = crashes

(* A cached key gets another value. *)
L1Update ==
    \E k \in Keys, v \in Vals :
        l1.data[k] # None /\ l1' = l1_update(l1, k, v) /\ crashes' = crashes

(* The process dies and its table with it. *)
L1Lost == l1' = EmptyL1 /\ crashes < MaxCrashes /\ crashes' = crashes + 1

(* Every step is one of these. *)
LEMMA StepsOfL1 ==
    ASSUME DiskInv, [Next]_vars
    PROVE  L1Same \/ L1Hit \/ L1Insert \/ L1Update \/ L1Lost
<1>1. CASE UNCHANGED vars
  BY <1>1 DEF vars, L1Same
<1>2. ASSUME NEW t \in Threads, NEW k \in Keys, GetHit(t, k)
      PROVE  L1Hit
  BY <1>2 DEF GetHit, L1Hit
<1>3. ASSUME NEW t \in Threads, NEW k \in Keys, GetMiss(t, k)
      PROVE  L1Same
  BY <1>3 DEF GetMiss, L1Same
<1>4. ASSUME NEW t \in Threads, pc[t] \in {"found", "stored"}
      PROVE  arg[t].key \in Keys /\ arg[t].val \in Vals
  <2>1. /\ arg[t].key \in Keys /\ arg[t].val \in Vals \cup {None} /\ arg[t].val # None
    BY <1>4, CacheAssumption DEF DiskInv, ThreadsOK, ThreadOK, Arg, PutLocs
  <2> QED
    BY <2>1
<1>5. ASSUME NEW t \in Threads, GetPromote(t) \/ PutL1(t) \/ PutThrows(t)
      PROVE  L1Same \/ L1Insert \/ L1Update
  BY <1>4, <1>5 DEF GetPromote, PutL1, PutThrows, L1Same, L1Insert, L1Update
<1>6. CASE Crash
  BY <1>6 DEF Crash, L1Lost
<1>7. ASSUME NEW t \in Threads, NEW k \in Keys, PutCall(t, k) /\ UNCHANGED <<l1, crashes>>
      PROVE  L1Same
  BY <1>7 DEF L1Same
<1>8. ASSUME NEW t \in Threads, DiskSteps(t) /\ UNCHANGED <<l1, crashes>>
      PROVE  L1Same
  BY <1>8 DEF L1Same
<1> QED
  BY <1>1, <1>2, <1>3, <1>5, <1>6, <1>7, <1>8 DEF Next

(* The invariant of L1. *)
L1Inv == Accounted(l1) /\ crashes \in 0..MaxCrashes

(* It holds throughout. *)
LEMMA L1Invariant == Spec => []L1Inv
<1>1. Init => L1Inv
  BY EmptyAccounted, FastAssumption DEF Init, L1Inv
<1>2. ASSUME L1Inv, DiskInv, [Next]_vars
      PROVE  L1Inv'
  <2>1. crashes' \in 0..MaxCrashes
    BY <1>2, StepsOfL1, FastAssumption DEF L1Inv, L1Same, L1Hit, L1Insert, L1Update, L1Lost
  <2>2. Accounted(l1')
    <3>1. CASE L1Same
      BY <1>2, <3>1 DEF L1Same, L1Inv
    <3>2. CASE L1Hit
      BY <1>2, <3>2, Touched DEF L1Hit, L1Inv
    <3>3. CASE L1Insert
      BY <1>2, <3>3, Inserted DEF L1Insert, L1Inv
    <3>4. CASE L1Update
      BY <1>2, <3>4, Updated DEF L1Update, L1Inv
    <3>5. CASE L1Lost
      BY <3>5, EmptyAccounted DEF L1Lost
    <3> QED
      BY <1>2, <3>1, <3>2, <3>3, <3>4, <3>5, StepsOfL1
  <2> QED
    BY <2>1, <2>2 DEF L1Inv
<1> QED
  BY <1>1, <1>2, DiskInvariant, PTL DEF Spec

(* The clock knows each cached key once and no other, and l1_bytes_ is the *)
(* sum of the entries' sizes and never negative, through updates,          *)
(* evictions, promotions and crashes, whatever the sizes and the limit.    *)
THEOREM AccountsInOrder == Spec => []L1Accounts
<1>1. ASSUME L1Inv, DiskInv
      PROVE  L1Accounts
  <2>1. PICK n, o : n = Len(l1.order) /\ o = l1.order
    OBVIOUS
  <2>2. /\ l1 \in L1State /\ o \in Seq(Keys) /\ n \in Nat /\ o \in [1..n -> Keys]
        /\ NoTwice(o) /\ Filled(l1)
        /\ \A k \in Keys : l1.data[k] # None => \E i \in 1..n : o[i] = k
        /\ l1.bytes = SumTo(l1)[n]
    BY <1>1, <2>1, LenProperties DEF L1Inv, Accounted, L1State
  <2>3. DiskTypeOK
    BY <1>1 DEF DiskInv, StateOK, ThreadsOK, DiskTypeOK, Locs, Arg
  <2>4. l1.bytes \in Nat
    BY <2>1, <2>2, SumType
  <2>5. TypeOK
    BY <1>1, <2>1, <2>2, <2>3, <2>4 DEF TypeOK, L1State, L1Inv
  <2>6. \A k \in Cached : k \in Keys /\ \E i \in 1..n : o[i] = k
    BY <2>2 DEF Cached
  <2>7. \A i \in 1..n : o[i] \in Cached
    BY <2>1, <2>2 DEF Filled, Cached
  <2>8. Range(l1.order) = Cached
    <3>1. Range(l1.order) = {o[i] : i \in 1..n}
      BY <2>1, <2>2, RangeEquality
    <3> QED
      BY <2>6, <2>7, <3>1
  <2>9. n = Cardinality(Cached)
    <3>1. o \in [1..n -> Cached]
      BY <2>2, <2>7
    <3>2. \A i, j \in DOMAIN o : o[i] = o[j] => i = j
      BY <2>1, <2>2 DEF NoTwice
    <3>3. o \in Bijection(1..n, Cached)
      BY <2>6, <3>1, <3>2 DEF Bijection, Injection, Surjection, IsInjective
    <3>4. ExistsBijection(1..n, Cached)
      BY <3>3 DEF ExistsBijection
    <3>5. IsFiniteSet(1..n) /\ Cardinality(1..n) = n
      BY <2>2, FS_Interval
    <3> QED
      BY <3>4, <3>5, FS_Bijection
  <2> QED
    BY <2>1, <2>2, <2>5, <2>8, <2>9 DEF L1Accounts
<1> QED
  BY <1>1, L1Invariant, DiskInvariant, PTL

(* A key that is inserted and fits by itself leaves L1 within its limit:   *)
(* the two passes of evict_to_fit always make the room.                    *)
THEOREM InsertionsFit == Spec => InsertFits
<1>1. ASSUME L1Inv, DiskInv, [Next]_vars, NEW k \in Keys,
             l1.data[k] = None, l1'.data[k] # None,
             MaxL1 # 0, Size(l1'.data[k]) <= MaxL1
      PROVE  l1'.bytes <= MaxL1
  <2>0. Accounted(l1)
    BY <1>1 DEF L1Inv
  <2>1. CASE L1Same
    BY <1>1, <2>1 DEF L1Same
  <2>2. CASE L1Hit
    BY <1>1, <2>0, <2>2, Touched DEF L1Hit
  <2>3. CASE L1Insert
    <3>1. PICK j \in Keys, v \in Vals : l1.data[j] = None /\ l1' = l1_put_locked(l1, j, v)
      BY <2>3 DEF L1Insert
    <3>2. /\ l1'.data[j] = v
          /\ \A h \in Keys : h # j => l1'.data[h] \in {l1.data[h], None}
          /\ MaxL1 # 0 /\ Size(v) <= MaxL1 => l1'.bytes <= MaxL1
      BY <2>0, <3>1, Inserted
    <3>3. j = k
      BY <1>1, <3>2
    <3> QED
      BY <1>1, <3>2, <3>3
  <2>4. CASE L1Update
    <3>1. PICK j \in Keys, v \in Vals : l1.data[j] # None /\ l1' = l1_update(l1, j, v)
      BY <2>4 DEF L1Update
    <3>2. \A h \in Keys : h # j => l1'.data[h] = l1.data[h]
      BY <2>0, <3>1, Updated
    <3> QED
      BY <1>1, <3>1, <3>2
  <2>5. CASE L1Lost
    BY <1>1, <2>5 DEF L1Lost, EmptyL1
  <2> QED
    BY <1>1, <2>1, <2>2, <2>3, <2>4, <2>5, StepsOfL1
<1>2. L1Inv /\ DiskInv /\ [Next]_vars =>
          [\A k \in Keys :
              /\ l1.data[k] = None /\ l1'.data[k] # None
              /\ MaxL1 # 0 /\ Size(l1'.data[k]) <= MaxL1
              => l1'.bytes <= MaxL1]_vars
  BY <1>1
<1> QED
  BY <1>2, L1Invariant, DiskInvariant, PTL DEF Spec, InsertFits

(* No entry that was used since the clock last passed it is evicted as     *)
(* long as one that was not is kept.                                       *)
THEOREM UsedEntriesGoLast == Spec => SecondChance
<1>1. ASSUME L1Inv, DiskInv, [Next]_vars, crashes' = crashes,
             NEW k \in Keys, NEW j \in Keys, l1.data[k] # None, l1.data[j] # None,
             l1.used[k], l1'.data[k] = None, ~l1.used[j]
      PROVE  l1'.data[j] = None
  <2>0. Accounted(l1)
    BY <1>1 DEF L1Inv
  <2>1. CASE L1Same
    BY <1>1, <2>1 DEF L1Same
  <2>2. CASE L1Hit
    BY <1>1, <2>0, <2>2, Touched DEF L1Hit
  <2>3. CASE L1Insert
    <3>1. PICK i \in Keys, v \in Vals : l1.data[i] = None /\ l1' = l1_put_locked(l1, i, v)
      BY <2>3 DEF L1Insert
    <3> QED
      BY <1>1, <2>0, <3>1, Inserted
  <2>4. CASE L1Update
    <3>1. PICK i \in Keys, v \in Vals : l1.data[i] # None /\ l1' = l1_update(l1, i, v)
      BY <2>4 DEF L1Update
    <3>2. l1'.data[i] = v /\ \A h \in Keys : h # i => l1'.data[h] = l1.data[h]
      BY <2>0, <3>1, Updated
    <3>3. v # None
      BY CacheAssumption DEF Vals
    <3> QED
      BY <1>1, <3>1, <3>2, <3>3
  <2>5. CASE L1Lost
    BY <1>1, <2>5 DEF L1Lost, L1Inv
  <2> QED
    BY <1>1, <2>1, <2>2, <2>3, <2>4, <2>5, StepsOfL1
<1>2. L1Inv /\ DiskInv /\ [Next]_vars =>
          [crashes' = crashes =>
             \A k, j \in Cached :
                 (l1.used[k] /\ l1'.data[k] = None) =>
                     (l1.used[j] \/ l1'.data[j] = None)]_vars
  BY <1>1 DEF Cached
<1> QED
  BY <1>2, L1Invariant, DiskInvariant, PTL DEF Spec, SecondChance

-----------------------------------------------------------------------------
(* The two tiers agree *)

(* Thread t is in a get of k that missed L1. *)
Getting(t, k) == In(GetLocs, t, k)

(* Where the get of k by t is, it has read this of the file. *)
GetSoFar(t, k) ==
    /\ pc[t] # "lookup" => bin[k] # None
    /\ pc[t] \in {"readhdr", "readbody"} => arg[t].fd = bin[k]
    /\ pc[t] = "readbody" => arg[t].hdr = file[bin[k]].hdr
    /\ pc[t] = "found" => arg[t].val = file[bin[k]].hdr

(* L1 has what the file of k has. *)
InL1(k) == bin[k] # None /\ l1.data[k] = file[bin[k]].hdr

(* No get and put of k overlap, a get has read the present file, and L1    *)
(* has what is in it unless a put is under way.                            *)
Tiers(k) ==
    /\ \A t, u \in Threads : ~(Getting(t, k) /\ Putting(u, k))
    /\ \A t \in Threads : Getting(t, k) => GetSoFar(t, k)
    /\ (\A t \in Threads : ~Putting(t, k)) => l1.data[k] = None \/ InL1(k)

(* The inductive invariant: tiers agree on keys whose calls have not       *)
(* clashed.                                                                *)
TierInv == \A k \in Keys : clash[k] = {} => Tiers(k)

(* A thread that has nothing to do with k moves, or changes what is not    *)
(* k's; at most k is evicted.                                              *)
LEMMA AwayFrom ==
    ASSUME NEW k \in Keys, Tiers(k), NEW t \in Threads,
           \A u \in Threads \ {t} : pc'[u] = pc[u] /\ arg'[u] = arg[u],
           arg[t].key # k, arg'[t].key # k,
           bin'[k] = bin[k], bin[k] # None => file'[bin[k]] = file[bin[k]],
           l1'.data[k] \in {l1.data[k], None}
    PROVE  Tiers(k)'
<1>1. \A u \in Threads : /\ Putting(u, k)' <=> Putting(u, k)
                         /\ Getting(u, k)' <=> Getting(u, k)
  BY DEF Putting, Getting, In
<1>2. \A u \in Threads : Getting(u, k) => u # t
  BY DEF Getting, In
<1>3. ASSUME NEW u \in Threads, Getting(u, k)'
      PROVE  GetSoFar(u, k)'
  <2>1. Getting(u, k) /\ GetSoFar(u, k) /\ pc'[u] = pc[u] /\ arg'[u] = arg[u]
    BY <1>1, <1>2, <1>3 DEF Tiers
  <2>2. CASE bin[k] # None
    BY <2>1, <2>2 DEF GetSoFar
  <2>3. CASE pc[u] = "lookup"
    BY <2>1, <2>3 DEF GetSoFar
  <2> QED
    BY <2>1, <2>2, <2>3 DEF GetSoFar
<1>4. ASSUME \A u \in Threads : ~Putting(u, k)'
      PROVE  l1'.data[k] = None \/ InL1(k)'
  BY <1>1, <1>4 DEF Tiers, InL1
<1> QED
  BY <1>1, <1>3, <1>4 DEF Tiers

(* A put of k goes on. *)
LEMMA PutGoesOn ==
    ASSUME NEW k \in Keys, NEW t \in Threads, Putting(t, k)',
           \A u \in Threads \ {t} : ~Getting(u, k)'
    PROVE  Tiers(k)'
<1>1. ~Getting(t, k)'
  BY DEF Putting, Getting, In, PutLocs, GetLocs
<1> QED
  BY <1>1 DEF Tiers

(* A get of k goes on, or a call of k ends when there is no other put. *)
LEMMA CallGoesOn ==
    ASSUME NEW k \in Keys, Tiers(k), NEW t \in Threads,
           \A u \in Threads \ {t} : pc'[u] = pc[u] /\ arg'[u] = arg[u],
           \A u \in Threads \ {t} : ~Putting(u, k),
           ~Putting(t, k)', Getting(t, k)' => GetSoFar(t, k)',
           bin'[k] = bin[k], file' = file,
           l1'.data[k] = None \/ InL1(k)'
    PROVE  Tiers(k)'
<1>1. \A u \in Threads : ~Putting(u, k)'
  BY DEF Putting, In
<1>2. ASSUME NEW u \in Threads, u # t, Getting(u, k)'
      PROVE  GetSoFar(u, k)'
  <2>1. Getting(u, k) /\ pc'[u] = pc[u] /\ arg'[u] = arg[u]
    BY <1>2 DEF Getting, In
  <2>2. GetSoFar(u, k)
    BY <2>1 DEF Tiers
  <2> QED
    BY <2>1, <2>2 DEF GetSoFar
<1> QED
  BY <1>1, <1>2 DEF Tiers

(* What overlapped or failed once has done so for ever. *)
LEMMA ClashBefore ==
    ASSUME StateOK, DiskNext, NEW k \in Keys, clash'[k] = {}
    PROVE  clash[k] = {}
<1>1. CASE UNCHANGED clash
  BY <1>1
<1>2. ASSUME NEW t \in Threads, NEW j \in Keys, PutCall(t, j) \/ GetCall(t, j)
      PROVE  clash[k] \subseteq clash'[k]
  BY <1>2 DEF PutCall, GetCall, StateOK
<1>3. ASSUME NEW t \in Threads, PutPayloadFails(t)
      PROVE  clash[k] \subseteq clash'[k]
  BY <1>3 DEF PutPayloadFails, StateOK
<1> QED
  BY <1>1, <1>2, <1>3 DEF DiskNext, DiskSteps, EndCall, DiskCrash, dvars,
     hists, PutOpen, PutHeader, PutPayload, PutRename, GetOpen, GetHeader, GetPayload

(* A step of the disk keeps the tiers in agreement on k. *)
LEMMA DiskKeepsTiers ==
    ASSUME DiskInv, NEW k \in Keys, Atomic(k), Tiers(k), clash'[k] = {},
           NEW t \in Threads, DiskSteps(t), l1' = l1
    PROVE  Tiers(k)'
<1>0. /\ StateOK /\ ThreadsOK /\ NamesOK /\ ThreadOK(t)
      /\ pc \in [Threads -> Locs] /\ arg \in [Threads -> Arg] /\ arg[t] \in Arg
      /\ None \notin Inodes /\ None \notin Vals /\ k # None
  BY CacheAssumption DEF DiskInv, ThreadsOK, Inodes, Vals
<1> DEFINE j == arg[t].key
<1>1. ASSUME PutOpen(t) \/ PutHeader(t) \/ PutPayload(t) \/ PutPayloadFails(t) \/ PutRename(t)
      PROVE  Tiers(k)'
  <2>1. /\ pc[t] \in PutLocs /\ j \in Keys
    BY <1>0, <1>1 DEF PutOpen, PutHeader, PutPayload, PutPayloadFails, PutRename, PutLocs, ThreadOK
  <2>2. /\ pc'[t] \in PutLocs
        /\ \A u \in Threads \ {t} : pc'[u] = pc[u]
    BY <1>0, <1>1 DEF PutOpen, PutHeader, PutPayload, PutPayloadFails, PutRename, Goto, PutLocs
  <2>3. /\ arg'[t].key = j
        /\ \A u \in Threads \ {t} : arg'[u] = arg[u]
    BY <1>0, <1>1 DEF PutOpen, PutHeader, PutPayload, PutPayloadFails, PutRename, Arg
  <2>4. CASE j = k
    <3>1. Putting(t, k) /\ Putting(t, k)'
      BY <2>1, <2>2, <2>3, <2>4 DEF Putting, In
    <3>2. \A u \in Threads \ {t} : ~Getting(u, k)'
      BY <2>2, <2>3, <3>1 DEF Tiers, Getting, In
    <3> QED
      BY <3>1, <3>2, PutGoesOn
  <2>5. CASE j # k
    <3>1. bin'[k] = bin[k]
      BY <1>0, <1>1, <2>5 DEF StateOK, PutOpen, PutHeader, PutPayload, PutPayloadFails, PutRename, disk
    <3>2. file' = file \/ \E f, c : FileOf(f, j) /\ file' = [file EXCEPT ![f] = c]
      <4>1. CASE PutOpen(t)
        <5>1. FileOf(IF tmp[j] # None THEN tmp[j] ELSE arg[t].val, j)
          BY <1>0, <2>1, <4>1 DEF NamesOK, FileOf, ThreadOK, PutOpen
        <5> QED
          BY <4>1, <5>1 DEF PutOpen
      <4>2. CASE PutHeader(t) \/ PutPayload(t)
        <5>1. FileOf(arg[t].fd, j)
          BY <1>0, <4>2 DEF ThreadOK, PutHeader, PutPayload
        <5> QED
          BY <4>2, <5>1 DEF PutHeader, PutPayload
      <4>3. CASE PutPayloadFails(t) \/ PutRename(t)
        BY <4>3 DEF PutPayloadFails, PutRename, disk
      <4> QED
        BY <1>1, <4>1, <4>2, <4>3
    <3>3. bin[k] # None => file'[bin[k]] = file[bin[k]]
      BY <2>1, <2>5, <3>2, OtherFile
    <3> QED
      BY <2>2, <2>3, <2>5, <3>1, <3>3, AwayFrom
  <2> QED
    BY <2>4, <2>5
<1>2. ASSUME GetOpen(t) \/ GetHeader(t) \/ GetPayload(t)
      PROVE  Tiers(k)'
  <2>1. pc[t] \in GetLocs /\ bin' = bin /\ file' = file
    BY <1>2 DEF GetOpen, GetHeader, GetPayload, GetLocs, disk
  <2>2. \A u \in Threads \ {t} : pc'[u] = pc[u] /\ arg'[u] = arg[u]
    BY <1>0, <1>2 DEF GetOpen, GetHeader, GetPayload, Goto, Return
  <2>3. /\ pc'[t] \in {"idle"} \cup GetLocs
        /\ arg'[t].key \in {j, None}
    BY <1>0, <1>2 DEF GetOpen, GetHeader, GetPayload, Goto, Return, GetLocs, NoArg, Arg
  <2>4. CASE j # k
    BY <1>0, <2>1, <2>2, <2>3, <2>4, AwayFrom
  <2>5. CASE j = k
    <3>1. Getting(t, k) /\ GetSoFar(t, k) /\ \A u \in Threads : ~Putting(u, k)
      BY <2>1, <2>5 DEF Tiers, Getting, In
    <3>2. ~Putting(t, k)'
      BY <2>3 DEF Putting, In, PutLocs, GetLocs
    <3>3. l1'.data[k] = None \/ InL1(k)'
      BY <2>1, <3>1 DEF Tiers, InL1
    <3>4. ASSUME Getting(t, k)' PROVE GetSoFar(t, k)'
      <4>1. pc'[t] # "idle"
        BY <3>4 DEF Getting, In, GetLocs
      <4>2. CASE GetOpen(t)
        <5>1. /\ bin[k] # None /\ pc'[t] = "readhdr" /\ arg'[t].fd = bin[k]
          BY <1>0, <2>5, <4>1, <4>2 DEF GetOpen, Goto, Return, Arg
        <5> QED
          BY <2>1, <5>1 DEF GetSoFar
      <4>3. CASE GetHeader(t)
        <5>1. /\ pc[t] = "readhdr" /\ pc'[t] = "readbody" /\ arg'[t].fd = arg[t].fd
              /\ arg'[t].hdr = file[arg[t].fd].hdr
          BY <1>0, <4>1, <4>3 DEF GetHeader, Goto, Return, Arg
        <5> QED
          BY <2>1, <3>1, <5>1 DEF GetSoFar
      <4>4. CASE GetPayload(t)
        <5>1. /\ pc[t] = "readbody" /\ pc'[t] = "found" /\ arg'[t].val = arg[t].hdr
          BY <1>0, <4>1, <4>4 DEF GetPayload, Goto, Return, Arg
        <5> QED
          BY <2>1, <3>1, <5>1 DEF GetSoFar
      <4> QED
        BY <1>2, <4>2, <4>3, <4>4
    <3> QED
      BY <2>1, <2>2, <3>1, <3>2, <3>3, <3>4, CallGoesOn
  <2> QED
    BY <2>4, <2>5
<1> QED
  BY <1>1, <1>2 DEF DiskSteps

(* So does the beginning of a call, which finds no other that it clashes   *)
(* with.                                                                   *)
LEMMA CallKeepsTiers ==
    ASSUME DiskInv, NEW k \in Keys, Tiers(k), clash'[k] = {},
           NEW t \in Threads, NEW j \in Keys, PutCall(t, j) \/ GetCall(t, j), l1' = l1
    PROVE  Tiers(k)'
<1>0. /\ StateOK /\ pc \in [Threads -> Locs] /\ arg \in [Threads -> Arg] /\ ThreadOK(t) /\ k # None
  BY CacheAssumption DEF DiskInv, ThreadsOK
<1>1. /\ pc[t] = "idle" /\ arg[t] = NoArg /\ arg[t].key # k
      /\ bin' = bin /\ file' = file
  BY <1>0 DEF PutCall, GetCall, disk, ThreadOK, NoArg
<1>2. /\ \A u \in Threads \ {t} : pc'[u] = pc[u] /\ arg'[u] = arg[u]
      /\ arg'[t].key = j
  BY <1>0 DEF PutCall, GetCall, Goto, NoArg
<1>3. CASE j # k
  BY <1>1, <1>2, <1>3, AwayFrom
<1>4. CASE j = k /\ PutCall(t, j)
  <2>1. Clashes(t, k, GetLocs, "get") = {}
    BY <1>0, <1>4 DEF PutCall, StateOK
  <2>2. \A u \in Threads \ {t} : ~Getting(u, k)
    BY <2>1 DEF Clashes, Getting
  <2>3. \A u \in Threads \ {t} : ~Getting(u, k)'
    BY <1>2, <2>2 DEF Getting, In
  <2>4. Putting(t, k)'
    BY <1>0, <1>2, <1>4 DEF PutCall, Goto, Putting, In, PutLocs
  <2> QED
    BY <2>3, <2>4, PutGoesOn
<1>5. CASE j = k /\ GetCall(t, j)
  <2>1. Clashes(t, k, PutLocs, "get") = {}
    BY <1>0, <1>5 DEF GetCall, StateOK
  <2>2. \A u \in Threads \ {t} : ~Putting(u, k)
    BY <2>1 DEF Clashes, Putting
  <2>3. ~Putting(t, k)
    BY <1>1 DEF Putting, In
  <2>4. pc'[t] = "lookup"
    BY <1>0, <1>5 DEF GetCall, Goto
  <2>5. ~Putting(t, k)' /\ GetSoFar(t, k)'
    BY <2>4 DEF Putting, In, PutLocs, GetSoFar
  <2>6. l1'.data[k] = None \/ InL1(k)'
    BY <1>1, <2>2, <2>3 DEF Tiers, InL1
  <2> QED
    BY <1>1, <1>2, <2>2, <2>5, <2>6, CallGoesOn
<1> QED
  BY <1>3, <1>4, <1>5

(* And its end in L1: what is put there is what the file has. *)
LEMMA EndKeepsTiers ==
    ASSUME DiskInv, Accounted(l1), NEW k \in Keys, Atomic(k), Tiers(k),
           NEW t \in Threads, GetPromote(t) \/ PutL1(t) \/ PutThrows(t)
    PROVE  Tiers(k)'
<1>0. /\ pc \in [Threads -> Locs] /\ arg \in [Threads -> Arg] /\ ThreadOK(t) /\ k # None
      /\ pc[t] \in {"found", "stored", "threw"}
  BY CacheAssumption DEF DiskInv, ThreadsOK, GetPromote, PutL1, PutThrows
<1>1. PICK j, v : j = arg[t].key /\ v = arg[t].val
  OBVIOUS
<1>2. j \in Keys /\ (pc[t] \in {"found", "stored"} => v \in Vals)
  <2>1. arg[t] \in Arg /\ arg[t].key \in Keys
    BY <1>0 DEF ThreadOK
  <2>2. pc[t] \in {"found", "stored"} => arg[t].val # None
    BY <1>0, CacheAssumption DEF ThreadOK, PutLocs
  <2> QED
    BY <1>1, <2>1, <2>2 DEF Arg
<1>3. /\ bin' = bin /\ file' = file
      /\ pc' = [pc EXCEPT ![t] = "idle"] /\ arg' = [arg EXCEPT ![t] = NoArg]
  BY DEF GetPromote, PutL1, PutThrows, Return, Goto, disk
<1>4. /\ \A u \in Threads \ {t} : pc'[u] = pc[u] /\ arg'[u] = arg[u]
      /\ pc'[t] = "idle" /\ arg'[t].key = None
  BY <1>0, <1>3 DEF NoArg
<1>5. ~Putting(t, k)' /\ ~Getting(t, k)'
  BY <1>4 DEF Putting, Getting, In, PutLocs, GetLocs
<1>6. \/ l1' = l1 /\ ((pc[t] = "found" /\ l1.data[j] # None) \/ pc[t] = "threw")
      \/ pc[t] \in {"found", "stored"} /\ l1.data[j] = None /\ l1' = l1_put_locked(l1, j, v)
      \/ pc[t] = "stored" /\ l1.data[j] # None /\ l1' = l1_update(l1, j, v)
  BY <1>1 DEF GetPromote, PutL1, PutThrows
<1>7. /\ j # k => l1'.data[k] \in {l1.data[k], None}
      /\ \/ l1' = l1 /\ pc[t] \in {"found", "threw"}
         \/ pc[t] \in {"found", "stored"} /\ l1'.data[j] = v
  BY <1>2, <1>6, Inserted, Updated
<1>8. CASE j # k
  BY <1>0, <1>1, <1>3, <1>4, <1>7, <1>8, AwayFrom
<1>9. CASE j = k /\ pc[t] = "found"
  <2>1. Getting(t, k)
    BY <1>1, <1>9 DEF Getting, In, GetLocs
  <2>2. GetSoFar(t, k) /\ \A u \in Threads : ~Putting(u, k)
    BY <2>1 DEF Tiers
  <2>3. bin[k] # None /\ v = file[bin[k]].hdr
    BY <1>1, <1>9, <2>2 DEF GetSoFar
  <2>4. l1'.data[k] = None \/ InL1(k)'
    BY <1>3, <1>7, <1>9, <2>2, <2>3 DEF Tiers, InL1
  <2> QED
    BY <1>3, <1>4, <1>5, <2>2, <2>4, CallGoesOn
<1>10. CASE j = k /\ pc[t] \in {"stored", "threw"}
  <2>1. Putting(t, k)
    BY <1>1, <1>10 DEF Putting, In, PutLocs
  <2>2. PutSoFar(t, k) /\ \A u \in Threads \ {t} : ~Putting(u, k)
    BY <2>1 DEF Atomic
  <2>3. pc[t] = "stored" /\ bin[k] # None /\ v = file[bin[k]].hdr
    BY <1>1, <1>10, <2>2 DEF PutSoFar
  <2>4. InL1(k)'
    BY <1>3, <1>7, <1>10, <2>3 DEF InL1
  <2> QED
    BY <1>3, <1>4, <1>5, <2>2, <2>4, CallGoesOn
<1> QED
  BY <1>0, <1>8, <1>9, <1>10

(* Every step keeps the tiers in agreement. *)
LEMMA TierInductive ==
    ASSUME DiskInv, L1Inv, AtomicInv, TierInv, [Next]_vars
    PROVE  TierInv'
<1> SUFFICES ASSUME NEW k \in Keys, clash'[k] = {} PROVE Tiers(k)'
  BY DEF TierInv
<1>0. Atomic(k) /\ Tiers(k) /\ Accounted(l1)
  <2>1. clash[k] = {}
    BY StepsOfDisk, ClashBefore DEF DiskInv
  <2> QED
    BY <2>1 DEF AtomicInv, Undisturbed, TierInv, L1Inv
<1>1. CASE UNCHANGED vars
  <2>1. UNCHANGED <<pc, arg, bin, file, l1>>
    BY <1>1 DEF vars
  <2> QED
    BY <1>0, <2>1 DEF Tiers, Getting, Putting, In, GetSoFar, InL1
<1>2. ASSUME NEW t \in Threads, NEW j \in Keys, GetHit(t, j)
      PROVE  Tiers(k)'
  <2>1. UNCHANGED <<pc, arg, bin, file>> /\ l1'.data = l1.data
    BY <1>0, <1>2, Touched DEF GetHit, dvars
  <2> QED
    BY <1>0, <2>1 DEF Tiers, Getting, Putting, In, GetSoFar, InL1
<1>3. ASSUME NEW t \in Threads, NEW j \in Keys,
             GetMiss(t, j) \/ (PutCall(t, j) /\ UNCHANGED <<l1, crashes>>)
      PROVE  Tiers(k)'
  BY <1>0, <1>3, CallKeepsTiers DEF GetMiss
<1>4. ASSUME NEW t \in Threads, DiskSteps(t), UNCHANGED <<l1, crashes>>
      PROVE  Tiers(k)'
  BY <1>0, <1>4, DiskKeepsTiers
<1>5. ASSUME NEW t \in Threads, GetPromote(t) \/ PutL1(t) \/ PutThrows(t)
      PROVE  Tiers(k)'
  BY <1>0, <1>5, EndKeepsTiers
<1>6. CASE Crash
  <2>1. /\ \A t \in Threads : pc'[t] = "idle"
        /\ l1'.data[k] = None
    BY <1>6 DEF Crash, DiskCrash, EmptyL1
  <2> QED
    BY <2>1 DEF Tiers, Getting, Putting, In, GetLocs, PutLocs
<1> QED
  BY <1>1, <1>2, <1>3, <1>4, <1>5, <1>6 DEF Next

(* On a key that nobody is using, if no put of it has overlapped another   *)
(* call or failed, L1 has nothing or what get would read from disk, after  *)
(* whatever evictions, promotions and crashes.                             *)
THEOREM TiersAlwaysAgree == Spec => []TiersAgree
<1>1. Init => TierInv
  BY DEF Init, DiskInit, EmptyL1, TierInv, Tiers, Getting, Putting, In, GetLocs, PutLocs
<1>2. TierInv /\ L1Inv /\ AtomicInv /\ DiskInv /\ [Next]_vars => TierInv'
  BY TierInductive
<1>3. TierInv /\ AtomicInv => TiersAgree
  <2> SUFFICES ASSUME TierInv, AtomicInv, NEW k \in Keys, clash[k] = {},
                      \A t \in Threads : arg[t].key # k, l1.data[k] # None
               PROVE  Whole(k) /\ l1.data[k] = file[bin[k]].hdr
    BY DEF TiersAgree
  <2>1. Atomic(k) /\ Tiers(k)
    BY DEF TierInv, AtomicInv, Undisturbed
  <2>2. \A t \in Threads : ~Putting(t, k)
    BY DEF Putting, In
  <2> QED
    BY <2>1, <2>2 DEF Atomic, Tiers, InL1
<1> QED
  BY <1>1, <1>2, <1>3, L1Invariant, AtomicInvariant, DiskInvariant, PTL DEF Spec

=============================================================================
