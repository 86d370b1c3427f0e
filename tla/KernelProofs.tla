---------------------------- MODULE KernelProofs ----------------------------
(***************************************************************************)
(* The computations for inputs of any size: the GEMM kernels and the       *)
(* attention kernel for every launch they are written for, the grid        *)
(* searches that choose their tiles, successive halving, speculative       *)
(* decoding for every pair of distributions, the FP8 conversions for every *)
(* exponent and width of a float, and MCCompute, which runs one of them at *)
(* a time.                                                                 *)
(***************************************************************************)
EXTENDS MCCompute, SequenceTheorems, FiniteSetTheorems, WellFoundedInduction, TLAPS

-----------------------------------------------------------------------------
(* The inductive invariant *)

(* The launch is one a kernel is written for. *)
JobOK == job \in GemmJobs

(* The first n products of the element in row r and column c. *)
Partial(r, c, n) == [m \in 1 .. n |-> <<<<r * job.K + m - 1>>, <<(m - 1) * job.N + c>>>>]

(* The products there are when the loop has come to n. *)
Upto(n) == IF n < job.K THEN n ELSE job.K

(* The thread that accumulates element i of the output tile. *)
Owner(i) == (i * job.T) \div (job.BM * job.BN)

(* The accumulators of the elements inside C have come to n. *)
SumsAt(n) == \A i \in Cells : InRange(i) => acc[i] = Partial(Row(i), Col(i), Upto(n))

(* The phase of the loads: a thread at the barrier has loaded its share of *)
(* the tiles.                                                              *)
Loading(n) ==
    /\ \A t \in Threads : pc[t] \in {"load", "sync1"} /\ kb[t] = n
    /\ n < job.K /\ n % job.BK = 0
    /\ \A i \in DOMAIN sA : pc[i % job.T] = "sync1" => sA[i] = TileA(i, n)
    /\ \A i \in DOMAIN sB : pc[i % job.T] = "sync1" => sB[i] = TileB(i, n)
    /\ SumsAt(n)

(* The phase of the products: the tiles are complete, and a thread at the  *)
(* barrier has added its products.                                         *)
Multiplying(n) ==
    /\ \A t \in Threads : pc[t] \in {"mma", "sync2"} /\ kb[t] = n
    /\ n < job.K /\ n % job.BK = 0
    /\ \A i \in DOMAIN sA : sA[i] = TileA(i, n)
    /\ \A i \in DOMAIN sB : sB[i] = TileB(i, n)
    /\ \A i \in Cells : InRange(i) =>
          acc[i] = Partial(Row(i), Col(i), Upto(IF pc[Owner(i)] = "mma" THEN n ELSE n + job.BK))

(* The sums are complete, and a thread that is through has stored its own, *)
(* in C or, with a barrier to follow, in the shared tile.                  *)
Storing ==
    /\ \A t \in Threads : pc[t] \in {"store", IF job.kernel = "wmma" THEN "sync3" ELSE "done"}
    /\ SumsAt(job.K)
    /\ \A i \in Cells : InRange(i) =>
          /\ pc[Owner(i)] = "sync3" => sC[i] = acc[i]
          /\ pc[Owner(i)] = "done" => C[Addr(i)] = Product(Addr(i))

(* The shared tile is complete, and a thread that is through has written   *)
(* its share of it to C.                                                   *)
Scattering ==
    /\ \A t \in Threads : pc[t] \in {"scatter", "done"}
    /\ job.kernel = "wmma"
    /\ \A i \in Cells : InRange(i) =>
          /\ sC[i] = Partial(Row(i), Col(i), job.K)
          /\ pc[i % job.T] = "done" => C[Addr(i)] = Product(Addr(i))

(* Where a thread can be. *)
Labels == {"load", "sync1", "mma", "sync2", "store", "sync3", "scatter", "done"}

(* The values of the block's variables have the right domains. *)
Shape ==
    /\ pc \in [Threads -> Labels]
    /\ kb \in [Threads -> Nat]
    /\ DOMAIN sA = 0 .. job.BM * job.BK - 1
    /\ DOMAIN sB = 0 .. job.BK * job.BN - 1

(* The running block. *)
BlockInv ==
    /\ Shape
    /\ \/ \E n \in Nat : Loading(n) \/ Multiplying(n)
       \/ Storing
       \/ Scattering

(* The block that element e of C belongs to. *)
BlockOf(e) == ((e \div job.N) \div job.BM) * GridX + (e % job.N) \div job.BN

(* What has been stored is right, and the blocks that have run have stored *)
(* all their elements.                                                     *)
StoredOK ==
    /\ DOMAIN C = 0 .. job.M * job.N - 1
    /\ \A e \in DOMAIN C : /\ C[e] \in {NoSum, Product(e)}
                           /\ BlockOf(e) < block => C[e] = Product(e)

(* GemmExact is inductive with the phase the block is in. *)
GemmInv ==
    \/ job = Throw /\ block = 0 /\ C = <<>>
    \/ /\ JobOK
       /\ block \in 0 .. Blocks
       /\ StoredOK
       /\ block < Blocks => BlockInv

-----------------------------------------------------------------------------
(* Arithmetic *)

(* Quotient and remainder. *)
LEMMA DivMod ==
    ASSUME NEW a \in Nat, NEW b \in Nat \ {0}
    PROVE  a \div b \in Nat /\ a % b \in 0 .. b - 1 /\ a = (a \div b) * b + (a % b)
<1>1. a \div b \in Nat
  OBVIOUS
<1>2. a % b \in 0 .. b - 1
  OBVIOUS
<1>3. a = (a \div b) * b + (a % b)
  OBVIOUS
<1> QED
  BY <1>1, <1>2, <1>3

(* They are unique. *)
LEMMA DivModUnique ==
    ASSUME NEW q \in Nat, NEW b \in Nat \ {0}, NEW r \in 0 .. b - 1
    PROVE  (q * b + r) \div b = q /\ (q * b + r) % b = r
  OBVIOUS

(* Products of naturals. *)
LEMMA Products ==
    ASSUME NEW a \in Nat, NEW b \in Nat, NEW c \in Nat
    PROVE  /\ a * b \in Nat
           /\ a <= b => a * c <= b * c
           /\ (a + 1) * c = a * c + c
<1>1. a * b \in Nat
  OBVIOUS
<1>2. a <= b => a * c <= b * c
  OBVIOUS
<1>3. (a + 1) * c = a * c + c
  OBVIOUS
<1> QED
  BY <1>1, <1>2, <1>3

(* The element in row q and column r of a matrix of p rows and b columns. *)
LEMMA FlatIndex ==
    ASSUME NEW b \in Nat \ {0}, NEW p \in Nat, NEW q \in 0 .. p - 1, NEW r \in 0 .. b - 1
    PROVE  /\ q * b + r \in 0 .. p * b - 1
           /\ (q * b + r) \div b = q /\ (q * b + r) % b = r
<1>1. q \in Nat /\ q + 1 \in Nat /\ q + 1 <= p /\ b \in Nat /\ r \in Nat
  OBVIOUS
<1>2. (q + 1) * b <= p * b /\ (q + 1) * b = q * b + b /\ q * b \in Nat /\ p * b \in Nat
  BY <1>1, Products
<1>3. q * b + r \in 0 .. p * b - 1
  BY <1>2
<1> QED
  BY <1>1, <1>3, DivModUnique

(* The other way round: the row and the column of a flat index. *)
LEMMA RowCol ==
    ASSUME NEW b \in Nat \ {0}, NEW p \in Nat, NEW e \in 0 .. p * b - 1
    PROVE  e \div b \in 0 .. p - 1 /\ e % b \in 0 .. b - 1 /\ e = (e \div b) * b + (e % b)
<1>1. p * b \in Nat /\ e \in Nat
  OBVIOUS
<1>2. e \div b \in Nat /\ e % b \in 0 .. b - 1 /\ e = (e \div b) * b + (e % b)
  BY <1>1, DivMod
<1>3. SUFFICES ASSUME p <= e \div b
               PROVE  FALSE
  BY <1>2
<1>4. p * b <= (e \div b) * b
  BY <1>2, <1>3, Products
<1>5. (e \div b) * b \in Nat
  BY <1>2, Products
<1> QED
  BY <1>1, <1>2, <1>4, <1>5

(* The tile of an index inside the matrix is inside the grid. *)
LEMMA CeilDivCovers ==
    ASSUME NEW a \in Nat \ {0}, NEW b \in Nat \ {0}
    PROVE  /\ CeilDiv(a, b) \in Nat \ {0}
           /\ \A x \in 0 .. a - 1 : x \div b \in 0 .. CeilDiv(a, b) - 1
<1>1. a + b - 1 \in Nat
  OBVIOUS
<1> DEFINE c == (a + b - 1) \div b
           d == (a + b - 1) % b
<1>2. c \in Nat /\ d \in 0 .. b - 1 /\ a + b - 1 = c * b + d
  BY <1>1, DivMod
<1> HIDE DEF c, d
<1>3. ASSUME NEW x \in 0 .. a - 1
      PROVE  x \div b \in 0 .. c - 1
  <2> DEFINE q == x \div b
             r == x % b
  <2>1. q \in Nat /\ r \in 0 .. b - 1 /\ x = q * b + r
    BY DivMod
  <2> HIDE DEF q, r
  <2>2. SUFFICES ASSUME c <= q
                 PROVE  FALSE
    BY <1>2, <2>1 DEF q
  <2>3. c * b <= q * b /\ c * b \in Nat /\ q * b \in Nat
    BY <1>2, <2>1, <2>2, Products
  <2> QED
    BY <1>2, <2>1, <2>3
<1>4. c \in Nat \ {0}
  <2>1. 0 \in 0 .. a - 1
    OBVIOUS
  <2>2. 0 \div b \in 0 .. c - 1
    BY <1>3, <2>1
  <2> QED
    BY <1>2, <2>2
<1> QED
  BY <1>3, <1>4 DEF CeilDiv, c

(* If the tile divides the matrix, every tile of the grid is inside it. *)
LEMMA CeilDivExact ==
    ASSUME NEW a \in Nat \ {0}, NEW b \in Nat \ {0}, a % b = 0,
           NEW q \in 0 .. CeilDiv(a, b) - 1, NEW r \in 0 .. b - 1
    PROVE  q * b + r < a
<1> DEFINE c == a \div b
<1>1. c \in Nat /\ a = c * b
  <2>1. c \in Nat /\ a = c * b + (a % b)
    BY DivMod
  <2>2. c * b \in Nat
    BY <2>1, Products
  <2> QED
    BY <2>1, <2>2
<1> HIDE DEF c
<1>2. CeilDiv(a, b) = c
  <2>1. b - 1 \in 0 .. b - 1
    OBVIOUS
  <2>2. (c * b + (b - 1)) \div b = c
    BY <1>1, <2>1, DivModUnique
  <2>3. a + b - 1 = c * b + (b - 1)
    BY <1>1
  <2> QED
    BY <2>2, <2>3 DEF CeilDiv
<1>3. q * b + r \in 0 .. c * b - 1
  <2>1. q \in 0 .. c - 1
    BY <1>2
  <2> QED
    BY <1>1, <2>1, FlatIndex
<1> QED
  BY <1>1, <1>3

(* The next multiple of b is within a multiple of b. *)
LEMMA NextMultiple ==
    ASSUME NEW a \in Nat, NEW b \in Nat \ {0}, NEW n \in Nat, n % b = 0
    PROVE  (n + b) % b = 0 /\ (a % b = 0 /\ n < a => n + b <= a)
<1> DEFINE q == n \div b
           c == a \div b
<1>1. q \in Nat /\ n = q * b + 0 /\ q * b \in Nat
  <2>1. q \in Nat /\ n = q * b + (n % b)
    BY DivMod
  <2> QED
    BY <2>1, Products
<1>2. c \in Nat /\ a = c * b + (a % b) /\ c * b \in Nat
  <2>1. c \in Nat /\ a = c * b + (a % b)
    BY DivMod
  <2> QED
    BY <2>1, Products
<1> HIDE DEF q, c
<1>3. (q + 1) * b = q * b + b /\ q + 1 \in Nat
  BY <1>1, Products
<1>4. (n + b) % b = 0
  <2>1. 0 \in 0 .. b - 1
    OBVIOUS
  <2>2. ((q + 1) * b + 0) % b = 0
    BY <1>3, <2>1, DivModUnique
  <2>3. n + b = (q + 1) * b + 0
    BY <1>1, <1>3
  <2> QED
    BY <2>2, <2>3
<1>5. ASSUME a % b = 0, n < a
      PROVE  n + b <= a
  <2>1. SUFFICES ASSUME c <= q
                 PROVE  FALSE
    <3>1. q + 1 <= c => (q + 1) * b <= c * b
      BY <1>2, <1>3, Products
    <3> QED
      BY <1>1, <1>2, <1>3, <1>5, <3>1
  <2>2. c * b <= q * b
    BY <1>1, <1>2, <2>1, Products
  <2> QED
    BY <1>1, <1>2, <1>5, <2>2
<1> QED
  BY <1>4, <1>5

-----------------------------------------------------------------------------
(* Geometry *)

(* The sizes of a launch. *)
LEMMA JobFacts ==
    ASSUME JobOK
    PROVE  /\ job.kernel \in {"fp32", "wmma", "xmx"}
           /\ job.M \in Nat \ {0} /\ job.N \in Nat \ {0} /\ job.K \in Nat
           /\ job.BM \in Nat \ {0} /\ job.BN \in Nat \ {0} /\ job.BK \in Nat \ {0}
           /\ job.T \in Nat \ {0}
           /\ job.kernel = "xmx" => /\ job.T = 1 /\ job.M % job.BM = 0
                                    /\ job.N % job.BN = 0 /\ job.K % job.BK = 0
  BY DEF JobOK, GemmJobs

(* The grid has blocks, and a block of it a row and a column. *)
LEMMA GridFacts ==
    ASSUME JobOK
    PROVE  /\ GridX \in Nat \ {0} /\ CeilDiv(job.M, job.BM) \in Nat \ {0} /\ Blocks \in Nat \ {0}
           /\ block \in 0 .. Blocks - 1 =>
                /\ By \in 0 .. CeilDiv(job.M, job.BM) - 1 /\ Bx \in 0 .. GridX - 1
                /\ block = By * GridX + Bx
<1>1. GridX \in Nat \ {0} /\ CeilDiv(job.M, job.BM) \in Nat \ {0}
  BY JobFacts, CeilDivCovers DEF GridX
<1> DEFINE g == GridX
           h == CeilDiv(job.M, job.BM)
<1>2. Blocks = h * g
  <2>1. Blocks = g * h
    BY DEF Blocks
  <2> HIDE DEF g, h
  <2>2. g \in Nat /\ h \in Nat
    BY <1>1 DEF g, h
  <2> QED
    BY <2>1, <2>2
<1> HIDE DEF g, h
<1>3. g \in Nat \ {0} /\ h \in Nat \ {0}
  BY <1>1 DEF g, h
<1>4. h * g \in Nat \ {0}
  BY <1>3
<1>5. ASSUME block \in 0 .. h * g - 1
      PROVE  block \div g \in 0 .. h - 1 /\ block % g \in 0 .. g - 1
             /\ block = (block \div g) * g + (block % g)
  BY <1>3, <1>5, RowCol
<1> QED
  BY <1>1, <1>2, <1>4, <1>5 DEF By, Bx, g, h

(* A cell has a row and a column in the tile. *)
LEMMA CellFacts ==
    ASSUME JobOK, block \in 0 .. Blocks - 1, NEW i \in Cells
    PROVE  /\ i \in Nat
           /\ i \div job.BN \in 0 .. job.BM - 1 /\ i % job.BN \in 0 .. job.BN - 1
           /\ Row(i) \in Nat /\ Col(i) \in Nat
           /\ i % job.T \in Threads
<1>1. i \in 0 .. job.BM * job.BN - 1 /\ job.BM \in Nat /\ job.BN \in Nat \ {0} /\ job.T \in Nat \ {0}
  BY JobFacts DEF Cells
<1>2. i \in Nat /\ i \div job.BN \in 0 .. job.BM - 1 /\ i % job.BN \in 0 .. job.BN - 1
  <2>1. i \div job.BN \in 0 .. job.BM - 1 /\ i % job.BN \in 0 .. job.BN - 1
    BY <1>1, RowCol
  <2>2. job.BM * job.BN \in Nat
    BY <1>1, Products
  <2> QED
    BY <1>1, <2>1, <2>2
<1>3. By \in Nat /\ Bx \in Nat
  BY GridFacts
<1>4. By * job.BM \in Nat /\ Bx * job.BN \in Nat
  BY <1>1, <1>3, Products
<1>5. Row(i) \in Nat /\ Col(i) \in Nat
  BY <1>2, <1>4 DEF Row, Col
<1>6. i % job.T \in Threads
  BY <1>1, <1>2, DivMod DEF Threads
<1> QED
  BY <1>2, <1>5, <1>6

(* A thread accumulates each cell of a tile of s elements. *)
LEMMA ShareOf ==
    ASSUME NEW s \in Nat \ {0}, NEW n \in Nat \ {0}, NEW i \in 0 .. s - 1
    PROVE  (i * n) \div s \in 0 .. n - 1
<1>1. i * n + 0 \in 0 .. s * n - 1
  <2>1. 0 \in 0 .. n - 1
    OBVIOUS
  <2> QED
    BY <2>1, FlatIndex
<1>2. i * n \in 0 .. n * s - 1
  BY <1>1
<1> QED
  BY <1>2, RowCol

(* The same of the block's output tile. *)
LEMMA OwnerIsThread ==
    ASSUME JobOK, NEW i \in Cells
    PROVE  Owner(i) \in Threads
<1>1. job.T \in Nat \ {0} /\ job.BM * job.BN \in Nat \ {0} /\ i \in 0 .. job.BM * job.BN - 1
  BY JobFacts DEF Cells
<1> QED
  BY <1>1, ShareOf DEF Owner, Threads

(* The address of a cell inside C, and the way back. *)
LEMMA AddrFacts ==
    ASSUME JobOK, block \in 0 .. Blocks - 1, NEW i \in Cells, InRange(i)
    PROVE  /\ Addr(i) \in 0 .. job.M * job.N - 1
           /\ Addr(i) \div job.N = Row(i) /\ Addr(i) % job.N = Col(i)
           /\ Product(Addr(i)) = Partial(Row(i), Col(i), job.K)
<1>1. Row(i) \in 0 .. job.M - 1 /\ Col(i) \in 0 .. job.N - 1
  BY JobFacts, CellFacts DEF InRange
<1>2. /\ Addr(i) \in 0 .. job.M * job.N - 1
      /\ Addr(i) \div job.N = Row(i) /\ Addr(i) % job.N = Col(i)
  <2>1. job.M \in Nat /\ job.N \in Nat \ {0}
    BY JobFacts
  <2> QED
    BY <1>1, <2>1, FlatIndex DEF Addr
<1> QED
  BY <1>2 DEF Product, Partial

(* Every element of C has a cell in its block. *)
LEMMA CellOf ==
    ASSUME JobOK, NEW e \in 0 .. job.M * job.N - 1
    PROVE  /\ BlockOf(e) \in 0 .. Blocks - 1
           /\ block = BlockOf(e) => \E i \in Cells : InRange(i) /\ Addr(i) = e
<1> DEFINE r == e \div job.N
           c == e % job.N
           y == r \div job.BM
           x == c \div job.BN
           i == (r % job.BM) * job.BN + (c % job.BN)
<1>1. r \in 0 .. job.M - 1 /\ c \in 0 .. job.N - 1 /\ e = r * job.N + c
  BY JobFacts, RowCol
<1> HIDE DEF r, c
<1>a. r \in Nat /\ c \in Nat /\ job.BM \in Nat \ {0} /\ job.BN \in Nat \ {0} /\ job.BM \in Nat
  BY <1>1, JobFacts
<1>2. /\ y \in 0 .. CeilDiv(job.M, job.BM) - 1
      /\ x \in 0 .. GridX - 1
  BY <1>1, JobFacts, CeilDivCovers DEF GridX
<1>3. r = y * job.BM + (r % job.BM) /\ r % job.BM \in 0 .. job.BM - 1
  BY <1>a, DivMod
<1>4. c = x * job.BN + (c % job.BN) /\ c % job.BN \in 0 .. job.BN - 1
  BY <1>a, DivMod
<1>5. i \in Cells /\ i \div job.BN = r % job.BM /\ i % job.BN = c % job.BN
  <2> DEFINE u == r % job.BM
             v == c % job.BN
  <2>1. u \in 0 .. job.BM - 1 /\ v \in 0 .. job.BN - 1
    BY <1>3, <1>4
  <2> HIDE DEF u, v
  <2>2. /\ u * job.BN + v \in 0 .. job.BM * job.BN - 1
        /\ (u * job.BN + v) \div job.BN = u /\ (u * job.BN + v) % job.BN = v
    BY <1>a, <2>1, FlatIndex, ZenonT(20)
  <2> QED
    BY <2>2 DEF Cells, u, v
<1> HIDE DEF y, x, i
<1>6. BlockOf(e) = y * GridX + x
  BY DEF BlockOf, y, x, r, c
<1>7. /\ BlockOf(e) \in 0 .. CeilDiv(job.M, job.BM) * GridX - 1
      /\ BlockOf(e) \div GridX = y /\ BlockOf(e) % GridX = x
  <2>1. CeilDiv(job.M, job.BM) \in Nat /\ GridX \in Nat \ {0}
    BY GridFacts
  <2>2. /\ y * GridX + x \in 0 .. CeilDiv(job.M, job.BM) * GridX - 1
        /\ (y * GridX + x) \div GridX = y /\ (y * GridX + x) % GridX = x
    BY <1>2, <2>1, FlatIndex, ZenonT(20)
  <2> QED
    BY <1>6, <2>2, Zenon
<1>8. BlockOf(e) \in 0 .. Blocks - 1
  <2>1. CeilDiv(job.M, job.BM) \in Nat /\ GridX \in Nat
    BY GridFacts
  <2>2. CeilDiv(job.M, job.BM) * GridX = GridX * CeilDiv(job.M, job.BM)
    BY <2>1
  <2> QED
    BY <1>7, <2>2 DEF Blocks
<1>9. ASSUME block = BlockOf(e)
      PROVE  InRange(i) /\ Addr(i) = e
  <2>1. By = y /\ Bx = x
    BY <1>7, <1>9 DEF By, Bx
  <2>2. Row(i) = r /\ Col(i) = c
    BY <1>3, <1>4, <1>5, <2>1 DEF Row, Col
  <2>3. r < job.M /\ c < job.N
    BY <1>1, JobFacts
  <2> QED
    BY <1>1, <2>2, <2>3 DEF InRange, Addr
<1> QED
  BY <1>5, <1>8, <1>9

-----------------------------------------------------------------------------
(* The sum over the columns of a tile *)

(* Induction up to n, for a set. *)
LEMMA UpTo ==
    ASSUME NEW n \in Nat, NEW S, 0 \in S,
           \A i \in 1..n : i - 1 \in S => i \in S
    PROVE  \A i \in 0..n : i \in S
<1> DEFINE T == {i \in 0..n : i \notin S}
<1> SUFFICES ASSUME T # {} PROVE FALSE
  OBVIOUS
<1>1. PICK i \in T : \A j \in T : ~(<<j, i>> \in OpToRel(<, Nat))
  <2>1. T \subseteq Nat
    OBVIOUS
  <2> HIDE DEF T
  <2> QED
    BY <2>1, NatLessThanWellFounded, WFMin
<1>2. \A j \in T : j \in 0..n /\ j \in Nat /\ j \notin S
  OBVIOUS
<1>3. i \in 0..n /\ i \in Nat /\ i \notin S /\ i # 0
  BY <1>2
<1>4. i \in 1..n /\ i - 1 \in 0..n /\ i - 1 \in Nat /\ i - 1 < i
  BY <1>3
<1>5. i - 1 \in T
  BY <1>3, <1>4
<1>6. <<i - 1, i>> \in OpToRel(<, Nat)
  BY <1>3, <1>4 DEF OpToRel
<1> QED
  BY <1>1, <1>5, <1>6

(* One turn of the loop: the sum s before column k, and after it. *)
Turn(s, kk, i, A, B) ==
    LET x == A[(i \div job.BN) * job.BK + kk - 1]
        y == B[(kk - 1) * job.BN + (i % job.BN)]
    IN  IF Zero \in {x, y} THEN s ELSE Append(s, <<x, y>>)

(* g does the first n turns. *)
DoesTurns(g, n, a, i, A, B) ==
    g = [kk \in 0 .. n |-> IF kk = 0 THEN a ELSE Turn(g[kk - 1], kk, i, A, B)]

(* There is such a function: the recursion is well defined. *)
LEMMA SumsExist ==
    ASSUME NEW a, NEW i, NEW A, NEW B, NEW n \in Nat
    PROVE  \E g : DoesTurns(g, n, a, i, A, B)
<1> DEFINE S == {kk \in Nat : \E g : DoesTurns(g, kk, a, i, A, B)}
<1>1. 0 \in S
  <2> DEFINE g == [kk \in 0 .. 0 |-> a]
  <2>1. DoesTurns(g, 0, a, i, A, B)
    BY DEF DoesTurns
  <2> QED
    BY <2>1
<1>2. ASSUME NEW kk \in 1 .. n, kk - 1 \in S
      PROVE  kk \in S
  <2>1. PICK g : DoesTurns(g, kk - 1, a, i, A, B)
    BY <1>2
  <2> DEFINE h == [j \in 0 .. kk |-> IF j = kk THEN Turn(g[kk - 1], kk, i, A, B) ELSE g[j]]
  <2>2. ASSUME NEW j \in 0 .. kk
        PROVE  h[j] = IF j = 0 THEN a ELSE Turn(h[j - 1], j, i, A, B)
    <3>1. CASE j = kk
      <4>1. j # 0 /\ h[j - 1] = g[kk - 1]
        BY <3>1
      <4> QED
        BY <3>1, <4>1
    <3>2. CASE j # kk
      <4>1. j \in 0 .. (kk - 1) /\ h[j] = g[j]
        BY <3>2
      <4>2. j # 0 => h[j - 1] = g[j - 1]
        BY <3>2
      <4>3. g[j] = IF j = 0 THEN a ELSE Turn(g[j - 1], j, i, A, B)
        BY <2>1, <4>1 DEF DoesTurns
      <4> QED
        BY <4>1, <4>2, <4>3
    <3> QED
      BY <3>1, <3>2
  <2>3. DoesTurns(h, kk, a, i, A, B)
    <3> HIDE DEF h
    <3>1. h = [j \in 0 .. kk |-> h[j]]
      BY DEF h
    <3> QED
      BY <2>2, <3>1 DEF DoesTurns
  <2> QED
    BY <2>3
<1>3. \A kk \in 0 .. n : kk \in S
  <2> HIDE DEF S
  <2> QED
    BY <1>1, <1>2, UpTo
<1> QED
  BY <1>3

(* What Sums is. *)
LEMMA SumsDef ==
    ASSUME JobOK, NEW a, NEW i, NEW A, NEW B
    PROVE  /\ Sums(a, i, A, B)[0] = a
           /\ \A kk \in 1 .. job.BK :
                 Sums(a, i, A, B)[kk] = Turn(Sums(a, i, A, B)[kk - 1], kk, i, A, B)
<1> DEFINE g == Sums(a, i, A, B)
<1>1. g = CHOOSE f : DoesTurns(f, job.BK, a, i, A, B)
  BY DEF Sums, DoesTurns, Turn
<1>2. DoesTurns(g, job.BK, a, i, A, B)
  <2> HIDE DEF g
  <2>1. job.BK \in Nat
    BY JobFacts
  <2> QED
    BY <1>1, <2>1, SumsExist
<1> HIDE DEF g
<1>3. job.BK \in Nat
  BY JobFacts
<1>4. g[0] = a
  BY <1>2, <1>3 DEF DoesTurns
<1>5. ASSUME NEW kk \in 1 .. job.BK
      PROVE  g[kk] = Turn(g[kk - 1], kk, i, A, B)
  BY <1>2, <1>3, SMTT(20) DEF DoesTurns
<1> QED
  BY <1>4, <1>5 DEF g

(* One product more. *)
LEMMA PartialAppend ==
    ASSUME JobOK, NEW r \in Nat, NEW c \in Nat, NEW n \in Nat
    PROVE  Append(Partial(r, c, n), <<<<r * job.K + n>>, <<n * job.N + c>>>>) = Partial(r, c, n + 1)
  BY DEF Partial

(* Cell i's elements of the tiles, at column k of the loop at n: those of  *)
(* its row of A and of its column of B, or both 0.0f.                      *)
LEMMA TileElems ==
    ASSUME JobOK, block \in 0 .. Blocks - 1, NEW i \in Cells, InRange(i),
           NEW n \in Nat, NEW kk \in 1 .. job.BK
    PROVE  LET p == (i \div job.BN) * job.BK + kk - 1
               q == (kk - 1) * job.BN + (i % job.BN)
           IN  /\ p \in 0 .. job.BM * job.BK - 1 /\ q \in 0 .. job.BK * job.BN - 1
               /\ TileA(p, n) = IF n + kk - 1 < job.K THEN <<Row(i) * job.K + (n + kk - 1)>> ELSE Zero
               /\ TileB(q, n) = IF n + kk - 1 < job.K THEN <<(n + kk - 1) * job.N + Col(i)>> ELSE Zero
<1> DEFINE u == i \div job.BN
           v == i % job.BN
           l == kk - 1
<1>1. /\ job.BM \in Nat /\ job.BN \in Nat \ {0} /\ job.BK \in Nat \ {0} /\ job.BK \in Nat
      /\ job.K \in Nat
  BY JobFacts
<1>2. u \in 0 .. job.BM - 1 /\ v \in 0 .. job.BN - 1 /\ l \in 0 .. job.BK - 1 /\ l \in Nat
  BY <1>1, CellFacts
<1>3. Row(i) = By * job.BM + u /\ Col(i) = Bx * job.BN + v /\ Row(i) < job.M /\ Col(i) < job.N
      /\ Row(i) \in Nat /\ Col(i) \in Nat
  BY CellFacts DEF Row, Col, InRange
<1> HIDE DEF u, v, l
<1>4. /\ u * job.BK + l \in 0 .. job.BM * job.BK - 1
      /\ (u * job.BK + l) \div job.BK = u /\ (u * job.BK + l) % job.BK = l
  BY <1>1, <1>2, FlatIndex, ZenonT(20)
<1>5. /\ l * job.BN + v \in 0 .. job.BK * job.BN - 1
      /\ (l * job.BN + v) \div job.BN = l /\ (l * job.BN + v) % job.BN = v
  BY <1>1, <1>2, FlatIndex, ZenonT(20)
<1>6. u * job.BK + kk - 1 = u * job.BK + l
  <2>1. u * job.BK \in Nat
    BY <1>1, <1>2, Products
  <2> QED
    BY <1>1, <2>1 DEF l
<1>7. n + kk - 1 = n + l
  BY <1>1 DEF l
<1>8. TileA(u * job.BK + l, n) = IF n + l < job.K THEN <<Row(i) * job.K + (n + l)>> ELSE Zero
  BY <1>3, <1>4, Zenon DEF TileA
<1>9. TileB(l * job.BN + v, n) = IF n + l < job.K THEN <<(n + l) * job.N + Col(i)>> ELSE Zero
  BY <1>3, <1>5, Zenon DEF TileB
<1> QED
  BY <1>4, <1>5, <1>6, <1>7, <1>8, <1>9, Zenon DEF u, v, l

(* One pass over the tiles takes the sum of a cell inside C on by BK. *)
LEMMA AccumulatedIs ==
    ASSUME JobOK, block \in 0 .. Blocks - 1, NEW i \in Cells, InRange(i), NEW n \in Nat, NEW A, NEW B,
           \A j \in 0 .. job.BM * job.BK - 1 : A[j] = TileA(j, n),
           \A j \in 0 .. job.BK * job.BN - 1 : B[j] = TileB(j, n)
    PROVE  Accumulated(Partial(Row(i), Col(i), Upto(n)), i, A, B)
           = Partial(Row(i), Col(i), Upto(n + job.BK))
<1> DEFINE r == Row(i)
           c == Col(i)
           g == Sums(Partial(r, c, Upto(n)), i, A, B)
           S == {kk \in 0 .. job.BK : g[kk] = Partial(r, c, Upto(n + kk))}
<1>1. job.BK \in Nat /\ job.K \in Nat /\ r \in Nat /\ c \in Nat
  BY JobFacts, CellFacts
<1>2. g[0] = Partial(r, c, Upto(n))
      /\ \A kk \in 1 .. job.BK : g[kk] = Turn(g[kk - 1], kk, i, A, B)
  BY SumsDef
<1> HIDE DEF g
<1>3. 0 \in S
  BY <1>1, <1>2
<1>4. ASSUME NEW kk \in 1 .. job.BK, kk - 1 \in S
      PROVE  kk \in S
  <2> DEFINE l == n + kk - 1
             x == A[(i \div job.BN) * job.BK + kk - 1]
             y == B[(kk - 1) * job.BN + (i % job.BN)]
  <2>1. /\ x = IF l < job.K THEN <<r * job.K + l>> ELSE Zero
        /\ y = IF l < job.K THEN <<l * job.N + c>> ELSE Zero
    BY TileElems
  <2>2. g[kk] = IF Zero \in {x, y} THEN g[kk - 1] ELSE Append(g[kk - 1], <<x, y>>)
    BY <1>2 DEF Turn
  <2>3. g[kk - 1] = Partial(r, c, Upto(l))
    <3>1. n + (kk - 1) = l
      BY <1>1
    <3> QED
      BY <1>4, <3>1
  <2> HIDE DEF x, y, r, c
  <2>4. l \in Nat /\ n + kk = l + 1
    BY <1>1
  <2> HIDE DEF l
  <2>5. g[kk] = Partial(r, c, Upto(l + 1))
    <3>1. CASE l < job.K
      <4>1. x = <<r * job.K + l>> /\ y = <<l * job.N + c>>
        BY <2>1, <3>1
      <4>2. Zero \notin {x, y}
        BY <4>1 DEF Zero
      <4>3. Upto(l) = l /\ Upto(l + 1) = l + 1
        BY <1>1, <2>4, <3>1 DEF Upto
      <4>4. g[kk] = Append(Partial(r, c, l), <<<<r * job.K + l>>, <<l * job.N + c>>>>)
        BY <2>2, <2>3, <4>1, <4>2, <4>3, Zenon
      <4>5. r \in Nat /\ c \in Nat
        BY <1>1
      <4>6. Append(Partial(r, c, l), <<<<r * job.K + l>>, <<l * job.N + c>>>>)
            = Partial(r, c, l + 1)
        BY <2>4, <4>5, PartialAppend
      <4> QED
        BY <4>3, <4>4, <4>6, Zenon
    <3>2. CASE ~(l < job.K)
      <4>1. x = Zero
        BY <2>1, <3>2
      <4>2. Upto(l) = Upto(l + 1)
        BY <1>1, <2>4, <3>2 DEF Upto
      <4> QED
        BY <2>2, <2>3, <4>1, <4>2
    <3> QED
      BY <3>1, <3>2
  <2> QED
    BY <2>4, <2>5
<1>5. \A kk \in 0 .. job.BK : kk \in S
  <2> HIDE DEF S
  <2> QED
    BY <1>1, <1>3, <1>4, UpTo
<1>6. g[job.BK] = Partial(r, c, Upto(n + job.BK))
  BY <1>1, <1>5
<1> QED
  BY <1>6 DEF Accumulated, g

-----------------------------------------------------------------------------
(* Steps *)

(* What depends on the launch and the block alone. *)
LEMMA SameBlock ==
    ASSUME UNCHANGED <<job, block>>
    PROVE  /\ Cells' = Cells /\ Threads' = Threads /\ Blocks' = Blocks /\ (JobOK' <=> JobOK)
           /\ \A i : /\ Row(i)' = Row(i) /\ Col(i)' = Col(i) /\ Addr(i)' = Addr(i)
                     /\ Owner(i)' = Owner(i) /\ (InRange(i)' <=> InRange(i))
           /\ \A i, n : TileA(i, n)' = TileA(i, n) /\ TileB(i, n)' = TileB(i, n)
           /\ \A r, c, n : Partial(r, c, n)' = Partial(r, c, n)
           /\ \A n : Upto(n)' = Upto(n)
           /\ \A e : Product(e)' = Product(e) /\ BlockOf(e)' = BlockOf(e)
<1>1. Cells' = Cells /\ Threads' = Threads /\ Blocks' = Blocks /\ GridX' = GridX /\ (JobOK' <=> JobOK)
  BY DEF Cells, Threads, Blocks, GridX, JobOK
<1>2. By' = By /\ Bx' = Bx
  BY <1>1 DEF By, Bx
<1>3. ASSUME NEW i
      PROVE  /\ Row(i)' = Row(i) /\ Col(i)' = Col(i) /\ Addr(i)' = Addr(i)
             /\ Owner(i)' = Owner(i) /\ (InRange(i)' <=> InRange(i))
  BY <1>2 DEF Row, Col, Addr, Owner, InRange
<1>4. ASSUME NEW i, NEW n
      PROVE  TileA(i, n)' = TileA(i, n) /\ TileB(i, n)' = TileB(i, n)
  BY <1>2 DEF TileA, TileB
<1>5. ASSUME NEW r, NEW c, NEW n
      PROVE  Partial(r, c, n)' = Partial(r, c, n) /\ Upto(n)' = Upto(n)
  BY DEF Partial, Upto
<1>6. ASSUME NEW e
      PROVE  Product(e)' = Product(e) /\ BlockOf(e)' = BlockOf(e)
  BY <1>1 DEF Product, BlockOf
<1> QED
  BY <1>1, <1>3, <1>4, <1>5, <1>6

(* Writing complete sums of cells inside C. *)
LEMMA WriteCIs ==
    ASSUME JobOK, block \in 0 .. Blocks - 1, DOMAIN C = 0 .. job.M * job.N - 1,
           NEW cells \in SUBSET Cells, NEW val,
           \A i \in cells : InRange(i) /\ val[i] = Partial(Row(i), Col(i), job.K)
    PROVE  LET W == WriteC(cells, val)
           IN  /\ DOMAIN W = DOMAIN C
               /\ \A e \in DOMAIN C : W[e] \in {C[e], Product(e)}
               /\ \A i \in cells : W[Addr(i)] = Product(Addr(i))
<1> DEFINE W == WriteC(cells, val)
<1>1. ASSUME NEW e \in DOMAIN C, NEW i \in cells, Addr(i) = e
      PROVE  val[i] = Product(e)
  BY <1>1, AddrFacts
<1>2. ASSUME NEW e \in DOMAIN C
      PROVE  IF \E i \in cells : Addr(i) = e THEN W[e] = Product(e) ELSE W[e] = C[e]
  <2>1. CASE \E i \in cells : Addr(i) = e
    <3> DEFINE j == CHOOSE i \in cells : Addr(i) = e
    <3>1. j \in cells /\ Addr(j) = e
      BY <2>1
    <3>2. W[e] = val[j]
      BY <2>1 DEF WriteC
    <3> HIDE DEF j, W
    <3>3. W[e] = Product(e)
      BY <1>1, <3>1, <3>2
    <3> QED
      BY <2>1, <3>3
  <2>2. CASE ~\E i \in cells : Addr(i) = e
    BY <2>2 DEF WriteC
  <2> QED
    BY <2>1, <2>2
<1>3. DOMAIN W = DOMAIN C
  BY DEF WriteC
<1> HIDE DEF W
<1>4. \A e \in DOMAIN C : W[e] \in {C[e], Product(e)}
  BY <1>2
<1>5. ASSUME NEW i \in cells
      PROVE  W[Addr(i)] = Product(Addr(i))
  <2>1. Addr(i) \in DOMAIN C
    BY AddrFacts
  <2> QED
    BY <1>2, <2>1
<1> QED
  BY <1>3, <1>4, <1>5 DEF W

(* Such a write leaves C in order. *)
LEMMA WriteKeeps ==
    ASSUME StoredOK, UNCHANGED <<job, block>>, DOMAIN C' = DOMAIN C,
           \A e \in DOMAIN C : C'[e] \in {C[e], Product(e)}
    PROVE  StoredOK'
<1>1. /\ \A e : Product(e)' = Product(e) /\ BlockOf(e)' = BlockOf(e)
      /\ block' = block /\ job' = job
  BY SameBlock
<1>2. DOMAIN C' = 0 .. job'.M * job'.N - 1
  BY <1>1 DEF StoredOK
<1>3. ASSUME NEW e \in DOMAIN C
      PROVE  /\ C'[e] \in {NoSum, Product(e)}
             /\ BlockOf(e) < block => C'[e] = Product(e)
  BY DEF StoredOK
<1> QED
  BY <1>1, <1>2, <1>3 DEF StoredOK, NoSum, Unset

(* A phase is told by where a thread is. *)
LEMMA Phase ==
    ASSUME BlockInv, NEW t \in Threads
    PROVE  /\ pc[t] \in {"load", "sync1"} => \E n \in Nat : Loading(n)
           /\ pc[t] \in {"mma", "sync2"} => \E n \in Nat : Multiplying(n)
           /\ pc[t] \in {"store", "sync3"} => Storing
           /\ pc[t] = "scatter" => Scattering
           /\ pc[t] = "done" => Storing \/ Scattering
<1>1. \A n \in Nat : Loading(n) => pc[t] \in {"load", "sync1"}
  BY DEF Loading
<1>2. \A n \in Nat : Multiplying(n) => pc[t] \in {"mma", "sync2"}
  BY DEF Multiplying
<1>3. Storing => pc[t] \in {"store", "sync3", "done"}
  BY DEF Storing
<1>4. Scattering => pc[t] \in {"scatter", "done"}
  BY DEF Scattering
<1> QED
  BY <1>1, <1>2, <1>3, <1>4 DEF BlockInv

(* A load fills the thread's share of the tiles. *)
LEMMA LoadStep ==
    ASSUME JobOK, Shape, NEW n \in Nat, Loading(n), NEW t \in Threads, Load(t)
    PROVE  Loading(n)'
<1>1. UNCHANGED <<job, block, kb, sC, acc, C>>
  BY DEF Load
<1>2. /\ pc' = [pc EXCEPT ![t] = "sync1"]
      /\ DOMAIN sA' = DOMAIN sA /\ DOMAIN sB' = DOMAIN sB
      /\ \A i \in DOMAIN sA : sA'[i] = IF i % job.T = t THEN TileA(i, n) ELSE sA[i]
      /\ \A i \in DOMAIN sB : sB'[i] = IF i % job.T = t THEN TileB(i, n) ELSE sB[i]
  BY DEF Load, Goto, Loading
<1>3. \A u \in Threads : pc'[u] = IF u = t THEN "sync1" ELSE pc[u]
  BY <1>2 DEF Shape
<1>4. /\ Threads' = Threads /\ Cells' = Cells
      /\ \A i, m : TileA(i, m)' = TileA(i, m) /\ TileB(i, m)' = TileB(i, m)
  BY <1>1, SameBlock
<1>5. \A u \in Threads : pc'[u] \in {"load", "sync1"} /\ kb'[u] = n
  BY <1>1, <1>3 DEF Loading
<1>6. n < job'.K /\ n % job'.BK = 0
  BY <1>1 DEF Loading
<1>7. \A i \in Nat : i % job.T \in Threads
  BY JobFacts, DivMod DEF Threads
<1>8. DOMAIN sA \subseteq Nat /\ DOMAIN sB \subseteq Nat
  BY DEF Shape
<1>9. ASSUME NEW i \in DOMAIN sA, pc'[i % job.T] = "sync1"
      PROVE  sA'[i] = TileA(i, n)
  BY <1>2, <1>3, <1>7, <1>8, <1>9 DEF Loading
<1>10. ASSUME NEW i \in DOMAIN sB, pc'[i % job.T] = "sync1"
       PROVE  sB'[i] = TileB(i, n)
  BY <1>2, <1>3, <1>7, <1>8, <1>10 DEF Loading
<1>11. SumsAt(n)'
  <2>1. /\ \A i : Row(i)' = Row(i) /\ Col(i)' = Col(i) /\ (InRange(i)' <=> InRange(i))
        /\ \A r, c, m : Partial(r, c, m)' = Partial(r, c, m)
        /\ Upto(n)' = Upto(n)
    BY <1>1, SameBlock
  <2>2. SumsAt(n) /\ acc' = acc
    BY <1>1 DEF Loading
  <2> QED
    BY <1>4, <2>1, <2>2 DEF SumsAt
<1> QED
  BY <1>1, <1>2, <1>4, <1>5, <1>6, <1>9, <1>10, <1>11 DEF Loading

(* Sums that a step leaves alone. *)
LEMMA SumsKept ==
    ASSUME UNCHANGED <<job, block, acc>>, NEW n, SumsAt(n)
    PROVE  SumsAt(n)'
<1>1. /\ \A i : Row(i)' = Row(i) /\ Col(i)' = Col(i) /\ (InRange(i)' <=> InRange(i))
      /\ \A r, c, m : Partial(r, c, m)' = Partial(r, c, m)
      /\ Upto(n)' = Upto(n) /\ Cells' = Cells
  BY SameBlock
<1> QED
  BY <1>1 DEF SumsAt

(* A thread's products go to its own cells. *)
LEMMA AccumulateStep ==
    ASSUME JobOK, block \in 0 .. Blocks - 1, Shape, NEW n \in Nat, Multiplying(n),
           NEW t \in Threads, Accumulate(t)
    PROVE  Multiplying(n)'
<1>1. UNCHANGED <<job, block, kb, sA, sB, sC, C>>
  BY DEF Accumulate
<1>2. /\ pc' = [pc EXCEPT ![t] = "sync2"] /\ pc[t] = "mma"
      /\ acc' = [i \in Cells |-> IF i \in Fragment(t) THEN Accumulated(acc[i], i, sA, sB) ELSE acc[i]]
  BY DEF Accumulate, Goto
<1>3. \A u \in Threads : pc'[u] = IF u = t THEN "sync2" ELSE pc[u]
  BY <1>2 DEF Shape
<1>4. /\ Threads' = Threads /\ Cells' = Cells
      /\ \A i, m : TileA(i, m)' = TileA(i, m) /\ TileB(i, m)' = TileB(i, m)
      /\ \A i : /\ Row(i)' = Row(i) /\ Col(i)' = Col(i) /\ Owner(i)' = Owner(i)
                /\ (InRange(i)' <=> InRange(i))
      /\ \A r, c, m : Partial(r, c, m)' = Partial(r, c, m)
      /\ \A m : Upto(m)' = Upto(m)
  BY <1>1, SameBlock
<1>5. \A u \in Threads : pc'[u] \in {"mma", "sync2"} /\ kb'[u] = n
  BY <1>1, <1>3 DEF Multiplying
<1>6. n < job'.K /\ n % job'.BK = 0
  BY <1>1 DEF Multiplying
<1>7. /\ \A i \in DOMAIN sA' : sA'[i] = TileA(i, n)'
      /\ \A i \in DOMAIN sB' : sB'[i] = TileB(i, n)'
  BY <1>1, <1>4 DEF Multiplying
<1>8. ASSUME NEW i \in Cells, InRange(i)
      PROVE  acc'[i] = Partial(Row(i), Col(i), Upto(IF pc'[Owner(i)] = "mma" THEN n ELSE n + job.BK))
  <2>1. Owner(i) \in Threads
    BY OwnerIsThread
  <2>2. acc[i] = Partial(Row(i), Col(i), Upto(IF pc[Owner(i)] = "mma" THEN n ELSE n + job.BK))
    BY <1>8 DEF Multiplying
  <2>3. CASE Owner(i) = t
    <3>1. i \in Fragment(t)
      BY <2>3 DEF Fragment, Owner
    <3>2. acc'[i] = Accumulated(Partial(Row(i), Col(i), Upto(n)), i, sA, sB)
      BY <1>2, <2>2, <2>3, <3>1
    <3>3. /\ \A j \in 0 .. job.BM * job.BK - 1 : sA[j] = TileA(j, n)
          /\ \A j \in 0 .. job.BK * job.BN - 1 : sB[j] = TileB(j, n)
      BY DEF Multiplying, Shape
    <3>4. acc'[i] = Partial(Row(i), Col(i), Upto(n + job.BK))
      BY <1>8, <3>2, <3>3, AccumulatedIs
    <3>5. pc'[Owner(i)] = "sync2"
      BY <1>3, <2>1, <2>3
    <3> QED
      BY <3>4, <3>5
  <2>4. CASE Owner(i) # t
    <3>1. i \notin Fragment(t)
      BY <2>4 DEF Fragment, Owner
    <3>2. acc'[i] = acc[i] /\ pc'[Owner(i)] = pc[Owner(i)]
      BY <1>2, <1>3, <2>1, <2>4, <3>1
    <3> QED
      BY <2>2, <3>2
  <2> QED
    BY <2>3, <2>4
<1>9. job' = job
  BY <1>1
<1> QED
  BY <1>4, <1>5, <1>6, <1>7, <1>8, <1>9 DEF Multiplying

(* The XMX kernel has one thread per tile, whose tiles are inside A and B. *)
LEMMA JointMadStep ==
    ASSUME JobOK, block \in 0 .. Blocks - 1, Shape, NEW n \in Nat, Loading(n),
           NEW t \in Threads, JointMad(t)
    PROVE  (\E m \in Nat : Loading(m)') \/ Storing'
<1>1. UNCHANGED <<job, block, sA, sB, sC, C>> /\ job.kernel = "xmx" /\ pc[t] = "load"
  BY DEF JointMad
<1>2. /\ job.T = 1 /\ job.M % job.BM = 0 /\ job.N % job.BN = 0 /\ job.K % job.BK = 0
      /\ job.K \in Nat /\ job.BK \in Nat \ {0} /\ job.BM \in Nat \ {0} /\ job.BN \in Nat \ {0}
      /\ job.M \in Nat \ {0} /\ job.N \in Nat \ {0}
  BY <1>1, JobFacts
<1>3. Threads = {0} /\ t = 0
  BY <1>2 DEF Threads
<1>4. n < job.K /\ n % job.BK = 0 /\ kb[t] = n
  BY DEF Loading
<1>5. n + job.BK \in Nat /\ (n + job.BK) % job.BK = 0 /\ n + job.BK <= job.K
  <2>1. (n + job.BK) % job.BK = 0 /\ n + job.BK <= job.K
    BY <1>2, <1>4, NextMultiple
  <2> QED
    BY <1>2, <2>1
<1>6. /\ kb' = [kb EXCEPT ![t] = n + job.BK]
      /\ pc' = [pc EXCEPT ![t] = IF n + job.BK < job.K THEN "load" ELSE "store"]
  BY <1>4 DEF JointMad, Goto, LoopHead, Shape
<1>7. /\ kb'[0] = n + job.BK
      /\ pc'[0] = IF n + job.BK < job.K THEN "load" ELSE "store"
  BY <1>3, <1>6 DEF Shape
<1> DEFINE A == [i \in DOMAIN sA |-> <<(By * job.BM + i \div job.BK) * job.K + n + (i % job.BK)>>]
           B == [i \in DOMAIN sB |-> <<(n + i \div job.BN) * job.N + Bx * job.BN + (i % job.BN)>>]
<1>8. acc' = [i \in Cells |-> Accumulated(acc[i], i, A, B)]
  BY <1>4 DEF JointMad
<1>9. By \in 0 .. CeilDiv(job.M, job.BM) - 1 /\ Bx \in 0 .. CeilDiv(job.N, job.BN) - 1
      /\ By \in Nat /\ Bx \in Nat
  BY GridFacts DEF GridX
<1>10. ASSUME NEW i \in 0 .. job.BM * job.BK - 1
       PROVE  A[i] = TileA(i, n)
  <2> DEFINE u == i \div job.BK
             v == i % job.BK
             a == By * job.BM + u
  <2>1. A[i] = <<a * job.K + n + v>>
    BY DEF Shape
  <2>2. u \in 0 .. job.BM - 1 /\ v \in 0 .. job.BK - 1
    BY <1>2, RowCol
  <2> HIDE DEF u, v
  <2>3. a < job.M /\ a \in Nat
    <3>1. a < job.M
      BY <1>2, <1>9, <2>2, CeilDivExact
    <3>2. By * job.BM \in Nat
      BY <1>2, <1>9, Products
    <3> QED
      BY <1>2, <2>2, <3>1, <3>2
  <2>4. n + v < job.K
    BY <1>2, <1>5, <2>2
  <2>5. TileA(i, n) = <<a * job.K + (n + v)>>
    BY <2>3, <2>4 DEF TileA, u, v
  <2> HIDE DEF a, A
  <2>6. a * job.K \in Nat
    BY <1>2, <2>3, Products
  <2> QED
    BY <1>2, <2>1, <2>2, <2>5, <2>6
<1>11. ASSUME NEW i \in 0 .. job.BK * job.BN - 1
       PROVE  B[i] = TileB(i, n)
  <2> DEFINE u == i \div job.BN
             v == i % job.BN
             b == Bx * job.BN
  <2>1. B[i] = <<(n + u) * job.N + b + v>>
    BY DEF Shape
  <2>2. u \in 0 .. job.BK - 1 /\ v \in 0 .. job.BN - 1
    BY <1>2, RowCol
  <2> HIDE DEF u, v
  <2>3. b + v < job.N /\ b \in Nat
    <3>1. b + v < job.N
      BY <1>2, <1>9, <2>2, CeilDivExact
    <3>2. b \in Nat
      BY <1>2, <1>9, Products
    <3> QED
      BY <3>1, <3>2
  <2>4. n + u < job.K /\ n + u \in Nat
    BY <1>2, <1>5, <2>2
  <2>5. TileB(i, n) = <<(n + u) * job.N + (b + v)>>
    BY <2>3, <2>4 DEF TileB, u, v
  <2> HIDE DEF b, B
  <2>6. (n + u) * job.N \in Nat
    BY <1>2, <2>4, Products
  <2> QED
    BY <1>2, <2>1, <2>2, <2>3, <2>5, <2>6
<1> HIDE DEF A, B
<1>12. ASSUME NEW i \in Cells, InRange(i)
       PROVE  acc'[i] = Partial(Row(i), Col(i), Upto(n + job.BK))
  <2>1. acc[i] = Partial(Row(i), Col(i), Upto(n))
    BY <1>12 DEF Loading, SumsAt
  <2>2. acc'[i] = Accumulated(Partial(Row(i), Col(i), Upto(n)), i, A, B)
    BY <1>8, <2>1
  <2> QED
    BY <1>10, <1>11, <1>12, <2>2, AccumulatedIs
<1>13. /\ \A i : Row(i)' = Row(i) /\ Col(i)' = Col(i) /\ (InRange(i)' <=> InRange(i))
       /\ \A r, c, m : Partial(r, c, m)' = Partial(r, c, m)
       /\ \A m : Upto(m)' = Upto(m)
       /\ Cells' = Cells /\ Threads' = {0} /\ job' = job
  BY <1>1, <1>3, SameBlock
<1>14. \A m : m = n + job.BK => SumsAt(m)'
  BY <1>12, <1>13 DEF SumsAt
<1>15. \A i \in Nat : i % job.T = 0
  BY <1>2, DivMod
<1>16. CASE n + job.BK < job.K
  <2> PICK m \in Nat : m = n + job.BK
    BY <1>5
  <2>1. SumsAt(m)'
    BY <1>14
  <2>2. pc'[0] = "load" /\ kb'[0] = m /\ m < job.K /\ m % job.BK = 0
    BY <1>5, <1>7, <1>16
  <2>3. DOMAIN sA' \subseteq Nat /\ DOMAIN sB' \subseteq Nat
    BY <1>1 DEF Shape
  <2>4. \A i \in DOMAIN sA' \cup DOMAIN sB' : pc'[i % job.T] # "sync1"
    BY <1>15, <2>2, <2>3
  <2>5. Loading(m)'
    BY <1>13, <2>1, <2>2, <2>4 DEF Loading
  <2> QED
    BY <2>5
<1>17. CASE ~(n + job.BK < job.K)
  <2>1. n + job.BK = job.K
    BY <1>2, <1>5, <1>17
  <2>2. SumsAt(job.K)'
    BY <1>13, <1>14, <2>1
  <2>3. pc'[0] = "store"
    BY <1>7, <1>17
  <2>4. \A i \in Cells : Owner(i)' = 0
    <3>1. \A i \in Cells : Owner(i)' = Owner(i)
      BY <1>1, SameBlock
    <3> QED
      BY <1>3, <3>1, OwnerIsThread
  <2> QED
    BY <1>13, <2>2, <2>3, <2>4 DEF Storing
<1> QED
  BY <1>16, <1>17

(* Every tile of the XMX kernel is inside C. *)
LEMMA XmxInRange ==
    ASSUME JobOK, block \in 0 .. Blocks - 1, job.kernel = "xmx", NEW i \in Cells
    PROVE  InRange(i)
<1>1. /\ job.M % job.BM = 0 /\ job.N % job.BN = 0 /\ job.M \in Nat \ {0} /\ job.N \in Nat \ {0}
      /\ job.BM \in Nat \ {0} /\ job.BN \in Nat \ {0}
  BY JobFacts
<1>2. i \div job.BN \in 0 .. job.BM - 1 /\ i % job.BN \in 0 .. job.BN - 1
  BY CellFacts
<1>3. By \in 0 .. CeilDiv(job.M, job.BM) - 1 /\ Bx \in 0 .. CeilDiv(job.N, job.BN) - 1
  BY GridFacts DEF GridX
<1>4. Row(i) < job.M
  BY <1>1, <1>2, <1>3, CeilDivExact DEF Row
<1>5. Col(i) < job.N
  BY <1>1, <1>2, <1>3, CeilDivExact DEF Col
<1> QED
  BY <1>4, <1>5 DEF InRange

(* A thread stores its sums in C. *)
LEMMA StoreStep ==
    ASSUME JobOK, block \in 0 .. Blocks - 1, Shape, StoredOK, Storing,
           NEW t \in Threads, StoreFP32(t) \/ StoreXmx(t)
    PROVE  StoredOK' /\ Storing'
<1>1. UNCHANGED <<job, block, kb, sA, sB, sC, acc>> /\ job.kernel # "wmma"
  BY DEF StoreFP32, StoreXmx
<1>2. /\ pc' = [pc EXCEPT ![t] = "done"]
      /\ \A u \in Threads : pc'[u] = IF u = t THEN "done" ELSE pc[u]
  BY DEF StoreFP32, StoreXmx, Goto, Shape
<1>3. PICK cells \in SUBSET Cells :
         /\ C' = WriteC(cells, acc)
         /\ \A i \in cells : InRange(i)
         /\ \A i \in Cells : InRange(i) /\ Owner(i) = t => i \in cells
  <2>1. CASE StoreFP32(t)
    <3> DEFINE cells == {i \in Fragment(t) : InRange(i)}
    <3>1. cells \in SUBSET Cells /\ C' = WriteC(cells, acc)
      BY <2>1 DEF StoreFP32, Fragment
    <3>2. \A i \in Cells : InRange(i) /\ Owner(i) = t => i \in cells
      BY DEF Fragment, Owner
    <3> QED
      BY <3>1, <3>2
  <2>2. CASE StoreXmx(t)
    <3>1. C' = WriteC(Cells, acc) /\ job.kernel = "xmx"
      BY <2>2 DEF StoreXmx
    <3>2. \A i \in Cells : InRange(i)
      BY <3>1, XmxInRange
    <3> QED
      BY <3>1, <3>2
  <2> QED
    BY <2>1, <2>2
<1>4. Upto(job.K) = job.K
  BY JobFacts DEF Upto
<1>5. \A i \in cells : acc[i] = Partial(Row(i), Col(i), job.K)
  BY <1>3, <1>4 DEF Storing, SumsAt
<1>6. /\ DOMAIN C' = DOMAIN C
      /\ \A e \in DOMAIN C : C'[e] \in {C[e], Product(e)}
      /\ \A i \in cells : C'[Addr(i)] = Product(Addr(i))
  BY <1>3, <1>5, WriteCIs DEF StoredOK
<1>7. StoredOK'
  BY <1>1, <1>6, WriteKeeps
<1>8. SumsAt(job.K)'
  <2>1. \A n : n = job.K => SumsAt(n)'
    BY <1>1, SumsKept DEF Storing
  <2>2. job' = job
    BY <1>1
  <2> QED
    BY <2>1, <2>2 DEF SumsAt
<1>9. /\ Threads' = Threads /\ Cells' = Cells /\ job' = job
      /\ \A i : Owner(i)' = Owner(i) /\ Addr(i)' = Addr(i) /\ (InRange(i)' <=> InRange(i))
      /\ \A e : Product(e)' = Product(e)
  BY <1>1, SameBlock
<1>10. \A u \in Threads : pc'[u] \in {"store", "done"}
  BY <1>1, <1>2 DEF Storing
<1>11. ASSUME NEW i \in Cells, InRange(i)
       PROVE  /\ pc'[Owner(i)] # "sync3"
              /\ pc'[Owner(i)] = "done" => C'[Addr(i)] = Product(Addr(i))
  <2>1. Owner(i) \in Threads
    BY OwnerIsThread
  <2>2. Addr(i) \in DOMAIN C
    BY <1>11, AddrFacts DEF StoredOK
  <2>3. CASE Owner(i) = t
    BY <1>3, <1>6, <1>10, <1>11, <2>1, <2>3
  <2>4. CASE Owner(i) # t
    <3>1. pc'[Owner(i)] = pc[Owner(i)]
      BY <1>2, <2>1, <2>4
    <3>2. pc[Owner(i)] = "done" => C[Addr(i)] = Product(Addr(i))
      BY <1>11 DEF Storing
    <3> QED
      BY <1>6, <1>10, <2>1, <2>2, <3>1, <3>2
  <2> QED
    BY <2>3, <2>4
<1>12. Storing'
  BY <1>1, <1>8, <1>9, <1>10, <1>11 DEF Storing
<1> QED
  BY <1>7, <1>12

(* A warp stores its fragment in the shared tile. *)
LEMMA StoreFragmentStep ==
    ASSUME JobOK, block \in 0 .. Blocks - 1, Shape, Storing,
           NEW t \in Threads, StoreFragment(t)
    PROVE  Storing'
<1>1. UNCHANGED <<job, block, kb, sA, sB, acc, C>> /\ job.kernel = "wmma"
  BY DEF StoreFragment
<1>2. /\ \A u \in Threads : pc'[u] = IF u = t THEN "sync3" ELSE pc[u]
      /\ sC' = [i \in Cells |-> IF i \in Fragment(t) THEN acc[i] ELSE sC[i]]
  BY DEF StoreFragment, Goto, Shape
<1>3. SumsAt(job.K)'
  <2>1. \A n : n = job.K => SumsAt(n)'
    BY <1>1, SumsKept DEF Storing
  <2>2. job' = job
    BY <1>1
  <2> QED
    BY <2>1, <2>2 DEF SumsAt
<1>4. /\ Threads' = Threads /\ Cells' = Cells /\ job' = job /\ acc' = acc
      /\ \A i : Owner(i)' = Owner(i) /\ (InRange(i)' <=> InRange(i))
  BY <1>1, SameBlock
<1>5. \A u \in Threads : pc'[u] \in {"store", "sync3"}
  BY <1>1, <1>2 DEF Storing
<1>6. ASSUME NEW i \in Cells, InRange(i)
      PROVE  /\ pc'[Owner(i)] = "sync3" => sC'[i] = acc[i]
             /\ pc'[Owner(i)] # "done"
  <2>1. Owner(i) \in Threads
    BY OwnerIsThread
  <2>2. i \in Fragment(t) <=> Owner(i) = t
    BY DEF Fragment, Owner
  <2>3. pc[Owner(i)] = "sync3" => sC[i] = acc[i]
    BY <1>6 DEF Storing
  <2>4. sC'[i] = IF Owner(i) = t THEN acc[i] ELSE sC[i]
    BY <1>2, <2>2
  <2> QED
    BY <1>2, <1>5, <2>1, <2>3, <2>4
<1> QED
  BY <1>1, <1>3, <1>4, <1>5, <1>6 DEF Storing

(* A warp's lane writes its share of the shared tile to C. *)
LEMMA ScatterStep ==
    ASSUME JobOK, block \in 0 .. Blocks - 1, Shape, StoredOK, Scattering,
           NEW t \in Threads, Scatter(t)
    PROVE  StoredOK' /\ Scattering'
<1>1. UNCHANGED <<job, block, kb, sA, sB, sC, acc>> /\ job.kernel = "wmma"
  BY DEF Scatter, Scattering
<1> DEFINE cells == {i \in Cells : i % job.T = t /\ InRange(i)}
<1>2. /\ \A u \in Threads : pc'[u] = IF u = t THEN "done" ELSE pc[u]
      /\ C' = WriteC(cells, sC)
  BY DEF Scatter, Goto, Shape
<1>3. \A i \in cells : InRange(i) /\ sC[i] = Partial(Row(i), Col(i), job.K)
  BY DEF Scattering
<1>4. \A i \in Cells : InRange(i) /\ i % job.T = t => i \in cells
  OBVIOUS
<1>5. cells \in SUBSET Cells
  OBVIOUS
<1> HIDE DEF cells
<1>6. /\ DOMAIN C' = DOMAIN C
      /\ \A e \in DOMAIN C : C'[e] \in {C[e], Product(e)}
      /\ \A i \in cells : C'[Addr(i)] = Product(Addr(i))
  BY <1>2, <1>3, <1>5, WriteCIs DEF StoredOK
<1>7. StoredOK'
  BY <1>1, <1>6, WriteKeeps
<1>8. /\ Threads' = Threads /\ Cells' = Cells /\ job' = job
      /\ \A i : /\ Row(i)' = Row(i) /\ Col(i)' = Col(i)
                /\ Addr(i)' = Addr(i) /\ (InRange(i)' <=> InRange(i))
      /\ \A e : Product(e)' = Product(e)
      /\ \A r, c, m : Partial(r, c, m)' = Partial(r, c, m)
  BY <1>1, SameBlock
<1>9. \A u \in Threads : pc'[u] \in {"scatter", "done"}
  BY <1>2 DEF Scattering
<1>10. ASSUME NEW i \in Cells, InRange(i)
       PROVE  /\ sC'[i] = Partial(Row(i), Col(i), job.K)
              /\ pc'[i % job.T] = "done" => C'[Addr(i)] = Product(Addr(i))
  <2>1. i % job.T \in Threads
    BY CellFacts
  <2>2. Addr(i) \in DOMAIN C
    BY <1>10, AddrFacts DEF StoredOK
  <2>3. /\ sC[i] = Partial(Row(i), Col(i), job.K)
        /\ pc[i % job.T] = "done" => C[Addr(i)] = Product(Addr(i))
    BY <1>10 DEF Scattering
  <2>4. CASE i % job.T = t
    BY <1>1, <1>4, <1>6, <1>10, <2>3, <2>4
  <2>5. CASE i % job.T # t
    BY <1>1, <1>2, <1>6, <2>1, <2>2, <2>3, <2>5
  <2> QED
    BY <2>4, <2>5
<1>11. Scattering'
  BY <1>1, <1>8, <1>9, <1>10 DEF Scattering
<1> QED
  BY <1>7, <1>11

(* A barrier takes the block from one phase to the next. *)
LEMMA SyncStep ==
    ASSUME JobOK, block \in 0 .. Blocks - 1, BlockInv, Sync
    PROVE  BlockInv'
<1>1. UNCHANGED <<job, block, sA, sB, sC, acc, C>>
  BY DEF Sync
<1>2. PICK t \in Threads : pc[t] # "done"
  BY DEF Sync
<1>3. \A u \in Threads : pc[u] \in {"sync1", "sync2", "sync3", "done"}
  BY DEF Sync, BlockInv, Shape
<1>4. /\ kb' = [u \in Threads |-> IF pc[u] = "sync2" THEN kb[u] + job.BK ELSE kb[u]]
      /\ \A u \in Threads : kb'[u] = IF pc[u] = "sync2" THEN kb[u] + job.BK ELSE kb[u]
  BY DEF Sync
<1>5. /\ pc' = [u \in Threads |-> pc'[u]]
      /\ \A u \in Threads : /\ pc[u] = "sync1" => pc'[u] = "mma"
                            /\ pc[u] = "sync2" => pc'[u] = LoopHead(kb'[u])
                            /\ pc[u] = "sync3" => pc'[u] = "scatter"
                            /\ pc[u] = "done" => pc'[u] = "done"
  BY DEF Sync
<1>6. /\ Threads' = Threads /\ Cells' = Cells /\ job' = job
      /\ \A i : /\ Row(i)' = Row(i) /\ Col(i)' = Col(i) /\ (InRange(i)' <=> InRange(i))
                /\ Owner(i)' = Owner(i) /\ Addr(i)' = Addr(i)
      /\ \A i, m : TileA(i, m)' = TileA(i, m) /\ TileB(i, m)' = TileB(i, m)
      /\ \A r, c, m : Partial(r, c, m)' = Partial(r, c, m)
      /\ \A m : Upto(m)' = Upto(m)
      /\ \A e : Product(e)' = Product(e)
  BY <1>1, SameBlock
<1>7. Shape'
  <2>1. job.BK \in Nat
    BY JobFacts
  <2>2. kb' \in [Threads -> Nat]
    BY <1>4, <2>1 DEF BlockInv, Shape
  <2>3. \A u \in Threads : pc'[u] \in Labels
    BY <1>3, <1>5 DEF LoopHead, Labels
  <2>4. pc' \in [Threads -> Labels]
    BY <1>5, <2>3
  <2> QED
    BY <1>1, <1>6, <2>2, <2>4 DEF Shape, BlockInv
<1>8. CASE pc[t] = "sync1"
  <2>1. PICK n \in Nat : Loading(n)
    BY <1>8, Phase
  <2>2. \A u \in Threads : pc[u] = "sync1" /\ kb[u] = n
    BY <1>3, <2>1 DEF Loading
  <2>3. \A u \in Threads : pc'[u] = "mma" /\ kb'[u] = n
    BY <1>4, <1>5, <2>2
  <2>4. \A i \in Nat : i % job.T \in Threads
    BY JobFacts, DivMod DEF Threads
  <2>5. DOMAIN sA \subseteq Nat /\ DOMAIN sB \subseteq Nat
    BY DEF BlockInv, Shape
  <2>6. \A i \in DOMAIN sA : sA[i] = TileA(i, n)
    BY <2>1, <2>2, <2>4, <2>5 DEF Loading
  <2>7. \A i \in DOMAIN sB : sB[i] = TileB(i, n)
    BY <2>1, <2>2, <2>4, <2>5 DEF Loading
  <2>8. \A i \in Cells : InRange(i) =>
           acc[i] = Partial(Row(i), Col(i), Upto(n)) /\ pc'[Owner(i)] = "mma"
    BY <2>1, <2>3, OwnerIsThread DEF Loading, SumsAt
  <2>9. n < job.K /\ n % job.BK = 0
    BY <2>1 DEF Loading
  <2>10. Multiplying(n)'
    BY <1>1, <1>6, <2>3, <2>6, <2>7, <2>8, <2>9 DEF Multiplying
  <2> QED
    BY <1>7, <2>10 DEF BlockInv
<1>9. CASE pc[t] = "sync2"
  <2>1. PICK n \in Nat : Multiplying(n)
    BY <1>9, Phase
  <2>2. \A u \in Threads : pc[u] = "sync2" /\ kb[u] = n
    BY <1>3, <2>1 DEF Multiplying
  <2>3. job.BK \in Nat \ {0} /\ job.K \in Nat /\ n % job.BK = 0
    BY <2>1, JobFacts DEF Multiplying
  <2>4. PICK m \in Nat : m = n + job.BK
    BY <2>3
  <2>5. \A u \in Threads : pc'[u] = LoopHead(m) /\ kb'[u] = m
    BY <1>4, <1>5, <2>2, <2>4
  <2>6. m % job.BK = 0
    BY <2>3, <2>4, NextMultiple
  <2>7. SumsAt(m)'
    <3>1. \A i \in Cells : InRange(i) => acc[i] = Partial(Row(i), Col(i), Upto(m))
      BY <2>1, <2>2, <2>4, OwnerIsThread DEF Multiplying
    <3> QED
      BY <1>1, <1>6, <3>1 DEF SumsAt
  <2>8. CASE m < job.K
    <3>1. \A u \in Threads : pc'[u] = "load"
      BY <2>5, <2>8 DEF LoopHead
    <3>2. \A i \in Nat : i % job.T \in Threads
      BY JobFacts, DivMod DEF Threads
    <3>3. DOMAIN sA' \subseteq Nat /\ DOMAIN sB' \subseteq Nat
      BY <1>1 DEF BlockInv, Shape
    <3>4. \A i \in DOMAIN sA' \cup DOMAIN sB' : pc'[i % job.T] # "sync1"
      BY <3>1, <3>2, <3>3
    <3>5. Loading(m)'
      BY <1>6, <2>5, <2>6, <2>7, <2>8, <3>1, <3>4 DEF Loading
    <3> QED
      BY <1>7, <3>5 DEF BlockInv
  <2>9. CASE ~(m < job.K)
    <3>1. \A u \in Threads : pc'[u] = "store"
      BY <2>5, <2>9 DEF LoopHead
    <3>2. \A i \in Cells : pc'[Owner(i)] = "store"
      BY <3>1, OwnerIsThread
    <3>3. Upto(m) = Upto(job.K)
      BY <2>3, <2>9 DEF Upto
    <3>4. SumsAt(job.K)'
      BY <1>6, <2>7, <3>3 DEF SumsAt
    <3>5. Storing'
      BY <1>6, <3>1, <3>2, <3>4 DEF Storing
    <3> QED
      BY <1>7, <3>5 DEF BlockInv
  <2> QED
    BY <2>8, <2>9
<1>10. CASE pc[t] = "sync3"
  <2>1. Storing
    BY <1>10, Phase
  <2>2. job.kernel = "wmma" /\ \A u \in Threads : pc[u] = "sync3"
    BY <1>3, <1>10, <2>1 DEF Storing
  <2>3. \A u \in Threads : pc'[u] = "scatter"
    BY <1>5, <2>2
  <2>4. Upto(job.K) = job.K
    BY JobFacts DEF Upto
  <2>5. \A i \in Cells : InRange(i) => sC[i] = Partial(Row(i), Col(i), job.K)
    BY <2>1, <2>2, <2>4, OwnerIsThread DEF Storing, SumsAt
  <2>6. \A i \in Cells : pc'[i % job.T] = "scatter"
    BY <2>3, CellFacts
  <2>7. Scattering'
    BY <1>1, <1>6, <2>2, <2>3, <2>5, <2>6 DEF Scattering
  <2> QED
    BY <1>7, <2>7 DEF BlockInv
<1> QED
  BY <1>2, <1>3, <1>8, <1>9, <1>10

(* A thread's step stays in the phase, or begins the next. *)
LEMMA ThreadStep ==
    ASSUME JobOK, block \in 0 .. Blocks - 1, StoredOK, BlockInv, NEW t \in Threads, GemmThread(t)
    PROVE  StoredOK' /\ BlockInv'
<1>1. Shape
  BY DEF BlockInv
<1>2. UNCHANGED <<job, block>>
  BY DEF GemmThread, Load, Accumulate, JointMad, StoreFP32, StoreXmx, StoreFragment, Scatter
<1>3. Shape'
  <2>1. \E l \in Labels : pc' = [pc EXCEPT ![t] = l]
    BY DEF GemmThread, Load, Accumulate, JointMad, StoreFP32, StoreXmx, StoreFragment, Scatter,
           Goto, LoopHead, Labels
  <2>2. kb' = kb \/ kb' = [kb EXCEPT ![t] = @ + job.BK]
    BY DEF GemmThread, Load, Accumulate, JointMad, StoreFP32, StoreXmx, StoreFragment, Scatter
  <2>3. DOMAIN sA' = DOMAIN sA /\ DOMAIN sB' = DOMAIN sB
    BY DEF GemmThread, Load, Accumulate, JointMad, StoreFP32, StoreXmx, StoreFragment, Scatter
  <2>4. Threads' = Threads /\ job' = job /\ job.BK \in Nat
    BY <1>2, SameBlock, JobFacts
  <2>5. pc' \in [Threads -> Labels]
    BY <1>1, <2>1 DEF Shape
  <2>6. kb' \in [Threads -> Nat]
    BY <1>1, <2>2, <2>4 DEF Shape
  <2> QED
    BY <1>1, <2>3, <2>4, <2>5, <2>6 DEF Shape
<1>4. UNCHANGED C => StoredOK'
  BY <1>2, WriteKeeps
<1>5. CASE Load(t)
  <2>1. PICK n \in Nat : Loading(n)
    BY <1>5, Phase DEF Load
  <2>2. Loading(n)' /\ UNCHANGED C
    BY <1>1, <1>5, <2>1, LoadStep DEF Load
  <2> QED
    BY <1>3, <1>4, <2>2 DEF BlockInv
<1>6. CASE Accumulate(t)
  <2>1. PICK n \in Nat : Multiplying(n)
    BY <1>6, Phase DEF Accumulate
  <2>2. Multiplying(n)' /\ UNCHANGED C
    BY <1>1, <1>6, <2>1, AccumulateStep DEF Accumulate
  <2> QED
    BY <1>3, <1>4, <2>2 DEF BlockInv
<1>7. CASE JointMad(t)
  <2>1. PICK n \in Nat : Loading(n)
    BY <1>7, Phase DEF JointMad
  <2>2. ((\E m \in Nat : Loading(m)') \/ Storing') /\ UNCHANGED C
    BY <1>1, <1>7, <2>1, JointMadStep DEF JointMad
  <2> QED
    BY <1>3, <1>4, <2>2 DEF BlockInv
<1>8. CASE StoreFP32(t) \/ StoreXmx(t)
  <2>1. Storing
    BY <1>8, Phase DEF StoreFP32, StoreXmx
  <2>2. StoredOK' /\ Storing'
    BY <1>1, <1>8, <2>1, StoreStep
  <2> QED
    BY <1>3, <2>2 DEF BlockInv
<1>9. CASE StoreFragment(t)
  <2>1. Storing
    BY <1>9, Phase DEF StoreFragment
  <2>2. Storing' /\ UNCHANGED C
    BY <1>1, <1>9, <2>1, StoreFragmentStep DEF StoreFragment
  <2> QED
    BY <1>3, <1>4, <2>2 DEF BlockInv
<1>10. CASE Scatter(t)
  <2>1. Scattering
    BY <1>10, Phase DEF Scatter
  <2>2. StoredOK' /\ Scattering'
    BY <1>1, <1>10, <2>1, ScatterStep
  <2> QED
    BY <1>3, <2>2 DEF BlockInv
<1> QED
  BY <1>5, <1>6, <1>7, <1>8, <1>9, <1>10 DEF GemmThread

(* A block starts with empty sums, before its first load or its store. *)
LEMMA EnterStep ==
    ASSUME JobOK', NEW j, job' = j, block' \in 0 .. Blocks' - 1, EnterBlock(j)
    PROVE  BlockInv'
<1>1. /\ pc' = [t \in Threads' |-> IF j.K > 0 THEN "load" ELSE "store"]
      /\ kb' = [t \in Threads' |-> 0]
      /\ DOMAIN sA' = 0 .. j.BM * j.BK - 1
      /\ DOMAIN sB' = 0 .. j.BK * j.BN - 1
      /\ acc' = [i \in Cells' |-> <<>>]
  BY DEF EnterBlock, BlockStart, Threads, Cells
<1>2. j \in GemmJobs
  BY DEF JobOK
<1>3. j.K \in Nat /\ j.BK \in Nat \ {0} /\ j.T \in Nat \ {0}
  BY <1>2 DEF GemmJobs
<1>4. Shape'
  BY <1>1 DEF Shape, Labels
<1>5. SumsAt(0)'
  <2>1. Upto(0)' = 0
    BY <1>3 DEF Upto
  <2>2. \A r, c : Partial(r, c, 0)' = <<>>
    BY DEF Partial
  <2> QED
    BY <1>1, <2>1, <2>2 DEF SumsAt
<1>6. CASE j.K > 0
  <2>1. \A i \in Nat : i % j.T \in Threads'
    BY <1>3, DivMod DEF Threads
  <2>2. DOMAIN sA' \subseteq Nat /\ DOMAIN sB' \subseteq Nat
    BY <1>1
  <2>3. \A t \in Threads' : pc'[t] = "load" /\ kb'[t] = 0
    BY <1>1, <1>6
  <2>4. \A i \in DOMAIN sA' \cup DOMAIN sB' : pc'[i % j.T] # "sync1"
    BY <2>1, <2>2, <2>3
  <2>5. 0 < j.K /\ 0 % j.BK = 0
    BY <1>3, <1>6
  <2>6. Loading(0)'
    BY <1>5, <2>3, <2>4, <2>5 DEF Loading
  <2> QED
    BY <1>4, <2>6 DEF BlockInv
<1>7. CASE j.K = 0
  <2>1. SumsAt(job.K)'
    BY <1>5, <1>7 DEF SumsAt
  <2>2. \A t \in Threads' : pc'[t] = "store"
    BY <1>1, <1>7
  <2>3. \A i \in Cells' : pc'[Owner(i)'] = "store"
    <3>1. j.BM \in Nat \ {0} /\ j.BN \in Nat \ {0}
      BY <1>2 DEF GemmJobs
    <3>2. j.BM * j.BN \in Nat \ {0}
      BY <3>1
    <3>3. \A i \in Cells' : Owner(i)' \in Threads'
      BY <1>3, <3>2, ShareOf DEF Owner, Threads, Cells
    <3> QED
      BY <2>2, <3>3
  <2>4. Storing'
    BY <2>1, <2>2, <2>3 DEF Storing
  <2> QED
    BY <1>4, <2>4 DEF BlockInv
<1> QED
  BY <1>3, <1>6, <1>7

(* When a block's threads have all returned, its part of C is stored. *)
LEMMA NextBlockStep ==
    ASSUME JobOK, block \in 0 .. Blocks - 1, StoredOK, BlockInv, NextBlock
    PROVE  GemmInv'
<1>1. job' = job /\ C' = C /\ block' = block + 1 /\ EnterBlock(job)
      /\ \A t \in Threads : pc[t] = "done"
  BY DEF NextBlock
<1>2. Blocks' = Blocks /\ JobOK' /\ Blocks \in Nat
  BY <1>1, GridFacts DEF Blocks, GridX, JobOK
<1>3. ASSUME NEW i \in Cells, InRange(i)
      PROVE  C[Addr(i)] = Product(Addr(i))
  <2>1. Owner(i) \in Threads /\ i % job.T \in Threads
    BY OwnerIsThread, CellFacts
  <2>2. pc[Owner(i)] = "done" /\ pc[i % job.T] = "done"
    BY <1>1, <2>1
  <2>3. Storing \/ Scattering
    BY <2>1, <2>2, Phase
  <2>4. CASE Storing
    BY <1>3, <2>2, <2>4 DEF Storing
  <2>5. CASE Scattering
    BY <1>3, <2>2, <2>5 DEF Scattering
  <2> QED
    BY <2>3, <2>4, <2>5
<1>4. ASSUME NEW e \in DOMAIN C, BlockOf(e) < block + 1
      PROVE  C[e] = Product(e)
  <2>1. BlockOf(e) \in 0 .. Blocks - 1 /\ e \in 0 .. job.M * job.N - 1
    BY CellOf DEF StoredOK
  <2>2. CASE BlockOf(e) < block
    BY <2>2 DEF StoredOK
  <2>3. CASE BlockOf(e) = block
    <3>1. PICK i \in Cells : InRange(i) /\ Addr(i) = e
      BY <2>1, <2>3, CellOf
    <3> QED
      BY <1>3, <3>1
  <2> QED
    BY <1>2, <1>4, <2>1, <2>2, <2>3
<1>5. StoredOK'
  <2>1. \A e : Product(e)' = Product(e) /\ BlockOf(e)' = BlockOf(e)
    BY <1>1 DEF Product, BlockOf, GridX
  <2> QED
    BY <1>1, <1>4, <2>1 DEF StoredOK
<1>6. block' \in 0 .. Blocks'
  BY <1>1, <1>2
<1>7. block' < Blocks' => BlockInv'
  <2>1. SUFFICES ASSUME block' < Blocks' PROVE BlockInv'
    OBVIOUS
  <2>2. block' \in 0 .. Blocks' - 1
    BY <1>2, <1>6, <2>1
  <2>3. job' = job /\ JobOK' /\ EnterBlock(job)
    BY <1>1, <1>2
  <2> QED
    BY <2>2, <2>3, EnterStep
<1> QED
  BY <1>2, <1>5, <1>6, <1>7 DEF GemmInv

(* A launch starts with nothing stored. *)
LEMMA GemmCallStep ==
    ASSUME GemmCall
    PROVE  GemmInv'
<1>1. PICK j \in GemmJobs : StartGrid(j)
  BY DEF GemmCall
<1>2. /\ job' = j /\ block' = 0 /\ EnterBlock(j)
      /\ C' = [e \in 0 .. j.M * j.N - 1 |-> NoSum]
  BY <1>1 DEF StartGrid
<1>3. JobOK'
  BY <1>2 DEF JobOK
<1>4. j.M \in Nat \ {0} /\ j.N \in Nat \ {0} /\ j.BM \in Nat \ {0} /\ j.BN \in Nat \ {0}
  BY DEF GemmJobs
<1>5. GridX' \in Nat \ {0} /\ Blocks' \in Nat \ {0}
  <2>1. GridX' \in Nat \ {0} /\ CeilDiv(j.M, j.BM) \in Nat \ {0}
    BY <1>2, <1>4, CeilDivCovers DEF GridX
  <2>2. Blocks' = GridX' * CeilDiv(j.M, j.BM)
    BY <1>2 DEF Blocks
  <2> QED
    BY <2>1, <2>2
<1>6. BlockInv'
  <2>1. \A b \in Nat \ {0} : 0 \in 0 .. b - 1
    OBVIOUS
  <2>2. block' \in 0 .. Blocks' - 1
    BY <1>2, <1>5, <2>1, Zenon
  <2> QED
    BY <1>2, <1>3, <2>2, EnterStep
<1>7. ASSUME NEW e \in 0 .. j.M * j.N - 1
      PROVE  BlockOf(e)' \in Nat
  <2>1. j.M * j.N \in Nat /\ e \in Nat
    BY <1>4
  <2>2. e \div j.N \in Nat /\ e % j.N \in 0 .. j.N - 1
    BY <1>4, <2>1, DivMod
  <2> DEFINE a == (e \div j.N) \div j.BM
             b == (e % j.N) \div j.BN
  <2>3. a \in Nat /\ b \in Nat
    <3>1. e % j.N \in Nat
      BY <1>4, <2>2
    <3> QED
      BY <1>4, <2>2, <3>1, DivMod
  <2> HIDE DEF a, b
  <2>4. a * GridX' \in Nat
    BY <1>5, <2>3, Products
  <2>5. a * GridX' + b \in Nat
    BY <2>3, <2>4
  <2> QED
    BY <1>2, <2>5 DEF BlockOf, a, b
<1>8. StoredOK'
  <2>1. DOMAIN C' = 0 .. job'.M * job'.N - 1
    BY <1>2
  <2>2. \A e \in DOMAIN C' : C'[e] = NoSum /\ ~(BlockOf(e)' < block')
    BY <1>2, <1>7
  <2> QED
    BY <2>1, <2>2 DEF StoredOK, NoSum, Unset
<1>9. block' \in 0 .. Blocks'
  BY <1>2, <1>5
<1> QED
  BY <1>3, <1>6, <1>8, <1>9 DEF GemmInv

(* GemmInv is an invariant. *)
LEMMA GemmInvInvariant == GemmSpec => []GemmInv
<1>1. GemmInit => GemmInv
  BY DEF GemmInit, GemmInv
<1>2. ASSUME GemmInv, [GemmNext \/ GemmCall]_gemmVars
      PROVE  GemmInv'
  <2>1. CASE GemmCall
    BY <2>1, GemmCallStep
  <2>2. CASE UNCHANGED gemmVars
    <3>1. UNCHANGED <<job, block, pc, kb, sA, sB, sC, acc, C>>
      BY <2>2 DEF gemmVars
    <3>2. /\ Threads' = Threads /\ Cells' = Cells /\ Blocks' = Blocks /\ (JobOK' <=> JobOK)
          /\ \A i : /\ Row(i)' = Row(i) /\ Col(i)' = Col(i) /\ (InRange(i)' <=> InRange(i))
                    /\ Owner(i)' = Owner(i) /\ Addr(i)' = Addr(i)
          /\ \A i, m : TileA(i, m)' = TileA(i, m) /\ TileB(i, m)' = TileB(i, m)
          /\ \A r, c, m : Partial(r, c, m)' = Partial(r, c, m)
          /\ \A m : Upto(m)' = Upto(m)
          /\ \A e : Product(e)' = Product(e)
      BY <3>1, SameBlock
    <3>3. Shape => Shape'
      BY <3>1, <3>2 DEF Shape
    <3>4. \A n \in Nat : Loading(n) => Loading(n)'
      <4>1. \A n \in Nat : SumsAt(n) => SumsAt(n)'
        BY <3>1, SumsKept
      <4> QED
        BY <3>1, <3>2, <4>1 DEF Loading
    <3>5. \A n \in Nat : Multiplying(n) => Multiplying(n)'
      BY <3>1, <3>2 DEF Multiplying
    <3>6. Storing => Storing'
      BY <3>1, <3>2 DEF Storing, SumsAt
    <3>7. Scattering => Scattering'
      BY <3>1, <3>2 DEF Scattering
    <3>8. BlockInv => BlockInv'
      BY <3>3, <3>4, <3>5, <3>6, <3>7 DEF BlockInv
    <3>9. StoredOK => StoredOK'
      BY <3>1, WriteKeeps
    <3> QED
      BY <1>2, <3>1, <3>2, <3>8, <3>9 DEF GemmInv
  <2>3. CASE GemmNext
    <3>1. JobOK /\ block \in 0 .. Blocks - 1 /\ StoredOK /\ BlockInv
      <4>1. block < Blocks
        BY <2>3 DEF GemmNext
      <4>2. job # Throw \/ block # 0
        BY <4>1 DEF Throw, Blocks, GridX, CeilDiv
      <4>3. JobOK /\ block \in 0 .. Blocks /\ StoredOK /\ BlockInv
        BY <1>2, <4>1, <4>2 DEF GemmInv
      <4>4. Blocks \in Nat
        BY <4>3, GridFacts
      <4> QED
        BY <4>1, <4>3, <4>4
    <3>2. CASE NextBlock
      BY <3>1, <3>2, NextBlockStep
    <3>3. CASE Sync \/ \E t \in Threads : GemmThread(t)
      <4>1. StoredOK' /\ BlockInv' /\ UNCHANGED <<job, block>>
        <5>1. CASE Sync
          <6>1. UNCHANGED <<job, block, C>>
            BY <5>1 DEF Sync
          <6> QED
            BY <3>1, <5>1, <6>1, SyncStep, WriteKeeps
        <5>2. ASSUME NEW t \in Threads, GemmThread(t)
              PROVE  StoredOK' /\ BlockInv' /\ UNCHANGED <<job, block>>
          <6>1. UNCHANGED <<job, block>>
            BY <5>2 DEF GemmThread, Load, Accumulate, JointMad, StoreFP32, StoreXmx,
                        StoreFragment, Scatter
          <6> QED
            BY <3>1, <5>2, <6>1, ThreadStep
        <5> QED
          BY <3>3, <5>1, <5>2
      <4>2. JobOK' /\ Blocks' = Blocks
        BY <3>1, <4>1, SameBlock
      <4>3. block' \in 0 .. Blocks'
        BY <3>1, <4>1, <4>2, GridFacts
      <4> QED
        BY <4>1, <4>2, <4>3 DEF GemmInv
    <3> QED
      BY <2>3, <3>2, <3>3 DEF GemmNext
  <2> QED
    BY <1>2, <2>1, <2>2, <2>3
<1> QED
  BY <1>1, <1>2, PTL DEF GemmSpec

(* Whatever the sizes of the matrices, of the tiles and of the block, a    *)
(* GEMM kernel stores nothing but complete products, and at the end of the *)
(* grid all of them.                                                       *)
THEOREM GemmCorrect == GemmSpec => []GemmExact
<1>1. ASSUME GemmInv
      PROVE  GemmExact
  <2>1. CASE job = Throw /\ block = 0 /\ C = <<>>
    BY <2>1 DEF GemmExact, Throw
  <2>2. CASE JobOK /\ block \in 0 .. Blocks /\ StoredOK
    <3>1. \A e \in DOMAIN C : C[e] # NoSum => C[e] = Product(e)
      BY <2>2 DEF StoredOK
    <3>2. ASSUME GridDone, NEW e \in DOMAIN C
          PROVE  C[e] # NoSum
      <4>1. e \in 0 .. job.M * job.N - 1
        BY <2>2 DEF StoredOK
      <4>2. BlockOf(e) < block
        BY <2>2, <3>2, <4>1, CellOf, GridFacts DEF GridDone
      <4>3. C[e] = Product(e)
        BY <2>2, <4>2 DEF StoredOK
      <4>4. e \div job.N \in Nat /\ job.K \in Nat
        <5>1. job.M * job.N \in Nat /\ job.N \in Nat \ {0} /\ job.K \in Nat
          BY <2>2, JobFacts
        <5>2. e \in Nat
          BY <4>1, <5>1
        <5> QED
          BY <5>1, <5>2, DivMod
      <4> DEFINE r == e \div job.N
                 c == e % job.N
      <4>5. Product(e) = [kk \in 1 .. job.K |-> <<<<r * job.K + kk - 1>>, <<(kk - 1) * job.N + c>>>>]
        BY DEF Product
      <4> HIDE DEF r, c
      <4>6. SUFFICES ASSUME Product(e) = NoSum
                     PROVE  FALSE
        BY <4>3
      <4>7. job.K = 1
        <5>1. Len(Product(e)) = job.K /\ Len(NoSum) = 1
          BY <4>4, <4>5 DEF NoSum
        <5> QED
          BY <4>6, <5>1
      <4>8. Product(e)[1][1] = <<r * 1 + 1 - 1>>
        BY <4>5, <4>7
      <4>9. NoSum[1][1] = <<-1>>
        BY DEF NoSum, Unset
      <4>10. r * 1 + 1 - 1 = r /\ r \in Nat
        BY <4>4 DEF r
      <4> QED
        BY <4>6, <4>8, <4>9, <4>10
    <3> QED
      BY <3>1, <3>2 DEF GemmExact
  <2> QED
    BY <1>1, <2>1, <2>2 DEF GemmInv
<1> QED
  BY <1>1, GemmInvInvariant, PTL

(* What the launch functions launch is among GemmJobs. *)
LEMMA LaunchesAreJobs ==
    ASSUME NEW M \in Nat \ {0}, NEW N \in Nat \ {0}, NEW K \in Nat, NEW cfg
    PROVE  /\ launch_matmul(cfg, M, N, K) \in GemmJobs \cup {Throw}
           /\ launch_matmul_bf16_cuda(M, N, K) \in GemmJobs
           /\ launch_matmul_bf16_hip(M, N, K) \in GemmJobs
           /\ gemm_tiled_sycl(M, N, K) \in GemmJobs \cup {Throw}
           /\ gemm_xmx_bf16(M, N, K) \in GemmJobs \cup {Throw}
<1> USE DEF GemmJobs, Launch
<1>1. launch_matmul(cfg, M, N, K) \in GemmJobs \cup {Throw}
  <2>1. CASE cfg \in FP32Configs
    <3>1. /\ cfg[1] \in Nat \ {0} /\ cfg[2] \in Nat \ {0} /\ cfg[3] \in Nat \ {0}
          /\ cfg[1] * cfg[2] \in Nat \ {0}
      BY <2>1 DEF FP32Configs
    <3> QED
      BY <2>1, <3>1 DEF launch_matmul
  <2>2. CASE cfg \notin FP32Configs
    BY <2>2 DEF launch_matmul
  <2> QED
    BY <2>1, <2>2
<1>2. launch_matmul_bf16_cuda(M, N, K) \in GemmJobs
  BY DEF launch_matmul_bf16_cuda
<1>3. launch_matmul_bf16_hip(M, N, K) \in GemmJobs
  BY DEF launch_matmul_bf16_hip
<1>4. gemm_tiled_sycl(M, N, K) \in GemmJobs \cup {Throw}
  BY DEF gemm_tiled_sycl
<1>5. gemm_xmx_bf16(M, N, K) \in GemmJobs \cup {Throw}
  BY DEF gemm_xmx_bf16
<1> QED
  BY <1>1, <1>2, <1>3, <1>4, <1>5

-----------------------------------------------------------------------------
(* FlashAttention: the inductive invariant *)

(* The launch is one the kernel is written for. *)
FlashJobOK == fjob \in FlashJobs

(* The query tile of the running block has all its rows. *)
FullTile == ((fblock % Tr) + 1) * fjob.Br <= fjob.Sq

(* The row of O that warp w computes. *)
ORow(w) == RowOf(bh \div fjob.Hq, bh % fjob.Hq, q_row(w), fjob.Hq, fjob.Sq)

(* The number of keys it may see. *)
Keys(w) == IF fjob.causal /\ q_row(w) + 1 < fjob.Skv THEN q_row(w) + 1 ELSE fjob.Skv

(* The number of keys it may see among the first s. *)
Seen(w, s) == IF s < Keys(w) THEN s ELSE Keys(w)

(* Row s of K, or of V. *)
KVVec(s) == [d \in 1 .. fjob.D |-> <<KVRow(s) * fjob.D + d - 1>>]

(* Attention of warp w's row over the first n keys. *)
Attended(w, n) == [s \in 1 .. n |-> << <<<<ORow(w)>>, KVVec(s - 1)>>, KVVec(s - 1) >>]

(* The scores of warp w's row for the tile of keys at s. *)
Scores(w, s) ==
    [j \in 1 .. fjob.Bc |-> IF s + j - 1 < Keys(w) THEN <<<<ORow(w)>>, KVVec(s + j - 1)>> ELSE Empty]

(* A row of weighted values, right or wrong. *)
IsRow(x) == \E scores, values : Empty \notin values /\ x \in Seq(scores \X values)

(* The block is in the loop's body with tile n. *)
InTile(n) ==
    /\ n < Tc /\ ~(fjob.causal /\ n * fjob.Bc > q_row(0))
    /\ \A w \in Warps : tile[w] = n /\ sQ[w] = <<ORow(w)>>

(* The phases of a block whose query tile is full; the warps that wait at  *)
(* the barrier have done their part.                                       *)
LoadingQ ==
    \A w \in Warps : /\ fpc[w] \in {"loadq", "syncq"} /\ tile[w] = 0 /\ o[w] = <<>>
                     /\ fpc[w] = "syncq" => sQ[w] = <<ORow(w)>>

(* K and V are loaded for tile n. *)
LoadingKV(n) ==
    /\ \A w \in Warps : fpc[w] \in {"loadkv", "sync1"} /\ o[w] = Attended(w, Seen(w, n * fjob.Bc))
    /\ InTile(n)
    /\ \A i \in DOMAIN sK : fpc[Loader(i)] = "sync1" =>
          sK[i] = KVElem(i, n * fjob.Bc) /\ sV[i] = KVElem(i, n * fjob.Bc)

(* The tile is complete and the scores are computed. *)
Scoring(n) ==
    /\ \A w \in Warps : /\ fpc[w] \in {"score", "sync2"}
                        /\ o[w] = Attended(w, Seen(w, n * fjob.Bc))
                        /\ fpc[w] = "sync2" => sS[w] = Scores(w, n * fjob.Bc)
    /\ InTile(n)
    /\ \A i \in DOMAIN sK : sK[i] = KVElem(i, n * fjob.Bc) /\ sV[i] = KVElem(i, n * fjob.Bc)

(* The scores are complete and the values are weighted with them. *)
Weighing(n) ==
    /\ \A w \in Warps : /\ fpc[w] \in {"softmax", "sync3"}
                        /\ o[w] = Attended(w, Seen(w, IF fpc[w] = "softmax" THEN n * fjob.Bc
                                                      ELSE (n + 1) * fjob.Bc))
                        /\ sS[w] = Scores(w, n * fjob.Bc)
    /\ InTile(n)
    /\ \A i \in DOMAIN sK : sV[i] = KVElem(i, n * fjob.Bc)

(* The loop is over. *)
StoringO ==
    \A w \in Warps : /\ fpc[w] \in {"store", "done"}
                     /\ o[w] = Attended(w, Keys(w))
                     /\ fpc[w] = "done" => O[ORow(w)] = Attention(ORow(w))

(* Where a warp can be. *)
FlashLabels == {"loadq", "syncq", "loadkv", "sync1", "score", "sync2", "softmax", "sync3",
                "store", "done"}

(* What holds in any block: the domains, and that a warp that is through   *)
(* with its row has stored one.                                            *)
FlashShape ==
    /\ fpc \in [Warps -> FlashLabels]
    /\ tile \in [Warps -> Nat]
    /\ DOMAIN sQ = Warps /\ DOMAIN sS = Warps /\ DOMAIN o = Warps
    /\ DOMAIN sK = 0 .. fjob.Bc * fjob.D - 1 /\ DOMAIN sV = DOMAIN sK
    /\ \A w \in Warps : /\ IsRow(o[w])
                        /\ fpc[w] # "done" => q_row(w) < fjob.Sq
                        /\ fpc[w] = "done" /\ q_row(w) < fjob.Sq => O[ORow(w)] # NoRow

(* The running block. *)
FlashBlockInv ==
    /\ FlashShape
    /\ FullTile => \/ LoadingQ
                   \/ \E n \in Nat : LoadingKV(n) \/ Scoring(n) \/ Weighing(n)
                   \/ StoringO

(* The block that row e of O belongs to. *)
FlashBlockOf(e) == (e \div fjob.Sq) * Tr + (e % fjob.Sq) \div fjob.Br

(* What has been stored is right in the full tiles, and the blocks that    *)
(* have run have stored all their rows.                                    *)
RowsOK ==
    /\ DOMAIN O = 0 .. fjob.B * fjob.Hq * fjob.Sq - 1
    /\ \A e \in DOMAIN O : /\ InFullTile(e) /\ O[e] # NoRow => O[e] = Attention(e)
                           /\ FlashBlockOf(e) < fblock => O[e] # NoRow

(* FlashExact is inductive with the phase the block is in. *)
FlashInv ==
    \/ fjob = NoLaunch /\ fblock = 0 /\ O = <<>>
    \/ /\ FlashJobOK
       /\ fblock \in 0 .. FlashBlocks
       /\ RowsOK
       /\ fblock < FlashBlocks => FlashBlockInv

-----------------------------------------------------------------------------
(* FlashAttention: geometry *)

(* Dividing twice. *)
LEMMA DivDiv ==
    ASSUME NEW a \in Nat, NEW p \in Nat \ {0}, NEW q \in Nat \ {0}
    PROVE  a \div (p * q) = (a \div q) \div p
<1> DEFINE x == a \div q
           r == a % q
<1>1. x \in Nat /\ r \in 0 .. q - 1 /\ a = x * q + r
  BY DivMod
<1> HIDE DEF x, r
<1> DEFINE y == x \div p
           z == x % p
<1>2. y \in Nat /\ z \in 0 .. p - 1 /\ x = y * p + z
  BY <1>1, DivMod
<1> HIDE DEF y, z
<1>3. z * q + r \in 0 .. p * q - 1
  BY <1>1, <1>2, FlatIndex
<1>4. a = y * (p * q) + (z * q + r)
  <2>1. (y * p + z) * q = y * (p * q) + z * q
    BY <1>2
  <2>2. y * (p * q) \in Nat /\ z * q \in Nat /\ r \in Nat
    BY <1>1, <1>2
  <2> QED
    BY <1>1, <1>2, <2>1, <2>2
<1>5. p * q \in Nat \ {0}
  OBVIOUS
<1>6. (y * (p * q) + (z * q + r)) \div (p * q) = y
  BY <1>2, <1>3, <1>5, DivModUnique
<1> QED
  BY <1>4, <1>6 DEF x, y

(* Exact division. *)
LEMMA Divides ==
    ASSUME NEW a \in Nat \ {0}, NEW b \in Nat \ {0}, a % b = 0
    PROVE  a \div b \in Nat \ {0} /\ a = (a \div b) * b
<1> DEFINE g == a \div b
<1>1. g \in Nat /\ a = g * b + 0
  <2>1. g \in Nat /\ a = g * b + (a % b)
    BY DivMod
  <2> QED
    BY <2>1
<1> HIDE DEF g
<1>2. g \in Nat \ {0} /\ a = g * b
  BY <1>1
<1> QED
  BY <1>2 DEF g

(* The two ways to find the key head of a query head. *)
LEMMA HeadOf ==
    ASSUME NEW g \in Nat \ {0}, NEW b \in Nat \ {0}, NEW h \in Nat
    PROVE  (h * b) \div (g * b) = h \div g
<1> DEFINE x == h \div g
           y == h % g
<1>1. x \in Nat /\ y \in 0 .. g - 1 /\ h = x * g + y
  BY DivMod
<1> HIDE DEF x, y
<1>2. 0 \in 0 .. b - 1
  OBVIOUS
<1>3. y * b + 0 \in 0 .. g * b - 1
  BY <1>1, <1>2, FlatIndex
<1>4. h * b = x * (g * b) + (y * b + 0)
  <2>1. (x * g + y) * b = x * (g * b) + y * b
    BY <1>1
  <2>2. y * b \in Nat /\ x * (g * b) \in Nat
    BY <1>1
  <2> QED
    BY <1>1, <2>1, <2>2
<1>5. g * b \in Nat \ {0}
  OBVIOUS
<1>6. (x * (g * b) + (y * b + 0)) \div (g * b) = x
  BY <1>1, <1>3, <1>5, DivModUnique
<1> QED
  BY <1>4, <1>6 DEF x

(* A tile of the grid begins inside the matrix. *)
LEMMA TileBegins ==
    ASSUME NEW a \in Nat, NEW b \in Nat \ {0}, NEW n \in Nat
    PROVE  /\ n < CeilDiv(a, b) <=> n * b < a
           /\ CeilDiv(a, b) \in Nat
<1> DEFINE c == (a + b - 1) \div b
           d == (a + b - 1) % b
<1>1. a + b - 1 \in Nat
  OBVIOUS
<1>2. c \in Nat /\ d \in 0 .. b - 1 /\ a + b - 1 = c * b + d
  BY <1>1, DivMod
<1> HIDE DEF c, d
<1>3. n * b \in Nat /\ c * b \in Nat
  BY <1>2, Products
<1>4. ASSUME n < c PROVE n * b < a
  <2>1. (n + 1) * b <= c * b /\ (n + 1) * b = n * b + b
    BY <1>2, <1>4, Products
  <2> QED
    BY <1>2, <1>3, <2>1
<1>5. ASSUME c <= n PROVE ~(n * b < a)
  <2>1. c * b <= n * b
    BY <1>2, <1>5, Products
  <2> QED
    BY <1>2, <1>3, <2>1
<1> QED
  BY <1>2, <1>4, <1>5 DEF CeilDiv, c

(* The causal break is the same for all rows of a query tile. *)
LEMMA BreakAgrees ==
    ASSUME NEW a \in Nat \ {0}, NEW b \in Nat \ {0}, a % b = 0,
           NEW n \in Nat, NEW q \in Nat, NEW w \in 0 .. b - 1
    PROVE  n * a > q * b + w <=> n * a > q * b + 0
<1> DEFINE g == a \div b
<1>1. g \in Nat /\ a = g * b
  <2>1. g \in Nat /\ a = g * b + (a % b)
    BY DivMod
  <2> QED
    BY <2>1
<1> HIDE DEF g
<1>2. n * a = (n * g) * b /\ n * g \in Nat
  BY <1>1
<1> DEFINE m == n * g
<1> HIDE DEF m
<1>3. m \in Nat /\ m * b \in Nat /\ q * b \in Nat /\ n * a = m * b
  BY <1>2 DEF m
<1>4. m <= q => m * b <= q * b
  BY <1>3, Products
<1>5. q + 1 <= m => (q + 1) * b <= m * b
  BY <1>3, Products
<1>6. (q + 1) * b = q * b + b
  BY Products
<1> QED
  BY <1>3, <1>4, <1>5, <1>6

(* The sizes of a launch. *)
LEMMA FlashJobFacts ==
    ASSUME FlashJobOK
    PROVE  /\ fjob.Br \in Nat \ {0} /\ fjob.Bc \in Nat \ {0} /\ fjob.D \in Nat \ {0}
           /\ fjob.B \in Nat \ {0} /\ fjob.Hq \in Nat \ {0} /\ fjob.Hkv \in Nat \ {0}
           /\ fjob.Sq \in Nat \ {0} /\ fjob.Skv \in Nat /\ fjob.causal \in BOOLEAN
           /\ fjob.Bc % fjob.Br = 0 /\ fjob.Hq % fjob.Hkv = 0
  BY DEF FlashJobOK, FlashJobs

(* The heads of all batch entries, and the blocks: one per head and tile. *)
LEMMA FlashGrid ==
    ASSUME FlashJobOK
    PROVE  /\ Tr = CeilDiv(fjob.Sq, fjob.Br) /\ Tr \in Nat \ {0}
           /\ Tc = CeilDiv(fjob.Skv, fjob.Bc) /\ Tc \in Nat
           /\ fjob.B * fjob.Hq \in Nat \ {0}
           /\ FlashBlocks = (fjob.B * fjob.Hq) * Tr /\ FlashBlocks \in Nat \ {0}
<1>1. Tr = CeilDiv(fjob.Sq, fjob.Br) /\ Tc = CeilDiv(fjob.Skv, fjob.Bc)
  BY DEF Tr, Tc, CeilDiv
<1>2. Tr \in Nat \ {0}
  BY <1>1, FlashJobFacts, CeilDivCovers
<1>3. Tc \in Nat
  BY <1>1, FlashJobFacts, TileBegins
<1> DEFINE b == fjob.B
           h == fjob.Hq
           r == Tr
<1>4. FlashBlocks = r * b * h
  BY DEF FlashBlocks
<1>5. r \in Nat \ {0} /\ b \in Nat \ {0} /\ h \in Nat \ {0}
  BY <1>2, FlashJobFacts
<1> HIDE DEF b, h, r
<1>6. b * h \in Nat \ {0} /\ r * b * h = (b * h) * r
  BY <1>5
<1>7. (b * h) * r \in Nat \ {0}
  BY <1>5, <1>6
<1> QED
  BY <1>1, <1>2, <1>3, <1>4, <1>6, <1>7 DEF b, h, r

(* The running block: its head bh, its query tile, and a warp's row. *)
LEMMA FlashBlock ==
    ASSUME FlashJobOK, fblock \in 0 .. FlashBlocks - 1
    PROVE  /\ bh \in 0 .. fjob.B * fjob.Hq - 1 /\ fblock % Tr \in 0 .. Tr - 1
           /\ fblock = bh * Tr + (fblock % Tr)
           /\ bh \div fjob.Hq \in Nat /\ bh % fjob.Hq \in 0 .. fjob.Hq - 1
           /\ bh = (bh \div fjob.Hq) * fjob.Hq + (bh % fjob.Hq)
           /\ \A w \in Warps : /\ w \in 0 .. fjob.Br - 1
                               /\ q_row(w) = (fblock % Tr) * fjob.Br + w /\ q_row(w) \in Nat
<1>1. Tr \in Nat \ {0} /\ fjob.B * fjob.Hq \in Nat /\ fblock \in 0 .. (fjob.B * fjob.Hq) * Tr - 1
      /\ fjob.Hq \in Nat \ {0} /\ fjob.Br \in Nat \ {0} /\ fjob.B \in Nat
  BY FlashGrid, FlashJobFacts
<1>2. /\ bh \in 0 .. fjob.B * fjob.Hq - 1 /\ fblock % Tr \in 0 .. Tr - 1
      /\ fblock = bh * Tr + (fblock % Tr)
  <2> DEFINE p == fjob.B * fjob.Hq
  <2>1. p \in Nat /\ fblock \in 0 .. p * Tr - 1
    BY <1>1
  <2> HIDE DEF p
  <2>2. /\ fblock \div Tr \in 0 .. p - 1 /\ fblock % Tr \in 0 .. Tr - 1
        /\ fblock = (fblock \div Tr) * Tr + (fblock % Tr)
    BY <1>1, <2>1, RowCol
  <2> QED
    BY <2>2 DEF bh, p
<1>3. bh \in Nat
  BY <1>1, <1>2
<1>4. /\ bh \div fjob.Hq \in Nat /\ bh % fjob.Hq \in 0 .. fjob.Hq - 1
      /\ bh = (bh \div fjob.Hq) * fjob.Hq + (bh % fjob.Hq)
  BY <1>1, <1>3, DivMod
<1>5. ASSUME NEW w \in Warps
      PROVE  /\ w \in 0 .. fjob.Br - 1
             /\ q_row(w) = (fblock % Tr) * fjob.Br + w /\ q_row(w) \in Nat
  <2>1. w \in 0 .. fjob.Br - 1 /\ q_row(w) = (fblock % Tr) * fjob.Br + w
    BY DEF Warps, q_row
  <2>2. fblock % Tr \in Nat
    BY <1>1, <1>2
  <2>3. (fblock % Tr) * fjob.Br \in Nat
    BY <1>1, <2>2, Products
  <2> QED
    BY <1>1, <2>1, <2>3
<1> QED
  BY <1>2, <1>4, <1>5

(* The row of a warp that has one, and the way back. *)
LEMMA ORowFacts ==
    ASSUME FlashJobOK, fblock \in 0 .. FlashBlocks - 1, NEW w \in Warps, q_row(w) < fjob.Sq
    PROVE  /\ ORow(w) = bh * fjob.Sq + q_row(w)
           /\ ORow(w) \in 0 .. fjob.B * fjob.Hq * fjob.Sq - 1
           /\ ORow(w) \div fjob.Sq = bh /\ ORow(w) % fjob.Sq = q_row(w)
           /\ InFullTile(ORow(w)) <=> FullTile
           /\ FlashBlockOf(ORow(w)) = fblock
<1> DEFINE b == bh \div fjob.Hq
           h == bh % fjob.Hq
           H == fjob.Hq
           S == fjob.Sq
           q == q_row(w)
<1>1. /\ b \in Nat /\ h \in Nat /\ H \in Nat /\ S \in Nat \ {0} /\ q \in 0 .. S - 1
      /\ bh = b * H + h /\ bh \in Nat
  <2>1. b \in Nat /\ h \in 0 .. H - 1 /\ bh = b * H + h /\ q \in Nat
    BY FlashBlock
  <2>2. H \in Nat \ {0} /\ S \in Nat \ {0} /\ q < S
    BY FlashJobFacts
  <2> HIDE DEF b, h, H, S, q
  <2>3. h \in Nat /\ q \in 0 .. S - 1
    BY <2>1, <2>2
  <2>4. b * H \in Nat
    BY <2>1, <2>2, Products
  <2> QED
    BY <2>1, <2>2, <2>3, <2>4
<1>2. ORow(w) = b * H * S + h * S + q
  BY DEF ORow, RowOf
<1> HIDE DEF b, h, H, S, q
<1>3. (b * H + h) * S = b * H * S + h * S
  BY <1>1
<1>4. ORow(w) = bh * S + q
  BY <1>1, <1>2, <1>3
<1>5. fjob.B * fjob.Hq \in Nat /\ bh \in 0 .. fjob.B * fjob.Hq - 1
  BY FlashGrid, FlashBlock
<1>6. /\ ORow(w) \in 0 .. (fjob.B * fjob.Hq) * S - 1
      /\ ORow(w) \div S = bh /\ ORow(w) % S = q
  <2> DEFINE p == fjob.B * fjob.Hq
  <2>1. p \in Nat /\ bh \in 0 .. p - 1
    BY <1>5
  <2> HIDE DEF p
  <2>2. /\ bh * S + q \in 0 .. p * S - 1
        /\ (bh * S + q) \div S = bh /\ (bh * S + q) % S = q
    BY <1>1, <2>1, FlatIndex
  <2> QED
    BY <1>4, <2>2 DEF p
<1>7. q \div fjob.Br = fblock % Tr
  <2>1. fblock % Tr \in Nat /\ fjob.Br \in Nat \ {0} /\ w \in 0 .. fjob.Br - 1
    BY FlashGrid, FlashBlock, FlashJobFacts
  <2>2. q = (fblock % Tr) * fjob.Br + w
    BY FlashBlock DEF q
  <2> QED
    BY <2>1, <2>2, DivModUnique
<1>8. InFullTile(ORow(w)) <=> FullTile
  BY <1>6, <1>7 DEF InFullTile, FullTile, S
<1>9. FlashBlockOf(ORow(w)) = fblock
  <2>1. FlashBlockOf(ORow(w)) = bh * Tr + (fblock % Tr)
    BY <1>6, <1>7 DEF FlashBlockOf, S
  <2> QED
    BY <2>1, FlashBlock
<1> QED
  BY <1>4, <1>6, <1>8, <1>9 DEF S, q

(* Every row of O has a warp in its block. *)
LEMMA WarpOf ==
    ASSUME FlashJobOK, NEW e \in 0 .. fjob.B * fjob.Hq * fjob.Sq - 1
    PROVE  /\ FlashBlockOf(e) \in 0 .. FlashBlocks - 1
           /\ fblock = FlashBlockOf(e) => \E w \in Warps : q_row(w) < fjob.Sq /\ ORow(w) = e
<1> DEFINE p == fjob.B * fjob.Hq
           y == e \div fjob.Sq
           s == e % fjob.Sq
           x == s \div fjob.Br
           w == s % fjob.Br
<1>1. p \in Nat /\ fjob.Sq \in Nat \ {0} /\ fjob.Br \in Nat \ {0} /\ Tr \in Nat \ {0}
      /\ Tr = CeilDiv(fjob.Sq, fjob.Br)
  BY FlashGrid, FlashJobFacts
<1> HIDE DEF p
<1>2. y \in 0 .. p - 1 /\ s \in 0 .. fjob.Sq - 1 /\ e = y * fjob.Sq + s
  <2>1. e \in 0 .. p * fjob.Sq - 1
    BY DEF p
  <2> QED
    BY <1>1, <2>1, RowCol
<1> HIDE DEF y, s
<1>3. s \in Nat
  BY <1>1, <1>2
<1>4. x \in 0 .. Tr - 1
  BY <1>1, <1>2, CeilDivCovers
<1>5. w \in 0 .. fjob.Br - 1 /\ s = x * fjob.Br + w
  BY <1>1, <1>3, DivMod
<1> HIDE DEF x, w
<1>6. FlashBlockOf(e) = y * Tr + x
  BY DEF FlashBlockOf, y, s, x
<1>7. /\ y * Tr + x \in 0 .. p * Tr - 1
      /\ (y * Tr + x) \div Tr = y /\ (y * Tr + x) % Tr = x
  <2> DEFINE n == Tr
  <2>1. n \in Nat \ {0} /\ x \in 0 .. n - 1 /\ p \in Nat /\ y \in 0 .. p - 1
    BY <1>1, <1>2, <1>4
  <2> HIDE DEF n
  <2>2. /\ y * n + x \in 0 .. p * n - 1
        /\ (y * n + x) \div n = y /\ (y * n + x) % n = x
    BY <2>1, FlatIndex
  <2> QED
    BY <2>2 DEF n
<1>8. FlashBlockOf(e) \in 0 .. FlashBlocks - 1
  BY <1>6, <1>7, FlashGrid DEF p
<1>9. ASSUME fblock = FlashBlockOf(e)
      PROVE  w \in Warps /\ q_row(w) < fjob.Sq /\ ORow(w) = e
  <2>1. w \in Warps /\ bh = y /\ fblock % Tr = x
    BY <1>5, <1>6, <1>7, <1>9 DEF Warps, bh
  <2>2. q_row(w) = s
    BY <1>5, <2>1 DEF q_row
  <2>3. s < fjob.Sq
    BY <1>1, <1>2
  <2>4. ORow(w) = bh * fjob.Sq + q_row(w)
    BY <1>8, <1>9, <2>1, <2>2, <2>3, ORowFacts
  <2> QED
    BY <1>2, <2>1, <2>2, <2>3, <2>4
<1> QED
  BY <1>8, <1>9

(* A warp loads each element of a tile. *)
LEMMA LoaderIsWarp ==
    ASSUME FlashJobOK, NEW i \in Nat
    PROVE  Loader(i) \in Warps
<1>1. fjob.Br \in Nat /\ Lanes \in Nat \ {0} /\ fjob.Br * Lanes \in Nat \ {0}
  BY FlashJobFacts, FlashAssumption
<1>2. i % (fjob.Br * Lanes) \in 0 .. fjob.Br * Lanes - 1
  BY <1>1, DivMod
<1>3. (i % (fjob.Br * Lanes)) \div Lanes \in 0 .. fjob.Br - 1
  BY <1>1, <1>2, RowCol
<1> QED
  BY <1>3 DEF Loader, Warps

-----------------------------------------------------------------------------
(* FlashAttention: what is computed *)

(* The keys of a warp. *)
LEMMA KeysFacts ==
    ASSUME FlashJobOK, fblock \in 0 .. FlashBlocks - 1, NEW w \in Warps
    PROVE  /\ Keys(w) \in Nat /\ Keys(w) <= fjob.Skv
           /\ \A s \in Nat : s < Keys(w) <=> s < fjob.Skv /\ ~(fjob.causal /\ s > q_row(w))
<1>1. fjob.Skv \in Nat /\ q_row(w) \in Nat
  BY FlashJobFacts, FlashBlock
<1> QED
  BY <1>1 DEF Keys

(* The kernel's row of K is the row of the definition. *)
LEMMA KVRowIs ==
    ASSUME FlashJobOK, fblock \in 0 .. FlashBlocks - 1, NEW s \in Nat
    PROVE  /\ KVRow(s) \in Nat
           /\ KVRow(s) = ((bh \div fjob.Hq) * fjob.Hkv
                            + ((bh % fjob.Hq) * fjob.Hkv) \div fjob.Hq) * fjob.Skv + s
<1> DEFINE b == bh \div fjob.Hq
           h == bh % fjob.Hq
           H == fjob.Hkv
           S == fjob.Skv
           x == h \div (fjob.Hq \div H)
<1>1. b \in Nat /\ h \in Nat /\ H \in Nat /\ S \in Nat
  <2>1. b \in Nat /\ h \in 0 .. fjob.Hq - 1
    BY FlashBlock
  <2>2. fjob.Hq \in Nat
    BY FlashJobFacts
  <2>3. H \in Nat /\ S \in Nat
    BY FlashJobFacts
  <2> HIDE DEF h
  <2> QED
    BY <2>1, <2>2, <2>3
<1>2. (h * H) \div fjob.Hq = x /\ fjob.Hq \div H \in Nat \ {0}
  <2>1. fjob.Hq \in Nat \ {0} /\ H \in Nat \ {0} /\ fjob.Hq % H = 0
    BY FlashJobFacts
  <2> DEFINE g == fjob.Hq \div H
  <2>2. g \in Nat \ {0} /\ fjob.Hq = g * H
    BY <2>1, Divides
  <2> HIDE DEF h, H, g
  <2>3. (h * H) \div (g * H) = h \div g
    BY <1>1, <2>1, <2>2, HeadOf
  <2> QED
    BY <2>2, <2>3 DEF g
<1>3. x \in Nat
  BY <1>1, <1>2, DivMod
<1>4. KVRow(s) = b * H * S + x * S + s
  BY DEF KVRow, RowOf, hkv
<1>5. (b * H + (h * H) \div fjob.Hq) * S + s = (b * H + x) * S + s
  BY <1>2
<1> HIDE DEF b, h, H, S, x
<1>6. (b * H + x) * S = b * H * S + x * S
  BY <1>1, <1>3
<1>7. b * H * S \in Nat /\ x * S \in Nat
  BY <1>1, <1>3
<1> QED
  BY <1>4, <1>5, <1>6, <1>7 DEF b, h, H, S

(* Attention of a row is attention over all the keys it may see. *)
LEMMA AttentionIs ==
    ASSUME FlashJobOK, fblock \in 0 .. FlashBlocks - 1, NEW w \in Warps, q_row(w) < fjob.Sq
    PROVE  Attention(ORow(w)) = Attended(w, Keys(w))
<1> DEFINE e == ORow(w)
           kv(s) == ((e \div (fjob.Hq * fjob.Sq)) * fjob.Hkv
                      + (((e \div fjob.Sq) % fjob.Hq) * fjob.Hkv) \div fjob.Hq) * fjob.Skv + s
           last == IF fjob.causal /\ e % fjob.Sq < fjob.Skv - 1 THEN e % fjob.Sq ELSE fjob.Skv - 1
           vec(s) == [d \in 1 .. fjob.D |-> <<kv(s) * fjob.D + d - 1>>]
<1>1. Attention(e) = [s \in 1 .. last + 1 |-> << <<<<e>>, vec(s - 1)>>, vec(s - 1) >>]
  BY DEF Attention
<1>2. e \in 0 .. fjob.B * fjob.Hq * fjob.Sq - 1 /\ e \div fjob.Sq = bh /\ e % fjob.Sq = q_row(w)
  BY ORowFacts
<1>3. e \in Nat
  <2>1. fjob.B * fjob.Hq \in Nat /\ fjob.Sq \in Nat
    BY FlashGrid, FlashJobFacts
  <2>2. fjob.B * fjob.Hq * fjob.Sq \in Nat
    BY <2>1
  <2> HIDE DEF e
  <2> QED
    BY <1>2, <2>2
<1>4. e \div (fjob.Hq * fjob.Sq) = bh \div fjob.Hq
  <2>1. fjob.Hq \in Nat \ {0} /\ fjob.Sq \in Nat \ {0}
    BY FlashJobFacts
  <2> HIDE DEF e
  <2> QED
    BY <1>2, <1>3, <2>1, DivDiv
<1>5. ASSUME NEW s \in Nat
      PROVE  kv(s) = KVRow(s)
  <2>1. KVRow(s) = ((bh \div fjob.Hq) * fjob.Hkv
                      + ((bh % fjob.Hq) * fjob.Hkv) \div fjob.Hq) * fjob.Skv + s
    BY KVRowIs
  <2> HIDE DEF e
  <2> QED
    BY <1>2, <1>4, <2>1, Zenon
<1>6. last + 1 = Keys(w)
  <2>1. fjob.Skv \in Nat /\ q_row(w) \in Nat
    BY FlashJobFacts, FlashBlock
  <2>2. last = IF fjob.causal /\ q_row(w) < fjob.Skv - 1 THEN q_row(w) ELSE fjob.Skv - 1
    BY <1>2
  <2> HIDE DEF last
  <2> QED
    BY <2>1, <2>2 DEF Keys
<1> HIDE DEF kv, last
<1>7. ASSUME NEW s \in 1 .. Keys(w)
      PROVE  vec(s - 1) = KVVec(s - 1)
  <2>1. s - 1 \in Nat
    BY KeysFacts
  <2> QED
    BY <1>5, <2>1 DEF KVVec
<1> HIDE DEF vec, e
<1>8. [s \in 1 .. Keys(w) |-> << <<<<e>>, vec(s - 1)>>, vec(s - 1) >>] = Attended(w, Keys(w))
  BY <1>7 DEF Attended, e
<1> QED
  BY <1>1, <1>6, <1>8 DEF e

(* A row of a loaded tile that is inside K. *)
LEMMA VectorIs ==
    ASSUME FlashJobOK, fblock \in 0 .. FlashBlocks - 1, NEW m, NEW s \in Nat,
           \A i \in 0 .. fjob.Bc * fjob.D - 1 : m[i] = KVElem(i, s),
           NEW j \in 1 .. fjob.Bc, s + j - 1 < fjob.Skv
    PROVE  Vector(m, j - 1) = KVVec(s + j - 1)
<1>1. fjob.Bc \in Nat /\ fjob.D \in Nat \ {0} /\ j - 1 \in 0 .. fjob.Bc - 1 /\ s + j - 1 \in Nat
  BY FlashJobFacts
<1> DEFINE l == j - 1
           r == s + j - 1
<1>2. s + l = r /\ l \in 0 .. fjob.Bc - 1 /\ l \in Nat /\ r \in Nat /\ r < fjob.Skv
  BY <1>1
<1> HIDE DEF l, r
<1>3. ASSUME NEW d \in 1 .. fjob.D
      PROVE  m[l * fjob.D + d - 1] = <<KVRow(r) * fjob.D + d - 1>>
  <2> DEFINE c == d - 1
  <2>1. c \in 0 .. fjob.D - 1 /\ c \in Nat
    BY <1>1
  <2>2. l * fjob.D \in Nat /\ KVRow(r) * fjob.D \in Nat
    BY <1>1, <1>2, KVRowIs, Products
  <2>3. l * fjob.D + d - 1 = l * fjob.D + c /\ KVRow(r) * fjob.D + d - 1 = KVRow(r) * fjob.D + c
    BY <1>1, <2>2
  <2> HIDE DEF c
  <2>4. /\ l * fjob.D + c \in 0 .. fjob.Bc * fjob.D - 1
        /\ (l * fjob.D + c) \div fjob.D = l /\ (l * fjob.D + c) % fjob.D = c
    BY <1>1, <1>2, <2>1, FlatIndex, ZenonT(20)
  <2>5. KVElem(l * fjob.D + c, s) = <<KVRow(r) * fjob.D + c>>
    BY <1>2, <2>4, Zenon DEF KVElem
  <2> QED
    BY <2>3, <2>4, <2>5, Zenon
<1>4. Vector(m, l) = KVVec(r)
  BY <1>3 DEF Vector, KVVec
<1> QED
  BY <1>4 DEF l, r

(* One key more. *)
LEMMA AttendedAppend ==
    ASSUME NEW w, NEW n \in Nat
    PROVE  Append(Attended(w, n), << <<<<ORow(w)>>, KVVec(n)>>, KVVec(n) >>) = Attended(w, n + 1)
  BY DEF Attended

(* One turn of the loop over the scores S. *)
WTurn(x, j, a, S) ==
    IF AllMasked(a, S) \/ S[j] # Empty THEN Append(x, <<S[j], Vector(sV, j - 1)>>) ELSE x

(* g does the first n turns. *)
WTurns(g, n, a, S) ==
    g = [j \in 0 .. n |-> IF j = 0 THEN a ELSE WTurn(g[j - 1], j, a, S)]

(* There is such a function. *)
LEMMA WeightedExist ==
    ASSUME NEW a, NEW S, NEW n \in Nat
    PROVE  \E g : WTurns(g, n, a, S)
<1> DEFINE X == {kk \in Nat : \E g : WTurns(g, kk, a, S)}
<1>1. 0 \in X
  <2> DEFINE g == [kk \in 0 .. 0 |-> a]
  <2>1. WTurns(g, 0, a, S)
    BY DEF WTurns
  <2> QED
    BY <2>1
<1>2. ASSUME NEW kk \in 1 .. n, kk - 1 \in X
      PROVE  kk \in X
  <2>1. PICK g : WTurns(g, kk - 1, a, S)
    BY <1>2
  <2> DEFINE h == [j \in 0 .. kk |-> IF j = kk THEN WTurn(g[kk - 1], kk, a, S) ELSE g[j]]
  <2>2. ASSUME NEW j \in 0 .. kk
        PROVE  h[j] = IF j = 0 THEN a ELSE WTurn(h[j - 1], j, a, S)
    <3>1. CASE j = kk
      <4>1. j # 0 /\ h[j - 1] = g[kk - 1]
        BY <3>1
      <4> QED
        BY <3>1, <4>1
    <3>2. CASE j # kk
      <4>1. j \in 0 .. (kk - 1) /\ h[j] = g[j]
        BY <3>2
      <4>2. j # 0 => h[j - 1] = g[j - 1]
        BY <3>2
      <4>3. g[j] = IF j = 0 THEN a ELSE WTurn(g[j - 1], j, a, S)
        BY <2>1, <4>1 DEF WTurns
      <4> QED
        BY <4>1, <4>2, <4>3
    <3> QED
      BY <3>1, <3>2
  <2>3. WTurns(h, kk, a, S)
    <3> HIDE DEF h
    <3>1. h = [j \in 0 .. kk |-> h[j]]
      BY DEF h
    <3> QED
      BY <2>2, <3>1 DEF WTurns
  <2> QED
    BY <2>3
<1>3. \A kk \in 0 .. n : kk \in X
  <2> HIDE DEF X
  <2> QED
    BY <1>1, <1>2, UpTo
<1> QED
  BY <1>3

(* What Weighted is. *)
LEMMA WeightedDef ==
    ASSUME FlashJobOK, NEW a, NEW S
    PROVE  /\ Weighted(a, S)[0] = a
           /\ \A j \in 1 .. fjob.Bc :
                 Weighted(a, S)[j] = WTurn(Weighted(a, S)[j - 1], j, a, S)
<1> DEFINE g == Weighted(a, S)
<1>1. g = CHOOSE f : WTurns(f, fjob.Bc, a, S)
  BY DEF Weighted, WTurns, WTurn
<1>2. fjob.Bc \in Nat
  BY FlashJobFacts
<1>3. WTurns(g, fjob.Bc, a, S)
  <2> HIDE DEF g
  <2> QED
    BY <1>1, <1>2, WeightedExist
<1> HIDE DEF g
<1>4. g[0] = a
  BY <1>2, <1>3 DEF WTurns
<1>5. ASSUME NEW j \in 1 .. fjob.Bc
      PROVE  g[j] = WTurn(g[j - 1], j, a, S)
  BY <1>2, <1>3, SMTT(20) DEF WTurns
<1> QED
  BY <1>4, <1>5 DEF g

(* A tile's values with the right scores. *)
LEMMA WeightedIs ==
    ASSUME FlashJobOK, fblock \in 0 .. FlashBlocks - 1, NEW w \in Warps, NEW s \in Nat, s < Keys(w),
           \A i \in 0 .. fjob.Bc * fjob.D - 1 : sV[i] = KVElem(i, s)
    PROVE  Weighted(Attended(w, Seen(w, s)), Scores(w, s))[fjob.Bc]
             = Attended(w, Seen(w, s + fjob.Bc))
<1> DEFINE S == Scores(w, s)
           g == Weighted(Attended(w, Seen(w, s)), S)
           X == {kk \in 0 .. fjob.Bc : g[kk] = Attended(w, Seen(w, s + kk))}
<1>1. fjob.Bc \in Nat /\ Keys(w) \in Nat /\ Keys(w) <= fjob.Skv /\ fjob.Skv \in Nat
  BY FlashJobFacts, KeysFacts
<1>2. /\ g[0] = Attended(w, Seen(w, s))
      /\ \A kk \in 1 .. fjob.Bc : g[kk] = WTurn(g[kk - 1], kk, Attended(w, Seen(w, s)), S)
  BY WeightedDef
<1> HIDE DEF g
<1>3. 0 \in X
  BY <1>1, <1>2
<1>7. ~AllMasked(Attended(w, Seen(w, s)), S)
  <2>1. fjob.Bc \in Nat \ {0}
    BY FlashJobFacts
  <2>2. S[1] = <<<<ORow(w)>>, KVVec(s + 1 - 1)>> /\ 1 \in DOMAIN S
    BY <2>1 DEF Scores
  <2>3. S[1] # Empty
    BY <2>2 DEF Empty
  <2> QED
    BY <2>2, <2>3 DEF AllMasked
<1>4. ASSUME NEW kk \in 1 .. fjob.Bc, kk - 1 \in X
      PROVE  kk \in X
  <2> DEFINE l == s + kk - 1
  <2>1. S[kk] = IF l < Keys(w) THEN <<<<ORow(w)>>, KVVec(l)>> ELSE Empty
    BY DEF Scores
  <2>2. g[kk] = IF S[kk] # Empty THEN Append(g[kk - 1], <<S[kk], Vector(sV, kk - 1)>>) ELSE g[kk - 1]
    BY <1>2, <1>7 DEF WTurn
  <2>3. l < fjob.Skv => Vector(sV, kk - 1) = KVVec(l)
    BY VectorIs
  <2>4. g[kk - 1] = Attended(w, Seen(w, l))
    <3>1. s + (kk - 1) = l
      BY <1>1
    <3> QED
      BY <1>4, <3>1
  <2>5. l \in Nat /\ s + kk = l + 1
    BY <1>1
  <2> HIDE DEF S, l
  <2>6. g[kk] = Attended(w, Seen(w, l + 1))
    <3>1. CASE l < Keys(w)
      <4>1. S[kk] = <<<<ORow(w)>>, KVVec(l)>>
        BY <2>1, <3>1
      <4>2. S[kk] # Empty
        BY <4>1 DEF Empty
      <4>3. Vector(sV, kk - 1) = KVVec(l)
        BY <1>1, <2>3, <2>5, <3>1
      <4>4. Seen(w, l) = l /\ Seen(w, l + 1) = l + 1
        BY <1>1, <2>5, <3>1 DEF Seen
      <4>5. g[kk] = Append(Attended(w, l), << <<<<ORow(w)>>, KVVec(l)>>, KVVec(l) >>)
        BY <2>2, <2>4, <4>1, <4>2, <4>3, <4>4, Zenon
      <4>6. Append(Attended(w, l), << <<<<ORow(w)>>, KVVec(l)>>, KVVec(l) >>) = Attended(w, l + 1)
        BY <2>5, AttendedAppend
      <4> QED
        BY <4>4, <4>5, <4>6, Zenon
    <3>2. CASE ~(l < Keys(w))
      <4>1. S[kk] = Empty
        BY <2>1, <3>2
      <4>2. Seen(w, l) = Seen(w, l + 1)
        BY <1>1, <2>5, <3>2 DEF Seen
      <4> QED
        BY <2>2, <2>4, <4>1, <4>2
    <3> QED
      BY <3>1, <3>2
  <2> QED
    BY <2>5, <2>6
<1>5. \A kk \in 0 .. fjob.Bc : kk \in X
  <2> HIDE DEF X
  <2> QED
    BY <1>1, <1>3, <1>4, UpTo
<1>6. g[fjob.Bc] = Attended(w, Seen(w, s + fjob.Bc))
  BY <1>1, <1>5
<1> QED
  BY <1>6 DEF g, S

(* Rows of weighted values. *)
LEMMA EmptyIsRow == IsRow(<<>>)
<1>1. Empty \notin {} /\ <<>> \in Seq({} \X {})
  OBVIOUS
<1> QED
  BY <1>1 DEF IsRow

(* One value more. *)
LEMMA AppendIsRow ==
    ASSUME NEW x, IsRow(x), NEW p, NEW v, v # Empty
    PROVE  IsRow(Append(x, <<p, v>>))
<1>1. PICK scores, values : Empty \notin values /\ x \in Seq(scores \X values)
  BY DEF IsRow
<1> DEFINE A == scores \cup {p}
           B == values \cup {v}
<1>2. x \in Seq(A \X B)
  <2>1. scores \X values \subseteq A \X B
    OBVIOUS
  <2> HIDE DEF A, B
  <2> QED
    BY <1>1, <2>1
<1>3. <<p, v>> \in A \X B /\ Empty \notin B
  BY <1>1
<1> HIDE DEF A, B
<1>4. Append(x, <<p, v>>) \in Seq(A \X B)
  BY <1>2, <1>3
<1> QED
  BY <1>3, <1>4 DEF IsRow

(* None is the mark of a row that has not been written. *)
LEMMA RowIsNotNoRow ==
    ASSUME NEW x, IsRow(x)
    PROVE  x # NoRow
<1>1. PICK scores, values : Empty \notin values /\ x \in Seq(scores \X values)
  BY DEF IsRow
<1>2. SUFFICES ASSUME x = NoRow PROVE FALSE
  OBVIOUS
<1>3. NoRow[1] = <<Empty, Empty>> /\ Len(NoRow) = 1
  BY DEF NoRow
<1>4. x[1] \in scores \X values
  <2>1. Len(x) = 1
    BY <1>2, <1>3
  <2> QED
    BY <1>1, <2>1
<1>5. <<Empty, Empty>> \in scores \X values
  BY <1>2, <1>3, <1>4
<1> QED
  BY <1>1, <1>5

(* The loop over a tile makes a row of a row. *)
LEMMA WeightedIsRow ==
    ASSUME FlashJobOK, NEW a, IsRow(a), NEW S
    PROVE  IsRow(Weighted(a, S)[fjob.Bc])
<1> DEFINE g == Weighted(a, S)
           X == {j \in 0 .. fjob.Bc : IsRow(g[j])}
<1>1. fjob.Bc \in Nat /\ fjob.D \in Nat \ {0}
  BY FlashJobFacts
<1>2. g[0] = a /\ \A j \in 1 .. fjob.Bc : g[j] = WTurn(g[j - 1], j, a, S)
  BY WeightedDef
<1> HIDE DEF g
<1>3. 0 \in X
  BY <1>1, <1>2
<1>4. ASSUME NEW j \in 1 .. fjob.Bc, j - 1 \in X
      PROVE  j \in X
  <2> DEFINE v == Vector(sV, j - 1)
  <2>1. v # Empty
    <3>1. v = [d \in 1 .. fjob.D |-> sV[(j - 1) * fjob.D + d - 1]]
      BY DEF Vector
    <3>2. 1 \in DOMAIN v
      BY <1>1, <3>1
    <3>3. DOMAIN Empty = {}
      BY DEF Empty
    <3> HIDE DEF v
    <3> QED
      BY <3>2, <3>3
  <2> HIDE DEF v
  <2>2. IsRow(g[j - 1])
    BY <1>4
  <2>3. g[j] = g[j - 1] \/ g[j] = Append(g[j - 1], <<S[j], v>>)
    BY <1>2 DEF WTurn, v
  <2>4. IsRow(g[j])
    BY <2>1, <2>2, <2>3, AppendIsRow
  <2> QED
    BY <2>4
<1>5. \A j \in 0 .. fjob.Bc : j \in X
  <2> HIDE DEF X
  <2> QED
    BY <1>1, <1>3, <1>4, UpTo
<1> QED
  BY <1>1, <1>5 DEF g

-----------------------------------------------------------------------------
(* FlashAttention: steps *)

(* What depends on the launch and the block alone. *)
LEMMA SameFlash ==
    ASSUME UNCHANGED <<fjob, fblock>>
    PROVE  /\ Warps' = Warps /\ FlashBlocks' = FlashBlocks /\ Tc' = Tc
           /\ (FlashJobOK' <=> FlashJobOK) /\ (FullTile' <=> FullTile)
           /\ \A w : q_row(w)' = q_row(w) /\ ORow(w)' = ORow(w) /\ Keys(w)' = Keys(w)
           /\ \A w, n : /\ Seen(w, n)' = Seen(w, n) /\ Attended(w, n)' = Attended(w, n)
                        /\ Scores(w, n)' = Scores(w, n) /\ KVElem(w, n)' = KVElem(w, n)
           /\ \A e : /\ Attention(e)' = Attention(e) /\ (InFullTile(e)' <=> InFullTile(e))
                     /\ FlashBlockOf(e)' = FlashBlockOf(e) /\ Loader(e)' = Loader(e)
<1>1. Warps' = Warps /\ Tr' = Tr /\ Tc' = Tc /\ (FlashJobOK' <=> FlashJobOK)
  BY DEF Warps, Tr, Tc, FlashJobOK
<1>2. FlashBlocks' = FlashBlocks /\ bh' = bh /\ (FullTile' <=> FullTile)
  BY <1>1 DEF FlashBlocks, bh, FullTile
<1>3. ASSUME NEW w
      PROVE  q_row(w)' = q_row(w) /\ ORow(w)' = ORow(w) /\ Keys(w)' = Keys(w)
  <2>1. q_row(w)' = q_row(w)
    BY <1>1 DEF q_row
  <2> QED
    BY <1>2, <2>1 DEF ORow, RowOf, Keys
<1>4. ASSUME NEW s
      PROVE  KVRow(s)' = KVRow(s) /\ KVVec(s)' = KVVec(s)
  <2>1. KVRow(s)' = KVRow(s)
    BY <1>2 DEF KVRow, RowOf, hkv
  <2> QED
    BY <2>1 DEF KVVec
<1>5. ASSUME NEW w, NEW n
      PROVE  /\ Seen(w, n)' = Seen(w, n) /\ Attended(w, n)' = Attended(w, n)
             /\ Scores(w, n)' = Scores(w, n) /\ KVElem(w, n)' = KVElem(w, n)
  <2>1. Seen(w, n)' = Seen(w, n)
    BY <1>3 DEF Seen
  <2>2. Attended(w, n)' = Attended(w, n)
    BY <1>3, <1>4 DEF Attended
  <2>3. Scores(w, n)' = Scores(w, n)
    BY <1>3, <1>4 DEF Scores
  <2>4. KVElem(w, n)' = KVElem(w, n)
    BY <1>4 DEF KVElem
  <2> QED
    BY <2>1, <2>2, <2>3, <2>4
<1>6. ASSUME NEW e
      PROVE  /\ Attention(e)' = Attention(e) /\ (InFullTile(e)' <=> InFullTile(e))
             /\ FlashBlockOf(e)' = FlashBlockOf(e) /\ Loader(e)' = Loader(e)
  BY <1>1 DEF Attention, InFullTile, FlashBlockOf, Loader
<1> QED
  BY <1>1, <1>2, <1>3, <1>5, <1>6

(* A warp's step moves it alone, and only the last step writes O. *)
LEMMA WarpMoves ==
    ASSUME NEW w \in Warps, FlashWarp(w), FlashShape
    PROVE  /\ UNCHANGED <<fjob, fblock, tile>>
           /\ \A u \in Warps : u # w => fpc'[u] = fpc[u]
           /\ fpc' \in [Warps -> FlashLabels]
           /\ fpc[w] # "done" /\ (fpc'[w] = "done" <=> StoreO(w))
           /\ (UNCHANGED O) \/ StoreO(w)
<1> USE DEF FGoto, FlashShape, FlashLabels
<1>1. CASE LoadQ(w)
  BY <1>1 DEF LoadQ, StoreO
<1>2. CASE LoadKV(w)
  BY <1>2 DEF LoadKV, StoreO
<1>3. CASE Score(w)
  BY <1>3 DEF Score, StoreO
<1>4. CASE Softmax(w)
  BY <1>4 DEF Softmax, StoreO
<1>5. CASE StoreO(w)
  BY <1>5 DEF StoreO
<1> QED
  BY <1>1, <1>2, <1>3, <1>4, <1>5 DEF FlashWarp

(* Domains, rows and what has been stored. *)
LEMMA WarpShape ==
    ASSUME FlashJobOK, fblock \in 0 .. FlashBlocks - 1, RowsOK, FlashShape,
           NEW w \in Warps, FlashWarp(w)
    PROVE  FlashShape'
<1>1. /\ UNCHANGED <<fjob, fblock, tile>>
      /\ \A u \in Warps : u # w => fpc'[u] = fpc[u]
      /\ fpc' \in [Warps -> FlashLabels]
      /\ fpc[w] # "done" /\ (fpc'[w] = "done" <=> StoreO(w))
      /\ (UNCHANGED O) \/ StoreO(w)
  BY WarpMoves
<1>2. /\ Warps' = Warps /\ fjob' = fjob
      /\ \A u : q_row(u)' = q_row(u) /\ ORow(u)' = ORow(u)
  BY <1>1, SameFlash
<1>3. /\ DOMAIN sQ' = Warps /\ DOMAIN sS' = Warps /\ DOMAIN o' = Warps
      /\ DOMAIN sK' = DOMAIN sK /\ DOMAIN sV' = DOMAIN sV
  <2>1. DOMAIN sQ = Warps /\ DOMAIN sS = Warps /\ DOMAIN o = Warps
    BY DEF FlashShape
  <2> QED
    BY <2>1 DEF FlashWarp, LoadQ, LoadKV, Score, Softmax, StoreO
<1>4. ASSUME NEW u \in Warps
      PROVE  IsRow(o'[u])
  <2>1. IsRow(o[u]) /\ DOMAIN o = Warps
    BY DEF FlashShape
  <2>2. o'[u] = o[u] \/ o'[u] = Weighted(o[u], sS[u])[fjob.Bc]
    BY <2>1 DEF FlashWarp, LoadQ, LoadKV, Score, Softmax, StoreO
  <2> QED
    BY <2>1, <2>2, WeightedIsRow
<1>5. ASSUME NEW u \in Warps
      PROVE  /\ fpc'[u] # "done" => q_row(u) < fjob.Sq
             /\ fpc'[u] = "done" /\ q_row(u) < fjob.Sq => O'[ORow(u)] # NoRow
  <2>1. /\ fpc[u] # "done" => q_row(u) < fjob.Sq
        /\ fpc[u] = "done" /\ q_row(u) < fjob.Sq => O[ORow(u)] # NoRow
    BY DEF FlashShape
  <2>2. CASE StoreO(w)
    <3>1. O' = [O EXCEPT ![ORow(w)] = o[w]]
      BY <2>2 DEF StoreO, ORow
    <3>2. o[w] # NoRow
      BY RowIsNotNoRow DEF FlashShape
    <3>3. ASSUME q_row(u) < fjob.Sq
          PROVE  O'[ORow(u)] = IF ORow(u) = ORow(w) THEN o[w] ELSE O[ORow(u)]
      <4>1. ORow(u) \in DOMAIN O
        BY <3>3, ORowFacts DEF RowsOK
      <4> QED
        BY <3>1, <4>1
    <3> QED
      BY <1>1, <2>1, <3>2, <3>3
  <2>3. CASE ~StoreO(w)
    BY <1>1, <2>1, <2>3
  <2> QED
    BY <2>2, <2>3
<1>6. tile' \in [Warps -> Nat] /\ DOMAIN sK = 0 .. fjob.Bc * fjob.D - 1 /\ DOMAIN sV = DOMAIN sK
  BY <1>1 DEF FlashShape
<1>7. \A u \in Warps : IsRow(o'[u])
  BY <1>4
<1>8. \A u \in Warps' : IsRow(o[u])'
  BY <1>2, <1>7 DEF IsRow
<1> QED
  BY <1>1, <1>2, <1>3, <1>5, <1>6, <1>8 DEF FlashShape

(* What a step stores. *)
LEMMA WarpRows ==
    ASSUME FlashJobOK, fblock \in 0 .. FlashBlocks - 1, RowsOK, FlashShape,
           NEW w \in Warps, FlashWarp(w), FullTile /\ StoreO(w) => StoringO
    PROVE  RowsOK'
<1>1. UNCHANGED <<fjob, fblock>> /\ ((UNCHANGED O) \/ StoreO(w)) /\ fpc[w] # "done"
  BY WarpMoves
<1>2. /\ fjob' = fjob /\ fblock' = fblock
      /\ \A e : /\ Attention(e)' = Attention(e) /\ (InFullTile(e)' <=> InFullTile(e))
                /\ FlashBlockOf(e)' = FlashBlockOf(e)
  BY <1>1, SameFlash
<1>3. CASE UNCHANGED O
  BY <1>2, <1>3 DEF RowsOK, NoRow, Empty
<1>4. CASE StoreO(w)
  <2>1. O' = [O EXCEPT ![ORow(w)] = o[w]]
    BY <1>4 DEF StoreO, ORow
  <2>2. q_row(w) < fjob.Sq /\ o[w] # NoRow
    BY <1>1, RowIsNotNoRow DEF FlashShape
  <2>3. ORow(w) \in DOMAIN O /\ (InFullTile(ORow(w)) <=> FullTile)
    BY <2>2, ORowFacts DEF RowsOK
  <2>4. FullTile => o[w] = Attention(ORow(w))
    BY <1>4, <2>2, AttentionIs DEF StoringO
  <2>5. DOMAIN O' = DOMAIN O
        /\ \A e \in DOMAIN O : O'[e] = IF e = ORow(w) THEN o[w] ELSE O[e]
    BY <2>1
  <2>6. ASSUME NEW e \in DOMAIN O
        PROVE  /\ InFullTile(e) /\ O'[e] # NoRow => O'[e] = Attention(e)
               /\ FlashBlockOf(e) < fblock => O'[e] # NoRow
    BY <2>2, <2>3, <2>4, <2>5 DEF RowsOK
  <2> QED
    BY <1>2, <2>5, <2>6 DEF RowsOK, NoRow, Empty
<1> QED
  BY <1>1, <1>3, <1>4

(* The phases of a full tile, told by where a warp is. *)
LEMMA FlashPhase ==
    ASSUME FlashBlockInv, FullTile, NEW w \in Warps
    PROVE  /\ fpc[w] \in {"loadq", "syncq"} => LoadingQ
           /\ fpc[w] \in {"loadkv", "sync1"} => \E n \in Nat : LoadingKV(n)
           /\ fpc[w] \in {"score", "sync2"} => \E n \in Nat : Scoring(n)
           /\ fpc[w] \in {"softmax", "sync3"} => \E n \in Nat : Weighing(n)
           /\ fpc[w] \in {"store", "done"} => StoringO
<1>1. LoadingQ => fpc[w] \in {"loadq", "syncq"}
  BY DEF LoadingQ
<1>2. \A n \in Nat : LoadingKV(n) => fpc[w] \in {"loadkv", "sync1"}
  BY DEF LoadingKV
<1>3. \A n \in Nat : Scoring(n) => fpc[w] \in {"score", "sync2"}
  BY DEF Scoring
<1>4. \A n \in Nat : Weighing(n) => fpc[w] \in {"softmax", "sync3"}
  BY DEF Weighing
<1>5. StoringO => fpc[w] \in {"store", "done"}
  BY DEF StoringO
<1> QED
  BY <1>1, <1>2, <1>3, <1>4, <1>5 DEF FlashBlockInv

(* In a full tile a warp's load of its row of Q stays in the phase. *)
LEMMA LoadQStep ==
    ASSUME FlashShape, LoadingQ, NEW w \in Warps, LoadQ(w)
    PROVE  LoadingQ'
<1>1. UNCHANGED <<fjob, fblock, tile, o>>
  BY DEF LoadQ
<1>2. fpc' = [fpc EXCEPT ![w] = "syncq"] /\ sQ' = [sQ EXCEPT ![w] = <<ORow(w)>>]
  BY DEF LoadQ, FGoto, ORow
<1>3. \A u \in Warps : /\ fpc'[u] = IF u = w THEN "syncq" ELSE fpc[u]
                       /\ sQ'[u] = IF u = w THEN <<ORow(w)>> ELSE sQ[u]
  BY <1>2 DEF FlashShape
<1>4. Warps' = Warps /\ \A u : ORow(u)' = ORow(u)
  BY <1>1, SameFlash
<1> QED
  BY <1>1, <1>3, <1>4 DEF LoadingQ

(* The head of the loop's body, when nothing it names changes. *)
LEMMA InTileKept ==
    ASSUME UNCHANGED <<fjob, fblock, tile, sQ>>, NEW n, InTile(n)
    PROVE  InTile(n)'
<1>1. Warps' = Warps /\ Tc' = Tc /\ fjob' = fjob
      /\ \A u : q_row(u)' = q_row(u) /\ ORow(u)' = ORow(u)
  BY SameFlash
<1> QED
  BY <1>1 DEF InTile

(* A warp loads its share of the tiles of K and V. *)
LEMMA LoadKVStep ==
    ASSUME FlashJobOK, FlashShape, NEW n \in Nat, LoadingKV(n), NEW w \in Warps, LoadKV(w)
    PROVE  LoadingKV(n)'
<1>1. UNCHANGED <<fjob, fblock, tile, sQ, o>>
  BY DEF LoadKV
<1>2. tile[w] = n
  BY DEF LoadingKV, InTile
<1>3. /\ fpc' = [fpc EXCEPT ![w] = "sync1"]
      /\ sK' = [i \in DOMAIN sK |-> IF Loader(i) = w THEN KVElem(i, n * fjob.Bc) ELSE sK[i]]
      /\ sV' = [i \in DOMAIN sV |-> IF Loader(i) = w THEN KVElem(i, n * fjob.Bc) ELSE sV[i]]
  BY <1>2 DEF LoadKV, FGoto
<1>4. \A u \in Warps : fpc'[u] = IF u = w THEN "sync1" ELSE fpc[u]
  BY <1>3 DEF FlashShape
<1>5. /\ Warps' = Warps /\ fjob' = fjob
      /\ \A u, m : Seen(u, m)' = Seen(u, m) /\ Attended(u, m)' = Attended(u, m)
                   /\ KVElem(u, m)' = KVElem(u, m)
      /\ \A i : Loader(i)' = Loader(i)
  BY <1>1, SameFlash
<1>6. InTile(n)'
  BY <1>1, InTileKept DEF LoadingKV
<1>7. DOMAIN sK \subseteq Nat /\ DOMAIN sV = DOMAIN sK
  <2>1. fjob.Bc * fjob.D \in Nat
    BY FlashJobFacts
  <2> QED
    BY <2>1 DEF FlashShape
<1>8. ASSUME NEW i \in DOMAIN sK, fpc'[Loader(i)] = "sync1"
      PROVE  sK'[i] = KVElem(i, n * fjob.Bc) /\ sV'[i] = KVElem(i, n * fjob.Bc)
  <2>1. Loader(i) \in Warps
    BY <1>7, LoaderIsWarp
  <2>2. Loader(i) # w => sK[i] = KVElem(i, n * fjob.Bc) /\ sV[i] = KVElem(i, n * fjob.Bc)
    BY <1>4, <1>8, <2>1 DEF LoadingKV
  <2> QED
    BY <1>3, <1>7, <2>2
<1>9. ASSUME NEW u \in Warps
      PROVE  fpc'[u] \in {"loadkv", "sync1"} /\ o'[u] = Attended(u, Seen(u, n * fjob.Bc))
  BY <1>1, <1>4 DEF LoadingKV
<1>10. DOMAIN sK' = DOMAIN sK
  BY <1>3
<1> QED
  BY <1>5, <1>6, <1>8, <1>9, <1>10 DEF LoadingKV

(* A warp's scores are those of its row, from the keys of the tile. *)
LEMMA ScoreStep ==
    ASSUME FlashJobOK, fblock \in 0 .. FlashBlocks - 1, FlashShape,
           NEW n \in Nat, Scoring(n), NEW w \in Warps, Score(w)
    PROVE  Scoring(n)'
<1>1. UNCHANGED <<fjob, fblock, tile, sQ, sK, sV, o>>
  BY DEF Score
<1>2. tile[w] = n /\ sQ[w] = <<ORow(w)>>
  BY DEF Scoring, InTile
<1>3. PICK s \in Nat : s = n * fjob.Bc
  BY FlashJobFacts
<1> DEFINE S == [j \in 1 .. fjob.Bc |->
                   LET kv_abs == s + j - 1
                   IN  IF kv_abs >= fjob.Skv \/ (fjob.causal /\ kv_abs > q_row(w))
                       THEN Empty ELSE <<<<ORow(w)>>, Vector(sK, j - 1)>>]
<1>4. fpc' = [fpc EXCEPT ![w] = "sync2"] /\ sS' = [sS EXCEPT ![w] = S]
  BY <1>2, <1>3 DEF Score, FGoto
<1>5. S = Scores(w, s)
  <2>1. \A i \in 0 .. fjob.Bc * fjob.D - 1 : sK[i] = KVElem(i, s)
    BY <1>3 DEF Scoring, FlashShape
  <2>2. fjob.Bc \in Nat /\ fjob.Skv \in Nat /\ q_row(w) \in Nat
    BY FlashJobFacts, FlashBlock
  <2>3. ASSUME NEW j \in 1 .. fjob.Bc
        PROVE  S[j] = IF s + j - 1 < Keys(w) THEN <<<<ORow(w)>>, KVVec(s + j - 1)>> ELSE Empty
    <3>1. s + j - 1 \in Nat
      BY <2>2
    <3>2. s + j - 1 < Keys(w) <=> s + j - 1 < fjob.Skv /\ ~(fjob.causal /\ s + j - 1 > q_row(w))
      BY <3>1, KeysFacts
    <3>3. CASE s + j - 1 < Keys(w)
      <4>1. Vector(sK, j - 1) = KVVec(s + j - 1)
        BY <2>1, <3>2, <3>3, VectorIs
      <4>2. ~(s + j - 1 >= fjob.Skv)
        BY <2>2, <3>1, <3>2, <3>3
      <4> QED
        BY <3>2, <3>3, <4>1, <4>2
    <3>4. CASE ~(s + j - 1 < Keys(w))
      <4>1. s + j - 1 >= fjob.Skv \/ (fjob.causal /\ s + j - 1 > q_row(w))
        BY <2>2, <3>1, <3>2, <3>4
      <4> QED
        BY <3>4, <4>1
    <3> QED
      BY <3>3, <3>4
  <2> HIDE DEF S
  <2>4. S = [j \in 1 .. fjob.Bc |-> S[j]]
    BY DEF S
  <2> QED
    BY <2>3, <2>4 DEF Scores
<1> HIDE DEF S
<1>6. \A u \in Warps : /\ fpc'[u] = IF u = w THEN "sync2" ELSE fpc[u]
                       /\ sS'[u] = IF u = w THEN Scores(w, s) ELSE sS[u]
  BY <1>4, <1>5 DEF FlashShape
<1>7. /\ Warps' = Warps /\ fjob' = fjob
      /\ \A u, m : Seen(u, m)' = Seen(u, m) /\ Attended(u, m)' = Attended(u, m)
                   /\ KVElem(u, m)' = KVElem(u, m) /\ Scores(u, m)' = Scores(u, m)
  BY <1>1, SameFlash
<1>8. InTile(n)'
  BY <1>1, InTileKept DEF Scoring
<1>9. ASSUME NEW u \in Warps
      PROVE  /\ fpc'[u] \in {"score", "sync2"}
             /\ o'[u] = Attended(u, Seen(u, n * fjob.Bc))
             /\ fpc'[u] = "sync2" => sS'[u] = Scores(u, n * fjob.Bc)
  BY <1>1, <1>3, <1>6 DEF Scoring
<1>10. \A i \in DOMAIN sK' : sK'[i] = KVElem(i, n * fjob.Bc) /\ sV'[i] = KVElem(i, n * fjob.Bc)
  BY <1>1 DEF Scoring
<1> QED
  BY <1>7, <1>8, <1>9, <1>10 DEF Scoring

(* The loop goes on while a warp has a key to see in the tile. *)
LEMMA LoopIff ==
    ASSUME FlashJobOK, fblock \in 0 .. FlashBlocks - 1, NEW w \in Warps, NEW n \in Nat
    PROVE  /\ 0 \in Warps /\ n * fjob.Bc \in Nat
           /\ (n < Tc /\ ~(fjob.causal /\ n * fjob.Bc > q_row(w))) <=> n * fjob.Bc < Keys(w)
           /\ n * fjob.Bc < Keys(0) <=> n * fjob.Bc < Keys(w)
<1>1. /\ fjob.Bc \in Nat \ {0} /\ fjob.Br \in Nat \ {0} /\ fjob.Bc % fjob.Br = 0 /\ fjob.Skv \in Nat
      /\ fjob.causal \in BOOLEAN
  BY FlashJobFacts
<1>2. 0 \in Warps /\ n * fjob.Bc \in Nat
  BY <1>1 DEF Warps
<1>3. n < Tc <=> n * fjob.Bc < fjob.Skv
  BY <1>1, FlashGrid, TileBegins
<1>4. ASSUME NEW u \in Warps
      PROVE  n * fjob.Bc < Keys(u) <=>
               n * fjob.Bc < fjob.Skv /\ ~(fjob.causal /\ n * fjob.Bc > q_row(u))
  BY <1>2, KeysFacts
<1>5. n * fjob.Bc > q_row(w) <=> n * fjob.Bc > q_row(0)
  <2>1. fblock % Tr \in Nat
    BY FlashBlock, FlashGrid
  <2>2. w \in 0 .. fjob.Br - 1
    BY DEF Warps
  <2>3. n * fjob.Bc > (fblock % Tr) * fjob.Br + w <=> n * fjob.Bc > (fblock % Tr) * fjob.Br + 0
    BY <1>1, <2>1, <2>2, BreakAgrees
  <2> QED
    BY <2>3 DEF q_row
<1>6. n * fjob.Bc < Keys(0) <=> n * fjob.Bc < fjob.Skv /\ ~(fjob.causal /\ n * fjob.Bc > q_row(0))
  BY <1>2, <1>4
<1> QED
  BY <1>2, <1>3, <1>4, <1>5, <1>6

(* A warp adds the values of the tile's keys that it may see. *)
LEMMA SoftmaxStep ==
    ASSUME FlashJobOK, fblock \in 0 .. FlashBlocks - 1, FlashShape,
           NEW n \in Nat, Weighing(n), NEW w \in Warps, Softmax(w)
    PROVE  Weighing(n)'
<1>1. UNCHANGED <<fjob, fblock, tile, sQ, sK, sV, sS>>
  BY DEF Softmax
<1>2. /\ fpc' = [fpc EXCEPT ![w] = "sync3"] /\ fpc[w] = "softmax"
      /\ o' = [o EXCEPT ![w] = Weighted(o[w], sS[w])[fjob.Bc]]
  BY DEF Softmax, FGoto
<1>3. PICK s \in Nat : s = n * fjob.Bc
  BY FlashJobFacts
<1>4. sS[w] = Scores(w, s) /\ o[w] = Attended(w, Seen(w, s))
  BY <1>2, <1>3 DEF Weighing
<1>5. s < Keys(w)
  <2>1. 0 \in Warps
    BY LoopIff
  <2>2. n < Tc /\ ~(fjob.causal /\ n * fjob.Bc > q_row(0))
    BY DEF Weighing, InTile
  <2>3. n * fjob.Bc < Keys(0)
    BY <2>1, <2>2, LoopIff
  <2> QED
    BY <1>3, <2>3, LoopIff
<1>6. Weighted(o[w], sS[w])[fjob.Bc] = Attended(w, Seen(w, s + fjob.Bc))
  <2>1. \A i \in 0 .. fjob.Bc * fjob.D - 1 : sV[i] = KVElem(i, s)
    BY <1>3 DEF Weighing, FlashShape
  <2> QED
    BY <1>4, <1>5, <2>1, WeightedIs
<1>7. s + fjob.Bc = (n + 1) * fjob.Bc
  BY <1>3, FlashJobFacts, Products
<1>8. \A u \in Warps : /\ fpc'[u] = IF u = w THEN "sync3" ELSE fpc[u]
                       /\ o'[u] = IF u = w THEN Attended(w, Seen(w, (n + 1) * fjob.Bc)) ELSE o[u]
  BY <1>2, <1>6, <1>7 DEF FlashShape
<1>9. /\ Warps' = Warps /\ fjob' = fjob
      /\ \A u, m : Seen(u, m)' = Seen(u, m) /\ Attended(u, m)' = Attended(u, m)
                   /\ KVElem(u, m)' = KVElem(u, m) /\ Scores(u, m)' = Scores(u, m)
  BY <1>1, SameFlash
<1>10. InTile(n)'
  BY <1>1, InTileKept DEF Weighing
<1>11. ASSUME NEW u \in Warps
       PROVE  /\ fpc'[u] \in {"softmax", "sync3"}
              /\ o'[u] = Attended(u, Seen(u, IF fpc'[u] = "softmax" THEN n * fjob.Bc
                                             ELSE (n + 1) * fjob.Bc))
              /\ sS'[u] = Scores(u, n * fjob.Bc)
  BY <1>1, <1>8 DEF Weighing
<1>12. \A i \in DOMAIN sK' : sV'[i] = KVElem(i, n * fjob.Bc)
  BY <1>1 DEF Weighing
<1> QED
  BY <1>9, <1>10, <1>11, <1>12 DEF Weighing

(* In a full tile every warp has a row. *)
LEMMA FullRow ==
    ASSUME FlashJobOK, fblock \in 0 .. FlashBlocks - 1, FullTile, NEW w \in Warps
    PROVE  q_row(w) < fjob.Sq
<1>1. fblock % Tr \in Nat /\ fjob.Br \in Nat /\ fjob.Sq \in Nat
  <2>1. fblock % Tr \in 0 .. Tr - 1 /\ Tr \in Nat
    BY FlashBlock, FlashGrid
  <2> QED
    BY <2>1, FlashJobFacts
<1>2. ((fblock % Tr) + 1) * fjob.Br = (fblock % Tr) * fjob.Br + fjob.Br
  BY <1>1, Products
<1>3. w \in 0 .. fjob.Br - 1 /\ q_row(w) = (fblock % Tr) * fjob.Br + w
  BY FlashBlock
<1>4. (fblock % Tr) * fjob.Br + fjob.Br <= fjob.Sq
  BY <1>2 DEF FullTile
<1> DEFINE p == (fblock % Tr) * fjob.Br
<1>5. p \in Nat
  BY <1>1, Products
<1> HIDE DEF p
<1>6. p + fjob.Br <= fjob.Sq /\ q_row(w) = p + w
  BY <1>3, <1>4 DEF p
<1> QED
  BY <1>1, <1>3, <1>5, <1>6

(* A warp stores its row, which is attention over all the keys it sees. *)
LEMMA StoreOStep ==
    ASSUME FlashJobOK, fblock \in 0 .. FlashBlocks - 1, FlashShape, RowsOK,
           FullTile, StoringO, NEW w \in Warps, StoreO(w)
    PROVE  StoringO'
<1>1. UNCHANGED <<fjob, fblock, o>>
  BY DEF StoreO
<1>2. /\ fpc' = [fpc EXCEPT ![w] = "done"] /\ fpc[w] = "store"
      /\ O' = [O EXCEPT ![ORow(w)] = o[w]]
  BY DEF StoreO, FGoto, ORow
<1>3. q_row(w) < fjob.Sq
  BY <1>2 DEF FlashShape
<1>4. ORow(w) \in DOMAIN O /\ o[w] = Attention(ORow(w))
  BY <1>3, ORowFacts, AttentionIs DEF RowsOK, StoringO
<1>5. \A u \in Warps : fpc'[u] = IF u = w THEN "done" ELSE fpc[u]
  BY <1>2 DEF FlashShape
<1>6. \A u \in Warps : O'[ORow(u)] = IF ORow(u) = ORow(w) THEN Attention(ORow(w)) ELSE O[ORow(u)]
  <2>1. \A u \in Warps : ORow(u) \in DOMAIN O
    BY FullRow, ORowFacts DEF RowsOK
  <2> QED
    BY <1>2, <1>4, <2>1
<1>7. /\ Warps' = Warps
      /\ \A u : /\ ORow(u)' = ORow(u) /\ Keys(u)' = Keys(u)
                /\ \A m : Attended(u, m)' = Attended(u, m)
      /\ \A e : Attention(e)' = Attention(e)
  BY <1>1, SameFlash
<1>8. ASSUME NEW u \in Warps
      PROVE  /\ fpc'[u] \in {"store", "done"} /\ o'[u] = Attended(u, Keys(u))
             /\ fpc'[u] = "done" => O'[ORow(u)] = Attention(ORow(u))
  BY <1>1, <1>5, <1>6 DEF StoringO
<1> QED
  BY <1>7, <1>8 DEF StoringO

(* The head of the loop is the same for all warps of a full tile: on to    *)
(* tile n with what has been added so far, or to the end with all keys.    *)
LEMMA LoopStep ==
    ASSUME FlashJobOK, fblock \in 0 .. FlashBlocks - 1, FlashShape,
           UNCHANGED <<fjob, fblock, sQ, o>>, NEW n \in Nat, DOMAIN sK' = DOMAIN sK,
           \A u \in Warps : /\ fpc'[u] = KVLoop(u, n) /\ tile'[u] = n /\ sQ[u] = <<ORow(u)>>
                            /\ o[u] = Attended(u, Seen(u, n * fjob.Bc))
    PROVE  LoadingKV(n)' \/ StoringO'
<1>1. /\ Warps' = Warps /\ fjob' = fjob /\ Tc' = Tc
      /\ \A u : q_row(u)' = q_row(u) /\ ORow(u)' = ORow(u) /\ Keys(u)' = Keys(u)
      /\ \A u, m : Seen(u, m)' = Seen(u, m) /\ Attended(u, m)' = Attended(u, m)
      /\ \A i : Loader(i)' = Loader(i)
  BY SameFlash
<1>2. 0 \in Warps
  BY FlashJobFacts DEF Warps
<1>3. CASE n * fjob.Bc < Keys(0)
  <2>1. ASSUME NEW u \in Warps
        PROVE  fpc'[u] = "loadkv"
    <3>1. n * fjob.Bc < Keys(u)
      BY <1>3, LoopIff
    <3>2. n < Tc /\ ~(fjob.causal /\ n * fjob.Bc > q_row(u))
      BY <3>1, LoopIff
    <3> QED
      BY <3>2 DEF KVLoop
  <2>2. n < Tc /\ ~(fjob.causal /\ n * fjob.Bc > q_row(0))
    BY <1>2, <1>3, LoopIff
  <2>3. InTile(n)'
    BY <1>1, <2>2 DEF InTile
  <2>4. \A i \in DOMAIN sK' : fpc'[Loader(i)'] # "sync1"
    <3>1. DOMAIN sK' \subseteq Nat
      <4>1. fjob.Bc * fjob.D \in Nat
        BY FlashJobFacts
      <4> QED
        BY <4>1 DEF FlashShape
    <3> QED
      BY <1>1, <2>1, <3>1, LoaderIsWarp
  <2>5. LoadingKV(n)'
    BY <1>1, <2>1, <2>3, <2>4 DEF LoadingKV
  <2> QED
    BY <2>5
<1>4. CASE ~(n * fjob.Bc < Keys(0))
  <2>1. ASSUME NEW u \in Warps
        PROVE  fpc'[u] = "store" /\ Seen(u, n * fjob.Bc) = Keys(u)
    <3>1. ~(n * fjob.Bc < Keys(u))
      BY <1>4, LoopIff
    <3>2. ~(n < Tc /\ ~(fjob.causal /\ n * fjob.Bc > q_row(u)))
      BY <3>1, LoopIff
    <3>3. fpc'[u] = "store"
      BY <3>2 DEF KVLoop
    <3> QED
      BY <3>1, <3>3 DEF Seen
  <2>2. StoringO'
    BY <1>1, <2>1 DEF StoringO
  <2> QED
    BY <2>2
<1> QED
  BY <1>3, <1>4

(* A barrier takes a full tile from one phase to the next. *)
LEMMA FlashSyncStep ==
    ASSUME FlashJobOK, fblock \in 0 .. FlashBlocks - 1, FlashBlockInv, FlashSync
    PROVE  FlashBlockInv'
<1>1. UNCHANGED <<fjob, fblock, sQ, sK, sV, sS, o, O>>
  BY DEF FlashSync
<1>2. FlashShape
  BY DEF FlashBlockInv
<1>3. \A u \in Warps : fpc[u] \in {"syncq", "sync1", "sync2", "sync3", "done"}
  BY DEF FlashSync
<1>4. PICK w \in Warps : fpc[w] \in {"syncq", "sync1", "sync2", "sync3"}
  BY DEF FlashSync
<1>5. /\ tile' = [u \in Warps |-> IF fpc[u] = "sync3" THEN tile[u] + 1 ELSE tile[u]]
      /\ \A u \in Warps : tile'[u] = IF fpc[u] = "sync3" THEN tile[u] + 1 ELSE tile[u]
  BY DEF FlashSync
<1>6. /\ fpc' = [u \in Warps |-> fpc'[u]]
      /\ \A u \in Warps : /\ fpc[u] \in {"syncq", "sync3"} => fpc'[u] = KVLoop(u, tile'[u])
                          /\ fpc[u] = "sync1" => fpc'[u] = "score"
                          /\ fpc[u] = "sync2" => fpc'[u] = "softmax"
                          /\ fpc[u] = "done" => fpc'[u] = "done"
  BY DEF FlashSync
<1>7. /\ Warps' = Warps /\ fjob' = fjob /\ (FullTile' <=> FullTile)
      /\ \A u : q_row(u)' = q_row(u) /\ ORow(u)' = ORow(u)
      /\ \A u, m : Seen(u, m)' = Seen(u, m) /\ Attended(u, m)' = Attended(u, m)
                   /\ KVElem(u, m)' = KVElem(u, m) /\ Scores(u, m)' = Scores(u, m)
  BY <1>1, SameFlash
<1>8. FlashShape'
  <2>1. tile' \in [Warps -> Nat]
    BY <1>2, <1>5 DEF FlashShape
  <2>2. ASSUME NEW u \in Warps
        PROVE  fpc'[u] \in FlashLabels /\ (fpc'[u] = "done" <=> fpc[u] = "done")
    <3>1. fpc[u] \in {"syncq", "sync3"} => fpc'[u] \in {"loadkv", "store"}
      BY <1>6 DEF KVLoop
    <3> QED
      BY <1>3, <1>6, <3>1 DEF FlashLabels
  <2>3. fpc' \in [Warps -> FlashLabels]
    BY <1>6, <2>2
  <2>4. \A u \in Warps : /\ fpc'[u] # "done" => q_row(u) < fjob.Sq
                         /\ fpc'[u] = "done" /\ q_row(u) < fjob.Sq => O[ORow(u)] # NoRow
    BY <1>2, <2>2 DEF FlashShape
  <2>5. \A u \in Warps' : IsRow(o[u])'
    BY <1>1, <1>2, <1>7 DEF FlashShape, IsRow
  <2> QED
    BY <1>1, <1>2, <1>7, <2>1, <2>3, <2>4, <2>5 DEF FlashShape
<1>9. SUFFICES ASSUME FullTile
               PROVE  LoadingQ' \/ (\E m \in Nat : LoadingKV(m)' \/ Scoring(m)' \/ Weighing(m)')
                      \/ StoringO'
  BY <1>7, <1>8 DEF FlashBlockInv
<1>10. DOMAIN sK' = DOMAIN sK /\ UNCHANGED <<fjob, fblock, sQ, o>>
  BY <1>1
<1>11. CASE fpc[w] = "syncq"
  <2>1. LoadingQ
    BY <1>9, <1>11, FlashPhase
  <2>2. \A u \in Warps : fpc[u] = "syncq" /\ tile[u] = 0 /\ o[u] = <<>> /\ sQ[u] = <<ORow(u)>>
    BY <1>3, <2>1 DEF LoadingQ
  <2>3. PICK n \in Nat : n = 0
    OBVIOUS
  <2>4. \A u \in Warps : fpc'[u] = KVLoop(u, n) /\ tile'[u] = n
    BY <1>5, <1>6, <2>2, <2>3
  <2>5. ASSUME NEW u \in Warps
        PROVE  o[u] = Attended(u, Seen(u, n * fjob.Bc))
    <3>1. n * fjob.Bc = 0 /\ Keys(u) \in Nat
      BY <2>3, FlashJobFacts, KeysFacts
    <3>2. Seen(u, n * fjob.Bc) = 0
      BY <3>1 DEF Seen
    <3>3. Attended(u, 0) = <<>>
      BY DEF Attended
    <3> QED
      BY <2>2, <3>2, <3>3
  <2>6. LoadingKV(n)' \/ StoringO'
    BY <1>2, <1>10, <2>2, <2>4, <2>5, LoopStep
  <2> QED
    BY <2>6
<1>12. CASE fpc[w] = "sync1"
  <2>1. PICK n \in Nat : LoadingKV(n)
    BY <1>9, <1>12, FlashPhase
  <2>2. \A u \in Warps : fpc[u] = "sync1"
    BY <1>3, <2>1 DEF LoadingKV
  <2>3. \A u \in Warps : fpc'[u] = "score" /\ tile'[u] = tile[u]
    BY <1>5, <1>6, <2>2
  <2>4. \A i \in DOMAIN sK : sK[i] = KVElem(i, n * fjob.Bc) /\ sV[i] = KVElem(i, n * fjob.Bc)
    <3>1. DOMAIN sK \subseteq Nat
      <4>1. fjob.Bc * fjob.D \in Nat
        BY FlashJobFacts
      <4> QED
        BY <1>2, <4>1 DEF FlashShape
    <3> QED
      BY <2>1, <2>2, <3>1, LoaderIsWarp DEF LoadingKV
  <2>5. tile' = tile
    BY <1>2, <1>5, <2>3 DEF FlashShape
  <2>6. InTile(n)'
    BY <1>1, <2>1, <2>5, InTileKept DEF LoadingKV
  <2>7. \A u \in Warps : o[u] = Attended(u, Seen(u, n * fjob.Bc))
    BY <2>1 DEF LoadingKV
  <2>8. Scoring(n)'
    BY <1>1, <1>7, <2>3, <2>4, <2>6, <2>7 DEF Scoring
  <2> QED
    BY <2>8
<1>13. CASE fpc[w] = "sync2"
  <2>1. PICK n \in Nat : Scoring(n)
    BY <1>9, <1>13, FlashPhase
  <2>2. \A u \in Warps : fpc[u] = "sync2"
    BY <1>3, <2>1 DEF Scoring
  <2>3. \A u \in Warps : fpc'[u] = "softmax" /\ tile'[u] = tile[u]
    BY <1>5, <1>6, <2>2
  <2>4. tile' = tile
    BY <1>2, <1>5, <2>3 DEF FlashShape
  <2>5. InTile(n)'
    BY <1>1, <2>1, <2>4, InTileKept DEF Scoring
  <2>6. /\ \A u \in Warps : /\ o[u] = Attended(u, Seen(u, n * fjob.Bc))
                            /\ sS[u] = Scores(u, n * fjob.Bc)
        /\ \A i \in DOMAIN sK : sV[i] = KVElem(i, n * fjob.Bc)
    BY <2>1, <2>2 DEF Scoring
  <2>7. Weighing(n)'
    BY <1>1, <1>7, <2>3, <2>5, <2>6 DEF Weighing
  <2> QED
    BY <2>7
<1>14. CASE fpc[w] = "sync3"
  <2>1. PICK n \in Nat : Weighing(n)
    BY <1>9, <1>14, FlashPhase
  <2>2. \A u \in Warps : fpc[u] = "sync3" /\ tile[u] = n /\ sQ[u] = <<ORow(u)>>
    BY <1>3, <2>1 DEF Weighing, InTile
  <2>3. PICK m \in Nat : m = n + 1
    OBVIOUS
  <2>4. \A u \in Warps : fpc'[u] = KVLoop(u, m) /\ tile'[u] = m
    BY <1>5, <1>6, <2>2, <2>3
  <2>5. \A u \in Warps : o[u] = Attended(u, Seen(u, m * fjob.Bc))
    BY <2>1, <2>2, <2>3 DEF Weighing
  <2>6. LoadingKV(m)' \/ StoringO'
    BY <1>2, <1>10, <2>2, <2>4, <2>5, LoopStep
  <2> QED
    BY <2>6
<1> QED
  BY <1>4, <1>11, <1>12, <1>13, <1>14

(* A block starts with the warps that have a row before their loads. *)
LEMMA EnterFlashIs ==
    ASSUME FlashJobOK', NEW j, fjob' = j, NEW b, fblock' = b, b \in 0 .. FlashBlocks' - 1,
           EnterFlashBlock(j, b)
    PROVE  \E p \in Nat :
             /\ \A w : q_row(w)' = p + w
             /\ fpc' = [w \in Warps' |-> IF p + w >= j.Sq THEN "done" ELSE "loadq"]
             /\ tile' = [w \in Warps' |-> 0]
             /\ DOMAIN sQ' = Warps' /\ DOMAIN sS' = Warps'
             /\ DOMAIN sK' = 0 .. j.Bc * j.D - 1 /\ DOMAIN sV' = DOMAIN sK'
             /\ o' = [w \in Warps' |-> <<>>]
             /\ FullTile' => p + j.Br <= j.Sq
<1>1. j \in FlashJobs
  BY DEF FlashJobOK
<1>2. /\ j.Br \in Nat \ {0} /\ j.Bc \in Nat \ {0} /\ j.D \in Nat \ {0} /\ j.B \in Nat \ {0}
      /\ j.Hq \in Nat \ {0} /\ j.Sq \in Nat \ {0}
  BY <1>1 DEF FlashJobs
<1>3. PICK tr : tr = (j.Sq + j.Br - 1) \div j.Br
  OBVIOUS
<1>4. Tr' = tr /\ tr \in Nat \ {0}
  <2>1. CeilDiv(j.Sq, j.Br) \in Nat \ {0}
    BY <1>2, CeilDivCovers
  <2> QED
    BY <1>3, <2>1 DEF Tr, CeilDiv
<1>5. FlashBlocks' = tr * j.B * j.Hq /\ Warps' = 0 .. j.Br - 1
  BY <1>4 DEF FlashBlocks, Warps
<1>6. tr * j.B * j.Hq \in Nat /\ b \in Nat
  <2>1. tr * j.B \in Nat
    BY <1>2, <1>4
  <2>2. tr * j.B * j.Hq \in Nat
    BY <1>2, <2>1
  <2> QED
    BY <1>5, <2>2
<1>7. b < tr * j.B * j.Hq
  BY <1>5, <1>6
<1>8. PICK q \in Nat : q = b % tr
  BY <1>4, <1>6, DivMod
<1>9. PICK p \in Nat : p = q * j.Br
  BY <1>2, <1>8
<1>10. \A w : q_row(w)' = p + w
  BY <1>4, <1>8, <1>9 DEF q_row
<1>11. /\ fpc' = [w \in Warps' |-> IF p + w >= j.Sq THEN "done" ELSE "loadq"]
       /\ tile' = [w \in Warps' |-> 0]
       /\ DOMAIN sQ' = Warps' /\ DOMAIN sS' = Warps'
       /\ DOMAIN sK' = 0 .. j.Bc * j.D - 1 /\ DOMAIN sV' = DOMAIN sK'
       /\ o' = [w \in Warps' |-> <<>>]
  <2>1. ~(b >= tr * j.B * j.Hq)
    BY <1>6, <1>7
  <2> QED
    BY <1>3, <1>5, <1>8, <1>9, <2>1 DEF EnterFlashBlock, FlashStart
<1>12. ASSUME FullTile'
       PROVE  p + j.Br <= j.Sq
  <2>1. (q + 1) * j.Br <= j.Sq
    BY <1>4, <1>8, <1>12 DEF FullTile
  <2>2. (q + 1) * j.Br = p + j.Br
    BY <1>2, <1>9, Products
  <2> QED
    BY <2>1, <2>2
<1> QED
  BY <1>10, <1>11, <1>12

(* So the block is in its first phase. *)
LEMMA EnterFlashStep ==
    ASSUME FlashJobOK', NEW j, fjob' = j, NEW b, fblock' = b, b \in 0 .. FlashBlocks' - 1,
           EnterFlashBlock(j, b)
    PROVE  FlashBlockInv'
<1>1. PICK p \in Nat :
             /\ \A w : q_row(w)' = p + w
             /\ fpc' = [w \in Warps' |-> IF p + w >= j.Sq THEN "done" ELSE "loadq"]
             /\ tile' = [w \in Warps' |-> 0]
             /\ DOMAIN sQ' = Warps' /\ DOMAIN sS' = Warps'
             /\ DOMAIN sK' = 0 .. j.Bc * j.D - 1 /\ DOMAIN sV' = DOMAIN sK'
             /\ o' = [w \in Warps' |-> <<>>]
             /\ FullTile' => p + j.Br <= j.Sq
  BY EnterFlashIs
<1>2. Warps' = 0 .. j.Br - 1 /\ j.Br \in Nat /\ j.Sq \in Nat
  BY DEF Warps, FlashJobOK, FlashJobs
<1>3. FlashShape'
  <2>1. fpc' \in [Warps' -> FlashLabels] /\ tile' \in [Warps' -> Nat]
    BY <1>1 DEF FlashLabels
  <2>2. \A w \in Warps' : IsRow(o[w])'
    <3>1. \A w \in Warps' : o'[w] = <<>>
      BY <1>1
    <3> QED
      BY <3>1, EmptyIsRow DEF IsRow
  <2>3. ASSUME NEW w \in Warps'
        PROVE  /\ fpc'[w] # "done" => q_row(w)' < j.Sq
               /\ ~(fpc'[w] = "done" /\ q_row(w)' < j.Sq)
    <3>1. w \in Nat
      BY <1>2
    <3> QED
      BY <1>1, <1>2, <3>1
  <2> QED
    BY <1>1, <2>1, <2>2, <2>3 DEF FlashShape
<1>4. ASSUME FullTile'
      PROVE  LoadingQ'
  <2>1. \A w \in Warps' : ~(p + w >= j.Sq)
    BY <1>1, <1>2, <1>4
  <2>2. \A w \in Warps' : fpc'[w] = "loadq" /\ tile'[w] = 0 /\ o'[w] = <<>>
    BY <1>1, <2>1
  <2> QED
    BY <2>2 DEF LoadingQ
<1> QED
  BY <1>3, <1>4 DEF FlashBlockInv

(* When a block's warps have all returned, its rows are stored. *)
LEMMA NextFlashBlockStep ==
    ASSUME FlashJobOK, fblock \in 0 .. FlashBlocks - 1, RowsOK, FlashBlockInv, NextFlashBlock
    PROVE  FlashInv'
<1>1. fjob' = fjob /\ O' = O /\ fblock' = fblock + 1 /\ EnterFlashBlock(fjob, fblock + 1)
      /\ \A w \in Warps : fpc[w] = "done"
  BY DEF NextFlashBlock
<1>2. FlashBlocks' = FlashBlocks /\ FlashJobOK' /\ FlashBlocks \in Nat
  BY <1>1, FlashGrid DEF FlashBlocks, Tr, FlashJobOK
<1>3. ASSUME NEW e \in DOMAIN O, FlashBlockOf(e) < fblock + 1
      PROVE  O[e] # NoRow
  <2>1. FlashBlockOf(e) \in 0 .. FlashBlocks - 1 /\ e \in 0 .. fjob.B * fjob.Hq * fjob.Sq - 1
    BY WarpOf DEF RowsOK
  <2>2. CASE FlashBlockOf(e) < fblock
    BY <2>2 DEF RowsOK
  <2>3. CASE FlashBlockOf(e) = fblock
    <3>1. PICK w \in Warps : q_row(w) < fjob.Sq /\ ORow(w) = e
      BY <2>1, <2>3, WarpOf
    <3> QED
      BY <1>1, <3>1 DEF FlashBlockInv, FlashShape
  <2> QED
    BY <1>2, <1>3, <2>1, <2>2, <2>3
<1>4. RowsOK'
  <2>1. \A e : /\ Attention(e)' = Attention(e) /\ FlashBlockOf(e)' = FlashBlockOf(e)
               /\ (InFullTile(e)' <=> InFullTile(e))
    BY <1>1 DEF Attention, FlashBlockOf, Tr, InFullTile
  <2> QED
    BY <1>1, <1>3, <2>1 DEF RowsOK, NoRow, Empty
<1>5. fblock' \in 0 .. FlashBlocks'
  BY <1>1, <1>2
<1>6. fblock' < FlashBlocks' => FlashBlockInv'
  <2>1. SUFFICES ASSUME fblock' < FlashBlocks' PROVE FlashBlockInv'
    OBVIOUS
  <2>2. PICK j : j = fjob
    OBVIOUS
  <2>3. PICK b : b = fblock + 1
    OBVIOUS
  <2>4. fjob' = j /\ fblock' = b /\ EnterFlashBlock(j, b)
    BY <1>1, <2>2, <2>3
  <2>5. b \in 0 .. FlashBlocks' - 1
    BY <1>2, <1>5, <2>1, <2>4
  <2> QED
    BY <1>2, <2>4, <2>5, EnterFlashStep
<1> QED
  BY <1>2, <1>4, <1>5, <1>6 DEF FlashInv

(* A launch starts with nothing stored. *)
LEMMA FlashCallStep ==
    ASSUME FlashCall
    PROVE  FlashInv' /\ FlashJobOK' /\ FlashBlocks' \in Nat \ {0}
<1>1. PICK j \in FlashJobs : StartFlash(j)
  BY DEF FlashCall
<1>2. /\ fjob' = j /\ fblock' = 0 /\ EnterFlashBlock(j, 0)
      /\ O' = [e \in 0 .. j.B * j.Hq * j.Sq - 1 |-> NoRow]
  BY <1>1 DEF StartFlash
<1>3. FlashJobOK'
  BY <1>2 DEF FlashJobOK
<1>4. j.Br \in Nat \ {0} /\ j.B \in Nat \ {0} /\ j.Hq \in Nat \ {0} /\ j.Sq \in Nat \ {0}
  BY DEF FlashJobs
<1>5. Tr' \in Nat \ {0} /\ FlashBlocks' \in Nat \ {0}
  <2>1. Tr' = CeilDiv(j.Sq, j.Br)
    BY <1>2 DEF Tr, CeilDiv
  <2>2. Tr' \in Nat \ {0}
    BY <1>4, <2>1, CeilDivCovers
  <2>3. FlashBlocks' = Tr' * j.B * j.Hq
    BY <1>2 DEF FlashBlocks
  <2>4. Tr' * j.B \in Nat \ {0}
    BY <1>4, <2>2
  <2>5. Tr' * j.B * j.Hq \in Nat \ {0}
    BY <1>4, <2>4
  <2> QED
    BY <2>2, <2>3, <2>5
<1>6. FlashBlockInv'
  <2>1. \A b \in Nat \ {0} : 0 \in 0 .. b - 1
    OBVIOUS
  <2>2. 0 \in 0 .. FlashBlocks' - 1
    BY <1>5, <2>1, Zenon
  <2> QED
    BY <1>2, <1>3, <2>2, EnterFlashStep
<1>7. ASSUME NEW e \in 0 .. j.B * j.Hq * j.Sq - 1
      PROVE  FlashBlockOf(e)' \in Nat
  <2>1. j.B * j.Hq \in Nat
    BY <1>4
  <2>2. j.B * j.Hq * j.Sq \in Nat
    BY <1>4, <2>1
  <2>3. e \in Nat
    BY <2>2
  <2>4. e \div j.Sq \in Nat /\ e % j.Sq \in 0 .. j.Sq - 1
    BY <1>4, <2>3, DivMod
  <2>5. e % j.Sq \in Nat
    BY <1>4, <2>4
  <2>6. (e % j.Sq) \div j.Br \in Nat
    BY <1>4, <2>5, DivMod
  <2>7. (e \div j.Sq) * Tr' \in Nat
    BY <1>5, <2>4, Products
  <2>8. (e \div j.Sq) * Tr' + (e % j.Sq) \div j.Br \in Nat
    BY <2>6, <2>7
  <2> QED
    BY <1>2, <2>8 DEF FlashBlockOf
<1>8. RowsOK'
  <2>1. DOMAIN O' = 0 .. fjob'.B * fjob'.Hq * fjob'.Sq - 1
    BY <1>2
  <2>2. \A e \in DOMAIN O' : O'[e] = NoRow /\ ~(FlashBlockOf(e)' < fblock')
    BY <1>2, <1>7
  <2> QED
    BY <2>1, <2>2 DEF RowsOK, NoRow, Empty
<1>9. fblock' \in 0 .. FlashBlocks'
  BY <1>2, <1>5
<1> QED
  BY <1>3, <1>5, <1>6, <1>8, <1>9 DEF FlashInv

(* A warp's step stays in the phase of the block. *)
LEMMA FlashWarpStep ==
    ASSUME FlashJobOK, fblock \in 0 .. FlashBlocks - 1, RowsOK, FlashBlockInv,
           NEW w \in Warps, FlashWarp(w)
    PROVE  RowsOK' /\ FlashBlockInv'
<1>1. FlashShape
  BY DEF FlashBlockInv
<1>2. UNCHANGED <<fjob, fblock>>
  BY <1>1, WarpMoves
<1>3. FlashShape'
  BY <1>1, WarpShape
<1>4. FullTile' <=> FullTile
  BY <1>2, SameFlash
<1>5. FullTile /\ StoreO(w) => StoringO
  BY FlashPhase DEF StoreO
<1>6. RowsOK'
  BY <1>1, <1>5, WarpRows
<1>7. SUFFICES ASSUME FullTile
               PROVE  LoadingQ' \/ (\E n \in Nat : LoadingKV(n)' \/ Scoring(n)' \/ Weighing(n)')
                      \/ StoringO'
  BY <1>3, <1>4, <1>6 DEF FlashBlockInv
<1>8. CASE LoadQ(w)
  <2>1. LoadingQ
    BY <1>7, <1>8, FlashPhase DEF LoadQ
  <2> QED
    BY <1>1, <1>8, <2>1, LoadQStep
<1>9. CASE LoadKV(w)
  <2>1. PICK n \in Nat : LoadingKV(n)
    BY <1>7, <1>9, FlashPhase DEF LoadKV
  <2>2. LoadingKV(n)'
    BY <1>1, <1>9, <2>1, LoadKVStep
  <2> QED
    BY <2>2
<1>10. CASE Score(w)
  <2>1. PICK n \in Nat : Scoring(n)
    BY <1>7, <1>10, FlashPhase DEF Score
  <2>2. Scoring(n)'
    BY <1>1, <1>10, <2>1, ScoreStep
  <2> QED
    BY <2>2
<1>11. CASE Softmax(w)
  <2>1. PICK n \in Nat : Weighing(n)
    BY <1>7, <1>11, FlashPhase DEF Softmax
  <2>2. Weighing(n)'
    BY <1>1, <1>11, <2>1, SoftmaxStep
  <2> QED
    BY <2>2
<1>12. CASE StoreO(w)
  BY <1>1, <1>5, <1>7, <1>12, StoreOStep
<1> QED
  BY <1>8, <1>9, <1>10, <1>11, <1>12 DEF FlashWarp

(* What is stored stays right when nothing is stored. *)
LEMMA RowsKept ==
    ASSUME UNCHANGED <<fjob, fblock, O>>, RowsOK
    PROVE  RowsOK'
<1>1. /\ fjob' = fjob /\ fblock' = fblock /\ O' = O
      /\ \A e : /\ Attention(e)' = Attention(e) /\ (InFullTile(e)' <=> InFullTile(e))
                /\ FlashBlockOf(e)' = FlashBlockOf(e)
  BY SameFlash
<1> QED
  BY <1>1 DEF RowsOK, NoRow, Empty

(* FlashInv is an invariant. *)
LEMMA FlashInvInvariant == FlashSpec => []FlashInv
<1>1. FlashInit => FlashInv
  BY DEF FlashInit, FlashInv
<1>2. ASSUME FlashInv, [FlashNext \/ FlashCall]_flashVars
      PROVE  FlashInv'
  <2>1. CASE FlashCall
    BY <2>1, FlashCallStep
  <2>2. CASE UNCHANGED flashVars
    <3>1. UNCHANGED <<fjob, fblock, fpc, tile, sQ, sK, sV, sS, o, O>>
      BY <2>2 DEF flashVars
    <3>2. /\ Warps' = Warps /\ FlashBlocks' = FlashBlocks
          /\ (FlashJobOK' <=> FlashJobOK) /\ (FullTile' <=> FullTile)
          /\ \A w : q_row(w)' = q_row(w) /\ ORow(w)' = ORow(w) /\ Keys(w)' = Keys(w)
          /\ \A w, n : /\ Seen(w, n)' = Seen(w, n) /\ Attended(w, n)' = Attended(w, n)
                       /\ Scores(w, n)' = Scores(w, n) /\ KVElem(w, n)' = KVElem(w, n)
          /\ \A e : Attention(e)' = Attention(e) /\ Loader(e)' = Loader(e)
      BY <3>1, SameFlash
    <3>3. FlashShape => FlashShape'
      <4>1. (\A w \in Warps : IsRow(o[w])) => \A w \in Warps' : IsRow(o[w])'
        BY <3>1, <3>2 DEF IsRow
      <4> QED
        BY <3>1, <3>2, <4>1 DEF FlashShape
    <3>4. LoadingQ => LoadingQ'
      BY <3>1, <3>2 DEF LoadingQ
    <3>5. \A n : InTile(n) => InTile(n)'
      BY <3>1, InTileKept
    <3>6. \A n \in Nat : LoadingKV(n) => LoadingKV(n)'
      BY <3>1, <3>2, <3>5 DEF LoadingKV
    <3>7. \A n \in Nat : Scoring(n) => Scoring(n)'
      BY <3>1, <3>2, <3>5 DEF Scoring
    <3>8. \A n \in Nat : Weighing(n) => Weighing(n)'
      BY <3>1, <3>2, <3>5 DEF Weighing
    <3>9. StoringO => StoringO'
      BY <3>1, <3>2 DEF StoringO
    <3>10. FlashBlockInv => FlashBlockInv'
      BY <3>2, <3>3, <3>4, <3>6, <3>7, <3>8, <3>9 DEF FlashBlockInv
    <3>11. RowsOK => RowsOK'
      BY <3>1, RowsKept
    <3> QED
      BY <1>2, <3>1, <3>2, <3>10, <3>11 DEF FlashInv
  <2>3. CASE FlashNext
    <3>1. FlashJobOK /\ fblock \in 0 .. FlashBlocks - 1 /\ RowsOK /\ FlashBlockInv
      <4>1. fblock < FlashBlocks
        BY <2>3 DEF FlashNext
      <4>2. fjob # NoLaunch \/ fblock # 0
        BY <4>1 DEF NoLaunch, FlashBlocks, Tr
      <4>3. FlashJobOK /\ fblock \in 0 .. FlashBlocks /\ RowsOK /\ FlashBlockInv
        BY <1>2, <4>1, <4>2 DEF FlashInv
      <4>4. FlashBlocks \in Nat
        BY <4>3, FlashGrid
      <4> QED
        BY <4>1, <4>3, <4>4
    <3>2. CASE NextFlashBlock
      BY <3>1, <3>2, NextFlashBlockStep
    <3>3. CASE FlashSync \/ \E w \in Warps : FlashWarp(w)
      <4>1. RowsOK' /\ FlashBlockInv' /\ UNCHANGED <<fjob, fblock>>
        <5>1. CASE FlashSync
          <6>1. UNCHANGED <<fjob, fblock, O>>
            BY <5>1 DEF FlashSync
          <6> QED
            BY <3>1, <5>1, <6>1, FlashSyncStep, RowsKept
        <5>2. ASSUME NEW w \in Warps, FlashWarp(w)
              PROVE  RowsOK' /\ FlashBlockInv' /\ UNCHANGED <<fjob, fblock>>
          <6>1. UNCHANGED <<fjob, fblock>>
            BY <3>1, <5>2, WarpMoves DEF FlashBlockInv
          <6> QED
            BY <3>1, <5>2, <6>1, FlashWarpStep
        <5> QED
          BY <3>3, <5>1, <5>2
      <4>2. FlashJobOK' /\ FlashBlocks' = FlashBlocks
        BY <3>1, <4>1, SameFlash
      <4>3. fblock' \in 0 .. FlashBlocks'
        BY <3>1, <4>1, <4>2, FlashGrid
      <4> QED
        BY <4>1, <4>2, <4>3 DEF FlashInv
    <3> QED
      BY <2>3, <3>2, <3>3 DEF FlashNext
  <2> QED
    BY <1>2, <2>1, <2>2, <2>3
<1> QED
  BY <1>1, <1>2, PTL DEF FlashSpec

(* Whatever the batch, the heads, the lengths of query and keys, the tile  *)
(* sizes and the number of lanes, the FlashAttention kernel stores in the  *)
(* rows of full query tiles nothing but attention over exactly the keys    *)
(* the row may see, and at the end of the grid it has stored every row.    *)
THEOREM FlashCorrect == FlashSpec => []FlashExact
<1>1. ASSUME FlashInv
      PROVE  FlashExact
  <2>1. CASE fjob = NoLaunch /\ fblock = 0 /\ O = <<>>
    BY <2>1 DEF FlashExact
  <2>2. CASE FlashJobOK /\ fblock \in 0 .. FlashBlocks /\ RowsOK
    <3>1. \A e \in DOMAIN O : O[e] # NoRow /\ InFullTile(e) => O[e] = Attention(e)
      BY <2>2 DEF RowsOK
    <3>2. ASSUME FlashDone, NEW e \in DOMAIN O
          PROVE  O[e] # NoRow
      <4>1. e \in 0 .. fjob.B * fjob.Hq * fjob.Sq - 1
        BY <2>2 DEF RowsOK
      <4>2. FlashBlockOf(e) < fblock
        BY <2>2, <3>2, <4>1, WarpOf, FlashGrid DEF FlashDone
      <4> QED
        BY <2>2, <4>2 DEF RowsOK
    <3> QED
      BY <3>1, <3>2 DEF FlashExact
  <2> QED
    BY <1>1, <2>1, <2>2 DEF FlashInv
<1> QED
  BY <1>1, FlashInvInvariant, PTL

(* The warps of a block that have a row are in the same phase and turn of  *)
(* the loop, whether the tile is full or not.                              *)
AllIn(labels, n) ==
    \A w \in Warps : q_row(w) < fjob.Sq => fpc[w] \in labels /\ tile[w] = n

(* The phases between two barriers. *)
Phases == {{"loadq", "syncq"}, {"loadkv", "sync1"}, {"score", "sync2"}, {"softmax", "sync3"},
           {"store", "done"}}

(* Lockstep, and where a block does not run no warp does. *)
Lockstep ==
    IF fblock < FlashBlocks THEN \E labels \in Phases, n \in Nat : AllIn(labels, n)
                            ELSE \A w \in Warps : fpc[w] = "done"

(* A warp's step leads to the barrier of its phase, or to its end. *)
LEMMA LockstepWarp ==
    ASSUME FlashShape, NEW w \in Warps, FlashWarp(w),
           NEW labels \in Phases, NEW n, AllIn(labels, n)
    PROVE  AllIn(labels, n)'
<1>1. /\ UNCHANGED <<fjob, fblock, tile>>
      /\ \A u \in Warps : u # w => fpc'[u] = fpc[u]
      /\ fpc[w] # "done"
  BY WarpMoves
<1>2. \/ fpc[w] = "loadq" /\ fpc'[w] = "syncq"
      \/ fpc[w] = "loadkv" /\ fpc'[w] = "sync1"
      \/ fpc[w] = "score" /\ fpc'[w] = "sync2"
      \/ fpc[w] = "softmax" /\ fpc'[w] = "sync3"
      \/ fpc[w] = "store" /\ fpc'[w] = "done"
  BY DEF FlashWarp, LoadQ, LoadKV, Score, Softmax, StoreO, FGoto, FlashShape
<1>3. Warps' = Warps /\ fjob' = fjob /\ \A u : q_row(u)' = q_row(u)
  BY <1>1, SameFlash
<1>4. q_row(w) < fjob.Sq /\ fpc[w] \in labels
  BY <1>1 DEF FlashShape, AllIn
<1>5. fpc'[w] \in labels
  BY <1>2, <1>4 DEF Phases
<1>6. \A u \in Warps : q_row(u) < fjob.Sq => fpc'[u] \in labels /\ tile'[u] = n
  BY <1>1, <1>5 DEF AllIn
<1> QED
  BY <1>3, <1>6 DEF AllIn

(* A barrier takes all warps that have a row to the same phase. *)
LEMMA LockstepSync ==
    ASSUME FlashJobOK, fblock \in 0 .. FlashBlocks - 1, FlashShape, FlashSync,
           NEW labels \in Phases, NEW n \in Nat, AllIn(labels, n)
    PROVE  \E l \in Phases, m \in Nat : AllIn(l, m)'
<1>1. UNCHANGED <<fjob, fblock>>
  BY DEF FlashSync
<1>2. Warps' = Warps /\ fjob' = fjob /\ \A u : q_row(u)' = q_row(u)
  BY <1>1, SameFlash
<1>3. PICK w \in Warps : fpc[w] \in {"syncq", "sync1", "sync2", "sync3"}
  BY DEF FlashSync
<1>4. q_row(w) < fjob.Sq /\ fpc[w] \in labels
  BY <1>3 DEF FlashShape, AllIn
<1>5. \A u \in Warps : fpc[u] \in {"syncq", "sync1", "sync2", "sync3", "done"}
  BY DEF FlashSync
<1>6. \A u \in Warps : q_row(u) < fjob.Sq => fpc[u] = fpc[w] /\ tile[u] = n
  BY <1>3, <1>4, <1>5 DEF AllIn, Phases
<1>7. \A u \in Warps :
         /\ tile'[u] = IF fpc[u] = "sync3" THEN tile[u] + 1 ELSE tile[u]
         /\ fpc[u] \in {"syncq", "sync3"} => fpc'[u] = KVLoop(u, tile'[u])
         /\ fpc[u] = "sync1" => fpc'[u] = "score"
         /\ fpc[u] = "sync2" => fpc'[u] = "softmax"
  BY DEF FlashSync
<1>8. CASE fpc[w] = "sync1"
  <2>1. AllIn({"score", "sync2"}, n)'
    BY <1>2, <1>6, <1>7, <1>8 DEF AllIn
  <2> QED
    BY <2>1 DEF Phases
<1>9. CASE fpc[w] = "sync2"
  <2>1. AllIn({"softmax", "sync3"}, n)'
    BY <1>2, <1>6, <1>7, <1>9 DEF AllIn
  <2> QED
    BY <2>1 DEF Phases
<1>10. CASE fpc[w] \in {"syncq", "sync3"}
  <2>1. PICK m \in Nat : m = IF fpc[w] = "sync3" THEN n + 1 ELSE n
    OBVIOUS
  <2>2. \A u \in Warps : q_row(u) < fjob.Sq => tile'[u] = m /\ fpc'[u] = KVLoop(u, m)
    BY <1>6, <1>7, <1>10, <2>1
  <2>3. CASE m * fjob.Bc < Keys(0)
    <3>1. ASSUME NEW u \in Warps
          PROVE  KVLoop(u, m) = "loadkv"
      <4>1. m * fjob.Bc < Keys(u)
        BY <2>3, LoopIff
      <4>2. m < Tc /\ ~(fjob.causal /\ m * fjob.Bc > q_row(u))
        BY <4>1, LoopIff
      <4> QED
        BY <4>2 DEF KVLoop
    <3>2. AllIn({"loadkv", "sync1"}, m)'
      BY <1>2, <2>2, <3>1 DEF AllIn
    <3> QED
      BY <3>2 DEF Phases
  <2>4. CASE ~(m * fjob.Bc < Keys(0))
    <3>1. ASSUME NEW u \in Warps
          PROVE  KVLoop(u, m) = "store"
      <4>1. ~(m * fjob.Bc < Keys(u))
        BY <2>4, LoopIff
      <4>2. ~(m < Tc /\ ~(fjob.causal /\ m * fjob.Bc > q_row(u)))
        BY <4>1, LoopIff
      <4> QED
        BY <4>2 DEF KVLoop
    <3>2. AllIn({"store", "done"}, m)'
      BY <1>2, <2>2, <3>1 DEF AllIn
    <3> QED
      BY <3>2 DEF Phases
  <2> QED
    BY <2>3, <2>4
<1> QED
  BY <1>3, <1>8, <1>9, <1>10

(* A block that is entered: its warps are before their loads, or there is  *)
(* no such block.                                                          *)
LEMMA LockstepEnter ==
    ASSUME FlashJobOK', NEW j, fjob' = j, NEW b \in Nat, fblock' = b, FlashBlocks' \in Nat,
           EnterFlashBlock(j, b)
    PROVE  Lockstep'
<1>1. CASE b < FlashBlocks'
  <2>1. b \in 0 .. FlashBlocks' - 1
    <3>1. \A x, y \in Nat : x < y => x \in 0 .. y - 1
      OBVIOUS
    <3> QED
      BY <1>1, <3>1, Zenon
  <2>2. PICK p \in Nat :
             /\ \A w : q_row(w)' = p + w
             /\ fpc' = [w \in Warps' |-> IF p + w >= j.Sq THEN "done" ELSE "loadq"]
             /\ tile' = [w \in Warps' |-> 0]
             /\ DOMAIN sQ' = Warps' /\ DOMAIN sS' = Warps'
             /\ DOMAIN sK' = 0 .. j.Bc * j.D - 1 /\ DOMAIN sV' = DOMAIN sK'
             /\ o' = [w \in Warps' |-> <<>>]
             /\ FullTile' => p + j.Br <= j.Sq
    BY <2>1, EnterFlashIs
  <2>3. Warps' \subseteq Nat /\ j.Sq \in Nat
    BY DEF Warps, FlashJobOK, FlashJobs
  <2>4. \A w \in Warps' : q_row(w)' < j.Sq => fpc'[w] = "loadq" /\ tile'[w] = 0
    BY <2>2, <2>3
  <2>5. AllIn({"loadq", "syncq"}, 0)'
    BY <2>4 DEF AllIn
  <2>6. \E l \in Phases, n \in Nat : AllIn(l, n)'
    BY <2>5 DEF Phases
  <2> QED
    BY <1>1, <2>6 DEF Lockstep
<1>2. CASE ~(b < FlashBlocks')
  <2>1. b >= FlashBlocks'
    BY <1>2
  <2>2. FlashBlocks' = ((j.Sq + j.Br - 1) \div j.Br) * j.B * j.Hq /\ Warps' = 0 .. j.Br - 1
    BY DEF FlashBlocks, Tr, Warps
  <2>3. b >= ((j.Sq + j.Br - 1) \div j.Br) * j.B * j.Hq
    BY <2>1, <2>2
  <2>4. \A w \in Warps' : fpc'[w] = "done"
    BY <2>2, <2>3 DEF EnterFlashBlock, FlashStart
  <2> QED
    BY <1>2, <2>4 DEF Lockstep
<1> QED
  BY <1>1, <1>2

(* Lockstep is an invariant, with FlashInv. *)
LEMMA LockstepInvariant == FlashSpec => []Lockstep
<1>1. FlashInit => Lockstep
  BY DEF FlashInit, Lockstep, NoLaunch, FlashStart, Warps, FlashBlocks, Tr
<1>2. ASSUME FlashInv, FlashInv', Lockstep, [FlashNext \/ FlashCall]_flashVars
      PROVE  Lockstep'
  <2>1. CASE FlashCall
    <3>1. PICK j \in FlashJobs : StartFlash(j)
      BY <2>1 DEF FlashCall
    <3>2. FlashJobOK' /\ FlashBlocks' \in Nat
      BY <2>1, FlashCallStep
    <3>3. fjob' = j /\ fblock' = 0 /\ EnterFlashBlock(j, 0)
      BY <3>1 DEF StartFlash
    <3> QED
      BY <3>2, <3>3, LockstepEnter
  <2>2. CASE UNCHANGED flashVars
    <3>1. UNCHANGED <<fjob, fblock, fpc, tile>>
      BY <2>2 DEF flashVars
    <3>2. /\ Warps' = Warps /\ FlashBlocks' = FlashBlocks /\ fjob' = fjob /\ fblock' = fblock
          /\ fpc' = fpc /\ tile' = tile /\ \A u : q_row(u)' = q_row(u)
      BY <3>1, SameFlash
    <3>3. \A l, n : AllIn(l, n) => AllIn(l, n)'
      BY <3>2 DEF AllIn
    <3> QED
      BY <1>2, <3>2, <3>3 DEF Lockstep
  <2>3. CASE FlashNext
    <3>1. fblock < FlashBlocks
      BY <2>3 DEF FlashNext
    <3>2. FlashJobOK /\ fblock \in 0 .. FlashBlocks /\ FlashBlockInv
      <4>1. fjob # NoLaunch \/ fblock # 0
        BY <3>1 DEF NoLaunch, FlashBlocks, Tr
      <4> QED
        BY <1>2, <3>1, <4>1 DEF FlashInv
    <3>3. FlashBlocks \in Nat /\ fblock \in 0 .. FlashBlocks - 1 /\ FlashShape
      <4>1. FlashBlocks \in Nat
        BY <3>2, FlashGrid
      <4> QED
        BY <3>1, <3>2, <4>1 DEF FlashBlockInv
    <3>4. PICK labels \in Phases, n \in Nat : AllIn(labels, n)
      BY <1>2, <3>1 DEF Lockstep
    <3>5. CASE NextFlashBlock
      <4>1. PICK j : j = fjob
        OBVIOUS
      <4>2. PICK b \in Nat : b = fblock + 1
        BY <3>3
      <4>3. fjob' = j /\ fblock' = b /\ EnterFlashBlock(j, b)
        BY <3>5, <4>1, <4>2 DEF NextFlashBlock
      <4>4. FlashBlocks' = FlashBlocks /\ FlashJobOK'
        BY <3>2, <4>1, <4>3 DEF FlashBlocks, Tr, FlashJobOK
      <4>5. FlashBlocks' \in Nat
        BY <3>3, <4>4
      <4> QED
        BY <4>3, <4>4, <4>5, LockstepEnter
    <3>6. CASE FlashSync
      <4>1. \E l \in Phases, m \in Nat : AllIn(l, m)'
        BY <3>2, <3>3, <3>4, <3>6, LockstepSync
      <4>2. UNCHANGED <<fjob, fblock>>
        BY <3>6 DEF FlashSync
      <4>3. fblock' < FlashBlocks'
        BY <3>1, <4>2, SameFlash
      <4> QED
        BY <4>1, <4>3 DEF Lockstep
    <3>7. ASSUME NEW w \in Warps, FlashWarp(w)
          PROVE  Lockstep'
      <4>1. AllIn(labels, n)'
        BY <3>3, <3>4, <3>7, LockstepWarp
      <4>2. UNCHANGED <<fjob, fblock>>
        BY <3>3, <3>7, WarpMoves
      <4>3. fblock' < FlashBlocks'
        BY <3>1, <4>2, SameFlash
      <4> QED
        BY <3>4, <4>1, <4>3 DEF Lockstep
    <3> QED
      BY <2>3, <3>5, <3>6, <3>7 DEF FlashNext
  <2> QED
    BY <1>2, <2>1, <2>2, <2>3
<1> QED
  BY <1>1, <1>2, FlashInvInvariant, PTL DEF FlashSpec

(* In a launch of any size, full tiles and partial ones, a barrier of the  *)
(* FlashAttention kernel is reached by every warp that has a row, in the   *)
(* same turn of the loop, though each decides on its own when to leave it. *)
THEOREM BarriersStayUniform == FlashSpec => []BarriersUniform
<1>1. ASSUME FlashInv, Lockstep
      PROVE  BarriersUniform
  <2>1. SUFFICES ASSUME NEW w \in Warps, NEW u \in Warps, fpc[w] \in DOMAIN Before,
                        q_row(u) < fjob.Sq
                 PROVE  fpc[u] \in {fpc[w], Before[fpc[w]]} /\ tile[u] = tile[w]
    BY DEF BarriersUniform
  <2>2. fpc[w] \in {"syncq", "sync1", "sync2", "sync3"}
    BY <2>1 DEF Before
  <2>3. fblock < FlashBlocks
    BY <1>1, <2>2 DEF Lockstep
  <2>4. PICK labels \in Phases, n \in Nat : AllIn(labels, n)
    BY <1>1, <2>3 DEF Lockstep
  <2>5. FlashShape
    <3>1. fjob # NoLaunch \/ fblock # 0
      BY <2>3 DEF NoLaunch, FlashBlocks, Tr
    <3> QED
      BY <1>1, <2>3, <3>1 DEF FlashInv, FlashBlockInv
  <2>6. q_row(w) < fjob.Sq
    BY <2>2, <2>5 DEF FlashShape
  <2>7. fpc[w] \in labels /\ fpc[u] \in labels /\ tile[w] = n /\ tile[u] = n
    BY <2>1, <2>4, <2>6 DEF AllIn
  <2>8. /\ Before["syncq"] = "loadq" /\ Before["sync1"] = "loadkv"
        /\ Before["sync2"] = "score" /\ Before["sync3"] = "softmax"
    BY DEF Before
  <2> QED
    BY <2>2, <2>7, <2>8 DEF Phases
<1> QED
  BY <1>1, FlashInvInvariant, LockstepInvariant, PTL

(* What dispatch_flash_attn launches is among FlashJobs, for any problem   *)
(* whose K and V heads divide its query heads and any tile asked for.      *)
LEMMA DispatchesAreJobs ==
    ASSUME NEW p, NEW cfg,
           p.B \in Nat \ {0}, p.Hq \in Nat \ {0}, p.Hkv \in Nat \ {0}, p.Sq \in Nat \ {0},
           p.Skv \in Nat, p.causal \in BOOLEAN, p.Hq % p.Hkv = 0
    PROVE  dispatch_flash_attn(p, cfg) \in FlashJobs \cup {NoLaunch}
<1> DEFINE t == Template(cfg[1], cfg[2], cfg[3])
<1>1. CASE t \notin FlashConfigs
  BY <1>1 DEF dispatch_flash_attn
<1>2. CASE t \in FlashConfigs
  <2> DEFINE j == [Br |-> t[1], Bc |-> t[2], D |-> t[3], B |-> p.B, Hq |-> p.Hq, Hkv |-> p.Hkv,
                   Sq |-> p.Sq, Skv |-> p.Skv, causal |-> p.causal]
  <2>1. dispatch_flash_attn(p, cfg) = j
    BY <1>2 DEF dispatch_flash_attn
  <2>2. t[1] \in {1, 2} /\ t[2] \in {2, 4} /\ t[3] \in {1, 2}
    BY <1>2 DEF FlashConfigs
  <2> HIDE DEF t
  <2>3. t[2] % t[1] = 0
    BY <2>2
  <2>4. j \in FlashJobs
    BY <2>2, <2>3 DEF FlashJobs
  <2> QED
    BY <2>1, <2>4
<1> QED
  BY <1>1, <1>2

-----------------------------------------------------------------------------
(* The autotuners *)

(* One turn of a tuner's loop: candidate c, which takes m. *)
Better(b, c, m) == IF m < b.ms THEN [cfg |-> c, ms |-> m] ELSE b

(* It keeps the faster of the two. *)
LEMMA BetterIs ==
    ASSUME NEW b, NEW c, NEW m \in Nat, b.ms \in Nat
    PROVE  /\ Better(b, c, m).ms \in Nat
           /\ Better(b, c, m).ms <= b.ms /\ Better(b, c, m).ms <= m
           /\ \/ Better(b, c, m) = b
              \/ Better(b, c, m) = [cfg |-> c, ms |-> m] /\ m < b.ms
  BY DEF Better

(* autotune_matmul takes the fastest configuration where the device starts *)
(* them all.                                                               *)
LEMMA MatmulTunerIs ==
    ASSUME NEW t \in [FP32Configs -> 0 .. 8], NEW starts, \A e \in FP32Configs : starts[e],
           NEW c \in FP32Configs
    PROVE  /\ autotune_matmul(starts, t) \in FP32Configs
           /\ t[autotune_matmul(starts, t)] <= t[c]
<1> DEFINE s == Forever
<1>0. /\ \A e \in FP32Configs : FP32WarmsUp(e) /\ Measured(e, starts, t) = t[e]
      /\ s = 9
  BY DEF FP32WarmsUp, Measured, launch_matmul, Launch, Throw, Forever
<1> DEFINE space == << <<1, 1, 1>>, <<2, 1, 1>>, <<2, 2, 1>>, <<2, 2, 2>> >>
           P(g) == g = [i \in 0 .. 4 |->
                          IF i = 0 THEN [cfg |-> <<0, 0, 0>>, ms |-> Forever]
                          ELSE LET x == space[i]
                                   m == Measured(x, starts, t)
                               IN  IF FP32WarmsUp(x) /\ m < g[i - 1].ms THEN [cfg |-> x, ms |-> m]
                                   ELSE g[i - 1]]
           f == CHOOSE g : P(g)
<1>1. autotune_matmul(starts, t) = f[4].cfg
  BY DEF autotune_matmul
<1>2. PICK b0 : b0 = [cfg |-> <<0, 0, 0>>, ms |-> s]
  OBVIOUS
<1>3. PICK b1 : b1 = Better(b0, space[1], t[space[1]])
  OBVIOUS
<1>4. PICK b2 : b2 = Better(b1, space[2], t[space[2]])
  OBVIOUS
<1>5. PICK b3 : b3 = Better(b2, space[3], t[space[3]])
  OBVIOUS
<1>6. PICK b4 : b4 = Better(b3, space[4], t[space[4]])
  OBVIOUS
<1>s. FP32Configs = {space[1], space[2], space[3], space[4]}
  BY DEF FP32Configs
<1> HIDE DEF space
<1>w. \A i \in 1 .. 4 : FP32WarmsUp(space[i]) /\ Measured(space[i], starts, t) = t[space[i]]
  BY <1>0, <1>s
<1>7. \E g : P(g)
  <2> DEFINE g == [i \in 0 .. 4 |-> IF i = 0 THEN b0 ELSE IF i = 1 THEN b1 ELSE IF i = 2 THEN b2
                                    ELSE IF i = 3 THEN b3 ELSE b4]
  <2>1. g[0] = b0 /\ g[1] = b1 /\ g[2] = b2 /\ g[3] = b3 /\ g[4] = b4
    OBVIOUS
  <2>2. g = [i \in 0 .. 4 |-> g[i]]
    OBVIOUS
  <2> HIDE DEF g
  <2>3. ASSUME NEW i \in 0 .. 4
        PROVE  g[i] = IF i = 0 THEN [cfg |-> <<0, 0, 0>>, ms |-> Forever]
                      ELSE LET x == space[i]
                               m == Measured(x, starts, t)
                           IN  IF FP32WarmsUp(x) /\ m < g[i - 1].ms THEN [cfg |-> x, ms |-> m]
                               ELSE g[i - 1]
    <3>1. i = 0 \/ i = 1 \/ i = 2 \/ i = 3 \/ i = 4
      OBVIOUS
    <3>2. 1 - 1 = 0 /\ 2 - 1 = 1 /\ 3 - 1 = 2 /\ 4 - 1 = 3
      OBVIOUS
    <3> QED
      BY <1>w, <1>2, <1>3, <1>4, <1>5, <1>6, <2>1, <3>1, <3>2 DEF Better
  <2>4. P(g)
    BY <2>2, <2>3
  <2> QED
    BY <2>4
<1>8. P(f)
  <2> HIDE DEF P
  <2> QED
    BY <1>7
<1> HIDE DEF f
<1>9. f[4] = b4
  <2>1. f[0] = b0
    BY <1>2, <1>8
  <2>2. f[1] = b1
    BY <1>w, <1>3, <1>8, <2>1 DEF Better
  <2>3. f[2] = b2
    BY <1>w, <1>4, <1>8, <2>2 DEF Better
  <2>4. f[3] = b3
    BY <1>w, <1>5, <1>8, <2>3 DEF Better
  <2> QED
    BY <1>w, <1>6, <1>8, <2>4 DEF Better
<1>10. /\ FP32Configs = {space[1], space[2], space[3], space[4]}
       /\ \A i \in 1 .. 4 : space[i] \in FP32Configs
  BY <1>s
<1>x. ASSUME NEW e \in FP32Configs
      PROVE  t[e] \in Nat /\ t[e] < s
  <2>1. t[e] \in 0 .. 8
    OBVIOUS
  <2> HIDE DEF s
  <2> QED
    BY <1>0, <2>1
<1>y. s \in Nat
  BY <1>0
<1> HIDE DEF s
<1> DEFINE Won(b) == /\ b.ms \in Nat /\ b.ms <= s
                     /\ b.ms < s => b.cfg \in FP32Configs /\ b.ms = t[b.cfg]
<1>11. Won(b0)
  BY <1>y, <1>2
<1>z. ASSUME NEW b, Won(b), NEW e \in FP32Configs
      PROVE  /\ Won(Better(b, e, t[e]))
             /\ Better(b, e, t[e]).ms <= b.ms /\ Better(b, e, t[e]).ms <= t[e]
  <2>1. t[e] \in Nat /\ b.ms \in Nat
    BY <1>x, <1>z
  <2>2. CASE t[e] < b.ms
    <3>1. Better(b, e, t[e]) = [cfg |-> e, ms |-> t[e]]
      BY <2>2 DEF Better
    <3> QED
      BY <1>x, <1>y, <1>z, <2>1, <2>2, <3>1
  <2>3. CASE ~(t[e] < b.ms)
    <3>1. Better(b, e, t[e]) = b
      BY <2>3 DEF Better
    <3> QED
      BY <1>z, <2>1, <2>3, <3>1
  <2> QED
    BY <2>2, <2>3
<1> HIDE DEF Won
<1>12. Won(b1) /\ b1.ms <= t[space[1]]
  BY <1>3, <1>10, <1>11, <1>z
<1>13. Won(b2) /\ b2.ms <= b1.ms /\ b2.ms <= t[space[2]]
  BY <1>4, <1>10, <1>12, <1>z
<1>14. Won(b3) /\ b3.ms <= b2.ms /\ b3.ms <= t[space[3]]
  BY <1>5, <1>10, <1>13, <1>z
<1>15. Won(b4) /\ b4.ms <= b3.ms /\ b4.ms <= t[space[4]]
  BY <1>6, <1>10, <1>14, <1>z
<1>16. b4.ms <= t[c]
  <2>1. b1.ms \in Nat /\ b2.ms \in Nat /\ b3.ms \in Nat /\ b4.ms \in Nat
    BY <1>12, <1>13, <1>14, <1>15 DEF Won
  <2>2. \A e \in FP32Configs : t[e] \in Nat
    BY <1>x
  <2> QED
    BY <1>10, <1>12, <1>13, <1>14, <1>15, <2>1, <2>2
<1>17. t[c] < s /\ t[c] \in Nat
  BY <1>x
<1>18. b4.ms < s
  <2>1. b4.ms \in Nat
    BY <1>15 DEF Won
  <2> QED
    BY <1>y, <1>16, <1>17, <2>1
<1>19. b4.cfg \in FP32Configs /\ b4.ms = t[b4.cfg]
  BY <1>15, <1>18 DEF Won
<1> QED
  BY <1>1, <1>9, <1>16, <1>19

(* autotune_flash_attn takes the fastest of the tiles that warm up, if any *)
(* does, as long as it takes less than 1e18.                               *)
LEMMA FlashTunerIs ==
    ASSUME NEW d, NEW works, NEW t \in [Range(TileOptions) -> 0 .. 99],
           \E v \in Range(TileOptions) : WarmsUp(v, d, works)
    PROVE  \E u \in Range(TileOptions) :
              /\ autotune_flash_attn(d, works, t) = <<u[1], u[2], d>> /\ WarmsUp(u, d, works)
              /\ \A v \in Range(TileOptions) : WarmsUp(v, d, works) => t[u] <= t[v]
<1> DEFINE P(g) == g = [i \in 0 .. 3 |->
                          IF i = 0 THEN [cfg |-> <<2, 4, d>>, ms |-> 100]
                          ELSE LET v == TileOptions[i]
                               IN  IF WarmsUp(v, d, works) /\ t[v] < g[i - 1].ms
                                   THEN [cfg |-> <<v[1], v[2], d>>, ms |-> t[v]]
                                   ELSE g[i - 1]]
           f == CHOOSE g : P(g)
           Tried(b, v) == IF WarmsUp(v, d, works) THEN Better(b, <<v[1], v[2], d>>, t[v]) ELSE b
<1>1. autotune_flash_attn(d, works, t) = f[3].cfg
  BY DEF autotune_flash_attn
<1>2. PICK x : x = TileOptions[1]
  OBVIOUS
<1>3. PICK y : y = TileOptions[2]
  OBVIOUS
<1>4. PICK z : z = TileOptions[3]
  OBVIOUS
<1>5. Range(TileOptions) = {x, y, z}
  <2>1. DOMAIN TileOptions = {1, 2, 3}
    BY DEF TileOptions
  <2> QED
    BY <1>2, <1>3, <1>4, <2>1 DEF Range
<1>6. t[x] \in Nat /\ t[y] \in Nat /\ t[z] \in Nat /\ t[x] < 100 /\ t[y] < 100 /\ t[z] < 100
  BY <1>5
<1>7. PICK b0 : b0 = [cfg |-> <<2, 4, d>>, ms |-> 100]
  OBVIOUS
<1>8. PICK b1 : b1 = Tried(b0, x)
  OBVIOUS
<1>9. PICK b2 : b2 = Tried(b1, y)
  OBVIOUS
<1>10. PICK b3 : b3 = Tried(b2, z)
  OBVIOUS
<1>11. \E g : P(g)
  <2> DEFINE g == [i \in 0 .. 3 |-> IF i = 0 THEN b0 ELSE IF i = 1 THEN b1 ELSE IF i = 2 THEN b2
                                    ELSE b3]
  <2>1. g[0] = b0 /\ g[1] = b1 /\ g[2] = b2 /\ g[3] = b3
    OBVIOUS
  <2>2. g = [i \in 0 .. 3 |-> g[i]]
    OBVIOUS
  <2> HIDE DEF g
  <2>3. ASSUME NEW i \in 0 .. 3
        PROVE  g[i] = IF i = 0 THEN [cfg |-> <<2, 4, d>>, ms |-> 100]
                      ELSE LET v == TileOptions[i]
                           IN  IF WarmsUp(v, d, works) /\ t[v] < g[i - 1].ms
                               THEN [cfg |-> <<v[1], v[2], d>>, ms |-> t[v]]
                               ELSE g[i - 1]
    <3>1. i = 0 \/ i = 1 \/ i = 2 \/ i = 3
      OBVIOUS
    <3>2. 1 - 1 = 0 /\ 2 - 1 = 1 /\ 3 - 1 = 2
      OBVIOUS
    <3> QED
      BY <1>2, <1>3, <1>4, <1>7, <1>8, <1>9, <1>10, <2>1, <3>1, <3>2 DEF Better
  <2>4. P(g)
    BY <2>2, <2>3
  <2> QED
    BY <2>4
<1>12. P(f)
  <2> HIDE DEF P
  <2> QED
    BY <1>11
<1> HIDE DEF f
<1>13. f[3] = b3
  <2>1. f[0] = b0
    BY <1>7, <1>12
  <2>2. f[1] = b1
    BY <1>2, <1>8, <1>12, <2>1 DEF Better
  <2>3. f[2] = b2
    BY <1>3, <1>9, <1>12, <2>2 DEF Better
  <2> QED
    BY <1>4, <1>10, <1>12, <2>3 DEF Better
<1> DEFINE Won(b) == /\ b.ms \in Nat /\ b.ms <= 100
                     /\ b.ms < 100 => \E u \in Range(TileOptions) :
                          b.cfg = <<u[1], u[2], d>> /\ b.ms = t[u] /\ WarmsUp(u, d, works)
<1>14. ASSUME NEW b, NEW v \in Range(TileOptions), Won(b)
       PROVE  /\ Won(Tried(b, v)) /\ Tried(b, v).ms <= b.ms
              /\ WarmsUp(v, d, works) => Tried(b, v).ms <= t[v]
  <2>1. CASE WarmsUp(v, d, works)
    <3>1. t[v] \in Nat /\ b.ms \in Nat /\ Tried(b, v) = Better(b, <<v[1], v[2], d>>, t[v])
      BY <1>5, <1>6, <1>14, <2>1
    <3>2. Better(b, <<v[1], v[2], d>>, t[v]).ms <= b.ms
          /\ Better(b, <<v[1], v[2], d>>, t[v]).ms <= t[v]
          /\ Better(b, <<v[1], v[2], d>>, t[v]).ms \in Nat
      BY <3>1, BetterIs
    <3>3. CASE Better(b, <<v[1], v[2], d>>, t[v]) = b
      BY <1>14, <3>1, <3>2, <3>3
    <3>4. CASE Better(b, <<v[1], v[2], d>>, t[v]) = [cfg |-> <<v[1], v[2], d>>, ms |-> t[v]]
      BY <1>14, <2>1, <3>1, <3>2, <3>4
    <3> QED
      BY <3>1, <3>3, <3>4, BetterIs
  <2>2. CASE ~WarmsUp(v, d, works)
    BY <1>14, <2>2
  <2> QED
    BY <2>1, <2>2
<1>15. Won(b0)
  BY <1>7
<1> HIDE DEF Won, Tried
<1>16. Won(b1) /\ (WarmsUp(x, d, works) => b1.ms <= t[x])
  BY <1>5, <1>8, <1>14, <1>15
<1>17. Won(b2) /\ b2.ms <= b1.ms /\ (WarmsUp(y, d, works) => b2.ms <= t[y])
  BY <1>5, <1>9, <1>14, <1>16
<1>18. Won(b3) /\ b3.ms <= b2.ms /\ (WarmsUp(z, d, works) => b3.ms <= t[z])
  BY <1>5, <1>10, <1>14, <1>17
<1>19. b1.ms \in Nat /\ b2.ms \in Nat /\ b3.ms \in Nat
  BY <1>16, <1>17, <1>18 DEF Won
<1>20. \A v \in Range(TileOptions) : WarmsUp(v, d, works) => b3.ms <= t[v] /\ b3.ms < 100
  BY <1>5, <1>6, <1>16, <1>17, <1>18, <1>19
<1>21. PICK u \in Range(TileOptions) :
          b3.cfg = <<u[1], u[2], d>> /\ b3.ms = t[u] /\ WarmsUp(u, d, works)
  BY <1>18, <1>20 DEF Won
<1> QED
  BY <1>1, <1>13, <1>20, <1>21

-----------------------------------------------------------------------------
(* The calls of MCCompute *)

(* Before the first call there is neither a grid nor a tuner's choice. *)
ComputeInv == call = "none" => job = Throw /\ fjob = NoLaunch /\ tuned = Untuned

(* An autotuned product is launched with the fastest configuration, on a   *)
(* device that starts all of them.                                         *)
LEMMA TuneMatmulStep ==
    ASSUME TuneMatmul, Refused = {}
    PROVE  TunedIsBest'
<1> DEFINE starts == [c \in FP32Configs |-> c \notin Refused]
<1>1. PICK t \in [FP32Configs -> 1 .. 3] :
        /\ tuned' = [cfg |-> autotune_matmul(starts, t),
                     usable |-> {<<c, t[c]>> : c \in FP32Configs \ Refused}]
        /\ RunFP32(autotune_matmul(starts, t), 2, 1, 1)
  BY DEF TuneMatmul
<1>2. t \in [FP32Configs -> 0 .. 8] /\ \A c \in FP32Configs : starts[c]
  <2>1. ASSUME NEW c \in FP32Configs
        PROVE  starts[c]
    OBVIOUS
  <2>2. ASSUME NEW c \in FP32Configs
        PROVE  t[c] \in 0 .. 8
    <3>1. t[c] \in 1 .. 3
      OBVIOUS
    <3> QED
      BY <3>1
  <2> HIDE DEF starts
  <2>3. t = [c \in FP32Configs |-> t[c]]
    OBVIOUS
  <2> QED
    BY <2>1, <2>2, <2>3
<1> HIDE DEF starts
<1> DEFINE best == autotune_matmul(starts, t)
<1>3. \A c \in FP32Configs : best \in FP32Configs /\ t[best] <= t[c]
  BY <1>2, MatmulTunerIs
<1>4. best \in FP32Configs
  BY <1>3 DEF FP32Configs
<1>5. launch_matmul(best, 2, 1, 1) # Throw
  BY <1>4 DEF launch_matmul, Launch, Throw
<1>6. call' = "launched"
  BY <1>1, <1>5 DEF RunFP32, RunGemm
<1>7. tuned'.usable = {<<c, t[c]>> : c \in FP32Configs} /\ tuned'.cfg = best
  BY <1>1
<1> HIDE DEF best
<1>8. <<best, t[best]>> \in tuned'.usable /\ \A v \in tuned'.usable : t[best] <= v[2]
  BY <1>3, <1>4, <1>7
<1> QED
  BY <1>6, <1>7, <1>8 DEF TunedIsBest

(* And so is attention with an autotuned tile. *)
LEMMA TuneFlashStep ==
    ASSUME TuneFlash
    PROVE  TunedIsBest'
<1> DEFINE p == [B |-> 1, Hq |-> 1, Hkv |-> 1, Sq |-> 2, Skv |-> 1, causal |-> TRUE]
           fits(d) == {v \in Range(TileOptions) : SHMEM(v[1], v[2], d) <= SmemCap}
           usable(d, works, t) ==
             {<<<<v[1], v[2], d>>, t[v]>> : v \in
                {v \in fits(d) : works[v] /\ dispatch_flash_attn(p, <<v[1], v[2], d>>) # NoLaunch}}
<1>1. PICK d \in 1 .. 3, works \in [Range(TileOptions) -> BOOLEAN],
           t \in [Range(TileOptions) -> {1, 2}] :
        /\ tuned' = [cfg |-> autotune_flash_attn(d, works, t), usable |-> usable(d, works, t)]
        /\ RunFlash(dispatch_flash_attn(p, autotune_flash_attn(d, works, t)))
  BY DEF TuneFlash
<1>3. \A v \in Range(TileOptions) :
         dispatch_flash_attn(p, <<v[1], v[2], d>>) # NoLaunch <=> Template(v[1], v[2], d) \in FlashConfigs
  BY DEF dispatch_flash_attn, NoLaunch
<1>4. usable(d, works, t) =
        {<<<<v[1], v[2], d>>, t[v]>> : v \in {v \in Range(TileOptions) : WarmsUp(v, d, works)}}
  <2>1. {v \in fits(d) : works[v] /\ dispatch_flash_attn(p, <<v[1], v[2], d>>) # NoLaunch}
          = {v \in Range(TileOptions) : WarmsUp(v, d, works)}
    BY <1>3, Zenon DEF WarmsUp
  <2> QED
    BY <2>1
<1> HIDE DEF usable, fits
<1>5. ASSUME tuned'.usable # {}
      PROVE  /\ call' = "launched"
             /\ \E u \in tuned'.usable : u[1] = tuned'.cfg /\ \A v \in tuned'.usable : u[2] <= v[2]
  <2>1. /\ tuned'.usable =
             {<<<<v[1], v[2], d>>, t[v]>> : v \in {v \in Range(TileOptions) : WarmsUp(v, d, works)}}
        /\ tuned'.cfg = autotune_flash_attn(d, works, t)
    BY <1>1, <1>4
  <2>2. \E v \in Range(TileOptions) : WarmsUp(v, d, works)
    BY <1>5, <2>1
  <2>3. t \in [Range(TileOptions) -> 0 .. 99]
    OBVIOUS
  <2>4. PICK u \in Range(TileOptions) :
          /\ autotune_flash_attn(d, works, t) = <<u[1], u[2], d>> /\ WarmsUp(u, d, works)
          /\ \A v \in Range(TileOptions) : WarmsUp(v, d, works) => t[u] <= t[v]
    BY <2>2, <2>3, FlashTunerIs
  <2>5. dispatch_flash_attn(p, <<u[1], u[2], d>>) # NoLaunch
    BY <1>3, <2>4 DEF WarmsUp
  <2>6. call' = "launched"
    BY <1>1, <2>4, <2>5 DEF RunFlash
  <2>7. <<<<u[1], u[2], d>>, t[u]>> \in tuned'.usable
    BY <2>1, <2>4
  <2>8. \A v \in tuned'.usable : t[u] <= v[2]
    BY <2>1, <2>4
  <2> QED
    BY <2>1, <2>4, <2>6, <2>7, <2>8
<1> QED
  BY <1>5 DEF TunedIsBest

(* ComputeInv is an invariant. *)
LEMMA ComputeInvInvariant == Spec => []ComputeInv
<1>1. Init => ComputeInv
  BY DEF Init, GemmInit, FlashInit, Untuned, ComputeInv
<1>2. ASSUME ComputeInv, [Next]_vars
      PROVE  ComputeInv'
  <2>1. CASE UNCHANGED <<call, job, fjob, tuned>>
    BY <1>2, <2>1 DEF ComputeInv, Throw, NoLaunch, Untuned
  <2>2. CASE Start
    <3>1. call' # "none"
      BY <2>2 DEF Start, HostCall, CallMatmul, CallBf16, CallSycl, CallFlash, TuneMatmul, TuneFlash,
         RunFP32, RunGemm, RunFlash
    <3> QED
      BY <3>1 DEF ComputeInv
  <2>3. CASE Run
    BY <2>3 DEF Run, GridStep, ComputeInv
  <2>4. CASE Decode \/ Tune \/ Fp \/ UNCHANGED vars
    <3>1. UNCHANGED kernelVars
      BY <2>4 DEF Decode, Tune, Fp, vars
    <3> QED
      BY <2>1, <3>1 DEF kernelVars, gemmVars, flashVars
  <2> QED
    BY <1>2, <2>2, <2>3, <2>4 DEF Next
<1> QED
  BY <1>1, <1>2, PTL DEF Spec

(* An autotuner that has a choice picks a configuration that can be        *)
(* launched, and the fastest of those: autotune_flash_attn whatever        *)
(* launches fail, autotune_matmul where none does.                         *)
THEOREM TunersPickBest ==
    ASSUME Refused = {}
    PROVE  Spec => []TunedIsBest
<1>1. Init => TunedIsBest
  BY DEF Init, Untuned, TunedIsBest
<1>2. ASSUME ComputeInv, TunedIsBest, [Next]_vars
      PROVE  TunedIsBest'
  <2>1. CASE UNCHANGED <<call, tuned>>
    BY <1>2, <2>1 DEF TunedIsBest
  <2>2. CASE Start
    <3>1. tuned = Untuned
      BY <1>2, <2>2 DEF Start, HostCall, ComputeInv
    <3>2. CASE TuneMatmul
      BY <3>2, TuneMatmulStep
    <3>3. CASE TuneFlash
      BY <3>3, TuneFlashStep
    <3>4. CASE CallMatmul \/ CallBf16 \/ CallSycl \/ CallFlash
      <4>1. tuned' = Untuned
        BY <3>1, <3>4 DEF CallMatmul, CallBf16, CallSycl, CallFlash
      <4> QED
        BY <4>1 DEF TunedIsBest, Untuned
    <3> QED
      BY <2>2, <3>2, <3>3, <3>4 DEF Start, HostCall
  <2>3. CASE Run
    BY <2>1, <2>3 DEF Run, GridStep
  <2>4. CASE Decode \/ Tune \/ Fp \/ UNCHANGED vars
    BY <2>1, <2>4 DEF Decode, Tune, Fp, vars, kernelVars
  <2> QED
    BY <1>2, <2>2, <2>3, <2>4 DEF Next
<1> QED
  BY <1>1, <1>2, ComputeInvInvariant, PTL DEF Spec

(* What a call of MCCompute does to the products is a launch of GemmJobs   *)
(* or nothing.                                                             *)
LEMMA CallsAreGemmCalls ==
    ASSUME ComputeInv, HostCall
    PROVE  GemmCall \/ UNCHANGED gemmVars
<1>1. job = Throw
  BY DEF ComputeInv, HostCall
<1>2. ASSUME NEW j \in GemmJobs \cup {Throw}, RunGemm(j)
      PROVE  GemmCall \/ UNCHANGED gemmVars
  BY <1>1, <1>2 DEF RunGemm, GemmCall
<1>3. \A s \in Sizes : s[1] \in Nat \ {0} /\ s[2] \in Nat \ {0} /\ s[3] \in Nat
  BY DEF Sizes
<1>4. CASE CallMatmul
  <2>1. PICK s \in Sizes, cfg \in TileCfgs :
           RunGemm(launch_matmul(cfg, s[1], s[2], s[3])) \/ UNCHANGED gemmVars
    BY <1>4 DEF CallMatmul, RunFP32
  <2> QED
    BY <1>2, <1>3, <2>1, LaunchesAreJobs
<1>5. CASE CallBf16
  <2>1. PICK s \in Sizes : \/ RunGemm(launch_matmul_bf16_cuda(s[1], s[2], s[3]))
                           \/ RunGemm(launch_matmul_bf16_hip(s[1], s[2], s[3]))
    BY <1>5 DEF CallBf16
  <2> QED
    BY <1>2, <1>3, <2>1, LaunchesAreJobs
<1>6. CASE CallSycl
  <2>1. PICK s \in Sizes : \/ RunGemm(gemm_tiled_sycl(s[1], s[2], s[3]))
                           \/ RunGemm(gemm_xmx_bf16(s[1], s[2], s[3]))
    BY <1>6 DEF CallSycl
  <2> QED
    BY <1>2, <1>3, <2>1, LaunchesAreJobs
<1>7. CASE TuneMatmul
  <2>1. PICK cfg : RunGemm(launch_matmul(cfg, 2, 1, 1)) \/ UNCHANGED gemmVars
    BY <1>7 DEF TuneMatmul, RunFP32
  <2>2. launch_matmul(cfg, 2, 1, 1) \in GemmJobs \cup {Throw}
    BY LaunchesAreJobs
  <2> QED
    BY <1>2, <2>1, <2>2
<1>8. CASE CallFlash \/ TuneFlash
  BY <1>8 DEF CallFlash, TuneFlash, RunFlash
<1> QED
  BY <1>4, <1>5, <1>6, <1>7, <1>8 DEF HostCall

(* The same for attention. *)
LEMMA CallsAreFlashCalls ==
    ASSUME ComputeInv, HostCall
    PROVE  FlashCall \/ UNCHANGED flashVars
<1>1. fjob = NoLaunch
  BY DEF ComputeInv, HostCall
<1>2. ASSUME NEW j \in FlashJobs \cup {NoLaunch}, RunFlash(j)
      PROVE  FlashCall \/ UNCHANGED flashVars
  BY <1>1, <1>2 DEF RunFlash, FlashCall
<1>3. CASE CallFlash
  <2>1. PICK p \in Problems, cfg \in AttnTiles : RunFlash(dispatch_flash_attn(p, cfg))
    BY <1>3 DEF CallFlash
  <2>2. /\ p.B \in Nat \ {0} /\ p.Hq \in Nat \ {0} /\ p.Hkv \in Nat \ {0} /\ p.Sq \in Nat \ {0}
        /\ p.Skv \in Nat /\ p.causal \in BOOLEAN /\ p.Hkv = 1
    <3> DEFINE x(s, c) == [B |-> 1, Hq |-> 1, Hkv |-> 1, Sq |-> 4, Skv |-> s, causal |-> c]
               y == [B |-> 2, Hq |-> 2, Hkv |-> 1, Sq |-> 2, Skv |-> 3, causal |-> FALSE]
               z == [B |-> 1, Hq |-> 1, Hkv |-> 1, Sq |-> 3, Skv |-> 3, causal |-> TRUE]
    <3>1. p \in {x(s, c) : s \in {3, 4}, c \in BOOLEAN} \cup {y, z}
      BY <2>1 DEF Problems
    <3>2. CASE p \in {x(s, c) : s \in {3, 4}, c \in BOOLEAN}
      BY <3>2
    <3>3. y.causal \in BOOLEAN /\ z.causal \in BOOLEAN
      BY Zenon
    <3>4. /\ y.B \in Nat \ {0} /\ y.Hq \in Nat \ {0} /\ y.Hkv = 1 /\ y.Sq \in Nat \ {0} /\ y.Skv \in Nat
          /\ z.B \in Nat \ {0} /\ z.Hq \in Nat \ {0} /\ z.Hkv = 1 /\ z.Sq \in Nat \ {0} /\ z.Skv \in Nat
      OBVIOUS
    <3> HIDE DEF x, y, z
    <3>5. CASE p \in {y, z}
      BY <3>3, <3>4, <3>5
    <3> QED
      BY <3>1, <3>2, <3>5
  <2>3. p.Hq % p.Hkv = 0
    BY <2>2
  <2> QED
    BY <1>2, <2>1, <2>2, <2>3, DispatchesAreJobs
<1>4. CASE TuneFlash
  <2> DEFINE p == [B |-> 1, Hq |-> 1, Hkv |-> 1, Sq |-> 2, Skv |-> 1, causal |-> TRUE]
  <2>1. PICK cfg : RunFlash(dispatch_flash_attn(p, cfg))
    BY <1>4 DEF TuneFlash
  <2>2. /\ p.B \in Nat \ {0} /\ p.Hq \in Nat \ {0} /\ p.Hkv \in Nat \ {0} /\ p.Sq \in Nat \ {0}
        /\ p.Skv \in Nat /\ p.causal \in BOOLEAN /\ p.Hq % p.Hkv = 0
    OBVIOUS
  <2> HIDE DEF p
  <2> QED
    BY <1>2, <2>1, <2>2, DispatchesAreJobs
<1>5. CASE CallMatmul \/ CallBf16 \/ CallSycl \/ TuneMatmul
  BY <1>5 DEF CallMatmul, CallBf16, CallSycl, TuneMatmul, RunFP32, RunGemm
<1> QED
  BY <1>3, <1>4, <1>5 DEF HostCall

(* The calls that the compute run makes are launches of the two components *)
(* with the sizes the launch functions give them, so that what is proved   *)
(* of the kernels holds of them.                                           *)
THEOREM CallsImplementKernels == Spec => GemmSpec /\ FlashSpec
<1>1. Init => GemmInit /\ FlashInit
  BY DEF Init
<1>2. ASSUME ComputeInv, [Next]_vars
      PROVE  [GemmNext \/ GemmCall]_gemmVars /\ [FlashNext \/ FlashCall]_flashVars
  <2>1. CASE Start
    BY <1>2, <2>1, CallsAreGemmCalls, CallsAreFlashCalls DEF Start
  <2>2. CASE Run
    BY <2>2 DEF Run, GridStep
  <2>3. CASE Decode \/ Tune \/ Fp \/ UNCHANGED vars
    BY <2>3 DEF Decode, Tune, Fp, vars, kernelVars
  <2> QED
    BY <1>2, <2>1, <2>2, <2>3 DEF Next
<1> QED
  BY <1>1, <1>2, ComputeInvInvariant, PTL DEF Spec, GemmSpec, FlashSpec

-----------------------------------------------------------------------------
(* Successive halving *)

(* One turn of grid_search: candidate n against the best so far. *)
GTurn(b, n) ==
    [i |-> IF b.i = 0 \/ cost[n] < cost[b.i] THEN n ELSE b.i, evals |-> b.evals + MaxReps]

(* g does the first n turns. *)
GTurns(g, n) ==
    g = [m \in 0 .. n |-> IF m = 0 THEN [i |-> 0, evals |-> 0] ELSE GTurn(g[m - 1], m)]

(* There is such a function. *)
LEMMA GTurnsExist ==
    ASSUME NEW n \in Nat
    PROVE  \E g : GTurns(g, n)
<1> DEFINE X == {m \in Nat : \E g : GTurns(g, m)}
<1>1. 0 \in X
  <2> DEFINE g == [m \in 0 .. 0 |-> [i |-> 0, evals |-> 0]]
  <2>1. GTurns(g, 0)
    BY DEF GTurns
  <2> QED
    BY <2>1
<1>2. ASSUME NEW m \in 1 .. n, m - 1 \in X
      PROVE  m \in X
  <2>1. PICK g : GTurns(g, m - 1)
    BY <1>2
  <2> DEFINE h == [j \in 0 .. m |-> IF j = m THEN GTurn(g[m - 1], m) ELSE g[j]]
  <2>2. ASSUME NEW j \in 0 .. m
        PROVE  h[j] = IF j = 0 THEN [i |-> 0, evals |-> 0] ELSE GTurn(h[j - 1], j)
    <3>1. CASE j = m
      <4>1. j # 0 /\ h[j - 1] = g[m - 1]
        BY <3>1
      <4> QED
        BY <3>1, <4>1
    <3>2. CASE j # m
      <4>1. j \in 0 .. (m - 1) /\ h[j] = g[j]
        BY <3>2
      <4>2. j # 0 => h[j - 1] = g[j - 1]
        BY <3>2
      <4>3. g[j] = IF j = 0 THEN [i |-> 0, evals |-> 0] ELSE GTurn(g[j - 1], j)
        BY <2>1, <4>1 DEF GTurns
      <4> QED
        BY <4>1, <4>2, <4>3
    <3> QED
      BY <3>1, <3>2
  <2>3. GTurns(h, m)
    <3> HIDE DEF h
    <3>1. h = [j \in 0 .. m |-> h[j]]
      BY DEF h
    <3> QED
      BY <2>2, <3>1 DEF GTurns
  <2> QED
    BY <2>3
<1>3. \A m \in 0 .. n : m \in X
  <2> HIDE DEF X
  <2> QED
    BY <1>1, <1>2, UpTo
<1> QED
  BY <1>3

(* grid_search finds a fastest candidate. *)
LEMMA GridSearchIs ==
    ASSUME NEW n \in Nat \ {0}, cost \in [1 .. n -> Nat]
    PROVE  grid_search.i \in 1 .. n /\ \A j \in 1 .. n : cost[grid_search.i] <= cost[j]
<1>1. Len(cost) = n
  <2>1. cost \in Seq(Nat) /\ DOMAIN cost = 1 .. n
    OBVIOUS
  <2>2. Len(cost) \in Nat /\ 1 .. Len(cost) = 1 .. n
    BY <2>1, LenProperties
  <2> QED
    BY <2>2
<1> DEFINE f == CHOOSE g : GTurns(g, n)
<1>2. grid_search = f[n]
  BY <1>1 DEF grid_search, GTurns, GTurn
<1>3. GTurns(f, n)
  BY GTurnsExist
<1> HIDE DEF f
<1>4. f[0] = [i |-> 0, evals |-> 0] /\ \A m \in 1 .. n : f[m] = GTurn(f[m - 1], m)
  BY <1>3 DEF GTurns
<1> DEFINE X == {m \in 0 .. n : /\ f[m].i \in 0 .. m /\ (m > 0 => f[m].i > 0)
                                /\ \A j \in 1 .. m : cost[f[m].i] <= cost[j]}
<1>5. 0 \in X
  BY <1>4
<1>6. ASSUME NEW m \in 1 .. n, m - 1 \in X
      PROVE  m \in X
  <2>1. /\ f[m - 1].i \in 0 .. m - 1 /\ (m - 1 > 0 => f[m - 1].i > 0)
        /\ \A j \in 1 .. m - 1 : cost[f[m - 1].i] <= cost[j]
    BY <1>6
  <2>2. PICK b : b = f[m - 1].i
    OBVIOUS
  <2>3. f[m].i = IF b = 0 \/ cost[m] < cost[b] THEN m ELSE b
    <3>1. PICK a : a = f[m - 1]
      OBVIOUS
    <3>2. f[m] = GTurn(a, m) /\ a.i = b
      BY <1>4, <2>2, <3>1
    <3>3. GTurn(a, m).i = IF a.i = 0 \/ cost[m] < cost[a.i] THEN m ELSE a.i
      BY Zenon DEF GTurn
    <3> QED
      BY <3>2, <3>3
  <2>4. b \in 0 .. m - 1 /\ (m # 1 => b # 0) /\ \A j \in 1 .. m - 1 : cost[b] <= cost[j]
    BY <2>1, <2>2
  <2>5. cost[m] \in Nat /\ (b # 0 => cost[b] \in Nat) /\ \A j \in 1 .. m : cost[j] \in Nat
    BY <2>4
  <2>6. f[m].i \in 0 .. m /\ f[m].i > 0
    BY <2>3, <2>4
  <2>7. ASSUME NEW j \in 1 .. m
        PROVE  cost[f[m].i] <= cost[j]
    <3>1. CASE j = m
      BY <2>3, <2>5, <3>1
    <3>2. CASE j # m
      <4>1. j \in 1 .. m - 1 /\ m # 1
        BY <3>2
      <4>2. b # 0 /\ cost[b] <= cost[j]
        BY <2>4, <4>1
      <4> QED
        BY <2>3, <2>5, <4>2
    <3> QED
      BY <3>1, <3>2
  <2> QED
    BY <2>6, <2>7
<1>7. n \in X
  <2>1. \A m \in 0 .. n : m \in X
    <3> HIDE DEF X
    <3> QED
      BY <1>5, <1>6, UpTo
  <2> QED
    BY <2>1
<1> QED
  BY <1>2, <1>7

(* The inductive invariant of halving: nothing that has been dropped is    *)
(* faster than anything that is left.                                      *)
HalvingInv ==
    /\ stage \in {"idle", "rounds", "done", "threw"}
    /\ stage \in {"rounds", "done"} =>
         /\ \E n \in Nat \ {0} : cost \in [1 .. n -> Nat]
         /\ eta \in Nat \ {0}
         /\ alive \subseteq DOMAIN cost /\ IsFiniteSet(alive)
         /\ \A i \in alive, j \in DOMAIN cost \ alive : cost[i] <= cost[j]
    /\ stage = "done" => alive = {winner}

(* Successive halving ends with a configuration as fast as the one that    *)
(* grid search finds.                                                      *)
HalvingAgrees == stage = "done" => cost[winner] = cost[grid_search.i]

(* It does so for any number of candidates, any times and any eta.  (That  *)
(* it ends, and for how many measurements, is left to the model checker.)  *)
THEOREM HalvingKeepsFastest == TuneSpec => []HalvingAgrees
<1>1. TuneInit => HalvingInv
  BY DEF TuneInit, HalvingInv
<1>2. ASSUME HalvingInv, [TuneNext]_tuneVars
      PROVE  HalvingInv'
  <2>1. CASE successive_halving /\ stage' # "threw"
    <3>1. PICK n \in 1 .. MaxCands : cost' \in [1 .. n -> Costs] /\ stage' = "rounds"
      BY <2>1 DEF successive_halving
    <3>2. n \in Nat \ {0} /\ cost' \in [1 .. n -> Nat] /\ eta' \in Nat \ {0}
      <4>1. MaxCands \in Nat /\ Costs \subseteq Nat /\ Etas \subseteq Nat \ {0}
        BY TuneAssumption
      <4>2. eta' \in Etas
        BY <2>1 DEF successive_halving
      <4>3. n \in Nat \ {0}
        BY <4>1
      <4>4. \A i \in 1 .. n : cost'[i] \in Nat
        BY <3>1, <4>1
      <4>5. cost' = [i \in 1 .. n |-> cost'[i]]
        BY <3>1
      <4>6. cost' \in [1 .. n -> Nat]
        BY <4>4, <4>5
      <4> QED
        BY <4>1, <4>2, <4>3, <4>6
    <3>3. alive' = 1 .. n /\ DOMAIN cost' = 1 .. n /\ stage' = "rounds"
      BY <2>1, <3>1 DEF successive_halving
    <3>4. IsFiniteSet(1 .. n)
      BY <3>2, FS_Interval
    <3> QED
      BY <3>2, <3>3, <3>4 DEF HalvingInv
  <2>2. CASE Round
    <3>1. /\ stage = "rounds" /\ UNCHANGED <<stage, cost, eta>>
          /\ alive' \in SUBSET alive /\ \A i \in alive', j \in alive \ alive' : cost[i] <= cost[j]
      BY <2>2 DEF Round
    <3>2. IsFiniteSet(alive')
      BY <1>2, <3>1, FS_Subset DEF HalvingInv
    <3>3. \A i \in alive', j \in DOMAIN cost \ alive' : cost[i] <= cost[j]
      BY <1>2, <3>1 DEF HalvingInv
    <3> QED
      BY <1>2, <3>1, <3>2, <3>3 DEF HalvingInv
  <2>3. CASE Final
    <3>1. /\ stage = "rounds" /\ stage' = "done" /\ UNCHANGED <<cost, eta, alive>>
          /\ Cardinality(alive) = 1 /\ winner' = CHOOSE i \in alive : TRUE
      BY <2>3 DEF Final
    <3>2. PICK x : alive = {x}
      BY <1>2, <3>1, FS_Singleton DEF HalvingInv
    <3>3. winner' = x
      BY <3>1, <3>2
    <3> QED
      BY <1>2, <3>1, <3>2, <3>3 DEF HalvingInv
  <2>4. CASE UNCHANGED tuneVars
    BY <1>2, <2>4 DEF tuneVars, HalvingInv
  <2>5. CASE stage' = "threw"
    BY <2>5 DEF HalvingInv
  <2> QED
    BY <1>2, <2>1, <2>2, <2>3, <2>4, <2>5 DEF TuneNext
<1>3. ASSUME HalvingInv
      PROVE  HalvingAgrees
  <2>1. SUFFICES ASSUME stage = "done"
                 PROVE  cost[winner] = cost[grid_search.i]
    BY DEF HalvingAgrees
  <2>2. PICK n \in Nat \ {0} : cost \in [1 .. n -> Nat]
    BY <1>3, <2>1 DEF HalvingInv
  <2>3. winner \in 1 .. n /\ \A j \in 1 .. n : cost[winner] <= cost[j]
    <3>1. alive = {winner} /\ DOMAIN cost = 1 .. n /\ winner \in 1 .. n
      BY <1>3, <2>1, <2>2 DEF HalvingInv
    <3>2. \A j \in 1 .. n \ {winner} : cost[winner] <= cost[j]
      BY <1>3, <2>1, <3>1 DEF HalvingInv
    <3>3. cost[winner] <= cost[winner]
      BY <2>2, <3>1
    <3> QED
      BY <3>1, <3>2, <3>3
  <2>4. grid_search.i \in 1 .. n /\ \A j \in 1 .. n : cost[grid_search.i] <= cost[j]
    BY <2>2, GridSearchIs
  <2> QED
    BY <2>2, <2>3, <2>4
<1> QED
  BY <1>1, <1>2, <1>3, PTL DEF TuneSpec

-----------------------------------------------------------------------------
(* Speculative decoding *)

(* Draft tokens of the call under way that are neither accepted nor        *)
(* rejected yet; medusa_verify counts none.                                *)
Undecided == IF mode \in {"verify", "greedy"} THEN k - Len(out) ELSE 0

(* The inductive invariant: what has been drafted is accepted, rejected or *)
(* still to be looked at.                                                  *)
CountInv ==
    /\ mode \in {"idle", "verify", "greedy", "medusa"}
    /\ k \in Nat /\ out \in Seq(Int) /\ Len(out) <= k
    /\ stats \in [draft : Int, accepted : Int, rejected : Int]
    /\ stats.draft = stats.accepted + stats.rejected + Undecided

(* Every step of a verification keeps the three counters and the position  *)
(* in step.                                                                *)
LEMMA CountInvInductive == CountInv /\ [SpecNext]_specVars => CountInv'
<1> SUFFICES ASSUME CountInv, [SpecNext]_specVars
             PROVE  CountInv'
  OBVIOUS
<1> USE DEF CountInv, Undecided
<1>1. ASSUME NEW m \in {"verify", "greedy", "medusa"}, Call(m)
      PROVE  CountInv'
  <2>1. PICK n \in 0 .. MaxK :
           k' = n /\ stats' = IF m = "medusa" THEN stats ELSE [stats EXCEPT !.draft = @ + n]
    BY <1>1 DEF Call
  <2>2. mode = "idle" /\ mode' = m /\ out' = <<>> /\ n \in Nat
    BY <1>1, SpecAssumption DEF Call
  <2> QED
    BY <2>1, <2>2
<1>2. ASSUME NEW x \in 0 .. V, Accept(x), Len(out) < k, k' = k, mode # "idle"
      PROVE  CountInv'
  <2>1. x \in Int /\ out' = Append(out, x) /\ mode' = mode
    BY <1>2, SpecAssumption DEF Accept
  <2>2. out' \in Seq(Int) /\ Len(out') = Len(out) + 1
    BY <2>1
  <2>3. stats' = IF mode = "medusa" THEN stats ELSE [stats EXCEPT !.accepted = @ + 1]
    BY <1>2 DEF Accept
  <2>4. k' \in Nat /\ Len(out') <= k'
    <3>1. Len(out) \in Nat
      OBVIOUS
    <3> QED
      BY <1>2, <2>2, <3>1
  <2>5. CASE mode = "medusa"
    BY <2>1, <2>2, <2>3, <2>4, <2>5
  <2>6. CASE mode # "medusa"
    <3>1. /\ stats'.draft = stats.draft /\ stats'.accepted = stats.accepted + 1
          /\ stats'.rejected = stats.rejected
          /\ stats' \in [draft : Int, accepted : Int, rejected : Int]
      <4>1. stats' = [stats EXCEPT !.accepted = @ + 1]
        BY <2>3, <2>6
      <4>2. stats \in [draft : Int, accepted : Int, rejected : Int]
        OBVIOUS
      <4> HIDE DEF CountInv, Undecided
      <4> QED
        BY <4>1, <4>2
    <3>2. Undecided = Undecided' + 1
      BY <1>2, <2>1, <2>2, <2>6
    <3> HIDE DEF Undecided
    <3>3. Undecided' \in Int
      BY <1>2, <2>2, <2>4 DEF Undecided
    <3> QED
      BY <2>1, <2>2, <2>4, <3>1, <3>2, <3>3
  <2> QED
    BY <2>5, <2>6
<1>3. ASSUME NEW b, Reject(b), k' = k, mode \in {"verify", "greedy"}
      PROVE  CountInv'
  BY <1>3, SMTT(20) DEF Reject
<1>4. CASE VerifyToken
  BY <1>2, <1>3, <1>4 DEF VerifyToken, Look
<1>5. CASE GreedyToken
  BY <1>2, <1>3, <1>5 DEF GreedyToken, Look
<1>6. CASE Bonus
  BY <1>6 DEF Bonus
<1>7. CASE MedusaToken
  <2>1. PICK x \in 0 .. V : /\ Len(out) < k /\ k' = k /\ mode = "medusa"
                            /\ Accept(x) \/ (mode' = "idle" /\ UNCHANGED <<out, stats>>)
    BY <1>7 DEF MedusaToken, Look
  <2> QED
    BY <1>2, <2>1
<1>8. CASE MedusaEnd
  BY <1>8 DEF MedusaEnd
<1>9. CASE UNCHANGED specVars
  BY <1>9 DEF specVars
<1> QED
  BY <1>1, <1>4, <1>5, <1>6, <1>7, <1>8, <1>9 DEF SpecNext

(* Between calls every draft token is counted once, as accepted or as      *)
(* rejected (verify and verify_greedy of src/speculative.cpp), for every   *)
(* vocabulary, draft length and number of calls.                           *)
THEOREM DraftsAlwaysCounted == DecodeSpec => []EveryDraftCounted
<1>1. SpecInit => CountInv
  BY DEF SpecInit, CountInv, Undecided
<1>2. CountInv => EveryDraftCounted
  BY DEF CountInv, Undecided, EveryDraftCounted
<1> QED
  BY <1>1, <1>2, CountInvInductive, PTL DEF DecodeSpec

-----------------------------------------------------------------------------
(* Sums of weights *)

(* g has the sums of the first 0 .. n of the weights w. *)
HasSums(g, w, n) == g = [m \in 0 .. n |-> IF m = 0 THEN 0 ELSE g[m - 1] + w[m - 1]]

(* There is such a function. *)
LEMMA CumExists ==
    ASSUME NEW w, NEW n \in Nat
    PROVE  \E g : HasSums(g, w, n)
<1> DEFINE X == {m \in Nat : \E g : HasSums(g, w, m)}
<1>1. 0 \in X
  <2> DEFINE g == [m \in 0 .. 0 |-> 0]
  <2>1. HasSums(g, w, 0)
    BY DEF HasSums
  <2> QED
    BY <2>1
<1>2. ASSUME NEW m \in 1 .. n, m - 1 \in X
      PROVE  m \in X
  <2>1. PICK g : HasSums(g, w, m - 1)
    BY <1>2
  <2> DEFINE h == [j \in 0 .. m |-> IF j = m THEN g[m - 1] + w[m - 1] ELSE g[j]]
  <2>2. ASSUME NEW j \in 0 .. m
        PROVE  h[j] = IF j = 0 THEN 0 ELSE h[j - 1] + w[j - 1]
    <3>1. CASE j = m
      <4>1. j # 0 /\ h[j - 1] = g[m - 1]
        BY <3>1
      <4> QED
        BY <3>1, <4>1
    <3>2. CASE j # m
      <4>1. j \in 0 .. (m - 1) /\ h[j] = g[j]
        BY <3>2
      <4>2. j # 0 => h[j - 1] = g[j - 1]
        BY <3>2
      <4>3. g[j] = IF j = 0 THEN 0 ELSE g[j - 1] + w[j - 1]
        BY <2>1, <4>1 DEF HasSums
      <4> QED
        BY <4>1, <4>2, <4>3
    <3> QED
      BY <3>1, <3>2
  <2>3. HasSums(h, w, m)
    <3> HIDE DEF h
    <3>1. h = [j \in 0 .. m |-> h[j]]
      BY DEF h
    <3> QED
      BY <2>2, <3>1 DEF HasSums
  <2> QED
    BY <2>3
<1>3. \A m \in 0 .. n : m \in X
  <2> HIDE DEF X
  <2> QED
    BY <1>1, <1>2, UpTo
<1> QED
  BY <1>3

(* The constants are naturals. *)
LEMMA SpecConstants == V \in Nat \ {0} /\ D \in Nat \ {0} /\ G \in Nat \ {0}
  BY SpecAssumption

(* What Cum is. *)
LEMMA CumIs ==
    ASSUME NEW w
    PROVE  Cum(w)[0] = 0 /\ \A n \in 1 .. V : Cum(w)[n] = Cum(w)[n - 1] + w[n - 1]
<1> DEFINE g == Cum(w)
<1>1. g = CHOOSE f : HasSums(f, w, V)
  BY DEF Cum, HasSums
<1>2. HasSums(g, w, V)
  <2> HIDE DEF g
  <2> QED
    BY <1>1, SpecConstants, CumExists
<1> HIDE DEF g
<1>3. g[0] = 0
  BY <1>2, SpecConstants DEF HasSums
<1>4. ASSUME NEW n \in 1 .. V
      PROVE  g[n] = g[n - 1] + w[n - 1]
  BY <1>2, SpecConstants, SMTT(20) DEF HasSums
<1> QED
  BY <1>3, <1>4 DEF g

(* One weight more. *)
LEMMA CumStep ==
    ASSUME NEW w, NEW y \in Vocab
    PROVE  Cum(w)[y + 1] = Cum(w)[y] + w[y]
<1> DEFINE n == y + 1
<1>1. n \in 1 .. V /\ n - 1 = y
  BY SpecConstants DEF Vocab
<1> HIDE DEF n
<1>2. Cum(w)[n] = Cum(w)[n - 1] + w[n - 1]
  BY <1>1, CumIs
<1>3. Cum(w)[n] = Cum(w)[y] + w[y]
  BY <1>1, <1>2
<1> QED
  BY <1>3 DEF n

(* Sums of integers are integers. *)
LEMMA CumInt ==
    ASSUME NEW w \in [Vocab -> Int]
    PROVE  \A n \in 0 .. V : Cum(w)[n] \in Int
<1> DEFINE X == {n \in 0 .. V : Cum(w)[n] \in Int}
<1>1. 0 \in X
  BY CumIs, SpecConstants
<1>2. ASSUME NEW n \in 1 .. V, n - 1 \in X
      PROVE  n \in X
  <2>1. w[n - 1] \in Int
    BY SpecConstants DEF Vocab
  <2> QED
    BY <1>2, <2>1, CumIs
<1>3. \A n \in 0 .. V : n \in X
  <2> HIDE DEF X
  <2> QED
    BY <1>1, <1>2, UpTo, SpecConstants
<1> QED
  BY <1>3

(* Sums of naturals are naturals and grow. *)
LEMMA CumGrows ==
    ASSUME NEW w \in [Vocab -> Nat]
    PROVE  \A n \in 0 .. V : Cum(w)[n] \in Nat /\ \A m \in 0 .. n : Cum(w)[m] <= Cum(w)[n]
<1> DEFINE X == {n \in 0 .. V : Cum(w)[n] \in Nat /\ \A m \in 0 .. n : Cum(w)[m] <= Cum(w)[n]}
<1>1. 0 \in X
  BY CumIs, SpecConstants
<1>2. ASSUME NEW n \in 1 .. V, n - 1 \in X
      PROVE  n \in X
  <2>1. w[n - 1] \in Nat
    BY SpecConstants DEF Vocab
  <2>2. Cum(w)[n] = Cum(w)[n - 1] + w[n - 1]
    BY CumIs
  <2>3. ASSUME NEW m \in 0 .. n
        PROVE  Cum(w)[m] <= Cum(w)[n]
    <3>1. CASE m = n
      BY <1>2, <2>1, <2>2, <3>1
    <3>2. CASE m # n
      <4>1. m \in 0 .. n - 1
        BY <3>2
      <4>2. Cum(w)[m] <= Cum(w)[n - 1] /\ Cum(w)[n - 1] \in Nat
        BY <1>2, <4>1
      <4>3. Cum(w)[m] \in Int
        <5>1. w \in [Vocab -> Int]
          OBVIOUS
        <5> QED
          BY <5>1, CumInt, SpecConstants
      <4> QED
        BY <2>1, <2>2, <4>2, <4>3
    <3> QED
      BY <3>1, <3>2
  <2> QED
    BY <1>2, <2>1, <2>2, <2>3
<1>3. \A n \in 0 .. V : n \in X
  <2> HIDE DEF X
  <2> QED
    BY <1>1, <1>2, UpTo, SpecConstants
<1> QED
  BY <1>3

(* The sum of sums. *)
LEMMA CumAdd ==
    ASSUME NEW a \in [Vocab -> Int], NEW b \in [Vocab -> Int], NEW c \in [Vocab -> Int],
           \A x \in Vocab : a[x] = b[x] + c[x]
    PROVE  Cum(a)[V] = Cum(b)[V] + Cum(c)[V]
<1> DEFINE X == {n \in 0 .. V : Cum(a)[n] = Cum(b)[n] + Cum(c)[n]}
<1>1. 0 \in X
  BY CumIs, SpecConstants
<1>2. ASSUME NEW n \in 1 .. V, n - 1 \in X
      PROVE  n \in X
  <2>1. n - 1 \in Vocab /\ n - 1 \in 0 .. V
    BY SpecConstants DEF Vocab
  <2>2. a[n - 1] = b[n - 1] + c[n - 1] /\ b[n - 1] \in Int /\ c[n - 1] \in Int
    BY <2>1
  <2>3. Cum(b)[n - 1] \in Int /\ Cum(c)[n - 1] \in Int
    BY <2>1, CumInt
  <2>4. /\ Cum(a)[n] = Cum(a)[n - 1] + a[n - 1]
        /\ Cum(b)[n] = Cum(b)[n - 1] + b[n - 1]
        /\ Cum(c)[n] = Cum(c)[n - 1] + c[n - 1]
    BY CumIs
  <2> QED
    BY <1>2, <2>2, <2>3, <2>4
<1>3. \A n \in 0 .. V : n \in X
  <2> HIDE DEF X
  <2> QED
    BY <1>1, <1>2, UpTo, SpecConstants
<1> QED
  BY <1>3, SpecConstants

(* A factor of a sum. *)
LEMMA CumScale ==
    ASSUME NEW a \in [Vocab -> Int], NEW b \in [Vocab -> Int], NEW g \in Int,
           \A x \in Vocab : a[x] = g * b[x]
    PROVE  Cum(a)[V] = g * Cum(b)[V]
<1> DEFINE X == {n \in 0 .. V : Cum(a)[n] = g * Cum(b)[n]}
<1>1. 0 \in X
  BY CumIs, SpecConstants
<1>2. ASSUME NEW n \in 1 .. V, n - 1 \in X
      PROVE  n \in X
  <2>1. n - 1 \in Vocab /\ n - 1 \in 0 .. V
    BY SpecConstants DEF Vocab
  <2>2. a[n - 1] = g * b[n - 1] /\ b[n - 1] \in Int
    BY <2>1
  <2>3. Cum(b)[n - 1] \in Int
    BY <2>1, CumInt
  <2>4. /\ Cum(a)[n] = Cum(a)[n - 1] + a[n - 1]
        /\ Cum(b)[n] = Cum(b)[n - 1] + b[n - 1]
    BY CumIs
  <2>5. Cum(a)[n] = g * Cum(b)[n - 1] + g * b[n - 1]
    BY <1>2, <2>2, <2>4
  <2>6. g * (Cum(b)[n - 1] + b[n - 1]) = g * Cum(b)[n - 1] + g * b[n - 1]
    BY <2>2, <2>3
  <2> QED
    BY <2>4, <2>5, <2>6
<1>3. \A n \in 0 .. V : n \in X
  <2> HIDE DEF X
  <2> QED
    BY <1>1, <1>2, UpTo, SpecConstants
<1> QED
  BY <1>3, SpecConstants

(* A sum with one term. *)
LEMMA CumPoint ==
    ASSUME NEW a \in [Vocab -> Int], NEW y \in Vocab, \A x \in Vocab \ {y} : a[x] = 0
    PROVE  Cum(a)[V] = a[y]
<1> DEFINE X == {n \in 0 .. V : Cum(a)[n] = IF y < n THEN a[y] ELSE 0}
<1>0. y \in 0 .. V - 1 /\ a[y] \in Int
  BY DEF Vocab
<1>1. 0 \in X
  BY <1>0, CumIs, SpecConstants
<1>2. ASSUME NEW n \in 1 .. V, n - 1 \in X
      PROVE  n \in X
  <2>1. n - 1 \in Vocab
    BY SpecConstants DEF Vocab
  <2>2. Cum(a)[n] = Cum(a)[n - 1] + a[n - 1]
    BY CumIs
  <2>3. CASE y = n - 1
    BY <1>0, <1>2, <2>2, <2>3
  <2>4. CASE y # n - 1
    <3>1. a[n - 1] = 0
      BY <2>1, <2>4
    <3> QED
      BY <1>0, <1>2, <2>2, <2>4, <3>1
  <2> QED
    BY <2>3, <2>4
<1>3. \A n \in 0 .. V : n \in X
  <2> HIDE DEF X
  <2> QED
    BY <1>1, <1>2, UpTo, SpecConstants
<1>4. Cum(a)[V] = IF y < V THEN a[y] ELSE 0
  BY <1>3, SpecConstants
<1> QED
  BY <1>0, <1>4, SpecConstants

-----------------------------------------------------------------------------
(* Equally likely draws *)

(* A multiple of d is d times its quotient. *)
LEMMA Quotient ==
    ASSUME NEW d \in 1 .. D
    PROVE  G \div d \in Nat \ {0} /\ G = (G \div d) * d
<1>1. d \in Nat \ {0} /\ G % d = 0 /\ G \in Nat \ {0}
  <2>1. \A e \in 1 .. D : G % e = 0
    BY SpecAssumption
  <2>2. d \in Nat \ {0}
    BY SpecConstants
  <2> QED
    BY <2>1, <2>2, SpecConstants
<1>2. G \div d \in Nat /\ G = (G \div d) * d + (G % d)
  BY <1>1, DivMod
<1>3. (G \div d) * d \in Nat
  BY <1>1, <1>2
<1> QED
  BY <1>1, <1>2, <1>3

(* A common factor of an inequality. *)
LEMMA Cancel ==
    ASSUME NEW a \in Int, NEW b \in Int, NEW c \in Nat \ {0}
    PROVE  a * c <= b * c <=> a <= b
<1>1. CASE a <= b
  <2>1. a * c <= b * c
    BY <1>1
  <2> QED
    BY <1>1, <2>1
<1>2. CASE b < a
  <2>1. b * c < a * c
    BY <1>2
  <2> QED
    BY <1>2, <2>1
<1> QED
  BY <1>1, <1>2

(* The even draws are finitely many, and naturals. *)
LEMMA DrawsFinite ==
    /\ EvenDraws \subseteq 1 .. 2 * G - 1
    /\ \A S \in SUBSET EvenDraws : IsFiniteSet(S) /\ Cardinality(S) \in Nat
<1>1. EvenDraws \subseteq 1 .. 2 * G - 1
  BY SpecConstants DEF EvenDraws
<1>2. IsFiniteSet(1 .. 2 * G - 1)
  BY SpecConstants, FS_Interval
<1>3. ASSUME NEW S \in SUBSET EvenDraws
      PROVE  IsFiniteSet(S) /\ Cardinality(S) \in Nat
  <2>1. IsFiniteSet(S)
    BY <1>1, <1>2, FS_Subset
  <2> QED
    BY <2>1, FS_CardinalityType
<1> QED
  BY <1>1, <1>3

(* There are b - a of them above 2 * a and up to 2 * b. *)
LEMMA DrawsBetween ==
    ASSUME NEW a \in 0 .. G, NEW b \in a .. G
    PROVE  Cardinality({r \in EvenDraws : 2 * a < r /\ r <= 2 * b}) = b - a
<1> DEFINE S == {r \in EvenDraws : 2 * a < r /\ r <= 2 * b}
           f == [i \in a .. b - 1 |-> 2 * i + 1]
<1>0. a \in Int /\ b \in Int /\ a <= b /\ G \in Nat
  BY SpecConstants
<1>1. f \in Bijection(a .. b - 1, S)
  <2>1. f \in [a .. b - 1 -> S]
    <3>1. ASSUME NEW i \in a .. b - 1
          PROVE  2 * i + 1 \in S
      <4>1. i \in 0 .. G - 1 /\ 2 * a < 2 * i + 1 /\ 2 * i + 1 <= 2 * b
        BY <1>0
      <4> QED
        BY <4>1 DEF EvenDraws
    <3> QED
      BY <3>1
  <2>2. \A i, j \in a .. b - 1 : f[i] = f[j] => i = j
    BY <1>0
  <2>3. ASSUME NEW r \in S
        PROVE  \E i \in a .. b - 1 : f[i] = r
    <3>1. PICK i \in 0 .. G - 1 : r = 2 * i + 1
      BY DEF EvenDraws
    <3>2. 2 * a < r /\ r <= 2 * b
      OBVIOUS
    <3>3. i \in a .. b - 1
      BY <1>0, <3>1, <3>2
    <3> QED
      BY <3>1, <3>3
  <2> HIDE DEF f, S
  <2> QED
    BY <2>1, <2>2, <2>3 DEF Bijection, Injection, Surjection, IsInjective
<1>2. IsFiniteSet(a .. b - 1) /\ Cardinality(a .. b - 1) = b - a
  <2>1. b - 1 \in Int /\ (IF a > b - 1 THEN 0 ELSE b - 1 - a + 1) = b - a
    BY <1>0
  <2>2. /\ IsFiniteSet(a .. b - 1)
        /\ Cardinality(a .. b - 1) = IF a > b - 1 THEN 0 ELSE b - 1 - a + 1
    BY <1>0, <2>1, FS_Interval
  <2> QED
    BY <2>1, <2>2
<1>3. ExistsBijection(a .. b - 1, S)
  BY <1>1 DEF ExistsBijection
<1> HIDE DEF S
<1>4. Cardinality(S) = b - a
  BY <1>2, <1>3, FS_Bijection
<1> QED
  BY <1>4 DEF S

(* There are G of them. *)
LEMMA DrawsNumber == IsFiniteSet(EvenDraws) /\ Cardinality(EvenDraws) = G
<1>1. EvenDraws = {r \in EvenDraws : 2 * 0 < r /\ r <= 2 * G}
  <2>1. ASSUME NEW r \in EvenDraws
        PROVE  2 * 0 < r /\ r <= 2 * G
    <3>1. r \in 1 .. 2 * G - 1
      BY DrawsFinite
    <3> QED
      BY <3>1, SpecConstants
  <2> QED
    BY <2>1
<1>2. Cardinality({r \in EvenDraws : 2 * 0 < r /\ r <= 2 * G}) = G - 0
  BY DrawsBetween, SpecConstants
<1> QED
  BY <1>1, <1>2, DrawsFinite, SpecConstants

(* The lesser of two numbers. *)
Lesser(a, b) == IF a < b THEN a ELSE b

(* A distribution. *)
LEMMA DistFacts ==
    ASSUME NEW p \in Dists
    PROVE  /\ p \in [Vocab -> 0 .. D] /\ p \in [Vocab -> Nat] /\ p \in [Vocab -> Int]
           /\ Cum(p)[V] = D
  BY SpecConstants DEF Dists

(* Of the draws, the acceptance test for x lets through the part that the  *)
(* target's probability has in the draft's.                                *)
LEMMA AcceptedDraws ==
    ASSUME NEW pt \in Dists, NEW pd \in Dists, NEW x \in Vocab
    PROVE  pd[x] * Cardinality({r \in EvenDraws : Accepts(x, pt, pd, r)}) = G * Lesser(pd[x], pt[x])
<1> DEFINE A == {r \in EvenDraws : Accepts(x, pt, pd, r)}
           t == pt[x]
           d == pd[x]
<1>0. t \in 0 .. D /\ d \in 0 .. D /\ D \in Nat /\ G \in Nat \ {0}
  BY DistFacts, SpecConstants
<1>1. \A r \in EvenDraws : r \in Nat \ {0} /\ r < 2 * G
  BY DrawsFinite, SpecConstants
<1>2. ASSUME NEW r \in EvenDraws
      PROVE  Accepts(x, pt, pd, r) <=> t > 0 /\ r * d <= 2 * G * t
  BY <1>1 DEF Accepts, Prob
<1>3. CASE d = 0
  <2>1. Cardinality(A) \in Nat
    BY DrawsFinite
  <2>2. Lesser(d, t) = 0
    BY <1>0, <1>3 DEF Lesser
  <2> HIDE DEF A
  <2>3. d * Cardinality(A) = G * Lesser(d, t)
    BY <1>0, <1>3, <2>1, <2>2
  <2> QED
    BY <2>3 DEF A
<1>4. CASE d # 0
  <2> DEFINE q == G \div d
  <2>1. q \in Nat \ {0} /\ G = q * d
    BY <1>0, <1>4, Quotient
  <2> HIDE DEF q
  <2>2. ASSUME NEW r \in EvenDraws
        PROVE  r * d <= 2 * G * t <=> r <= 2 * (q * t)
    <3> DEFINE u == 2 * (q * t)
    <3>1. u \in Nat /\ 2 * G * t = u * d
      BY <1>0, <2>1
    <3>2. r \in Int /\ d \in Nat \ {0}
      BY <1>0, <1>1, <1>4
    <3> HIDE DEF u
    <3>3. r * d <= u * d <=> r <= u
      BY <3>1, <3>2, Cancel
    <3> QED
      BY <3>1, <3>3 DEF u
  <2>3. CASE t < d
    <3> DEFINE c == q * t
    <3>1. c \in 0 .. G
      <4>1. c \in Nat /\ q * t <= q * d
        BY <1>0, <2>1, <2>3
      <4> QED
        BY <2>1, <4>1
    <3>2. A = {r \in EvenDraws : 2 * 0 < r /\ r <= 2 * c}
      <4>1. ASSUME NEW r \in EvenDraws
            PROVE  Accepts(x, pt, pd, r) <=> 2 * 0 < r /\ r <= 2 * c
        <5>1. t = 0 => c = 0
          BY <1>0, <2>1
        <5> HIDE DEF c
        <5>2. t = 0 => ~(r <= 2 * c)
          BY <1>1, <5>1
        <5> QED
          BY <1>0, <1>1, <1>2, <2>2, <5>2 DEF c
      <4> HIDE DEF c
      <4> QED
        BY <4>1
    <3>3. Cardinality(A) = c
      <4> HIDE DEF A, c
      <4>1. c \in 0 .. G /\ c - 0 = c /\ 0 \in 0 .. G
        BY <3>1, <1>0
      <4> QED
        BY <3>2, <4>1, DrawsBetween
    <3>4. Lesser(d, t) = t
      BY <1>0, <2>3 DEF Lesser
    <3>5. d * (q * t) = (q * d) * t
      BY <1>0, <2>1
    <3> HIDE DEF A
    <3>6. d * Cardinality(A) = G * Lesser(d, t)
      BY <2>1, <3>3, <3>4, <3>5
    <3> QED
      BY <3>6 DEF A
  <2>4. CASE d <= t
    <3>1. A = EvenDraws
      <4>1. ASSUME NEW r \in EvenDraws
            PROVE  Accepts(x, pt, pd, r)
        <5>1. q * d <= q * t
          BY <1>0, <2>1, <2>4
        <5>2. q * t \in Nat
          BY <1>0, <2>1
        <5>3. r <= 2 * (q * t)
          BY <1>0, <1>1, <2>1, <5>1, <5>2
        <5> QED
          BY <1>0, <1>2, <1>4, <2>2, <2>4, <5>3
      <4> QED
        BY <4>1
    <3>2. Lesser(d, t) = d
      BY <1>0, <2>4 DEF Lesser
    <3> HIDE DEF A
    <3>3. d * Cardinality(A) = G * Lesser(d, t)
      BY <1>0, <3>1, <3>2, DrawsNumber
    <3> QED
      BY <3>3 DEF A
  <2> QED
    BY <1>0, <2>3, <2>4
<1> QED
  BY <1>3, <1>4

(* A set of naturals that is not empty has a least element. *)
LEMMA LeastOf ==
    ASSUME NEW S \in SUBSET Nat, S # {}
    PROVE  Min(S) \in S /\ \A y \in S : Min(S) <= y
<1>1. PICK x \in S : \A y \in S : ~(<<y, x>> \in OpToRel(<, Nat))
  BY NatLessThanWellFounded, WFMin
<1>2. ASSUME NEW y \in S
      PROVE  x <= y
  <2>1. ~(y < x)
    BY <1>1 DEF OpToRel
  <2> QED
    BY <2>1
<1> QED
  BY <1>2 DEF Min

(* Of the draws, sample_from takes to token y the part that its weight has *)
(* in the total.                                                           *)
LEMMA SampledDraws ==
    ASSUME NEW w \in [Vocab -> Nat], NEW total \in 1 .. D, Cum(w)[V] = total, NEW y \in Vocab
    PROVE  Cardinality({r \in EvenDraws : sample_from(w, total, r) = y}) * total = G * w[y]
<1> DEFINE q == G \div total
           N == {r \in EvenDraws : sample_from(w, total, r) = y}
           reached(r) == {i \in Vocab : r * total <= 2 * G * Cum(w)[i + 1]}
<1>0. /\ total \in Nat \ {0} /\ G \in Nat \ {0} /\ V \in Nat \ {0}
      /\ y \in 0 .. V - 1 /\ y + 1 \in 0 .. V /\ w[y] \in Nat
  BY SpecConstants DEF Vocab
<1>1. q \in Nat \ {0} /\ G = q * total
  BY Quotient
<1>2. \A r \in EvenDraws : r \in Nat \ {0} /\ r < 2 * G
  BY DrawsFinite, SpecConstants
<1>3. \A n \in 0 .. V : Cum(w)[n] \in Nat /\ \A m \in 0 .. n : Cum(w)[m] <= Cum(w)[n]
  BY CumGrows
<1> HIDE DEF q
<1>4. ASSUME NEW r \in EvenDraws, NEW i \in Vocab
      PROVE  i \in reached(r) <=> r <= 2 * (q * Cum(w)[i + 1])
  <2> DEFINE c == Cum(w)[i + 1]
             u == 2 * (q * c)
  <2>1. c \in Nat
    BY <1>0, <1>3 DEF Vocab
  <2> HIDE DEF c
  <2>2. u \in Nat /\ 2 * G * c = u * total
    BY <1>0, <1>1, <2>1
  <2> HIDE DEF u
  <2>3. r * total <= u * total <=> r <= u
    BY <1>0, <1>2, <2>2, Cancel
  <2>4. i \in reached(r) <=> r * total <= 2 * G * c
    BY DEF c
  <2> QED
    BY <2>2, <2>3, <2>4 DEF u, c
<1>5. ASSUME NEW r \in EvenDraws
      PROVE  sample_from(w, total, r) = Min(reached(r)) /\ V - 1 \in reached(r)
  <2>1. V - 1 \in Vocab /\ V - 1 + 1 = V
    BY <1>0 DEF Vocab
  <2>2. r <= 2 * (q * Cum(w)[V - 1 + 1])
    BY <1>1, <1>2, <2>1
  <2>3. V - 1 \in reached(r)
    BY <1>4, <2>1, <2>2
  <2> QED
    BY <2>3 DEF sample_from
<1>6. ASSUME NEW m \in 0 .. V, NEW n \in 0 .. V, m <= n
      PROVE  q * Cum(w)[m] \in Nat /\ q * Cum(w)[m] <= q * Cum(w)[n]
  <2>1. Cum(w)[m] \in Nat /\ Cum(w)[n] \in Nat /\ Cum(w)[m] <= Cum(w)[n]
    BY <1>3, <1>6, <1>0
  <2> QED
    BY <1>1, <2>1
<1> DEFINE a == q * Cum(w)[y]
           b == q * Cum(w)[y + 1]
<1>7. ASSUME NEW r \in EvenDraws
      PROVE  sample_from(w, total, r) = y <=> 2 * a < r /\ r <= 2 * b
  <2>0. reached(r) \in SUBSET Nat /\ reached(r) # {}
    <3>1. reached(r) \subseteq Vocab /\ Vocab \subseteq Nat
      BY <1>0 DEF Vocab
    <3> HIDE DEF reached
    <3> QED
      BY <1>5, <3>1
  <2>1. ASSUME 2 * a < r, r <= 2 * b
        PROVE  sample_from(w, total, r) = y
    <3>1. y \in reached(r)
      BY <1>4, <2>1
    <3>2. ASSUME NEW i \in reached(r)
          PROVE  y <= i
      <4>1. i \in Vocab /\ r <= 2 * (q * Cum(w)[i + 1])
        BY <1>4, <3>2
      <4>2. CASE i + 1 <= y
        <5>1. i + 1 \in 0 .. V /\ y \in 0 .. V
          BY <1>0, <4>1 DEF Vocab
        <5>2. q * Cum(w)[i + 1] \in Nat /\ q * Cum(w)[i + 1] <= a /\ a \in Nat
          BY <1>6, <4>2, <5>1
        <5> QED
          BY <1>2, <2>1, <4>1, <5>2
      <4> QED
        BY <1>0, <4>1, <4>2 DEF Vocab
    <3> HIDE DEF reached
    <3>3. Min(reached(r)) \in reached(r) /\ \A i \in reached(r) : Min(reached(r)) <= i
      BY <2>0, LeastOf
    <3>4. Min(reached(r)) <= y /\ y <= Min(reached(r)) /\ Min(reached(r)) \in Nat
      BY <2>0, <3>1, <3>2, <3>3
    <3> QED
      BY <1>0, <1>5, <3>4
  <2>2. ASSUME sample_from(w, total, r) = y
        PROVE  2 * a < r /\ r <= 2 * b
    <3>1. y \in reached(r) /\ \A i \in reached(r) : y <= i
      <4> HIDE DEF reached
      <4> QED
        BY <1>5, <2>0, <2>2, LeastOf
    <3>2. r <= 2 * b
      BY <1>4, <3>1
    <3>3. CASE y = 0
      <4>1. Cum(w)[y] = 0
        BY <3>3, CumIs
      <4>2. a = 0
        BY <1>1, <4>1
      <4> QED
        BY <1>2, <3>2, <4>2
    <3>4. CASE y # 0
      <4>1. y - 1 \in Vocab /\ y - 1 + 1 = y /\ ~(y <= y - 1)
        BY <1>0, <3>4 DEF Vocab
      <4>2. y - 1 \notin reached(r)
        BY <3>1, <4>1
      <4>3. ~(r <= 2 * a)
        BY <1>4, <4>1, <4>2
      <4>4. a \in Nat
        BY <1>6, <1>0
      <4> QED
        BY <1>2, <3>2, <4>3, <4>4
    <3> QED
      BY <3>3, <3>4
  <2> QED
    BY <2>1, <2>2
<1>8. a \in 0 .. G /\ b \in a .. G
  <2>1. y \in 0 .. V /\ y <= y + 1 /\ y + 1 <= V /\ V \in 0 .. V /\ V <= V
    BY <1>0
  <2>2. a \in Nat /\ a <= b /\ b \in Nat /\ b <= q * Cum(w)[V]
    BY <1>0, <1>6, <2>1
  <2> HIDE DEF a, b
  <2> QED
    BY <1>0, <1>1, <2>2
<1>9. Cardinality(N) = b - a
  <2>1. N = {r \in EvenDraws : 2 * a < r /\ r <= 2 * b}
    <3> HIDE DEF a, b
    <3> QED
      BY <1>7
  <2> HIDE DEF N, a, b
  <2> QED
    BY <1>8, <2>1, DrawsBetween
<1>10. b - a = q * w[y]
  <2>1. Cum(w)[y + 1] = Cum(w)[y] + w[y]
    BY CumStep
  <2>2. Cum(w)[y] \in Nat
    BY <1>0, <1>3
  <2>3. q * (Cum(w)[y] + w[y]) = q * Cum(w)[y] + q * w[y]
    BY <1>0, <1>1, <2>2
  <2>4. q * Cum(w)[y] \in Nat /\ q * w[y] \in Nat
    BY <1>0, <1>1, <2>2
  <2> QED
    BY <2>1, <2>3, <2>4
<1>11. Cardinality(N) * total = G * w[y]
  <2>1. (q * w[y]) * total = (q * total) * w[y]
    BY <1>0, <1>1
  <2> HIDE DEF N, a, b
  <2> QED
    BY <1>1, <1>9, <1>10, <2>1
<1> QED
  BY <1>11

(* How many draws accept x. *)
AcceptedBy(x, pt, pd) == Cardinality({r \in EvenDraws : Accepts(x, pt, pd, r)})

(* How many draws of a rejection give y. *)
DrawnFor(y, pt, pd) == Cardinality({r \in EvenDraws : y \in sample_from_adjusted(pt, pd, r)})

(* The part of a that is above b. *)
Above(a, b) == [i \in Vocab |-> IF a[i] > b[i] THEN a[i] - b[i] ELSE 0]

(* The first token is y if y was drafted and accepted, or if what was      *)
(* drafted was rejected and y drawn instead.                               *)
LEMMA WaysSplit ==
    ASSUME NEW pt \in Dists, NEW pd \in Dists, NEW x \in Vocab, NEW y \in Vocab
    PROVE  /\ AcceptedBy(x, pt, pd) \in 0 .. G /\ DrawnFor(y, pt, pd) \in Nat
           /\ Ways(x, y, pt, pd) = (IF x = y THEN AcceptedBy(x, pt, pd) * G ELSE 0)
                                   + (G - AcceptedBy(x, pt, pd)) * DrawnFor(y, pt, pd)
<1> DEFINE E == EvenDraws
           A == {r \in E : Accepts(x, pt, pd, r)}
           N == {r \in E : y \in sample_from_adjusted(pt, pd, r)}
           W == {d \in E \X E : y \in First(x, pt, pd, d[1], d[2])}
<1>1. /\ IsFiniteSet(E) /\ IsFiniteSet(A) /\ IsFiniteSet(N) /\ IsFiniteSet(E \ A)
      /\ Cardinality(E) = G /\ Cardinality(A) \in Nat /\ Cardinality(N) \in Nat
      /\ Cardinality(E \ A) \in Nat
  BY DrawsFinite, DrawsNumber
<1>2. Cardinality(A) <= G /\ Cardinality(E \ A) = G - Cardinality(A)
  <2>1. A \in SUBSET E /\ E \cap A = A
    OBVIOUS
  <2> HIDE DEF A, E
  <2>2. Cardinality(A) <= Cardinality(E)
    BY <1>1, <2>1, FS_Subset
  <2>3. Cardinality(E \ A) = Cardinality(E) - Cardinality(E \cap A)
    BY <1>1, FS_Difference
  <2> QED
    BY <1>1, <2>1, <2>2, <2>3
<1>3. ASSUME x = y
      PROVE  W = (A \X E) \cup ((E \ A) \X N)
  BY <1>3 DEF First
<1>4. ASSUME x # y
      PROVE  W = (E \ A) \X N
  BY <1>4 DEF First
<1>5. (A \X E) \cap ((E \ A) \X N) = {}
  OBVIOUS
<1>6. Cardinality(W) = (IF x = y THEN Cardinality(A) * G ELSE 0) + (G - Cardinality(A)) * Cardinality(N)
  <2> HIDE DEF A, N, W, E
  <2>1. /\ IsFiniteSet((E \ A) \X N)
        /\ Cardinality((E \ A) \X N) = (G - Cardinality(A)) * Cardinality(N)
    BY <1>1, <1>2, FS_Product
  <2>2. IsFiniteSet(A \X E) /\ Cardinality(A \X E) = Cardinality(A) * G
    BY <1>1, FS_Product
  <2>3. (G - Cardinality(A)) * Cardinality(N) \in Int /\ Cardinality(A) * G \in Int
    BY <1>1, SpecConstants
  <2>4. CASE x = y
    <3>1. Cardinality(W) = Cardinality(A \X E) + Cardinality((E \ A) \X N) - Cardinality({})
      BY <1>3, <1>5, <2>1, <2>2, <2>4, FS_Union
    <3> QED
      BY <2>1, <2>2, <2>3, <2>4, <3>1, FS_EmptySet
  <2>5. CASE x # y
    <3>1. Cardinality(W) = (G - Cardinality(A)) * Cardinality(N)
      BY <1>4, <2>1, <2>5
    <3> DEFINE c == (G - Cardinality(A)) * Cardinality(N)
    <3> HIDE DEF c
    <3>2. c = 0 + c
      BY <2>3 DEF c
    <3> QED
      BY <2>5, <3>1, <3>2 DEF c
  <2> QED
    BY <2>4, <2>5
<1>7. /\ AcceptedBy(x, pt, pd) = Cardinality(A) /\ DrawnFor(y, pt, pd) = Cardinality(N)
      /\ Ways(x, y, pt, pd) = Cardinality(W)
  BY DEF AcceptedBy, DrawnFor, Ways
<1> HIDE DEF A, N, W, E
<1> QED
  BY <1>1, <1>2, <1>6, <1>7, SpecConstants

(* The parts above and below: what one distribution has more here the      *)
(* other has more elsewhere.                                               *)
LEMMA AboveBelow ==
    ASSUME NEW pt \in Dists, NEW pd \in Dists
    PROVE  /\ Above(pt, pd) \in [Vocab -> Nat] /\ Above(pd, pt) \in [Vocab -> Nat]
           /\ Cum(Above(pt, pd))[V] = Cum(Above(pd, pt))[V]
           /\ Cum(Above(pt, pd))[V] \in 0 .. D
<1>1. /\ pt \in [Vocab -> Nat] /\ pd \in [Vocab -> Nat] /\ Cum(pt)[V] = D /\ Cum(pd)[V] = D
      /\ pt \in [Vocab -> Int] /\ pd \in [Vocab -> Int]
  BY DistFacts
<1>2. Above(pt, pd) \in [Vocab -> Nat] /\ Above(pd, pt) \in [Vocab -> Nat]
  BY <1>1 DEF Above
<1> DEFINE s == [i \in Vocab |-> Above(pt, pd)[i] + pd[i]]
           l == [i \in Vocab |-> Lesser(pt[i], pd[i])]
           more == Above(pt, pd)
           less == Above(pd, pt)
<1>3. more \in [Vocab -> Int] /\ less \in [Vocab -> Int]
  BY <1>2
<1>4. s \in [Vocab -> Int] /\ l \in [Vocab -> Nat] /\ l \in [Vocab -> Int]
  BY <1>1, <1>3 DEF Lesser
<1>5. /\ \A i \in Vocab : s[i] = more[i] + pd[i]
      /\ \A i \in Vocab : s[i] = less[i] + pt[i]
      /\ \A i \in Vocab : pt[i] = more[i] + l[i]
  BY <1>1 DEF Above, Lesser
<1>6. Cum(s)[V] = Cum(more)[V] + Cum(pd)[V]
  <2> HIDE DEF s, l, more, less
  <2>1. \A i \in Vocab : s[i] = more[i] + pd[i]
    BY <1>5
  <2>2. /\ s \in [Vocab -> Int] /\ l \in [Vocab -> Int] /\ more \in [Vocab -> Int]
        /\ less \in [Vocab -> Int] /\ pt \in [Vocab -> Int] /\ pd \in [Vocab -> Int]
    BY <1>1, <1>3, <1>4
  <2> QED
    BY <2>1, <2>2, CumAdd
<1>7. Cum(s)[V] = Cum(less)[V] + Cum(pt)[V]
  <2> HIDE DEF s, l, more, less
  <2>1. \A i \in Vocab : s[i] = less[i] + pt[i]
    BY <1>5
  <2>2. /\ s \in [Vocab -> Int] /\ l \in [Vocab -> Int] /\ more \in [Vocab -> Int]
        /\ less \in [Vocab -> Int] /\ pt \in [Vocab -> Int] /\ pd \in [Vocab -> Int]
    BY <1>1, <1>3, <1>4
  <2> QED
    BY <2>1, <2>2, CumAdd
<1>8. Cum(pt)[V] = Cum(more)[V] + Cum(l)[V]
  <2> HIDE DEF s, l, more, less
  <2>1. \A i \in Vocab : pt[i] = more[i] + l[i]
    BY <1>5
  <2>2. /\ s \in [Vocab -> Int] /\ l \in [Vocab -> Int] /\ more \in [Vocab -> Int]
        /\ less \in [Vocab -> Int] /\ pt \in [Vocab -> Int] /\ pd \in [Vocab -> Int]
    BY <1>1, <1>3, <1>4
  <2> QED
    BY <2>1, <2>2, CumAdd
<1>9. V \in 0 .. V /\ D \in Nat
  BY SpecConstants
<1>10. Cum(Above(pt, pd))[V] \in Nat /\ Cum(Above(pd, pt))[V] \in Nat /\ Cum(l)[V] \in Nat
  BY <1>2, <1>4, <1>9, CumGrows
<1>11. Cum(more)[V] = Cum(less)[V] /\ Cum(more)[V] \in 0 .. D
  <2> HIDE DEF s, l, more, less
  <2>1. Cum(more)[V] \in Nat /\ Cum(less)[V] \in Nat /\ Cum(l)[V] \in Nat
    BY <1>10 DEF more, less
  <2> QED
    BY <1>1, <1>6, <1>7, <1>8, <1>9, <2>1
<1> QED
  BY <1>2, <1>11

(* A rejection gives y as often as y's share of the target's part above    *)
(* the draft's.                                                            *)
LEMMA RejectionDraws ==
    ASSUME NEW pt \in Dists, NEW pd \in Dists, NEW y \in Vocab
    PROVE  DrawnFor(y, pt, pd) * Cum(Above(pt, pd))[V] = G * Above(pt, pd)[y]
<1> DEFINE w == Above(pt, pd)
           total == Cum(w)[V]
<1>1. w \in [Vocab -> Nat] /\ total \in 0 .. D
  BY AboveBelow
<1>2. \A r : sample_from_adjusted(pt, pd, r) = IF total = 0 THEN Vocab ELSE {sample_from(w, total, r)}
  BY DEF sample_from_adjusted, Above
<1> HIDE DEF w
<1>3. DrawnFor(y, pt, pd) \in Nat
  BY WaysSplit
<1>4. w[y] \in Nat /\ G \in Nat
  BY <1>1, SpecConstants
<1>5. CASE total = 0
  <2>1. w[y] = 0
    <3>1. y + 1 \in 0 .. V /\ y \in 0 .. V /\ V \in 0 .. V
      BY SpecConstants DEF Vocab
    <3>2. Cum(w)[y + 1] = Cum(w)[y] + w[y]
      BY CumStep
    <3>3. Cum(w)[y] \in Nat /\ Cum(w)[y + 1] \in Nat /\ Cum(w)[y + 1] <= total
      BY <1>1, <3>1, CumGrows
    <3> QED
      BY <1>4, <1>5, <3>2, <3>3
  <2> QED
    BY <1>3, <1>4, <1>5, <2>1 DEF w
<1>6. CASE total # 0
  <2>1. total \in 1 .. D
    BY <1>1, <1>6, SpecConstants
  <2>2. DrawnFor(y, pt, pd) = Cardinality({r \in EvenDraws : sample_from(w, total, r) = y})
    <3>1. \A r : y \in sample_from_adjusted(pt, pd, r) <=> sample_from(w, total, r) = y
      BY <1>2, <1>6
    <3> HIDE DEF total
    <3>2. {r \in EvenDraws : y \in sample_from_adjusted(pt, pd, r)}
             = {r \in EvenDraws : sample_from(w, total, r) = y}
      BY <3>1
    <3> QED
      BY <3>2 DEF DrawnFor
  <2>3. Cardinality({r \in EvenDraws : sample_from(w, total, r) = y}) * total = G * w[y]
    <3>1. Cum(w)[V] = total
      OBVIOUS
    <3> HIDE DEF total
    <3> QED
      BY <1>1, <2>1, <3>1, SampledDraws
  <2> QED
    BY <2>2, <2>3 DEF w
<1> QED
  BY <1>5, <1>6

(* The rejection sampling theorem: acceptance, adjusted distribution and   *)
(* sampling by the cumulative sum together give the target's distribution. *)
LEMMA RejectionSampling ==
    ASSUME NEW pt \in Dists, NEW pd \in Dists, NEW y \in Vocab
    PROVE  Cum([x \in Vocab |-> pd[x] * Ways(x, y, pt, pd)])[V] = pt[y] * G * G
<1> DEFINE n == DrawnFor(y, pt, pd)
           hits(x) == AcceptedBy(x, pt, pd)
           both == [x \in Vocab |-> pd[x] * Ways(x, y, pt, pd)]
           drafted == [x \in Vocab |-> IF x = y THEN G * Lesser(pd[y], pt[y]) * G ELSE 0]
           drawn == [x \in Vocab |-> (G * n) * Above(pd, pt)[x]]
<1>1. /\ G \in Nat \ {0} /\ n \in Nat /\ pt[y] \in Nat /\ pd[y] \in Nat
      /\ \A x \in Vocab : pt[x] \in Nat /\ pd[x] \in Nat /\ hits(x) \in Nat /\ hits(x) <= G
  <2>1. \A x \in Vocab : pt[x] \in Nat /\ pd[x] \in Nat
    BY DistFacts
  <2>2. \A x \in Vocab : hits(x) \in 0 .. G /\ n \in Nat
    BY WaysSplit
  <2> HIDE DEF n, hits
  <2> QED
    BY <2>1, <2>2, SpecConstants
<1>2. ASSUME NEW x \in Vocab
      PROVE  pd[x] * Ways(x, y, pt, pd) = drafted[x] + drawn[x] /\ drafted[x] \in Int /\ drawn[x] \in Int
  <2> DEFINE d == pd[x]
             a == AcceptedBy(x, pt, pd)
             l == Lesser(pd[x], pt[x])
  <2>1. d \in Nat /\ a \in Nat /\ l \in Nat /\ d * a = G * l /\ pt[x] \in Nat
    BY <1>1, AcceptedDraws DEF AcceptedBy, Lesser
  <2>2. Above(pd, pt)[x] = d - l /\ d - l \in Nat
    BY <1>1 DEF Above, Lesser
  <2>3. Ways(x, y, pt, pd) = (IF x = y THEN a * G ELSE 0) + (G - a) * n
    BY WaysSplit
  <2>4. drawn[x] = (G * n) * (d - l)
    BY <2>2
  <2>5. drafted[x] = IF x = y THEN G * l * G ELSE 0
    OBVIOUS
  <2> HIDE DEF d, a, l, n, drafted, drawn
  <2>6. d * ((G - a) * n) = (G * n) * (d - l)
    <3>1. d * ((G - a) * n) = (d * G) * n - (d * a) * n
      BY <1>1, <2>1
    <3>2. (G * n) * (d - l) = (d * G) * n - (G * l) * n
      BY <1>1, <2>1
    <3> QED
      BY <2>1, <3>1, <3>2
  <2>7. (G - a) * n \in Int /\ a * G \in Int /\ (G * n) * (d - l) \in Int /\ G * l * G \in Int
    BY <1>1, <2>1
  <2>8. CASE x = y
    <3>1. d * (a * G + (G - a) * n) = (d * a) * G + d * ((G - a) * n)
      BY <1>1, <2>1
    <3> QED
      BY <2>1, <2>3, <2>4, <2>5, <2>6, <2>7, <2>8, <3>1 DEF d
  <2>9. CASE x # y
    <3>1. Ways(x, y, pt, pd) = (G - a) * n
      BY <2>3, <2>7, <2>9
    <3> QED
      BY <2>4, <2>5, <2>6, <2>7, <2>9, <3>1 DEF d
  <2> QED
    BY <2>8, <2>9
<1>3. /\ both \in [Vocab -> Int] /\ drafted \in [Vocab -> Int] /\ drawn \in [Vocab -> Int]
      /\ \A x \in Vocab : both[x] = drafted[x] + drawn[x]
  <2>1. \A x \in Vocab : both[x] = pd[x] * Ways(x, y, pt, pd)
    OBVIOUS
  <2>2. both = [x \in Vocab |-> both[x]] /\ drafted = [x \in Vocab |-> drafted[x]]
        /\ drawn = [x \in Vocab |-> drawn[x]]
    OBVIOUS
  <2> HIDE DEF both, drafted, drawn
  <2>3. \A x \in Vocab : both[x] = drafted[x] + drawn[x] /\ drafted[x] \in Int /\ drawn[x] \in Int
    BY <1>2, <2>1
  <2>4. \A x \in Vocab : both[x] \in Int
    BY <2>3
  <2> QED
    BY <2>2, <2>3, <2>4
<1>4. Cum(both)[V] = Cum(drafted)[V] + Cum(drawn)[V]
  <2> HIDE DEF both, drafted, drawn
  <2> QED
    BY <1>3, CumAdd
<1>5. Cum(drafted)[V] = G * Lesser(pd[y], pt[y]) * G
  <2>1. drafted[y] = G * Lesser(pd[y], pt[y]) * G /\ \A x \in Vocab \ {y} : drafted[x] = 0
    OBVIOUS
  <2> HIDE DEF drafted
  <2> QED
    BY <1>3, <2>1, CumPoint
<1>6. Cum(drawn)[V] = (G * n) * Cum(Above(pd, pt))[V]
  <2>1. Above(pd, pt) \in [Vocab -> Int] /\ G * n \in Int
    BY <1>1, AboveBelow
  <2>2. \A x \in Vocab : drawn[x] = (G * n) * Above(pd, pt)[x]
    OBVIOUS
  <2> DEFINE g == G * n
  <2> HIDE DEF drawn, g, n
  <2>3. Cum(drawn)[V] = g * Cum(Above(pd, pt))[V]
    BY <1>3, <2>1, <2>2, CumScale DEF g
  <2> QED
    BY <2>3 DEF g
<1>7. (G * n) * Cum(Above(pd, pt))[V] = G * (G * Above(pt, pd)[y])
  <2> DEFINE t == Cum(Above(pt, pd))[V]
  <2>1. n * t = G * Above(pt, pd)[y]
    BY RejectionDraws
  <2>2. t = Cum(Above(pd, pt))[V] /\ t \in Int
    BY AboveBelow
  <2> HIDE DEF n, t
  <2>3. (G * n) * t = G * (n * t)
    BY <1>1, <2>2
  <2> QED
    BY <2>1, <2>2, <2>3
<1>8. Lesser(pd[y], pt[y]) + Above(pt, pd)[y] = pt[y]
  BY <1>1 DEF Lesser, Above
<1>9. Lesser(pd[y], pt[y]) \in Int /\ Above(pt, pd)[y] \in Int
  BY <1>1 DEF Lesser, Above
<1>10. Cum(both)[V] = pt[y] * G * G
  <2> DEFINE l == Lesser(pd[y], pt[y])
             u == Above(pt, pd)[y]
  <2>1. Cum(both)[V] = G * l * G + G * (G * u)
    BY <1>4, <1>5, <1>6, <1>7
  <2>2. l \in Int /\ u \in Int /\ l + u = pt[y]
    BY <1>8, <1>9
  <2> HIDE DEF l, u, both
  <2>3. G * l * G + G * (G * u) = (l + u) * G * G
    BY <1>1, <2>2
  <2> QED
    BY <2>1, <2>2, <2>3
<1> QED
  BY <1>10

(* What a call has looked at are distributions, or nothing. *)
SeenInv ==
    \/ seen.pd = NoDist
    \/ seen.pt \in Dists /\ seen.pd \in Dists

(* The first token that verify of src/speculative.cpp emits at a position  *)
(* has the target's distribution, for every vocabulary, every pair of      *)
(* distributions and every resolution of the draws.                        *)
THEOREM OutputAlwaysFollowsTarget == DecodeSpec => []OutputFollowsTarget
<1>1. SpecInit => SeenInv
  BY DEF SpecInit, SeenInv
<1>2. SeenInv /\ [SpecNext]_specVars => SeenInv'
  <2> SUFFICES ASSUME SeenInv, [SpecNext]_specVars
               PROVE  SeenInv'
    OBVIOUS
  <2>1. ASSUME NEW m, Call(m)
        PROVE  SeenInv'
    BY <2>1 DEF Call, SeenInv
  <2>2. CASE VerifyToken
    <3>1. PICK pt \in Dists, pd \in Dists : seen' = [pt |-> pt, pd |-> pd]
      BY <2>2 DEF VerifyToken, Look
    <3> QED
      BY <3>1 DEF SeenInv
  <2>3. CASE GreedyToken
    <3>1. PICK pt \in Dists : seen' = [pt |-> pt, pd |-> NoDist]
      BY <2>3 DEF GreedyToken, Look
    <3> QED
      BY <3>1 DEF SeenInv
  <2>4. CASE Bonus
    <3>1. PICK pt \in Dists : seen' = [pt |-> pt, pd |-> NoDist]
      BY <2>4 DEF Bonus
    <3> QED
      BY <3>1 DEF SeenInv
  <2>5. CASE MedusaToken
    <3>1. PICK pt \in Dists : seen' = [pt |-> pt, pd |-> NoDist]
      BY <2>5 DEF MedusaToken, Look
    <3> QED
      BY <3>1 DEF SeenInv
  <2>6. CASE MedusaEnd
    BY <2>6 DEF MedusaEnd, SeenInv
  <2>7. CASE UNCHANGED specVars
    BY <2>7 DEF specVars, SeenInv
  <2> QED
    BY <2>1, <2>2, <2>3, <2>4, <2>5, <2>6, <2>7 DEF SpecNext
<1>3. SeenInv => OutputFollowsTarget
  BY RejectionSampling DEF SeenInv, OutputFollowsTarget
<1> QED
  BY <1>1, <1>2, <1>3, PTL DEF DecodeSpec

-----------------------------------------------------------------------------
(* FP8: powers of two, ldexp and rounding *)

(* g has the powers of two up to n. *)
HasPowers(g, n) == g = [i \in 0 .. n |-> IF i = 0 THEN 1 ELSE 2 * g[i - 1]]

(* There is such a function. *)
LEMMA PowersExist ==
    ASSUME NEW n \in Nat
    PROVE  \E g : HasPowers(g, n)
<1> DEFINE X == {m \in Nat : \E g : HasPowers(g, m)}
<1>1. 0 \in X
  <2> DEFINE g == [m \in 0 .. 0 |-> 1]
  <2>1. HasPowers(g, 0)
    BY DEF HasPowers
  <2> QED
    BY <2>1
<1>2. ASSUME NEW m \in 1 .. n, m - 1 \in X
      PROVE  m \in X
  <2>1. PICK g : HasPowers(g, m - 1)
    BY <1>2
  <2> DEFINE h == [j \in 0 .. m |-> IF j = m THEN 2 * g[m - 1] ELSE g[j]]
  <2>2. ASSUME NEW j \in 0 .. m
        PROVE  h[j] = IF j = 0 THEN 1 ELSE 2 * h[j - 1]
    <3>1. CASE j = m
      <4>1. j # 0 /\ h[j - 1] = g[m - 1]
        BY <3>1
      <4> QED
        BY <3>1, <4>1
    <3>2. CASE j # m
      <4>1. j \in 0 .. (m - 1) /\ h[j] = g[j]
        BY <3>2
      <4>2. j # 0 => h[j - 1] = g[j - 1]
        BY <3>2
      <4>3. g[j] = IF j = 0 THEN 1 ELSE 2 * g[j - 1]
        BY <2>1, <4>1 DEF HasPowers
      <4> QED
        BY <4>1, <4>2, <4>3
    <3> QED
      BY <3>1, <3>2
  <2>3. HasPowers(h, m)
    <3> HIDE DEF h
    <3>1. h = [j \in 0 .. m |-> h[j]]
      BY DEF h
    <3> QED
      BY <2>2, <3>1 DEF HasPowers
  <2> QED
    BY <2>3
<1>3. \A m \in 0 .. n : m \in X
  <2> HIDE DEF X
  <2> QED
    BY <1>1, <1>2, UpTo
<1> QED
  BY <1>3

(* Exp2 is the last of them. *)
LEMMA Exp2Is ==
    ASSUME NEW n \in Nat
    PROVE  \E g : g[0] = 1 /\ (\A i \in 1 .. n : g[i] = 2 * g[i - 1]) /\ F!Exp2(n) = g[n]
<1> DEFINE g == CHOOSE f : HasPowers(f, n)
<1>1. F!Exp2(n) = g[n]
  BY DEF F!Exp2, HasPowers
<1>2. HasPowers(g, n)
  BY PowersExist
<1> HIDE DEF g
<1>3. g[0] = 1
  BY <1>2 DEF HasPowers
<1>4. ASSUME NEW i \in 1 .. n
      PROVE  g[i] = 2 * g[i - 1]
  BY <1>2, SMTT(20) DEF HasPowers
<1> QED
  BY <1>1, <1>3, <1>4

(* The first powers. *)
LEMMA SmallPowers ==
    /\ F!Exp2(0) = 1 /\ F!Exp2(1) = 2 /\ F!Exp2(2) = 4 /\ F!Exp2(3) = 8
    /\ F!Exp2(4) = 16 /\ F!Exp2(5) = 32 /\ F!Exp2(6) = 64
<1>1. F!Exp2(0) = 1
  <2>1. PICK g : g[0] = 1 /\ (\A i \in 1 .. 0 : g[i] = 2 * g[i - 1]) /\ F!Exp2(0) = g[0]
    BY Exp2Is
  <2> QED
    BY <2>1
<1>2. ASSUME NEW n \in 1 .. 6
      PROVE  \E g : /\ g[0] = 1 /\ g[1] = 2 /\ F!Exp2(n) = g[n]
                    /\ n >= 2 => g[2] = 4
                    /\ n >= 3 => g[3] = 8
                    /\ n >= 4 => g[4] = 16
                    /\ n >= 5 => g[5] = 32
                    /\ n >= 6 => g[6] = 64
  <2>1. PICK g : g[0] = 1 /\ (\A i \in 1 .. n : g[i] = 2 * g[i - 1]) /\ F!Exp2(n) = g[n]
    BY Exp2Is
  <2>2. g[1] = 2
    BY <2>1
  <2>3. n >= 2 => g[2] = 4
    BY <2>1, <2>2
  <2>4. n >= 3 => g[3] = 8
    BY <2>1, <2>3
  <2>5. n >= 4 => g[4] = 16
    BY <2>1, <2>4
  <2>6. n >= 5 => g[5] = 32
    BY <2>1, <2>5
  <2>7. n >= 6 => g[6] = 64
    BY <2>1, <2>6
  <2> QED
    BY <2>1, <2>2, <2>3, <2>4, <2>5, <2>6, <2>7
<1>3. F!Exp2(1) = 2
  BY <1>2
<1>4. F!Exp2(2) = 4
  BY <1>2
<1>5. F!Exp2(3) = 8
  BY <1>2
<1>6. F!Exp2(4) = 16
  BY <1>2
<1>7. F!Exp2(5) = 32
  BY <1>2
<1>8. F!Exp2(6) = 64
  BY <1>2
<1> QED
  BY <1>1, <1>3, <1>4, <1>5, <1>6, <1>7, <1>8

(* The others are larger. *)
LEMMA LargePowers ==
    ASSUME NEW n \in Nat, n >= 7
    PROVE  F!Exp2(n) \in Nat /\ F!Exp2(n) >= 128
<1>1. PICK g : g[0] = 1 /\ (\A i \in 1 .. n : g[i] = 2 * g[i - 1]) /\ F!Exp2(n) = g[n]
  BY Exp2Is
<1>2. g[1] = 2
  BY <1>1
<1>3. g[2] = 4
  BY <1>1, <1>2
<1>4. g[3] = 8
  BY <1>1, <1>3
<1>5. g[4] = 16
  BY <1>1, <1>4
<1>6. g[5] = 32
  BY <1>1, <1>5
<1>7. g[6] = 64
  BY <1>1, <1>6
<1>8. g[7] = 128
  BY <1>1, <1>7
<1> DEFINE X == {m \in 0 .. n : g[m] \in Nat /\ (m >= 7 => g[m] >= 128)}
<1>9. 0 \in X
  BY <1>1
<1>10. ASSUME NEW m \in 1 .. n, m - 1 \in X
       PROVE  m \in X
  <2>1. g[m] = 2 * g[m - 1] /\ g[m - 1] \in Nat
    BY <1>1, <1>10
  <2>2. CASE m <= 7
    BY <1>8, <2>1, <2>2
  <2>3. CASE m > 7
    BY <1>10, <2>1, <2>3
  <2> QED
    BY <2>2, <2>3
<1>11. \A m \in 0 .. n : m \in X
  <2> HIDE DEF X
  <2> QED
    BY <1>9, <1>10, UpTo
<1> QED
  BY <1>1, <1>11

(* ldexp of small numbers. *)
LEMMA LdexpIs ==
    ASSUME NEW kk \in Nat, NEW e \in Int
    PROVE  /\ kk = 1 => F!Ldexp(kk, e) = <<e, 32 * Fine>>
           /\ kk \in 2 .. 3 => F!Ldexp(kk, e) = <<e + 1, kk * 16 * Fine>>
           /\ kk \in 4 .. 7 => F!Ldexp(kk, e) = <<e + 2, kk * 8 * Fine>>
           /\ kk \in 8 .. 15 => F!Ldexp(kk, e) = <<e + 3, kk * 4 * Fine>>
           /\ kk \in 16 .. 31 => F!Ldexp(kk, e) = <<e + 4, kk * 2 * Fine>>
<1> DEFINE p == CHOOSE i \in 0 .. 5 : F!Exp2(i) <= kk /\ kk < F!Exp2(i + 1)
<1>1. F!Ldexp(kk, e) = <<e + p, kk * F!Exp2(5 - p) * Fine>>
  BY DEF F!Ldexp
<1>2. ASSUME NEW i \in 0 .. 5, F!Exp2(i) <= kk, kk < F!Exp2(i + 1)
      PROVE  p = i
  <2>1. ASSUME NEW j \in 0 .. 5, F!Exp2(j) <= kk, kk < F!Exp2(j + 1)
        PROVE  j = i
    <3>1. j \in {0, 1, 2, 3, 4, 5} /\ i \in {0, 1, 2, 3, 4, 5}
      OBVIOUS
    <3>2. /\ F!Exp2(j) = CASE j = 0 -> 1 [] j = 1 -> 2 [] j = 2 -> 4 [] j = 3 -> 8 [] j = 4 -> 16 [] j = 5 -> 32
          /\ F!Exp2(j + 1) = CASE j = 0 -> 2 [] j = 1 -> 4 [] j = 2 -> 8 [] j = 3 -> 16 [] j = 4 -> 32 [] j = 5 -> 64
          /\ F!Exp2(i) = CASE i = 0 -> 1 [] i = 1 -> 2 [] i = 2 -> 4 [] i = 3 -> 8 [] i = 4 -> 16 [] i = 5 -> 32
          /\ F!Exp2(i + 1) = CASE i = 0 -> 2 [] i = 1 -> 4 [] i = 2 -> 8 [] i = 3 -> 16 [] i = 4 -> 32 [] i = 5 -> 64
      BY <3>1, SmallPowers
    <3> QED
      BY <1>2, <2>1, <3>1, <3>2
  <2> QED
    BY <1>2, <2>1
<1> HIDE DEF p
<1>3. ASSUME kk = 1
      PROVE  F!Ldexp(kk, e) = <<e, 32 * Fine>>
  <2>1. p = 0
    BY <1>2, <1>3, SmallPowers
  <2>2. F!Exp2(5 - p) = 32 /\ e + p = e
    BY <2>1, SmallPowers
  <2> QED
    BY <1>1, <1>3, <2>2, ComputeAssumption
<1>4. ASSUME kk \in 2 .. 3
      PROVE  F!Ldexp(kk, e) = <<e + 1, kk * 16 * Fine>>
  <2>1. p = 1
    BY <1>2, <1>4, SmallPowers
  <2>2. F!Exp2(5 - p) = 16
    BY <2>1, SmallPowers
  <2> QED
    BY <1>1, <2>1, <2>2
<1>5. ASSUME kk \in 4 .. 7
      PROVE  F!Ldexp(kk, e) = <<e + 2, kk * 8 * Fine>>
  <2>1. p = 2
    BY <1>2, <1>5, SmallPowers
  <2>2. F!Exp2(5 - p) = 8
    BY <2>1, SmallPowers
  <2> QED
    BY <1>1, <2>1, <2>2
<1>6. ASSUME kk \in 8 .. 15
      PROVE  F!Ldexp(kk, e) = <<e + 3, kk * 4 * Fine>>
  <2>1. p = 3
    BY <1>2, <1>6, SmallPowers
  <2>2. F!Exp2(5 - p) = 4
    BY <2>1, SmallPowers
  <2> QED
    BY <1>1, <2>1, <2>2
<1>7. ASSUME kk \in 16 .. 31
      PROVE  F!Ldexp(kk, e) = <<e + 4, kk * 2 * Fine>>
  <2>1. p = 4
    BY <1>2, <1>7, SmallPowers
  <2>2. F!Exp2(5 - p) = 2
    BY <2>1, SmallPowers
  <2> QED
    BY <1>1, <2>1, <2>2
<1> QED
  BY <1>3, <1>4, <1>5, <1>6, <1>7

(* Rounding: d * j is nearest to n, from below if there are two. *)
LEMMA RoundDivIs ==
    ASSUME NEW n \in Nat, NEW d \in Nat \ {0}, NEW j \in Nat,
           2 * (j * d) <= 2 * n + d, 2 * n + d < 2 * (j * d) + 2 * d
    PROVE  F!RoundDiv(n, d) = j
<1> DEFINE b == 2 * d
           r == 2 * n + d - 2 * (j * d)
<1>1. b \in Nat \ {0} /\ r \in 0 .. b - 1 /\ j * d \in Nat
  OBVIOUS
<1>2. j * b + r = 2 * n + d
  <2>1. j * (2 * d) = 2 * (j * d)
    OBVIOUS
  <2> QED
    BY <1>1, <2>1
<1>3. (j * b + r) \div b = j
  <2> HIDE DEF b, r
  <2> QED
    BY <1>1, DivModUnique
<1> QED
  BY <1>2, <1>3 DEF F!RoundDiv

(* Every rounded quotient has these bounds. *)
LEMMA RoundDivBounds ==
    ASSUME NEW n \in Nat, NEW d \in Nat \ {0}
    PROVE  LET j == F!RoundDiv(n, d)
           IN  j \in Nat /\ j * d \in Nat /\ 2 * (j * d) <= 2 * n + d /\ 2 * n + d < 2 * (j * d) + 2 * d
<1> DEFINE a == 2 * n + d
           b == 2 * d
           j == a \div b
<1>1. a \in Nat /\ b \in Nat \ {0}
  OBVIOUS
<1>2. j \in Nat /\ a % b \in 0 .. b - 1 /\ a = j * b + (a % b)
  <2> HIDE DEF a, b
  <2> QED
    BY <1>1, DivMod
<1>3. F!RoundDiv(n, d) = j
  BY DEF F!RoundDiv
<1> HIDE DEF j
<1>4. j * b = 2 * (j * d) /\ j * d \in Nat
  BY <1>2
<1> DEFINE jd == j * d
           r == a % b
<1>5. jd \in Nat /\ r \in 0 .. 2 * d - 1 /\ 2 * n + d = 2 * jd + r
  BY <1>2, <1>4
<1>6. 2 * jd <= 2 * n + d /\ 2 * n + d < 2 * jd + 2 * d
  <2> HIDE DEF jd, r
  <2> QED
    BY <1>5
<1> QED
  BY <1>2, <1>3, <1>4, <1>6

(* A number below enc is a code whose middle is passed: there are enc. *)
LEMMA CodesBelow ==
    ASSUME NEW max \in Nat, NEW enc \in 0 .. max
    PROVE  Cardinality({c \in 0 .. max - 1 : c < enc}) = enc
<1>1. {c \in 0 .. max - 1 : c < enc} = 0 .. enc - 1
  OBVIOUS
<1>2. Cardinality(0 .. enc - 1) = enc
  <2>1. enc - 1 \in Int /\ (IF 0 > enc - 1 THEN 0 ELSE enc - 1 - 0 + 1) = enc
    OBVIOUS
  <2>2. Cardinality(0 .. enc - 1) = IF 0 > enc - 1 THEN 0 ELSE enc - 1 - 0 + 1
    BY <2>1, FS_Interval
  <2> QED
    BY <2>1, <2>2
<1> QED
  BY <1>1, <1>2

(* Finite floats. *)
LEMMA FloatFacts ==
    ASSUME NEW x \in Int, NEW n \in F!Significands
    PROVE  /\ n \in Nat /\ 32 * Fine <= n /\ n < 64 * Fine /\ Fine \in Nat \ {0}
           /\ F!Finite(<<x, n>>)
           /\ <<x, n>> # F!NaN /\ <<x, n>> # F!Inf /\ <<x, n>> # F!Zero
<1>1. n \in Nat /\ 32 * Fine <= n /\ n < 64 * Fine /\ Fine \in Nat \ {0}
  BY ComputeAssumption DEF F!Significands
<1>2. n # 0 /\ n # 1 /\ n # 2
  BY <1>1
<1> QED
  BY <1>1, <1>2 DEF F!Finite, F!NaN, F!Inf, F!Zero

(* The other floats. *)
LEMMA SpecialFloats ==
    /\ F!NaN # F!Inf /\ F!NaN # F!Zero /\ F!Inf # F!Zero
    /\ ~F!Finite(F!NaN) /\ ~F!Finite(F!Inf) /\ ~F!Finite(F!Zero)
<1>1. Fine \in Nat \ {0}
  BY ComputeAssumption
<1>2. ~(2 >= 32 * Fine) /\ ~(1 >= 32 * Fine) /\ ~(0 >= 32 * Fine)
  BY <1>1
<1> QED
  BY <1>2 DEF F!Finite, F!NaN, F!Inf, F!Zero

-----------------------------------------------------------------------------
(* E4M3 *)

(* The middles between neighbouring codes. *)
LEMMA Middle4 ==
    ASSUME NEW c \in 0 .. 125
    PROVE  /\ c = 0 => F!Middle(F!E4M3, c) = <<-10, 32 * Fine>>
           /\ c = 1 => F!Middle(F!E4M3, c) = <<-9, 48 * Fine>>
           /\ c = 2 => F!Middle(F!E4M3, c) = <<-8, 40 * Fine>>
           /\ c = 3 => F!Middle(F!E4M3, c) = <<-8, 56 * Fine>>
           /\ c = 4 => F!Middle(F!E4M3, c) = <<-7, 36 * Fine>>
           /\ c = 5 => F!Middle(F!E4M3, c) = <<-7, 44 * Fine>>
           /\ c = 6 => F!Middle(F!E4M3, c) = <<-7, 52 * Fine>>
           /\ c = 7 => F!Middle(F!E4M3, c) = <<-7, 60 * Fine>>
           /\ c >= 8 => F!Middle(F!E4M3, c) = <<(c \div 8) - 7, (34 + 4 * (c % 8)) * Fine>>
<1> DEFINE kk == 2 * c + 1
<1>0. Fine \in Nat
  BY ComputeAssumption
<1>1. F!Middle(F!E4M3, c) = IF kk < 16 THEN F!Ldexp(kk, -10) ELSE F!Ldexp(16 + (kk % 16), (kk \div 16) - 11)
  <2>1. F!E4M3.bits + 1 = 4 /\ F!E4M3.bias = 7
    BY DEF F!E4M3
  <2>2. F!Middle(F!E4M3, c) = F!Number(kk, 4, 7)
    BY <2>1 DEF F!Middle
  <2>3. (kk \div 16) \in Int
    OBVIOUS
  <2>4. 1 - 7 - 4 = -10 /\ (kk \div 16) - 7 - 4 = (kk \div 16) - 11
    BY <2>3
  <2> HIDE DEF kk
  <2> QED
    BY <2>2, <2>4, SmallPowers DEF F!Number
<1>2. ASSUME c >= 8
      PROVE  F!Middle(F!E4M3, c) = <<(c \div 8) - 7, (34 + 4 * (c % 8)) * Fine>>
  <2> DEFINE E == c \div 8
             M == c % 8
  <2>1. E \in Nat /\ M \in 0 .. 7 /\ c = 8 * E + M
    OBVIOUS
  <2>2. kk % 16 = 2 * M + 1 /\ kk \div 16 = E /\ ~(kk < 16)
    BY <1>2
  <2> HIDE DEF E, M, kk
  <2>3. F!Middle(F!E4M3, c) = F!Ldexp(16 + (2 * M + 1), E - 11)
    BY <1>1, <2>2
  <2>4. 16 + (2 * M + 1) \in 16 .. 31 /\ 16 + (2 * M + 1) \in Nat /\ E - 11 \in Int
    BY <2>1
  <2>5. F!Ldexp(16 + (2 * M + 1), E - 11) = <<E - 11 + 4, (16 + (2 * M + 1)) * 2 * Fine>>
    BY <2>4, LdexpIs
  <2>6. E - 11 + 4 = E - 7 /\ (16 + (2 * M + 1)) * 2 = 34 + 4 * M
    BY <2>1
  <2> QED
    BY <2>3, <2>5, <2>6 DEF E, M
<1>3. ASSUME c = 0 PROVE F!Middle(F!E4M3, c) = <<-10, 32 * Fine>>
  <2>1. F!Middle(F!E4M3, c) = F!Ldexp(1, -10)
    BY <1>1, <1>3
  <2> QED
    BY <2>1, LdexpIs
<1>4. ASSUME c = 1 PROVE F!Middle(F!E4M3, c) = <<-9, 48 * Fine>>
  <2>1. F!Middle(F!E4M3, c) = F!Ldexp(3, -10)
    BY <1>1, <1>4
  <2> QED
    BY <1>0, <2>1, LdexpIs
<1>5. ASSUME c = 2 PROVE F!Middle(F!E4M3, c) = <<-8, 40 * Fine>>
  <2>1. F!Middle(F!E4M3, c) = F!Ldexp(5, -10)
    BY <1>1, <1>5
  <2> QED
    BY <1>0, <2>1, LdexpIs
<1>6. ASSUME c = 3 PROVE F!Middle(F!E4M3, c) = <<-8, 56 * Fine>>
  <2>1. F!Middle(F!E4M3, c) = F!Ldexp(7, -10)
    BY <1>1, <1>6
  <2> QED
    BY <1>0, <2>1, LdexpIs
<1>7. ASSUME c = 4 PROVE F!Middle(F!E4M3, c) = <<-7, 36 * Fine>>
  <2>1. F!Middle(F!E4M3, c) = F!Ldexp(9, -10)
    BY <1>1, <1>7
  <2> QED
    BY <1>0, <2>1, LdexpIs
<1>8. ASSUME c = 5 PROVE F!Middle(F!E4M3, c) = <<-7, 44 * Fine>>
  <2>1. F!Middle(F!E4M3, c) = F!Ldexp(11, -10)
    BY <1>1, <1>8
  <2> QED
    BY <1>0, <2>1, LdexpIs
<1>9. ASSUME c = 6 PROVE F!Middle(F!E4M3, c) = <<-7, 52 * Fine>>
  <2>1. F!Middle(F!E4M3, c) = F!Ldexp(13, -10)
    BY <1>1, <1>9
  <2> QED
    BY <1>0, <2>1, LdexpIs
<1>10. ASSUME c = 7 PROVE F!Middle(F!E4M3, c) = <<-7, 60 * Fine>>
  <2>1. F!Middle(F!E4M3, c) = F!Ldexp(15, -10)
    BY <1>1, <1>10
  <2> QED
    BY <1>0, <2>1, LdexpIs
<1> QED
  BY <1>2, <1>3, <1>4, <1>5, <1>6, <1>7, <1>8, <1>9, <1>10

(* A normal number within the range: its exponent, and the step its        *)
(* significand is nearest to.                                              *)
LEMMA Normal4 ==
    ASSUME NEW x \in Int, NEW n \in F!Significands, x >= -6, x <= 8, x = 8 => n <= 56 * Fine
    PROVE  \E m \in 0 .. 8 : /\ F!f32_to_e4m3(<<x, n>>) = 8 * (x + 7) + m
                             /\ (30 + 4 * m) * Fine <= n /\ n < (34 + 4 * m) * Fine
                             /\ x = 8 => m <= 6
<1> DEFINE m == F!RoundDiv((n - 32 * Fine) * 8, 32 * Fine)
<1>0. /\ n \in Nat /\ 32 * Fine <= n /\ n < 64 * Fine /\ Fine \in Nat \ {0}
      /\ F!Finite(<<x, n>>)
      /\ <<x, n>> # F!NaN /\ <<x, n>> # F!Inf /\ <<x, n>> # F!Zero
  BY FloatFacts
<1>1. m \in Nat /\ (30 + 4 * m) * Fine <= n /\ n < (34 + 4 * m) * Fine
  <2> DEFINE a == (n - 32 * Fine) * 8
             d == 32 * Fine
  <2>1. a \in Nat /\ d \in Nat \ {0}
    BY <1>0
  <2>2. /\ m \in Nat /\ m * d \in Nat
        /\ 2 * (m * d) <= 2 * a + d /\ 2 * a + d < 2 * (m * d) + 2 * d
    <3> HIDE DEF a, d
    <3>1. m = F!RoundDiv(a, d)
      BY DEF a, d
    <3> HIDE DEF m
    <3> QED
      BY <2>1, <3>1, RoundDivBounds
  <2> HIDE DEF m
  <2> DEFINE mf == m * Fine
  <2>3. m * d = 32 * mf /\ mf \in Nat
    BY <1>0, <2>2
  <2>4. (30 + 4 * m) * Fine = 30 * Fine + 4 * mf /\ (34 + 4 * m) * Fine = 34 * Fine + 4 * mf
    BY <1>0, <2>2
  <2> HIDE DEF mf
  <2> QED
    BY <1>0, <2>2, <2>3, <2>4
<1>2. m <= 8 /\ (x = 8 => m <= 6)
  <2> HIDE DEF m
  <2>1. (30 + 4 * m) * Fine <= 63 * Fine => 30 + 4 * m <= 63
    BY <1>0, <1>1, Cancel
  <2>2. ASSUME x = 8
        PROVE  m <= 6
    <3>1. (30 + 4 * m) * Fine <= 56 * Fine => 30 + 4 * m <= 56
      BY <1>0, <1>1, Cancel
    <3>2. (30 + 4 * m) * Fine \in Nat
      BY <1>0, <1>1
    <3> QED
      BY <1>0, <1>1, <2>2, <3>1, <3>2
  <2>3. ASSUME m >= 9
        PROVE  FALSE
    <3>1. 64 * Fine <= (30 + 4 * m) * Fine <=> 64 <= 30 + 4 * m
      BY <1>0, <1>1, Cancel
    <3>2. (30 + 4 * m) * Fine \in Nat
      BY <1>0, <1>1
    <3> QED
      BY <1>0, <1>1, <2>3, <3>1, <3>2
  <2> QED
    BY <1>1, <2>2, <2>3
<1>3. F!Clamp(<<x, n>>, <<8, 56 * Fine>>) = <<x, n>>
  BY <1>0 DEF F!Clamp, F!Less
<1>4. F!f32_to_e4m3(<<x, n>>) = 8 * (x + 7) + m
  <2> DEFINE e == IF m >= 8 THEN x + 7 + 1 ELSE x + 7
  <2>1. F!f32_to_e4m3(<<x, n>>) = IF e > 15 \/ (e = 15 /\ m % 8 >= 7) THEN 126 ELSE e * 8 + (m % 8)
    <3>1. ~(x + 7 <= 0) /\ x + 7 > 0
      OBVIOUS
    <3> QED
      BY <1>0, <1>3, <3>1 DEF F!f32_to_e4m3
  <2> HIDE DEF m
  <2>2. m \in 0 .. 8
    BY <1>1, <1>2
  <2>3. CASE m = 8
    BY <1>2, <2>1, <2>3
  <2>4. CASE m # 8
    <3>1. m \in 0 .. 7 /\ m % 8 = m
      BY <2>2, <2>4
    <3>2. e = x + 7
      BY <3>1
    <3> QED
      BY <1>2, <2>1, <3>1, <3>2
  <2> QED
    BY <2>3, <2>4
<1> HIDE DEF m
<1>5. m \in 0 .. 8
  BY <1>1, <1>2
<1> QED
  BY <1>1, <1>2, <1>4, <1>5

(* Above 448. *)
LEMMA Overflow4 ==
    ASSUME NEW x \in Int, NEW n \in F!Significands, F!Less(<<8, 56 * Fine>>, <<x, n>>)
    PROVE  F!f32_to_e4m3(<<x, n>>) = 126
<1>0. /\ n \in Nat /\ Fine \in Nat \ {0} /\ F!Finite(<<x, n>>)
      /\ <<x, n>> # F!NaN /\ <<x, n>> # F!Inf /\ <<x, n>> # F!Zero
  BY FloatFacts
<1>1. F!Clamp(<<x, n>>, <<8, 56 * Fine>>) = <<8, 56 * Fine>>
  BY DEF F!Clamp
<1>2. F!RoundDiv((56 * Fine - 32 * Fine) * 8, 32 * Fine) = 6
  <2> DEFINE a == (56 * Fine - 32 * Fine) * 8
             d == 32 * Fine
  <2>1. a \in Nat /\ d \in Nat \ {0} /\ 2 * (6 * d) <= 2 * a + d /\ 2 * a + d < 2 * (6 * d) + 2 * d
    BY <1>0
  <2> HIDE DEF a, d
  <2>2. F!RoundDiv(a, d) = 6
    BY <2>1, RoundDivIs
  <2> QED
    BY <2>2 DEF a, d
<1>3. <<8, 56 * Fine>>[1] = 8 /\ <<8, 56 * Fine>>[2] = 56 * Fine
  OBVIOUS
<1> QED
  BY <1>0, <1>1, <1>2, <1>3 DEF F!f32_to_e4m3

(* Below the smallest normal number. *)
LEMMA Subnormal4 ==
    ASSUME NEW x \in Int, NEW n \in F!Significands, x <= -7
    PROVE  /\ x = -7 => \E j \in 4 .. 8 :
                 /\ (8 * j - 4) * Fine <= n /\ n < (8 * j + 4) * Fine
                 /\ F!f32_to_e4m3(<<x, n>>) = IF j > 7 THEN 7 ELSE j
           /\ x = -8 => F!f32_to_e4m3(<<x, n>>) =
                           IF n < 40 * Fine THEN 2 ELSE IF n < 56 * Fine THEN 3 ELSE 4
           /\ x = -9 => F!f32_to_e4m3(<<x, n>>) = IF n < 48 * Fine THEN 1 ELSE 2
           /\ x = -10 => F!f32_to_e4m3(<<x, n>>) = 1
           /\ x < -10 => F!f32_to_e4m3(<<x, n>>) = 0
<1> DEFINE d == F!Exp2(-4 - x) * Fine
           j == F!RoundDiv(n, d)
<1>0. /\ n \in Nat /\ 32 * Fine <= n /\ n < 64 * Fine /\ Fine \in Nat \ {0}
      /\ F!Finite(<<x, n>>)
      /\ <<x, n>> # F!NaN /\ <<x, n>> # F!Inf /\ <<x, n>> # F!Zero
  BY FloatFacts
<1>1. F!Clamp(<<x, n>>, <<8, 56 * Fine>>) = <<x, n>>
  BY <1>0 DEF F!Clamp, F!Less
<1>2. F!f32_to_e4m3(<<x, n>>) = IF j > 7 THEN 7 ELSE j
  <2>1. x + 7 <= 0 /\ ~(x + 7 > 0)
    OBVIOUS
  <2> QED
    BY <1>0, <1>1, <2>1 DEF F!f32_to_e4m3
<1>3. ASSUME x = -7
      PROVE  \E i \in 4 .. 8 : /\ (8 * i - 4) * Fine <= n /\ n < (8 * i + 4) * Fine
                               /\ F!f32_to_e4m3(<<x, n>>) = IF i > 7 THEN 7 ELSE i
  <2>1. d = 8 * Fine
    <3>1. -4 - x = 3
      BY <1>3
    <3> QED
      BY <3>1, SmallPowers
  <2> HIDE DEF d
  <2>2. \E i \in 4 .. 8 : (8 * i - 4) * Fine <= n /\ n < (8 * i + 4) * Fine
    <3>1. CASE n < 36 * Fine
      <4>1. (8 * 4 - 4) * Fine <= n /\ n < (8 * 4 + 4) * Fine
        BY <1>0, <3>1
      <4> QED
        BY <4>1
    <3>2. CASE 36 * Fine <= n /\ n < 44 * Fine
      <4>1. (8 * 5 - 4) * Fine <= n /\ n < (8 * 5 + 4) * Fine
        BY <1>0, <3>2
      <4> QED
        BY <4>1
    <3>3. CASE 44 * Fine <= n /\ n < 52 * Fine
      <4>1. (8 * 6 - 4) * Fine <= n /\ n < (8 * 6 + 4) * Fine
        BY <1>0, <3>3
      <4> QED
        BY <4>1
    <3>4. CASE 52 * Fine <= n /\ n < 60 * Fine
      <4>1. (8 * 7 - 4) * Fine <= n /\ n < (8 * 7 + 4) * Fine
        BY <1>0, <3>4
      <4> QED
        BY <4>1
    <3>5. CASE 60 * Fine <= n
      <4>1. (8 * 8 - 4) * Fine <= n /\ n < (8 * 8 + 4) * Fine
        BY <1>0, <3>5
      <4> QED
        BY <4>1
    <3> QED
      BY <1>0, <3>1, <3>2, <3>3, <3>4, <3>5
  <2>3. PICK i \in 4 .. 8 : (8 * i - 4) * Fine <= n /\ n < (8 * i + 4) * Fine
    BY <2>2
  <2>4. j = i
    <3> DEFINE f == i * Fine
    <3>1. f \in Nat /\ (8 * i - 4) * Fine = 8 * f - 4 * Fine /\ (8 * i + 4) * Fine = 8 * f + 4 * Fine
          /\ i * (8 * Fine) = 8 * f
      BY <1>0
    <3> HIDE DEF f
    <3>2. 2 * (i * d) <= 2 * n + d /\ 2 * n + d < 2 * (i * d) + 2 * d /\ d \in Nat \ {0}
      BY <1>0, <2>1, <2>3, <3>1
    <3> QED
      BY <1>0, <3>2, RoundDivIs
  <2> QED
    BY <1>2, <2>3, <2>4
<1>4. ASSUME x = -8
      PROVE  F!f32_to_e4m3(<<x, n>>) = IF n < 40 * Fine THEN 2 ELSE IF n < 56 * Fine THEN 3 ELSE 4
  <2>1. d = 16 * Fine
    <3>1. -4 - x = 4
      BY <1>4
    <3> QED
      BY <3>1, SmallPowers
  <2> HIDE DEF d
  <2>2. d \in Nat \ {0}
    BY <1>0, <2>1
  <2>3. CASE n < 40 * Fine
    <3>1. 2 * (2 * d) <= 2 * n + d /\ 2 * n + d < 2 * (2 * d) + 2 * d
      BY <1>0, <2>1, <2>3
    <3>2. j = 2
      BY <1>0, <2>2, <3>1, RoundDivIs
    <3> QED
      BY <1>2, <2>3, <3>2
  <2>4. CASE 40 * Fine <= n /\ n < 56 * Fine
    <3>1. 2 * (3 * d) <= 2 * n + d /\ 2 * n + d < 2 * (3 * d) + 2 * d
      BY <1>0, <2>1, <2>4
    <3>2. j = 3
      BY <1>0, <2>2, <3>1, RoundDivIs
    <3> QED
      BY <1>0, <1>2, <2>4, <3>2
  <2>5. CASE 56 * Fine <= n
    <3>1. 2 * (4 * d) <= 2 * n + d /\ 2 * n + d < 2 * (4 * d) + 2 * d
      BY <1>0, <2>1, <2>5
    <3>2. j = 4
      BY <1>0, <2>2, <3>1, RoundDivIs
    <3> QED
      BY <1>0, <1>2, <2>5, <3>2
  <2> QED
    BY <1>0, <2>3, <2>4, <2>5
<1>5. ASSUME x = -9
      PROVE  F!f32_to_e4m3(<<x, n>>) = IF n < 48 * Fine THEN 1 ELSE 2
  <2>1. d = 32 * Fine
    <3>1. -4 - x = 5
      BY <1>5
    <3> QED
      BY <3>1, SmallPowers
  <2> HIDE DEF d
  <2>2. d \in Nat \ {0}
    BY <1>0, <2>1
  <2>3. CASE n < 48 * Fine
    <3>1. 2 * (1 * d) <= 2 * n + d /\ 2 * n + d < 2 * (1 * d) + 2 * d
      BY <1>0, <2>1, <2>3
    <3>2. j = 1
      BY <1>0, <2>2, <3>1, RoundDivIs
    <3> QED
      BY <1>2, <2>3, <3>2
  <2>4. CASE 48 * Fine <= n
    <3>1. 2 * (2 * d) <= 2 * n + d /\ 2 * n + d < 2 * (2 * d) + 2 * d
      BY <1>0, <2>1, <2>4
    <3>2. j = 2
      BY <1>0, <2>2, <3>1, RoundDivIs
    <3> QED
      BY <1>0, <1>2, <2>4, <3>2
  <2> QED
    BY <1>0, <2>3, <2>4
<1>6. ASSUME x = -10
      PROVE  F!f32_to_e4m3(<<x, n>>) = 1
  <2>1. d = 64 * Fine
    <3>1. -4 - x = 6
      BY <1>6
    <3> QED
      BY <3>1, SmallPowers
  <2> HIDE DEF d
  <2>2. d \in Nat \ {0} /\ 2 * (1 * d) <= 2 * n + d /\ 2 * n + d < 2 * (1 * d) + 2 * d
    BY <1>0, <2>1
  <2>3. j = 1
    BY <1>0, <2>2, RoundDivIs
  <2> QED
    BY <1>2, <2>3
<1>7. ASSUME x < -10
      PROVE  F!f32_to_e4m3(<<x, n>>) = 0
  <2>1. -4 - x \in Nat /\ -4 - x >= 7
    BY <1>7
  <2> DEFINE p == F!Exp2(-4 - x)
  <2>2. p \in Nat /\ p >= 128
    BY <2>1, LargePowers
  <2>3. d = p * Fine
    OBVIOUS
  <2> HIDE DEF d, p
  <2>4. d \in Nat /\ d >= 128 * Fine
    BY <1>0, <2>2, <2>3
  <2>5. d \in Nat \ {0} /\ 2 * (0 * d) <= 2 * n + d /\ 2 * n + d < 2 * (0 * d) + 2 * d
    BY <1>0, <2>4
  <2>6. j = 0
    BY <1>0, <2>5, RoundDivIs
  <2> QED
    BY <1>2, <2>6
<1> QED
  BY <1>3, <1>4, <1>5, <1>6, <1>7

(* Numbers below the smallest normal one that are nearer to it than to the *)
(* largest subnormal.                                                      *)
Clamped4(v) == ~F!Less(v, F!Middle(F!E4M3, 7)) /\ F!Less(v, F!Number(8, 3, 7))

(* Where they are. *)
LEMMA Clamped4Is ==
    ASSUME NEW x \in Int, NEW n \in F!Significands
    PROVE  Clamped4(<<x, n>>) <=> x = -7 /\ n >= 60 * Fine
<1>0. n \in Nat /\ 32 * Fine <= n /\ n < 64 * Fine /\ Fine \in Nat \ {0}
  BY FloatFacts
<1>1. F!Middle(F!E4M3, 7) = <<-7, 60 * Fine>>
  BY Middle4
<1>2. F!Number(8, 3, 7) = <<-6, 32 * Fine>>
  <2>1. F!Number(8, 3, 7) = F!Ldexp(8, -9)
    BY SmallPowers DEF F!Number
  <2>2. F!Ldexp(8, -9) = <<-9 + 3, 8 * 4 * Fine>>
    BY LdexpIs
  <2> QED
    BY <1>0, <2>1, <2>2
<1> QED
  BY <1>0, <1>1, <1>2 DEF Clamped4, F!Less

(* The encoder gives the number of middles that v has passed. *)
LEMMA Passed4 ==
    ASSUME NEW x \in Int, NEW n \in F!Significands
    PROVE  LET v == <<x, n>>
               enc == F!f32_to_e4m3(v)
           IN  /\ enc \in 0 .. 126
               /\ Clamped4(v) => enc = 7
               /\ ~Clamped4(v) => \A c \in 0 .. 125 : ~F!Less(v, F!Middle(F!E4M3, c)) <=> c < enc
<1> DEFINE v == <<x, n>>
           enc == F!f32_to_e4m3(v)
           passed(c) == ~F!Less(v, F!Middle(F!E4M3, c))
<1>0. n \in Nat /\ 32 * Fine <= n /\ n < 64 * Fine /\ Fine \in Nat \ {0}
  BY FloatFacts
<1>1. ASSUME NEW y \in Int, NEW w \in Int
      PROVE  ~F!Less(v, <<y, w>>) <=> x > y \/ (x = y /\ n >= w)
  BY <1>0 DEF F!Less
<1>2. ASSUME NEW c \in 8 .. 125
      PROVE  /\ c \div 8 \in 1 .. 15 /\ c % 8 \in 0 .. 7 /\ c = 8 * (c \div 8) + (c % 8)
             /\ c \div 8 = 15 => c % 8 <= 5
             /\ passed(c) <=> \/ x > (c \div 8) - 7
                              \/ x = (c \div 8) - 7 /\ n >= (34 + 4 * (c % 8)) * Fine
  <2> DEFINE E == c \div 8
             M == c % 8
  <2>1. E \in Nat /\ M \in 0 .. 7 /\ c = 8 * E + M
    OBVIOUS
  <2>2. E \in 1 .. 15 /\ (E = 15 => M <= 5)
    <3> HIDE DEF E, M
    <3> QED
      BY <2>1
  <2>3. F!Middle(F!E4M3, c) = <<E - 7, (34 + 4 * M) * Fine>>
    <3>1. c \in 0 .. 125 /\ c >= 8
      OBVIOUS
    <3> QED
      BY <3>1, Middle4
  <2> HIDE DEF E, M
  <2>4. E - 7 \in Int /\ (34 + 4 * M) * Fine \in Int
    BY <1>0, <2>1
  <2>5. passed(c) <=> x > E - 7 \/ (x = E - 7 /\ n >= (34 + 4 * M) * Fine)
    BY <1>1, <2>3, <2>4
  <2> QED
    BY <2>1, <2>2, <2>5 DEF E, M
<1>3. /\ passed(0) <=> x > -10 \/ (x = -10 /\ n >= 32 * Fine)
      /\ passed(1) <=> x > -9 \/ (x = -9 /\ n >= 48 * Fine)
      /\ passed(2) <=> x > -8 \/ (x = -8 /\ n >= 40 * Fine)
      /\ passed(3) <=> x > -8 \/ (x = -8 /\ n >= 56 * Fine)
      /\ passed(4) <=> x > -7 \/ (x = -7 /\ n >= 36 * Fine)
      /\ passed(5) <=> x > -7 \/ (x = -7 /\ n >= 44 * Fine)
      /\ passed(6) <=> x > -7 \/ (x = -7 /\ n >= 52 * Fine)
      /\ passed(7) <=> x > -7 \/ (x = -7 /\ n >= 60 * Fine)
  <2>1. /\ F!Middle(F!E4M3, 0) = <<-10, 32 * Fine>> /\ F!Middle(F!E4M3, 1) = <<-9, 48 * Fine>>
        /\ F!Middle(F!E4M3, 2) = <<-8, 40 * Fine>> /\ F!Middle(F!E4M3, 3) = <<-8, 56 * Fine>>
        /\ F!Middle(F!E4M3, 4) = <<-7, 36 * Fine>> /\ F!Middle(F!E4M3, 5) = <<-7, 44 * Fine>>
        /\ F!Middle(F!E4M3, 6) = <<-7, 52 * Fine>> /\ F!Middle(F!E4M3, 7) = <<-7, 60 * Fine>>
    BY Middle4
  <2> QED
    BY <1>0, <1>1, <2>1
<1>4. Clamped4(v) <=> x = -7 /\ n >= 60 * Fine
  BY Clamped4Is
<1> SUFFICES /\ enc \in 0 .. 126
             /\ Clamped4(v) => enc = 7
             /\ ~Clamped4(v) => \A c \in 0 .. 125 : passed(c) <=> c < enc
  OBVIOUS
<1>5. CASE F!Less(<<8, 56 * Fine>>, v)
  <2>1. enc = 126
    BY <1>5, Overflow4
  <2>2. x > 8 \/ (x = 8 /\ n > 56 * Fine)
    BY <1>0, <1>5 DEF F!Less
  <2>3. ASSUME NEW c \in 8 .. 125
        PROVE  passed(c)
    <3> DEFINE E == c \div 8
               M == c % 8
    <3>1. /\ E \in 1 .. 15 /\ M \in 0 .. 7 /\ (E = 15 => M <= 5)
          /\ passed(c) <=> x > E - 7 \/ (x = E - 7 /\ n >= (34 + 4 * M) * Fine)
      BY <1>2
    <3> HIDE DEF E, M, passed
    <3>2. CASE E < 15
      BY <2>2, <3>1, <3>2
    <3>3. CASE E = 15
      <4>1. 34 + 4 * M <= 54 /\ 34 + 4 * M \in Int
        BY <3>1, <3>3
      <4>2. (34 + 4 * M) * Fine <= 54 * Fine
        BY <1>0, <4>1, Cancel
      <4>3. (34 + 4 * M) * Fine \in Int
        BY <1>0, <4>1
      <4> QED
        BY <1>0, <2>2, <3>1, <3>3, <4>2, <4>3
    <3> QED
      BY <3>1, <3>2, <3>3
  <2>4. \A c \in 0 .. 125 : passed(c)
    <3>1. passed(0) /\ passed(1) /\ passed(2) /\ passed(3) /\ passed(4) /\ passed(5) /\ passed(6) /\ passed(7)
      BY <1>3, <2>2
    <3> HIDE DEF passed
    <3> QED
      BY <2>3, <3>1
  <2> HIDE DEF enc, passed
  <2> QED
    BY <1>4, <2>1, <2>2, <2>4
<1>6. CASE ~F!Less(<<8, 56 * Fine>>, v) /\ x >= -6
  <2>1. x <= 8 /\ (x = 8 => n <= 56 * Fine)
    BY <1>0, <1>6 DEF F!Less
  <2>2. PICK m \in 0 .. 8 : /\ enc = 8 * (x + 7) + m
                            /\ (30 + 4 * m) * Fine <= n /\ n < (34 + 4 * m) * Fine
                            /\ x = 8 => m <= 6
    BY <1>6, <2>1, Normal4
  <2>3. enc \in 8 .. 126
    BY <1>6, <2>1, <2>2
  <2>4. ASSUME NEW c \in 8 .. 125
        PROVE  passed(c) <=> c < enc
    <3> DEFINE E == c \div 8
               M == c % 8
    <3>1. /\ E \in 1 .. 15 /\ M \in 0 .. 7 /\ c = 8 * E + M
          /\ passed(c) <=> x > E - 7 \/ (x = E - 7 /\ n >= (34 + 4 * M) * Fine)
      BY <1>2
    <3> HIDE DEF E, M, passed, enc
    <3>2. CASE x > E - 7
      BY <2>2, <3>1, <3>2
    <3>3. CASE x < E - 7
      BY <2>2, <3>1, <3>3
    <3>4. CASE x = E - 7
      <4>1. c < enc <=> M + 1 <= m
        BY <2>2, <3>1, <3>4
      <4>2. CASE M + 1 <= m
        <5>1. (34 + 4 * M) * Fine <= (30 + 4 * m) * Fine
          BY <1>0, <3>1, <4>2, Cancel
        <5>2. (34 + 4 * M) * Fine \in Int /\ (30 + 4 * m) * Fine \in Int
          BY <1>0, <3>1
        <5> QED
          BY <1>0, <2>2, <3>1, <3>4, <4>1, <4>2, <5>1, <5>2
      <4>3. CASE ~(M + 1 <= m)
        <5>1. (34 + 4 * m) * Fine <= (34 + 4 * M) * Fine
          BY <1>0, <3>1, <4>3, Cancel
        <5>2. (34 + 4 * M) * Fine \in Int /\ (34 + 4 * m) * Fine \in Int
          BY <1>0, <3>1
        <5> QED
          BY <1>0, <2>2, <3>1, <3>4, <4>1, <4>3, <5>1, <5>2
      <4> QED
        BY <4>2, <4>3
    <3> QED
      BY <3>1, <3>2, <3>3, <3>4
  <2>5. passed(0) /\ passed(1) /\ passed(2) /\ passed(3) /\ passed(4) /\ passed(5) /\ passed(6) /\ passed(7)
    BY <1>3, <1>6
  <2>6. ASSUME NEW c \in 0 .. 7
        PROVE  passed(c) /\ c < enc
    <3> HIDE DEF passed, enc
    <3>1. c < enc
      BY <2>3
    <3>2. c \in {0, 1, 2, 3, 4, 5, 6, 7}
      OBVIOUS
    <3>3. passed(c)
      BY <2>5, <3>2
    <3> QED
      BY <3>1, <3>3
  <2>7. \A c \in 0 .. 125 : passed(c) <=> c < enc
    <3> HIDE DEF passed, enc
    <3> QED
      BY <2>4, <2>6
  <2> HIDE DEF enc, passed
  <2> QED
    BY <1>4, <1>6, <2>3, <2>7
<1>7. CASE x <= -7
  <2>1. ASSUME NEW c \in 8 .. 125
        PROVE  ~passed(c)
    <3> DEFINE E == c \div 8
    <3>1. E \in 1 .. 15 /\ (passed(c) => x >= E - 7)
      BY <1>2
    <3> HIDE DEF E, passed
    <3> QED
      BY <1>7, <3>1
  <2>2. ASSUME enc \in 0 .. 7, \A c \in {0, 1, 2, 3, 4, 5, 6, 7} : passed(c) <=> c < enc
        PROVE  enc \in 0 .. 126 /\ \A c \in 0 .. 125 : passed(c) <=> c < enc
    <3> HIDE DEF passed, enc
    <3>1. ASSUME NEW c \in 0 .. 125
          PROVE  passed(c) <=> c < enc
      <4>1. CASE c \in 8 .. 125
        BY <2>1, <2>2, <4>1
      <4>2. CASE c \in {0, 1, 2, 3, 4, 5, 6, 7}
        BY <2>2, <4>2
      <4> QED
        BY <4>1, <4>2
    <3> QED
      BY <2>2, <3>1
  <2>3. CASE x = -7
    <3>1. PICK j \in 4 .. 8 : /\ (8 * j - 4) * Fine <= n /\ n < (8 * j + 4) * Fine
                              /\ enc = IF j > 7 THEN 7 ELSE j
      BY <2>3, Subnormal4
    <3>2. j \in {4, 5, 6, 7, 8}
      OBVIOUS
    <3>3. j = 8 <=> n >= 60 * Fine
      BY <1>0, <3>1, <3>2
    <3>4. ASSUME j # 8
          PROVE  enc = j /\ \A c \in {0, 1, 2, 3, 4, 5, 6, 7} : passed(c) <=> c < enc
      <4>1. enc = j /\ j \in {4, 5, 6, 7}
        BY <3>1, <3>2, <3>4
      <4>2. /\ passed(0) /\ passed(1) /\ passed(2) /\ passed(3) /\ ~passed(7)
            /\ passed(4) <=> n >= 36 * Fine
            /\ passed(5) <=> n >= 44 * Fine
            /\ passed(6) <=> n >= 52 * Fine
        BY <1>3, <2>3, <3>3, <3>4
      <4>3. /\ n >= 36 * Fine <=> j >= 5
            /\ n >= 44 * Fine <=> j >= 6
            /\ n >= 52 * Fine <=> j >= 7
        BY <1>0, <3>1, <4>1
      <4> HIDE DEF passed, enc
      <4> QED
        BY <4>1, <4>2, <4>3
    <3> HIDE DEF enc, passed
    <3>5. CASE j = 8
      BY <1>4, <2>3, <3>1, <3>3, <3>5
    <3>6. CASE j # 8
      <4>1. enc \in 0 .. 7
        BY <3>2, <3>4, <3>6
      <4> QED
        BY <1>4, <2>2, <3>3, <3>4, <3>6, <4>1
    <3> QED
      BY <3>5, <3>6
  <2>4. CASE x = -8
    <3>1. enc = IF n < 40 * Fine THEN 2 ELSE IF n < 56 * Fine THEN 3 ELSE 4
      BY <2>4, Subnormal4
    <3>2. /\ passed(0) /\ passed(1) /\ ~passed(4) /\ ~passed(5) /\ ~passed(6) /\ ~passed(7)
          /\ passed(2) <=> n >= 40 * Fine
          /\ passed(3) <=> n >= 56 * Fine
      BY <1>3, <2>4
    <3> HIDE DEF passed, enc
    <3>3. enc \in 0 .. 7 /\ \A c \in {0, 1, 2, 3, 4, 5, 6, 7} : passed(c) <=> c < enc
      BY <1>0, <3>1, <3>2
    <3> QED
      BY <1>4, <2>2, <2>4, <3>3
  <2>5. CASE x = -9
    <3>1. enc = IF n < 48 * Fine THEN 1 ELSE 2
      BY <2>5, Subnormal4
    <3>2. /\ passed(0) /\ ~passed(2) /\ ~passed(3) /\ ~passed(4) /\ ~passed(5) /\ ~passed(6) /\ ~passed(7)
          /\ passed(1) <=> n >= 48 * Fine
      BY <1>3, <2>5
    <3> HIDE DEF passed, enc
    <3>3. enc \in 0 .. 7 /\ \A c \in {0, 1, 2, 3, 4, 5, 6, 7} : passed(c) <=> c < enc
      BY <1>0, <3>1, <3>2
    <3> QED
      BY <1>4, <2>2, <2>5, <3>3
  <2>6. CASE x = -10
    <3>1. enc = 1
      BY <2>6, Subnormal4
    <3>2. /\ passed(0) /\ ~passed(1) /\ ~passed(2) /\ ~passed(3) /\ ~passed(4) /\ ~passed(5)
          /\ ~passed(6) /\ ~passed(7)
      BY <1>0, <1>3, <2>6
    <3> HIDE DEF passed, enc
    <3>3. enc \in 0 .. 7 /\ \A c \in {0, 1, 2, 3, 4, 5, 6, 7} : passed(c) <=> c < enc
      BY <3>1, <3>2
    <3> QED
      BY <1>4, <2>2, <2>6, <3>3
  <2>7. CASE x < -10
    <3>1. enc = 0
      BY <2>7, Subnormal4
    <3>2. /\ ~passed(0) /\ ~passed(1) /\ ~passed(2) /\ ~passed(3) /\ ~passed(4) /\ ~passed(5)
          /\ ~passed(6) /\ ~passed(7)
      BY <1>3, <2>7
    <3> HIDE DEF passed, enc
    <3>3. enc \in 0 .. 7 /\ \A c \in {0, 1, 2, 3, 4, 5, 6, 7} : passed(c) <=> c < enc
      BY <3>1, <3>2
    <3> QED
      BY <1>4, <2>2, <2>7, <3>3
  <2> QED
    BY <1>7, <2>3, <2>4, <2>5, <2>6, <2>7
<1> QED
  BY <1>5, <1>6, <1>7

(* Floats are encoded to the nearest code, or clamped. *)
LEMMA Nearest4 ==
    ASSUME NEW x \in Int, NEW n \in F!Significands
    PROVE  F!f32_to_e4m3(<<x, n>>) = IF Clamped4(<<x, n>>) THEN 7 ELSE F!Nearest(F!E4M3, <<x, n>>)
<1> DEFINE v == <<x, n>>
           enc == F!f32_to_e4m3(v)
<1>1. /\ enc \in 0 .. 126
      /\ Clamped4(v) => enc = 7
      /\ ~Clamped4(v) => \A c \in 0 .. 125 : ~F!Less(v, F!Middle(F!E4M3, c)) <=> c < enc
  BY Passed4
<1>2. ASSUME ~Clamped4(v)
      PROVE  F!Nearest(F!E4M3, v) = enc
  <2> HIDE DEF v, enc
  <2> DEFINE f == F!E4M3
             S == 0 .. f.max - 1
  <2>1. S = 0 .. 125
    BY DEF F!E4M3
  <2>2. F!Nearest(f, v) = Cardinality({c \in S : ~F!Less(v, F!Middle(f, c))})
    <3>1. \A T : F!Cardinality(T) = Cardinality(T)
      BY DEF F!Cardinality, Cardinality
    <3> QED
      BY <3>1 DEF F!Nearest
  <2> HIDE DEF S
  <2>3. {c \in 0 .. 125 : ~F!Less(v, F!Middle(F!E4M3, c))} = {c \in 0 .. 126 - 1 : c < enc}
    BY <1>1, <1>2
  <2>4. Cardinality({c \in 0 .. 126 - 1 : c < enc}) = enc
    BY <1>1, CodesBelow, ZenonT(20)
  <2> QED
    BY <2>1, <2>2, <2>3, <2>4
<1> QED
  BY <1>1, <1>2

(* The float of a code is encoded to it, but for the NaN. *)
LEMMA RoundTrip4 ==
    ASSUME NEW c \in 0 .. 127
    PROVE  LET v == F!e4m3_to_f32(c)
           IN  \/ v = F!NaN /\ F!f32_to_e4m3(v) = 127
               \/ v = F!Zero /\ F!f32_to_e4m3(v) = c
               \/ F!f32_to_e4m3(v) = c /\ \E x \in Int, n \in F!Significands : v = <<x, n>>
<1> DEFINE v == F!e4m3_to_f32(c)
           E == c \div 8
           M == c % 8
<1>0. Fine \in Nat \ {0} /\ E \in Nat /\ M \in 0 .. 7 /\ c = 8 * E + M
  BY ComputeAssumption
<1>1. CASE c = 127
  <2>1. E = 15 /\ M = 7
    BY <1>1
  <2>2. v = F!NaN
    BY <2>1 DEF F!e4m3_to_f32
  <2>3. F!f32_to_e4m3(F!NaN) = 127
    BY SpecialFloats DEF F!f32_to_e4m3
  <2> QED
    BY <2>2, <2>3
<1>2. CASE c = 0
  <2>1. v = F!Zero
    BY <1>2 DEF F!e4m3_to_f32
  <2>2. F!f32_to_e4m3(F!Zero) = 0
    BY SpecialFloats DEF F!f32_to_e4m3
  <2> QED
    BY <1>2, <2>1, <2>2
<1>3. CASE c \in 1 .. 7
  <2>1. v = F!Ldexp(c, -9)
    <3>1. E = 0 /\ M = c
      BY <1>3
    <3> QED
      BY <1>3, <3>1 DEF F!e4m3_to_f32
  <2>2. /\ c = 1 => v = <<-9, 32 * Fine>>
        /\ c = 2 => v = <<-8, 32 * Fine>>
        /\ c = 3 => v = <<-8, 48 * Fine>>
        /\ c = 4 => v = <<-7, 32 * Fine>>
        /\ c = 5 => v = <<-7, 40 * Fine>>
        /\ c = 6 => v = <<-7, 48 * Fine>>
        /\ c = 7 => v = <<-7, 56 * Fine>>
    <3> HIDE DEF v
    <3>1. c \in Nat
      OBVIOUS
    <3>2. c = 1 => v = <<-9, 32 * Fine>>
      BY <2>1, LdexpIs
    <3>3. c \in 2 .. 3 => v = <<-8, c * 16 * Fine>>
      BY <2>1, <3>1, LdexpIs
    <3>4. c \in 4 .. 7 => v = <<-7, c * 8 * Fine>>
      BY <2>1, <3>1, LdexpIs
    <3> QED
      BY <1>0, <3>2, <3>3, <3>4
  <2> DEFINE x == IF c = 1 THEN -9 ELSE IF c <= 3 THEN -8 ELSE -7
             n == IF c = 1 THEN 32 * Fine ELSE IF c <= 3 THEN c * 16 * Fine ELSE c * 8 * Fine
  <2>3. v = <<x, n>> /\ x \in Int /\ n \in F!Significands
    <3>1. c \in {1, 2, 3, 4, 5, 6, 7}
      BY <1>3
    <3> HIDE DEF v
    <3> QED
      BY <1>0, <2>2, <3>1 DEF F!Significands
  <2>4. F!f32_to_e4m3(<<x, n>>) = c
    <3>1. CASE c = 1
      <4>1. x = -9 /\ n < 48 * Fine
        BY <1>0, <3>1
      <4> HIDE DEF x, n
      <4> QED
        BY <2>3, <3>1, <4>1, Subnormal4
    <3>2. CASE c \in 2 .. 3
      <4>1. x = -8 /\ n = c * 16 * Fine
        BY <3>2
      <4>2. F!f32_to_e4m3(<<x, n>>) = IF n < 40 * Fine THEN 2 ELSE IF n < 56 * Fine THEN 3 ELSE 4
        <5> HIDE DEF x, n
        <5> QED
          BY <2>3, <4>1, Subnormal4
      <4>3. CASE c = 2
        <5>1. n < 40 * Fine
          BY <1>0, <4>1, <4>3
        <5> QED
          BY <4>2, <4>3, <5>1
      <4>4. CASE c = 3
        <5>1. ~(n < 40 * Fine) /\ n < 56 * Fine
          BY <1>0, <4>1, <4>4
        <5> QED
          BY <4>2, <4>4, <5>1
      <4> QED
        BY <3>2, <4>3, <4>4
    <3>3. CASE c \in 4 .. 7
      <4>1. x = -7 /\ n = c * 8 * Fine
        BY <3>3
      <4>2. PICK j \in 4 .. 8 : /\ (8 * j - 4) * Fine <= n /\ n < (8 * j + 4) * Fine
                                /\ F!f32_to_e4m3(<<x, n>>) = IF j > 7 THEN 7 ELSE j
        <5> HIDE DEF x, n
        <5> QED
          BY <2>3, <4>1, Subnormal4
      <4>3. 8 * j - 4 <= c * 8 /\ ~(8 * j + 4 <= c * 8)
        <5>1. n = (c * 8) * Fine
          BY <4>1
        <5>2. (8 * j - 4) * Fine <= (c * 8) * Fine <=> 8 * j - 4 <= c * 8
          BY <1>0, Cancel
        <5>3. (8 * j + 4) * Fine <= (c * 8) * Fine <=> 8 * j + 4 <= c * 8
          BY <1>0, Cancel
        <5>4. (8 * j + 4) * Fine \in Int /\ (c * 8) * Fine \in Int
          BY <1>0
        <5> HIDE DEF n
        <5> QED
          BY <4>2, <5>1, <5>2, <5>3, <5>4
      <4>4. j = c
        BY <4>3
      <4> QED
        BY <3>3, <4>2, <4>4
    <3> QED
      BY <1>3, <3>1, <3>2, <3>3
  <2> HIDE DEF v, x, n
  <2> QED
    BY <2>3, <2>4 DEF v
<1>4. CASE c \in 8 .. 126
  <2>1. E \in 1 .. 15 /\ (E = 15 => M <= 6)
    <3> HIDE DEF E, M
    <3> QED
      BY <1>0, <1>4
  <2>2. v = F!Ldexp(8 + M, E - 10)
    <3>1. ~(E = 0) /\ ~(E = 15 /\ M = 7)
      BY <2>1
    <3> QED
      BY <3>1 DEF F!e4m3_to_f32
  <2> HIDE DEF v, E, M
  <2>3. v = <<E - 7, (32 + 4 * M) * Fine>>
    <3>1. 8 + M \in Nat /\ 8 + M \in 8 .. 15 /\ E - 10 \in Int
      BY <1>0
    <3>2. v = <<E - 10 + 3, (8 + M) * 4 * Fine>>
      BY <2>2, <3>1, LdexpIs
    <3>3. E - 10 + 3 = E - 7 /\ (8 + M) * 4 = 32 + 4 * M
      BY <1>0
    <3> QED
      BY <3>2, <3>3
  <2> DEFINE x == E - 7
             n == (32 + 4 * M) * Fine
  <2>4. /\ x \in Int /\ n \in F!Significands /\ x >= -6 /\ x <= 8
        /\ x = 8 => n <= 56 * Fine
    <3> DEFINE f == M * Fine
    <3>1. n = 32 * Fine + 4 * f /\ f \in Nat
      BY <1>0
    <3>2. M <= 7 => f <= 7 * Fine
      BY <1>0
    <3>3. M <= 6 => f <= 6 * Fine
      BY <1>0
    <3> HIDE DEF f, n
    <3> QED
      BY <1>0, <2>1, <3>1, <3>2, <3>3 DEF F!Significands
  <2> HIDE DEF x, n
  <2>5. PICK m \in 0 .. 8 : /\ F!f32_to_e4m3(<<x, n>>) = 8 * (x + 7) + m
                            /\ (30 + 4 * m) * Fine <= n /\ n < (34 + 4 * m) * Fine
    BY <2>4, Normal4
  <2>6. 30 + 4 * m <= 32 + 4 * M /\ ~(34 + 4 * m <= 32 + 4 * M)
    <3>1. (30 + 4 * m) * Fine <= (32 + 4 * M) * Fine <=> 30 + 4 * m <= 32 + 4 * M
      BY <1>0, Cancel
    <3>2. (34 + 4 * m) * Fine <= (32 + 4 * M) * Fine <=> 34 + 4 * m <= 32 + 4 * M
      BY <1>0, Cancel
    <3>3. (34 + 4 * m) * Fine \in Int /\ (32 + 4 * M) * Fine \in Int
      BY <1>0
    <3> QED
      BY <2>5, <3>1, <3>2, <3>3 DEF n
  <2>7. m = M
    BY <1>0, <2>6
  <2>8. 8 * (x + 7) + m = c
    BY <1>0, <2>7 DEF x
  <2> QED
    BY <2>3, <2>4, <2>5, <2>8 DEF x, n, v
<1> QED
  BY <1>1, <1>2, <1>3, <1>4

-----------------------------------------------------------------------------
(* E5M2 *)

(* The middles between neighbouring codes. *)
LEMMA Middle5 ==
    ASSUME NEW c \in 0 .. 122
    PROVE  /\ c = 0 => F!Middle(F!E5M2, c) = <<-17, 32 * Fine>>
           /\ c = 1 => F!Middle(F!E5M2, c) = <<-16, 48 * Fine>>
           /\ c = 2 => F!Middle(F!E5M2, c) = <<-15, 40 * Fine>>
           /\ c = 3 => F!Middle(F!E5M2, c) = <<-15, 56 * Fine>>
           /\ c >= 4 => F!Middle(F!E5M2, c) = <<(c \div 4) - 15, (36 + 8 * (c % 4)) * Fine>>
<1> DEFINE kk == 2 * c + 1
<1>0. Fine \in Nat
  BY ComputeAssumption
<1>1. F!Middle(F!E5M2, c) = IF kk < 8 THEN F!Ldexp(kk, -17) ELSE F!Ldexp(8 + (kk % 8), (kk \div 8) - 18)
  <2>1. F!E5M2.bits + 1 = 3 /\ F!E5M2.bias = 15
    BY DEF F!E5M2
  <2>2. F!Middle(F!E5M2, c) = F!Number(kk, 3, 15)
    BY <2>1 DEF F!Middle
  <2>3. (kk \div 8) \in Int
    OBVIOUS
  <2>4. 1 - 15 - 3 = -17 /\ (kk \div 8) - 15 - 3 = (kk \div 8) - 18
    BY <2>3
  <2> HIDE DEF kk
  <2> QED
    BY <2>2, <2>4, SmallPowers DEF F!Number
<1>2. ASSUME c >= 4
      PROVE  F!Middle(F!E5M2, c) = <<(c \div 4) - 15, (36 + 8 * (c % 4)) * Fine>>
  <2> DEFINE E == c \div 4
             M == c % 4
  <2>1. E \in Nat /\ M \in 0 .. 3 /\ c = 4 * E + M
    OBVIOUS
  <2>2. kk % 8 = 2 * M + 1 /\ kk \div 8 = E /\ ~(kk < 8)
    BY <1>2
  <2> HIDE DEF E, M, kk
  <2>3. F!Middle(F!E5M2, c) = F!Ldexp(8 + (2 * M + 1), E - 18)
    BY <1>1, <2>2
  <2>4. 8 + (2 * M + 1) \in 8 .. 15 /\ 8 + (2 * M + 1) \in Nat /\ E - 18 \in Int
    BY <2>1
  <2>5. F!Ldexp(8 + (2 * M + 1), E - 18) = <<E - 18 + 3, (8 + (2 * M + 1)) * 4 * Fine>>
    BY <2>4, LdexpIs
  <2>6. E - 18 + 3 = E - 15 /\ (8 + (2 * M + 1)) * 4 = 36 + 8 * M
    BY <2>1
  <2> QED
    BY <2>3, <2>5, <2>6 DEF E, M
<1>3. ASSUME c = 0 PROVE F!Middle(F!E5M2, c) = <<-17, 32 * Fine>>
  <2>1. F!Middle(F!E5M2, c) = F!Ldexp(1, -17)
    BY <1>1, <1>3
  <2> QED
    BY <2>1, LdexpIs
<1>4. ASSUME c = 1 PROVE F!Middle(F!E5M2, c) = <<-16, 48 * Fine>>
  <2>1. F!Middle(F!E5M2, c) = F!Ldexp(3, -17)
    BY <1>1, <1>4
  <2> QED
    BY <1>0, <2>1, LdexpIs
<1>5. ASSUME c = 2 PROVE F!Middle(F!E5M2, c) = <<-15, 40 * Fine>>
  <2>1. F!Middle(F!E5M2, c) = F!Ldexp(5, -17)
    BY <1>1, <1>5
  <2> QED
    BY <1>0, <2>1, LdexpIs
<1>6. ASSUME c = 3 PROVE F!Middle(F!E5M2, c) = <<-15, 56 * Fine>>
  <2>1. F!Middle(F!E5M2, c) = F!Ldexp(7, -17)
    BY <1>1, <1>6
  <2> QED
    BY <1>0, <2>1, LdexpIs
<1> QED
  BY <1>2, <1>3, <1>4, <1>5, <1>6

(* A normal number within the range. *)
LEMMA Normal5 ==
    ASSUME NEW x \in Int, NEW n \in F!Significands, x >= -14, x <= 15, x = 15 => n <= 56 * Fine
    PROVE  \E m \in 0 .. 4 : /\ F!f32_to_e5m2(<<x, n>>) = 4 * (x + 15) + m
                             /\ (28 + 8 * m) * Fine <= n /\ n < (36 + 8 * m) * Fine
                             /\ x = 15 => m <= 3
<1> DEFINE m == F!RoundDiv((n - 32 * Fine) * 4, 32 * Fine)
<1>0. /\ n \in Nat /\ 32 * Fine <= n /\ n < 64 * Fine /\ Fine \in Nat \ {0}
      /\ F!Finite(<<x, n>>)
      /\ <<x, n>> # F!NaN /\ <<x, n>> # F!Inf /\ <<x, n>> # F!Zero
  BY FloatFacts
<1>1. m \in Nat /\ (28 + 8 * m) * Fine <= n /\ n < (36 + 8 * m) * Fine
  <2> DEFINE a == (n - 32 * Fine) * 4
             d == 32 * Fine
  <2>1. a \in Nat /\ d \in Nat \ {0}
    BY <1>0
  <2>2. /\ m \in Nat /\ m * d \in Nat
        /\ 2 * (m * d) <= 2 * a + d /\ 2 * a + d < 2 * (m * d) + 2 * d
    <3> HIDE DEF a, d
    <3>1. m = F!RoundDiv(a, d)
      BY DEF a, d
    <3> HIDE DEF m
    <3> QED
      BY <2>1, <3>1, RoundDivBounds
  <2> HIDE DEF m
  <2> DEFINE mf == m * Fine
  <2>3. m * d = 32 * mf /\ mf \in Nat
    BY <1>0, <2>2
  <2>4. (28 + 8 * m) * Fine = 28 * Fine + 8 * mf /\ (36 + 8 * m) * Fine = 36 * Fine + 8 * mf
    BY <1>0, <2>2
  <2> HIDE DEF mf
  <2> QED
    BY <1>0, <2>2, <2>3, <2>4
<1>2. m <= 4 /\ (x = 15 => m <= 3)
  <2> HIDE DEF m
  <2>1. (28 + 8 * m) * Fine \in Nat
    BY <1>0, <1>1
  <2>2. ASSUME x = 15
        PROVE  m <= 3
    <3>1. (28 + 8 * m) * Fine <= 56 * Fine => 28 + 8 * m <= 56
      BY <1>0, <1>1, Cancel
    <3> QED
      BY <1>0, <1>1, <2>1, <2>2, <3>1
  <2>3. ASSUME m >= 5
        PROVE  FALSE
    <3>1. 64 * Fine <= (28 + 8 * m) * Fine <=> 64 <= 28 + 8 * m
      BY <1>0, <1>1, Cancel
    <3> QED
      BY <1>0, <1>1, <2>1, <2>3, <3>1
  <2> QED
    BY <1>1, <2>2, <2>3
<1>3. F!Clamp(<<x, n>>, <<15, 56 * Fine>>) = <<x, n>>
  BY <1>0 DEF F!Clamp, F!Less
<1>4. F!f32_to_e5m2(<<x, n>>) = 4 * (x + 15) + m
  <2> DEFINE e == IF m >= 4 THEN x + 15 + 1 ELSE x + 15
  <2>1. F!f32_to_e5m2(<<x, n>>) = IF e >= 31 THEN 124 ELSE e * 4 + (m % 4)
    <3>1. ~(x + 15 <= 0) /\ x + 15 > 0
      OBVIOUS
    <3> QED
      BY <1>0, <1>3, <3>1 DEF F!f32_to_e5m2
  <2> HIDE DEF m
  <2>2. m \in 0 .. 4
    BY <1>1, <1>2
  <2>3. CASE m = 4
    BY <1>2, <2>1, <2>3
  <2>4. CASE m # 4
    <3>1. m \in 0 .. 3 /\ m % 4 = m
      BY <2>2, <2>4
    <3>2. e = x + 15
      BY <3>1
    <3> QED
      BY <1>2, <2>1, <3>1, <3>2
  <2> QED
    BY <2>3, <2>4
<1> HIDE DEF m
<1>5. m \in 0 .. 4
  BY <1>1, <1>2
<1> QED
  BY <1>1, <1>2, <1>4, <1>5

(* Above 57344. *)
LEMMA Overflow5 ==
    ASSUME NEW x \in Int, NEW n \in F!Significands, F!Less(<<15, 56 * Fine>>, <<x, n>>)
    PROVE  F!f32_to_e5m2(<<x, n>>) = 123
<1>0. /\ n \in Nat /\ Fine \in Nat \ {0} /\ F!Finite(<<x, n>>)
      /\ <<x, n>> # F!NaN /\ <<x, n>> # F!Inf /\ <<x, n>> # F!Zero
  BY FloatFacts
<1>1. F!Clamp(<<x, n>>, <<15, 56 * Fine>>) = <<15, 56 * Fine>>
  BY DEF F!Clamp
<1>2. F!RoundDiv((56 * Fine - 32 * Fine) * 4, 32 * Fine) = 3
  <2> DEFINE a == (56 * Fine - 32 * Fine) * 4
             d == 32 * Fine
  <2>1. a \in Nat /\ d \in Nat \ {0} /\ 2 * (3 * d) <= 2 * a + d /\ 2 * a + d < 2 * (3 * d) + 2 * d
    BY <1>0
  <2> HIDE DEF a, d
  <2>2. F!RoundDiv(a, d) = 3
    BY <2>1, RoundDivIs
  <2> QED
    BY <2>2 DEF a, d
<1>3. <<15, 56 * Fine>>[1] = 15 /\ <<15, 56 * Fine>>[2] = 56 * Fine
  OBVIOUS
<1> QED
  BY <1>0, <1>1, <1>2, <1>3 DEF F!f32_to_e5m2

(* Below the smallest normal number. *)
LEMMA Subnormal5 ==
    ASSUME NEW x \in Int, NEW n \in F!Significands, x <= -15
    PROVE  /\ x = -15 => F!f32_to_e5m2(<<x, n>>) = IF n < 40 * Fine THEN 2 ELSE 3
           /\ x = -16 => F!f32_to_e5m2(<<x, n>>) = IF n < 48 * Fine THEN 1 ELSE 2
           /\ x = -17 => F!f32_to_e5m2(<<x, n>>) = 1
           /\ x < -17 => F!f32_to_e5m2(<<x, n>>) = 0
<1> DEFINE d == F!Exp2(-11 - x) * Fine
           j == F!RoundDiv(n, d)
<1>0. /\ n \in Nat /\ 32 * Fine <= n /\ n < 64 * Fine /\ Fine \in Nat \ {0}
      /\ F!Finite(<<x, n>>)
      /\ <<x, n>> # F!NaN /\ <<x, n>> # F!Inf /\ <<x, n>> # F!Zero
  BY FloatFacts
<1>1. F!Clamp(<<x, n>>, <<15, 56 * Fine>>) = <<x, n>>
  BY <1>0 DEF F!Clamp, F!Less
<1>2. F!f32_to_e5m2(<<x, n>>) = IF j > 3 THEN 3 ELSE j
  <2>1. x + 15 <= 0 /\ ~(x + 15 > 0)
    OBVIOUS
  <2> QED
    BY <1>0, <1>1, <2>1 DEF F!f32_to_e5m2
<1>4. ASSUME x = -15
      PROVE  F!f32_to_e5m2(<<x, n>>) = IF n < 40 * Fine THEN 2 ELSE 3
  <2>1. d = 16 * Fine
    <3>1. -11 - x = 4
      BY <1>4
    <3> QED
      BY <3>1, SmallPowers
  <2> HIDE DEF d
  <2>2. d \in Nat \ {0}
    BY <1>0, <2>1
  <2>3. CASE n < 40 * Fine
    <3>1. 2 * (2 * d) <= 2 * n + d /\ 2 * n + d < 2 * (2 * d) + 2 * d
      BY <1>0, <2>1, <2>3
    <3>2. j = 2
      BY <1>0, <2>2, <3>1, RoundDivIs
    <3> QED
      BY <1>2, <2>3, <3>2
  <2>4. CASE 40 * Fine <= n /\ n < 56 * Fine
    <3>1. 2 * (3 * d) <= 2 * n + d /\ 2 * n + d < 2 * (3 * d) + 2 * d
      BY <1>0, <2>1, <2>4
    <3>2. j = 3
      BY <1>0, <2>2, <3>1, RoundDivIs
    <3> QED
      BY <1>0, <1>2, <2>4, <3>2
  <2>5. CASE 56 * Fine <= n
    <3>1. 2 * (4 * d) <= 2 * n + d /\ 2 * n + d < 2 * (4 * d) + 2 * d
      BY <1>0, <2>1, <2>5
    <3>2. j = 4
      BY <1>0, <2>2, <3>1, RoundDivIs
    <3> QED
      BY <1>0, <1>2, <2>5, <3>2
  <2> QED
    BY <1>0, <2>3, <2>4, <2>5
<1>5. ASSUME x = -16
      PROVE  F!f32_to_e5m2(<<x, n>>) = IF n < 48 * Fine THEN 1 ELSE 2
  <2>1. d = 32 * Fine
    <3>1. -11 - x = 5
      BY <1>5
    <3> QED
      BY <3>1, SmallPowers
  <2> HIDE DEF d
  <2>2. d \in Nat \ {0}
    BY <1>0, <2>1
  <2>3. CASE n < 48 * Fine
    <3>1. 2 * (1 * d) <= 2 * n + d /\ 2 * n + d < 2 * (1 * d) + 2 * d
      BY <1>0, <2>1, <2>3
    <3>2. j = 1
      BY <1>0, <2>2, <3>1, RoundDivIs
    <3> QED
      BY <1>2, <2>3, <3>2
  <2>4. CASE 48 * Fine <= n
    <3>1. 2 * (2 * d) <= 2 * n + d /\ 2 * n + d < 2 * (2 * d) + 2 * d
      BY <1>0, <2>1, <2>4
    <3>2. j = 2
      BY <1>0, <2>2, <3>1, RoundDivIs
    <3> QED
      BY <1>0, <1>2, <2>4, <3>2
  <2> QED
    BY <1>0, <2>3, <2>4
<1>6. ASSUME x = -17
      PROVE  F!f32_to_e5m2(<<x, n>>) = 1
  <2>1. d = 64 * Fine
    <3>1. -11 - x = 6
      BY <1>6
    <3> QED
      BY <3>1, SmallPowers
  <2> HIDE DEF d
  <2>2. d \in Nat \ {0} /\ 2 * (1 * d) <= 2 * n + d /\ 2 * n + d < 2 * (1 * d) + 2 * d
    BY <1>0, <2>1
  <2>3. j = 1
    BY <1>0, <2>2, RoundDivIs
  <2> QED
    BY <1>2, <2>3
<1>7. ASSUME x < -17
      PROVE  F!f32_to_e5m2(<<x, n>>) = 0
  <2>1. -11 - x \in Nat /\ -11 - x >= 7
    BY <1>7
  <2> DEFINE p == F!Exp2(-11 - x)
  <2>2. p \in Nat /\ p >= 128
    BY <2>1, LargePowers
  <2>3. d = p * Fine
    OBVIOUS
  <2> HIDE DEF d, p
  <2>4. d \in Nat /\ d >= 128 * Fine
    BY <1>0, <2>2, <2>3
  <2>5. d \in Nat \ {0} /\ 2 * (0 * d) <= 2 * n + d /\ 2 * n + d < 2 * (0 * d) + 2 * d
    BY <1>0, <2>4
  <2>6. j = 0
    BY <1>0, <2>5, RoundDivIs
  <2> QED
    BY <1>2, <2>6
<1> QED
  BY <1>4, <1>5, <1>6, <1>7

(* Nearer to the smallest normal number than to the largest subnormal. *)
Clamped5(v) == ~F!Less(v, F!Middle(F!E5M2, 3)) /\ F!Less(v, F!Number(4, 2, 15))

(* Where they are. *)
LEMMA Clamped5Is ==
    ASSUME NEW x \in Int, NEW n \in F!Significands
    PROVE  Clamped5(<<x, n>>) <=> x = -15 /\ n >= 56 * Fine
<1>0. n \in Nat /\ 32 * Fine <= n /\ n < 64 * Fine /\ Fine \in Nat \ {0}
  BY FloatFacts
<1>1. F!Middle(F!E5M2, 3) = <<-15, 56 * Fine>>
  BY Middle5
<1>2. F!Number(4, 2, 15) = <<-14, 32 * Fine>>
  <2>1. F!Number(4, 2, 15) = F!Ldexp(4, -16)
    BY SmallPowers DEF F!Number
  <2>2. F!Ldexp(4, -16) = <<-16 + 2, 4 * 8 * Fine>>
    BY LdexpIs
  <2> QED
    BY <1>0, <2>1, <2>2
<1> QED
  BY <1>0, <1>1, <1>2 DEF Clamped5, F!Less

(* The encoder gives the number of middles that v has passed. *)
LEMMA Passed5 ==
    ASSUME NEW x \in Int, NEW n \in F!Significands
    PROVE  LET v == <<x, n>>
               enc == F!f32_to_e5m2(v)
           IN  /\ enc \in 0 .. 123
               /\ Clamped5(v) => enc = 3
               /\ ~Clamped5(v) => \A c \in 0 .. 122 : ~F!Less(v, F!Middle(F!E5M2, c)) <=> c < enc
<1> DEFINE v == <<x, n>>
           enc == F!f32_to_e5m2(v)
           passed(c) == ~F!Less(v, F!Middle(F!E5M2, c))
<1>0. n \in Nat /\ 32 * Fine <= n /\ n < 64 * Fine /\ Fine \in Nat \ {0}
  BY FloatFacts
<1>1. ASSUME NEW y \in Int, NEW w \in Int
      PROVE  ~F!Less(v, <<y, w>>) <=> x > y \/ (x = y /\ n >= w)
  BY <1>0 DEF F!Less
<1>2. ASSUME NEW c \in 4 .. 122
      PROVE  /\ c \div 4 \in 1 .. 30 /\ c % 4 \in 0 .. 3 /\ c = 4 * (c \div 4) + (c % 4)
             /\ c \div 4 = 30 => c % 4 <= 2
             /\ passed(c) <=> \/ x > (c \div 4) - 15
                              \/ x = (c \div 4) - 15 /\ n >= (36 + 8 * (c % 4)) * Fine
  <2> DEFINE E == c \div 4
             M == c % 4
  <2>1. E \in Nat /\ M \in 0 .. 3 /\ c = 4 * E + M
    OBVIOUS
  <2>2. E \in 1 .. 30 /\ (E = 30 => M <= 2)
    <3> HIDE DEF E, M
    <3> QED
      BY <2>1
  <2>3. F!Middle(F!E5M2, c) = <<E - 15, (36 + 8 * M) * Fine>>
    <3>1. c \in 0 .. 122 /\ c >= 4
      OBVIOUS
    <3> QED
      BY <3>1, Middle5
  <2> HIDE DEF E, M
  <2>4. E - 15 \in Int /\ (36 + 8 * M) * Fine \in Int
    BY <1>0, <2>1
  <2>5. passed(c) <=> x > E - 15 \/ (x = E - 15 /\ n >= (36 + 8 * M) * Fine)
    BY <1>1, <2>3, <2>4
  <2> QED
    BY <2>1, <2>2, <2>5 DEF E, M
<1>3. /\ passed(0) <=> x > -17 \/ (x = -17 /\ n >= 32 * Fine)
      /\ passed(1) <=> x > -16 \/ (x = -16 /\ n >= 48 * Fine)
      /\ passed(2) <=> x > -15 \/ (x = -15 /\ n >= 40 * Fine)
      /\ passed(3) <=> x > -15 \/ (x = -15 /\ n >= 56 * Fine)
  <2>1. /\ F!Middle(F!E5M2, 0) = <<-17, 32 * Fine>> /\ F!Middle(F!E5M2, 1) = <<-16, 48 * Fine>>
        /\ F!Middle(F!E5M2, 2) = <<-15, 40 * Fine>> /\ F!Middle(F!E5M2, 3) = <<-15, 56 * Fine>>
    BY Middle5
  <2> QED
    BY <1>0, <1>1, <2>1
<1>4. Clamped5(v) <=> x = -15 /\ n >= 56 * Fine
  BY Clamped5Is
<1> SUFFICES /\ enc \in 0 .. 123
             /\ Clamped5(v) => enc = 3
             /\ ~Clamped5(v) => \A c \in 0 .. 122 : passed(c) <=> c < enc
  OBVIOUS
<1>5. CASE F!Less(<<15, 56 * Fine>>, v)
  <2>1. enc = 123
    BY <1>5, Overflow5
  <2>2. x > 15 \/ (x = 15 /\ n > 56 * Fine)
    BY <1>0, <1>5 DEF F!Less
  <2>3. ASSUME NEW c \in 4 .. 122
        PROVE  passed(c)
    <3> DEFINE E == c \div 4
               M == c % 4
    <3>1. /\ E \in 1 .. 30 /\ M \in 0 .. 3 /\ (E = 30 => M <= 2)
          /\ passed(c) <=> x > E - 15 \/ (x = E - 15 /\ n >= (36 + 8 * M) * Fine)
      BY <1>2
    <3> HIDE DEF E, M, passed
    <3>2. CASE E < 30
      BY <2>2, <3>1, <3>2
    <3>3. CASE E = 30
      <4>1. 36 + 8 * M <= 52 /\ 36 + 8 * M \in Int
        BY <3>1, <3>3
      <4>2. (36 + 8 * M) * Fine <= 52 * Fine
        BY <1>0, <4>1, Cancel
      <4>3. (36 + 8 * M) * Fine \in Int
        BY <1>0, <4>1
      <4> QED
        BY <1>0, <2>2, <3>1, <3>3, <4>2, <4>3
    <3> QED
      BY <3>1, <3>2, <3>3
  <2>4. \A c \in 0 .. 122 : passed(c)
    <3>1. passed(0) /\ passed(1) /\ passed(2) /\ passed(3)
      BY <1>3, <2>2
    <3> HIDE DEF passed
    <3> QED
      BY <2>3, <3>1
  <2> HIDE DEF enc, passed
  <2> QED
    BY <1>4, <2>1, <2>2, <2>4
<1>6. CASE ~F!Less(<<15, 56 * Fine>>, v) /\ x >= -14
  <2>1. x <= 15 /\ (x = 15 => n <= 56 * Fine)
    BY <1>0, <1>6 DEF F!Less
  <2>2. PICK m \in 0 .. 4 : /\ enc = 4 * (x + 15) + m
                            /\ (28 + 8 * m) * Fine <= n /\ n < (36 + 8 * m) * Fine
                            /\ x = 15 => m <= 3
    BY <1>6, <2>1, Normal5
  <2>3. enc \in 4 .. 123
    BY <1>6, <2>1, <2>2
  <2>4. ASSUME NEW c \in 4 .. 122
        PROVE  passed(c) <=> c < enc
    <3> DEFINE E == c \div 4
               M == c % 4
    <3>1. /\ E \in 1 .. 30 /\ M \in 0 .. 3 /\ c = 4 * E + M
          /\ passed(c) <=> x > E - 15 \/ (x = E - 15 /\ n >= (36 + 8 * M) * Fine)
      BY <1>2
    <3> HIDE DEF E, M, passed, enc
    <3>2. CASE x > E - 15
      BY <2>2, <3>1, <3>2
    <3>3. CASE x < E - 15
      BY <2>2, <3>1, <3>3
    <3>4. CASE x = E - 15
      <4>1. c < enc <=> M + 1 <= m
        BY <2>2, <3>1, <3>4
      <4>2. CASE M + 1 <= m
        <5>1. (36 + 8 * M) * Fine <= (28 + 8 * m) * Fine
          BY <1>0, <3>1, <4>2, Cancel
        <5>2. (36 + 8 * M) * Fine \in Int /\ (28 + 8 * m) * Fine \in Int
          BY <1>0, <3>1
        <5> QED
          BY <1>0, <2>2, <3>1, <3>4, <4>1, <4>2, <5>1, <5>2
      <4>3. CASE ~(M + 1 <= m)
        <5>1. (36 + 8 * m) * Fine <= (36 + 8 * M) * Fine
          BY <1>0, <3>1, <4>3, Cancel
        <5>2. (36 + 8 * M) * Fine \in Int /\ (36 + 8 * m) * Fine \in Int
          BY <1>0, <3>1
        <5> QED
          BY <1>0, <2>2, <3>1, <3>4, <4>1, <4>3, <5>1, <5>2
      <4> QED
        BY <4>2, <4>3
    <3> QED
      BY <3>1, <3>2, <3>3, <3>4
  <2>5. passed(0) /\ passed(1) /\ passed(2) /\ passed(3)
    BY <1>3, <1>6
  <2>6. ASSUME NEW c \in 0 .. 3
        PROVE  passed(c) /\ c < enc
    <3> HIDE DEF passed, enc
    <3>1. c < enc
      BY <2>3
    <3>2. c \in {0, 1, 2, 3}
      OBVIOUS
    <3>3. passed(c)
      BY <2>5, <3>2
    <3> QED
      BY <3>1, <3>3
  <2>7. \A c \in 0 .. 122 : passed(c) <=> c < enc
    <3> HIDE DEF passed, enc
    <3> QED
      BY <2>4, <2>6
  <2> HIDE DEF enc, passed
  <2> QED
    BY <1>4, <1>6, <2>3, <2>7
<1>7. CASE x <= -15
  <2>1. ASSUME NEW c \in 4 .. 122
        PROVE  ~passed(c)
    <3> DEFINE E == c \div 4
    <3>1. E \in 1 .. 30 /\ (passed(c) => x >= E - 15)
      BY <1>2
    <3> HIDE DEF E, passed
    <3> QED
      BY <1>7, <3>1
  <2>2. ASSUME enc \in 0 .. 3, \A c \in {0, 1, 2, 3} : passed(c) <=> c < enc
        PROVE  enc \in 0 .. 123 /\ \A c \in 0 .. 122 : passed(c) <=> c < enc
    <3> HIDE DEF passed, enc
    <3>1. ASSUME NEW c \in 0 .. 122
          PROVE  passed(c) <=> c < enc
      <4>1. CASE c \in 4 .. 122
        BY <2>1, <2>2, <4>1
      <4>2. CASE c \in {0, 1, 2, 3}
        BY <2>2, <4>2
      <4> QED
        BY <4>1, <4>2
    <3> QED
      BY <2>2, <3>1
  <2>4. CASE x = -15
    <3>1. enc = IF n < 40 * Fine THEN 2 ELSE 3
      BY <2>4, Subnormal5
    <3>2. /\ passed(0) /\ passed(1)
          /\ passed(2) <=> n >= 40 * Fine
          /\ passed(3) <=> n >= 56 * Fine
      BY <1>3, <2>4
    <3> HIDE DEF passed, enc
    <3>3. CASE n >= 56 * Fine
      <4>1. enc = 3
        BY <1>0, <3>1, <3>3
      <4> QED
        BY <1>4, <2>4, <3>3, <4>1
    <3>4. CASE n < 56 * Fine
      <4>1. enc \in 0 .. 3 /\ \A c \in {0, 1, 2, 3} : passed(c) <=> c < enc
        BY <1>0, <3>1, <3>2, <3>4
      <4>2. ~Clamped5(v)
        BY <1>0, <1>4, <3>4
      <4> QED
        BY <2>2, <4>1, <4>2
    <3> QED
      BY <1>0, <3>3, <3>4
  <2>5. CASE x = -16
    <3>1. enc = IF n < 48 * Fine THEN 1 ELSE 2
      BY <2>5, Subnormal5
    <3>2. /\ passed(0) /\ ~passed(2) /\ ~passed(3)
          /\ passed(1) <=> n >= 48 * Fine
      BY <1>3, <2>5
    <3> HIDE DEF passed, enc
    <3>3. enc \in 0 .. 3 /\ \A c \in {0, 1, 2, 3} : passed(c) <=> c < enc
      BY <1>0, <3>1, <3>2
    <3> QED
      BY <1>4, <2>2, <2>5, <3>3
  <2>6. CASE x = -17
    <3>1. enc = 1
      BY <2>6, Subnormal5
    <3>2. passed(0) /\ ~passed(1) /\ ~passed(2) /\ ~passed(3)
      BY <1>0, <1>3, <2>6
    <3> HIDE DEF passed, enc
    <3>3. enc \in 0 .. 3 /\ \A c \in {0, 1, 2, 3} : passed(c) <=> c < enc
      BY <3>1, <3>2
    <3> QED
      BY <1>4, <2>2, <2>6, <3>3
  <2>7. CASE x < -17
    <3>1. enc = 0
      BY <2>7, Subnormal5
    <3>2. ~passed(0) /\ ~passed(1) /\ ~passed(2) /\ ~passed(3)
      BY <1>3, <2>7
    <3> HIDE DEF passed, enc
    <3>3. enc \in 0 .. 3 /\ \A c \in {0, 1, 2, 3} : passed(c) <=> c < enc
      BY <3>1, <3>2
    <3> QED
      BY <1>4, <2>2, <2>7, <3>3
  <2> QED
    BY <1>7, <2>4, <2>5, <2>6, <2>7
<1> QED
  BY <1>5, <1>6, <1>7

(* Floats are encoded to the nearest code, or clamped. *)
LEMMA Nearest5 ==
    ASSUME NEW x \in Int, NEW n \in F!Significands
    PROVE  F!f32_to_e5m2(<<x, n>>) = IF Clamped5(<<x, n>>) THEN 3 ELSE F!Nearest(F!E5M2, <<x, n>>)
<1> DEFINE v == <<x, n>>
           enc == F!f32_to_e5m2(v)
<1>1. /\ enc \in 0 .. 123
      /\ Clamped5(v) => enc = 3
      /\ ~Clamped5(v) => \A c \in 0 .. 122 : ~F!Less(v, F!Middle(F!E5M2, c)) <=> c < enc
  BY Passed5
<1>2. ASSUME ~Clamped5(v)
      PROVE  F!Nearest(F!E5M2, v) = enc
  <2> HIDE DEF v, enc
  <2> DEFINE f == F!E5M2
             S == 0 .. f.max - 1
  <2>1. S = 0 .. 122
    BY DEF F!E5M2
  <2>2. F!Nearest(f, v) = Cardinality({c \in S : ~F!Less(v, F!Middle(f, c))})
    <3>1. \A T : F!Cardinality(T) = Cardinality(T)
      BY DEF F!Cardinality, Cardinality
    <3> QED
      BY <3>1 DEF F!Nearest
  <2> HIDE DEF S
  <2>3. {c \in 0 .. 122 : ~F!Less(v, F!Middle(F!E5M2, c))} = {c \in 0 .. 123 - 1 : c < enc}
    BY <1>1, <1>2
  <2>4. Cardinality({c \in 0 .. 123 - 1 : c < enc}) = enc
    BY <1>1, CodesBelow
  <2> QED
    BY <2>1, <2>2, <2>3, <2>4
<1> QED
  BY <1>1, <1>2

(* The float of a code is encoded to it, but for the NaNs. *)
LEMMA RoundTrip5 ==
    ASSUME NEW c \in 0 .. 127
    PROVE  LET v == F!e5m2_to_f32(c)
           IN  \/ v = F!NaN /\ F!f32_to_e5m2(v) = 127
               \/ v \in {F!Zero, F!Inf} /\ F!f32_to_e5m2(v) = c
               \/ F!f32_to_e5m2(v) = c /\ \E x \in Int, n \in F!Significands : v = <<x, n>>
<1> DEFINE v == F!e5m2_to_f32(c)
           E == c \div 4
           M == c % 4
<1>0. Fine \in Nat \ {0} /\ E \in Nat /\ M \in 0 .. 3 /\ c = 4 * E + M
  BY ComputeAssumption
<1>1. CASE c >= 124
  <2>1. E = 31 /\ (M = 0 <=> c = 124)
    <3> HIDE DEF E, M
    <3> QED
      BY <1>0, <1>1
  <2>2. v = IF M = 0 THEN F!Inf ELSE F!NaN
    BY <2>1 DEF F!e5m2_to_f32
  <2>3. F!f32_to_e5m2(F!NaN) = 127 /\ F!f32_to_e5m2(F!Inf) = 124
    BY SpecialFloats DEF F!f32_to_e5m2
  <2> QED
    BY <2>1, <2>2, <2>3
<1>2. CASE c = 0
  <2>1. v = F!Zero
    BY <1>2 DEF F!e5m2_to_f32
  <2>2. F!f32_to_e5m2(F!Zero) = 0
    BY SpecialFloats DEF F!f32_to_e5m2
  <2> QED
    BY <1>2, <2>1, <2>2
<1>3. CASE c \in 1 .. 3
  <2>1. v = F!Ldexp(c, -16)
    <3>1. E = 0 /\ M = c
      BY <1>3
    <3> QED
      BY <1>3, <3>1 DEF F!e5m2_to_f32
  <2> DEFINE x == IF c = 1 THEN -16 ELSE -15
             n == IF c = 1 THEN 32 * Fine ELSE c * 16 * Fine
  <2>2. v = <<x, n>> /\ x \in Int /\ n \in F!Significands
    <3> HIDE DEF v
    <3>1. c \in Nat
      OBVIOUS
    <3>2. CASE c = 1
      <4>1. v = <<-16, 32 * Fine>>
        BY <2>1, <3>2, LdexpIs
      <4> QED
        BY <1>0, <3>2, <4>1 DEF F!Significands
    <3>3. CASE c \in 2 .. 3
      <4>1. v = <<-15, c * 16 * Fine>>
        BY <2>1, <3>1, <3>3, LdexpIs
      <4>2. c * 16 * Fine = 32 * Fine \/ c * 16 * Fine = 48 * Fine
        BY <1>0, <3>3
      <4>3. c * 16 * Fine \in F!Significands
        BY <1>0, <4>2 DEF F!Significands
      <4>4. x = -15 /\ n = c * 16 * Fine
        BY <3>3
      <4> QED
        BY <4>1, <4>3, <4>4
    <3> QED
      BY <1>3, <3>2, <3>3
  <2>3. F!f32_to_e5m2(<<x, n>>) = c
    <3>1. CASE c = 1
      <4>1. x = -16 /\ n < 48 * Fine
        BY <1>0, <3>1
      <4> HIDE DEF x, n
      <4> QED
        BY <2>2, <3>1, <4>1, Subnormal5
    <3>2. CASE c \in 2 .. 3
      <4>1. x = -15 /\ n = c * 16 * Fine
        BY <3>2
      <4>2. F!f32_to_e5m2(<<x, n>>) = IF n < 40 * Fine THEN 2 ELSE 3
        <5> HIDE DEF x, n
        <5> QED
          BY <2>2, <4>1, Subnormal5
      <4>3. CASE c = 2
        <5>1. n < 40 * Fine
          BY <1>0, <4>1, <4>3
        <5> QED
          BY <4>2, <4>3, <5>1
      <4>4. CASE c = 3
        <5>1. ~(n < 40 * Fine)
          BY <1>0, <4>1, <4>4
        <5> QED
          BY <4>2, <4>4, <5>1
      <4> QED
        BY <3>2, <4>3, <4>4
    <3> QED
      BY <1>3, <3>1, <3>2
  <2> HIDE DEF v, x, n
  <2> QED
    BY <2>2, <2>3 DEF v
<1>4. CASE c \in 4 .. 123
  <2>1. E \in 1 .. 30
    <3> HIDE DEF E, M
    <3> QED
      BY <1>0, <1>4
  <2>2. v = F!Ldexp(4 + M, E - 17)
    <3>1. ~(E = 0) /\ ~(E = 31)
      BY <2>1
    <3> QED
      BY <3>1 DEF F!e5m2_to_f32
  <2> HIDE DEF v, E, M
  <2>3. v = <<E - 15, (32 + 8 * M) * Fine>>
    <3>1. 4 + M \in Nat /\ 4 + M \in 4 .. 7 /\ E - 17 \in Int
      BY <1>0
    <3>2. v = <<E - 17 + 2, (4 + M) * 8 * Fine>>
      BY <2>2, <3>1, LdexpIs
    <3>3. E - 17 + 2 = E - 15 /\ (4 + M) * 8 = 32 + 8 * M
      BY <1>0
    <3> QED
      BY <3>2, <3>3
  <2> DEFINE x == E - 15
             n == (32 + 8 * M) * Fine
  <2>4. /\ x \in Int /\ n \in F!Significands /\ x >= -14 /\ x <= 15
        /\ x = 15 => n <= 56 * Fine
    <3> DEFINE f == M * Fine
    <3>1. n = 32 * Fine + 8 * f /\ f \in Nat
      BY <1>0
    <3>2. f <= 3 * Fine
      BY <1>0
    <3> HIDE DEF f, n
    <3> QED
      BY <1>0, <2>1, <3>1, <3>2 DEF F!Significands
  <2> HIDE DEF x, n
  <2>5. PICK m \in 0 .. 4 : /\ F!f32_to_e5m2(<<x, n>>) = 4 * (x + 15) + m
                            /\ (28 + 8 * m) * Fine <= n /\ n < (36 + 8 * m) * Fine
    BY <2>4, Normal5
  <2>6. 28 + 8 * m <= 32 + 8 * M /\ ~(36 + 8 * m <= 32 + 8 * M)
    <3>1. (28 + 8 * m) * Fine <= (32 + 8 * M) * Fine <=> 28 + 8 * m <= 32 + 8 * M
      BY <1>0, Cancel
    <3>2. (36 + 8 * m) * Fine <= (32 + 8 * M) * Fine <=> 36 + 8 * m <= 32 + 8 * M
      BY <1>0, Cancel
    <3>3. (36 + 8 * m) * Fine \in Int /\ (32 + 8 * M) * Fine \in Int
      BY <1>0
    <3> QED
      BY <2>5, <3>1, <3>2, <3>3 DEF n
  <2>7. m = M
    BY <1>0, <2>6
  <2>8. 4 * (x + 15) + m = c
    BY <1>0, <2>7 DEF x
  <2> QED
    BY <2>3, <2>4, <2>5, <2>8 DEF x, n, v
<1> QED
  BY <1>1, <1>2, <1>3, <1>4

-----------------------------------------------------------------------------
(* Conversions *)

(* What is converted: nothing yet, a code, or a finite float. *)
FpInv ==
    \/ fp = NoInput
    \/ \E format \in {"e4m3", "e5m2"} :
         \/ \E c \in 0 .. 127 :
              fp = [format |-> format, code |-> c, value |-> Decoded(format, c)]
         \/ \E x \in Int, n \in F!Significands :
              fp = [format |-> format, code |-> Encoded(format, <<x, n>>), value |-> <<x, n>>]

(* Each of them is converted to the nearest code, or the clamped one. *)
LEMMA FpInvNearest == FpInv => Fp8Nearest
<1> SUFFICES ASSUME FpInv, fp.format # "none"
             PROVE  LET f == IF fp.format = "e4m3" THEN F!E4M3 ELSE F!E5M2
                        top == F!Exp2(f.bits) - 1
                        v == fp.value
                        encoded == Encoded(fp.format, v)
                        clamped == ~F!Less(v, F!Middle(f, top)) /\ F!Less(v, F!Number(top + 1, f.bits, f.bias))
                    IN  /\ encoded = fp.code \/ (v = F!NaN /\ encoded = 127)
                        /\ F!Finite(v) => fp.code = IF clamped THEN top ELSE F!Nearest(f, v)
  BY DEF Fp8Nearest
<1>1. PICK format \in {"e4m3", "e5m2"} :
        \/ \E c \in 0 .. 127 :
             fp = [format |-> format, code |-> c, value |-> Decoded(format, c)]
        \/ \E x \in Int, n \in F!Significands :
             fp = [format |-> format, code |-> Encoded(format, <<x, n>>), value |-> <<x, n>>]
  <2>1. NoInput.format = "none"
    BY DEF NoInput
  <2>2. fp # NoInput
    BY <2>1
  <2> QED
    BY <2>2 DEF FpInv
<1>2. fp.format = format
  <2>1. ASSUME NEW c, fp = [format |-> format, code |-> c, value |-> Decoded(format, c)]
        PROVE  fp.format = format
    BY <2>1
  <2>2. ASSUME NEW x, NEW n,
               fp = [format |-> format, code |-> Encoded(format, <<x, n>>), value |-> <<x, n>>]
        PROVE  fp.format = format
    BY <2>2
  <2> QED
    BY <1>1, <2>1, <2>2
<1> DEFINE v == fp.value
<1>3. /\ Encoded(format, v) = fp.code \/ (v = F!NaN /\ Encoded(format, v) = 127)
      /\ F!Finite(v) => Encoded(format, v) = fp.code /\ \E x \in Int, n \in F!Significands : v = <<x, n>>
  <2>1. ASSUME NEW c \in 0 .. 127, fp = [format |-> format, code |-> c, value |-> Decoded(format, c)]
        PROVE  <1>3!:
    <3>1. v = Decoded(format, c) /\ fp.code = c
      BY <2>1
    <3> HIDE DEF v
    <3>2. CASE format = "e4m3"
      <4>1. v = F!e4m3_to_f32(c) /\ Encoded(format, v) = F!f32_to_e4m3(v)
        BY <3>1, <3>2 DEF Decoded, Encoded
      <4>2. \/ v = F!NaN /\ F!f32_to_e4m3(v) = 127
            \/ v = F!Zero /\ F!f32_to_e4m3(v) = c
            \/ F!f32_to_e4m3(v) = c /\ \E x \in Int, n \in F!Significands : v = <<x, n>>
        <5> DEFINE w == F!e4m3_to_f32(c)
        <5>1. \/ w = F!NaN /\ F!f32_to_e4m3(w) = 127
              \/ w = F!Zero /\ F!f32_to_e4m3(w) = c
              \/ F!f32_to_e4m3(w) = c /\ \E x \in Int, n \in F!Significands : w = <<x, n>>
          BY RoundTrip4
        <5> HIDE DEF w
        <5> QED
          BY <4>1, <5>1 DEF w
      <4> QED
        BY <3>1, <4>1, <4>2, SpecialFloats
    <3>3. CASE format = "e5m2"
      <4>1. v = F!e5m2_to_f32(c) /\ Encoded(format, v) = F!f32_to_e5m2(v)
        BY <3>1, <3>3 DEF Decoded, Encoded
      <4>2. \/ v = F!NaN /\ F!f32_to_e5m2(v) = 127
            \/ v \in {F!Zero, F!Inf} /\ F!f32_to_e5m2(v) = c
            \/ F!f32_to_e5m2(v) = c /\ \E x \in Int, n \in F!Significands : v = <<x, n>>
        <5> DEFINE w == F!e5m2_to_f32(c)
        <5>1. \/ w = F!NaN /\ F!f32_to_e5m2(w) = 127
              \/ w \in {F!Zero, F!Inf} /\ F!f32_to_e5m2(w) = c
              \/ F!f32_to_e5m2(w) = c /\ \E x \in Int, n \in F!Significands : w = <<x, n>>
          BY RoundTrip5
        <5> HIDE DEF w
        <5> QED
          BY <4>1, <5>1 DEF w
      <4> QED
        BY <3>1, <4>1, <4>2, SpecialFloats
    <3> QED
      BY <3>2, <3>3
  <2>2. ASSUME NEW x \in Int, NEW n \in F!Significands,
               fp = [format |-> format, code |-> Encoded(format, <<x, n>>), value |-> <<x, n>>]
        PROVE  <1>3!:
    <3>1. v = <<x, n>> /\ fp.code = Encoded(format, <<x, n>>)
      BY <2>2
    <3> HIDE DEF v
    <3> QED
      BY <3>1
  <2> QED
    BY <1>1, <2>1, <2>2
<1> HIDE DEF v
<1>4. CASE format = "e4m3"
  <2> DEFINE f == F!E4M3
  <2>1. /\ F!Exp2(f.bits) - 1 = 7 /\ F!Exp2(f.bits) - 1 + 1 = 8 /\ f.bits = 3 /\ f.bias = 7
        /\ (IF fp.format = "e4m3" THEN F!E4M3 ELSE F!E5M2) = f
    BY <1>2, <1>4, SmallPowers DEF F!E4M3
  <2>2. Encoded(format, v) = F!f32_to_e4m3(v)
    BY <1>4 DEF Encoded
  <2> HIDE DEF f
  <2>3. ASSUME F!Finite(v)
        PROVE  fp.code = IF Clamped4(v) THEN 7 ELSE F!Nearest(f, v)
    <3>1. PICK x \in Int, n \in F!Significands : v = <<x, n>>
      BY <1>3, <2>3
    <3> QED
      BY <1>3, <2>2, <2>3, <3>1, Nearest4 DEF f
  <2> QED
    BY <1>2, <1>3, <2>1, <2>3 DEF Clamped4, v, f
<1>5. CASE format = "e5m2"
  <2> DEFINE f == F!E5M2
  <2>1. /\ F!Exp2(f.bits) - 1 = 3 /\ F!Exp2(f.bits) - 1 + 1 = 4 /\ f.bits = 2 /\ f.bias = 15
        /\ (IF fp.format = "e4m3" THEN F!E4M3 ELSE F!E5M2) = f
    BY <1>2, <1>5, SmallPowers DEF F!E5M2
  <2>2. Encoded(format, v) = F!f32_to_e5m2(v)
    BY <1>5 DEF Encoded
  <2> HIDE DEF f
  <2>3. ASSUME F!Finite(v)
        PROVE  fp.code = IF Clamped5(v) THEN 3 ELSE F!Nearest(f, v)
    <3>1. PICK x \in Int, n \in F!Significands : v = <<x, n>>
      BY <1>3, <2>3
    <3> QED
      BY <1>3, <2>2, <2>3, <3>1, Nearest5 DEF f
  <2> QED
    BY <1>2, <1>3, <2>1, <2>3 DEF Clamped5, v, f
<1> QED
  BY <1>4, <1>5

(* Only Convert changes what is converted. *)
LEMMA FpStep ==
    ASSUME FpInv, [Next]_vars
    PROVE  FpInv'
<1>1. CASE fp' = fp
  BY <1>1 DEF FpInv
<1>2. CASE Fp
  <2>1. PICK format \in {"e4m3", "e5m2"} :
          \/ \E c \in 0 .. 127 :
               fp' = [format |-> format, code |-> c, value |-> Decoded(format, c)]
          \/ \E v \in (-MaxExp .. MaxExp) \X F!Significands :
               fp' = [format |-> format, code |-> Encoded(format, v), value |-> v]
    BY <1>2 DEF Fp, Convert
  <2>2. CASE \E c \in 0 .. 127 :
               fp' = [format |-> format, code |-> c, value |-> Decoded(format, c)]
    BY <2>2 DEF FpInv
  <2>3. ASSUME NEW v \in (-MaxExp .. MaxExp) \X F!Significands,
               fp' = [format |-> format, code |-> Encoded(format, v), value |-> v]
        PROVE  FpInv'
    <3>1. PICK x \in -MaxExp .. MaxExp, n \in F!Significands : v = <<x, n>>
      OBVIOUS
    <3>2. x \in Int
      BY ComputeAssumption
    <3>3. fp' = [format |-> format, code |-> Encoded(format, <<x, n>>), value |-> <<x, n>>]
      BY <2>3, <3>1
    <3> QED
      BY <3>2, <3>3 DEF FpInv
  <2> QED
    BY <2>1, <2>2, <2>3
<1>3. CASE Start \/ Run \/ Decode \/ Tune
  <2>1. fp' = fp
    BY <1>3 DEF Start, Run, Decode, Tune
  <2> QED
    BY <1>1, <2>1
<1>4. CASE UNCHANGED vars
  <2>1. fp' = fp
    BY <1>4 DEF vars
  <2> QED
    BY <1>1, <2>1
<1> QED
  BY <1>2, <1>3, <1>4 DEF Next

(* For every exponent and every width of the significand, encoding takes   *)
(* a float to the nearest code (ties away from zero, the largest above the *)
(* range, and the clamped codes below the smallest normal number), and     *)
(* takes the float of a code back to it.  (f32_to_e4m3, f32_to_e5m2 and    *)
(* their inverses in fp8.hpp.)                                             *)
THEOREM EncodingAlwaysNearest == Spec => []Fp8Nearest
<1>1. Init => FpInv
  BY DEF Init, FpInv
<1>2. FpInv /\ [Next]_vars => FpInv'
  BY FpStep
<1> QED
  BY <1>1, <1>2, FpInvNearest, PTL DEF Spec

=============================================================================
