------------------------------ MODULE FlashAttn ------------------------------
(***************************************************************************)
(* FlashAttention-2 of kernels/flash_attn.cu: the kernel, the function     *)
(* that picks its template and the autotuner.                              *)
(*                                                                         *)
(* A block handles one tile of Br query rows of one head; each row has a   *)
(* warp, whose Lanes lanes run in step.  All warps load the tiles of K and *)
(* V together and meet at barriers.  What a warp does between two barriers *)
(* is one action.                                                          *)
(*                                                                         *)
(* Data is where it comes from: an element of K or V is its address, a     *)
(* score the query row and the key it is computed from, the output of a    *)
(* row the sequence of the (score, value) pairs that have a weight in it.  *)
(* Sizes are in units: Br 16 and 32 are 1 and 2, Bc 32 and 64 are 2 and 4, *)
(* head_dim 64 and 128 are 1 and 2; a warp has Lanes lanes.                *)
(***************************************************************************)
EXTENDS Integers, Sequences, FiniteSets, SequencesExt

CONSTANTS
    Lanes,     \* lanes of a warp, 32
    MaxSmem,   \* prop.sharedMemPerBlock, in units of a float
    SmemCap    \* the 80 KB of the autotuner's rough check

ASSUME FlashAssumption == {Lanes, MaxSmem, SmemCap} \subseteq Nat \ {0}

VARIABLES
    fjob,     \* the launch
    fblock,   \* linear blockIdx; the number of blocks at the end
    fpc,      \* per warp: the next phase
    tile,     \* per warp: kv_tile
    sQ, sK, sV, sS,   \* shared memory
    o,        \* per warp: m_i, l_i and o_i
    O         \* the output rows (and their lse) in global memory

flashVars == <<fjob, fblock, fpc, tile, sQ, sK, sV, sS, o, O>>

Empty   == <<>>     \* a padded element of K or V, a masked score
Garbage == <<-1>>   \* memory nobody has written
NoRow   == << <<Empty, Empty>> >>   \* an output row nobody has written

NoLaunch == [Br |-> 1, Bc |-> 1, D |-> 1, B |-> 0, Hq |-> 1, Hkv |-> 1,
             Sq |-> 0, Skv |-> 0, causal |-> FALSE]

-----------------------------------------------------------------------------
(* Dispatch *)

SHMEM(Br, Bc, D) == Br * D + 2 * Bc * D + Br * Bc

(* Mutant: a template whose key tile is smaller than its query tile. *)
WithSmallBc == {<<2, 4, 2>>, <<2, 2, 2>>, <<2, 4, 1>>, <<2, 2, 1>>, <<1, 4, 2>>, <<1, 2, 2>>,
                <<2, 1, 2>>}

FlashConfigs == {<<2, 4, 2>>, <<2, 2, 2>>, <<2, 4, 1>>, <<2, 2, 1>>, <<1, 4, 2>>, <<1, 2, 2>>}

(* The template for a requested (Br, Bc, head_dim): Br is at most 32, a    *)
(* tile Bc = 64 that does not fit is halved.                               *)
Template(Br0, Bc0, D) ==
    LET Br == IF Br0 > 2 THEN 2 ELSE Br0
    IN  <<Br, IF Bc0 = 4 /\ SHMEM(Br, Bc0, D) > MaxSmem THEN 2 ELSE Bc0, D>>

(* p: the problem (B, Hq, Hkv, Sq, Skv, causal); cfg: the tile asked for.  *)
dispatch_flash_attn(p, cfg) ==
    LET t == Template(cfg[1], cfg[2], cfg[3])
    IN  IF t \in FlashConfigs
        THEN [Br |-> t[1], Bc |-> t[2], D |-> t[3], B |-> p.B, Hq |-> p.Hq, Hkv |-> p.Hkv,
              Sq |-> p.Sq, Skv |-> p.Skv, causal |-> p.causal]
        ELSE NoLaunch

(* Mutant: the result of the warm-up is not looked at. *)
NeverSkips(t, D, works) == SHMEM(t[1], t[2], D) <= SmemCap

(* A candidate is skipped if its tiles are too large or a warm-up launch   *)
(* throws: the dispatch itself, or a launch error (works[t] is FALSE).     *)
WarmsUp(t, D, works) ==
    /\ SHMEM(t[1], t[2], D) <= SmemCap
    /\ Template(t[1], t[2], D) \in FlashConfigs
    /\ works[t]

TileOptions == << <<2, 4>>, <<2, 2>>, <<1, 4>> >>

(* What autotune_flash_attn returns when ms[t] is the mean time of t. *)
autotune_flash_attn(D, works, ms) ==
    LET best[i \in 0 .. 3] ==
          IF i = 0 THEN [cfg |-> <<2, 4, D>>, ms |-> 100]
          ELSE LET t == TileOptions[i]
               IN  IF WarmsUp(t, D, works) /\ ms[t] < best[i - 1].ms
                   THEN [cfg |-> <<t[1], t[2], D>>, ms |-> ms[t]]
                   ELSE best[i - 1]
    IN  best[3].cfg

-----------------------------------------------------------------------------
(* Geometry *)

Tr == (fjob.Sq + fjob.Br - 1) \div fjob.Br
Tc == (fjob.Skv + fjob.Bc - 1) \div fjob.Bc
FlashBlocks == Tr * fjob.B * fjob.Hq
Warps == 0 .. fjob.Br - 1

q_row(w) == (fblock % Tr) * fjob.Br + w
bh == fblock \div Tr

(* GQA: the head of K and V for a query head. *)
hkv(hq) == hq \div (fjob.Hq \div fjob.Hkv)

(* Row s of head h of batch entry b, in an array of H heads and S rows. *)
RowOf(b, h, s, H, S) == b * H * S + h * S + s
KVRow(s) == RowOf(bh \div fjob.Hq, hkv(bh % fjob.Hq), s, fjob.Hkv, fjob.Skv)

(* The warp whose lanes load element i of a tile. *)
Loader(i) == (i % (fjob.Br * Lanes)) \div Lanes

(* Element i of the tile of K (or V) that starts at row s. *)
KVElem(i, s) ==
    LET r == s + i \div fjob.D
    IN  IF r < fjob.Skv THEN <<KVRow(r) * fjob.D + (i % fjob.D)>> ELSE Empty

Vector(m, j) == [d \in 1 .. fjob.D |-> m[j * fjob.D + d - 1]]

(* Mutant: the break is one key early. *)
BreaksEarly(w, t) ==
    IF t < Tc /\ ~(fjob.causal /\ t * fjob.Bc >= q_row(w)) THEN "loadkv" ELSE "store"

(* The head of the loop over the tiles, with its causal break. *)
KVLoop(w, t) ==
    IF t < Tc /\ ~(fjob.causal /\ t * fjob.Bc > q_row(w)) THEN "loadkv" ELSE "store"

-----------------------------------------------------------------------------
(* Blocks *)

(* The first test of the kernel lets the warps without a row return. *)
FlashStart(j, b) ==
    LET tr == (j.Sq + j.Br - 1) \div j.Br
        warps == 0 .. j.Br - 1
        elems == 0 .. j.Bc * j.D - 1
    IN  [pc |-> [w \in warps |-> IF b >= tr * j.B * j.Hq \/ (b % tr) * j.Br + w >= j.Sq
                                 THEN "done" ELSE "loadq"],
         tile |-> [w \in warps |-> 0], Q |-> [w \in warps |-> Garbage],
         KV |-> [i \in elems |-> Garbage],
         S |-> [w \in warps |-> <<>>], o |-> [w \in warps |-> <<>>]]

EnterFlashBlock(j, b) ==
    LET s == FlashStart(j, b)
    IN  /\ fpc' = s.pc /\ tile' = s.tile /\ sQ' = s.Q /\ sK' = s.KV /\ sV' = s.KV
        /\ sS' = s.S /\ o' = s.o

StartFlash(j) ==
    /\ fjob' = j
    /\ fblock' = 0
    /\ O' = [e \in 0 .. j.B * j.Hq * j.Sq - 1 |-> NoRow]
    /\ EnterFlashBlock(j, 0)

NextFlashBlock ==
    /\ \A w \in Warps : fpc[w] = "done"
    /\ fblock' = fblock + 1
    /\ EnterFlashBlock(fjob, fblock + 1)
    /\ UNCHANGED <<fjob, O>>

FlashInit ==
    /\ fjob = NoLaunch
    /\ fblock = 0
    /\ O = <<>>
    /\ LET s == FlashStart(NoLaunch, 0)
       IN  /\ fpc = s.pc /\ tile = s.tile /\ sQ = s.Q /\ sK = s.KV /\ sV = s.KV
           /\ sS = s.S /\ o = s.o

-----------------------------------------------------------------------------
(* Warps *)

FGoto(w, l) == fpc' = [fpc EXCEPT ![w] = l]

LoadQ(w) ==
    /\ fpc[w] = "loadq"
    /\ sQ' = [sQ EXCEPT ![w] = <<RowOf(bh \div fjob.Hq, bh % fjob.Hq, q_row(w), fjob.Hq, fjob.Sq)>>]
    /\ FGoto(w, "syncq")
    /\ UNCHANGED <<fjob, fblock, tile, sK, sV, sS, o, O>>

LoadKV(w) ==
    /\ fpc[w] = "loadkv"
    /\ LET Fill(m) == [i \in DOMAIN m |->
                         IF Loader(i) = w THEN KVElem(i, tile[w] * fjob.Bc) ELSE m[i]]
       IN  sK' = Fill(sK) /\ sV' = Fill(sV)
    /\ FGoto(w, "sync1")
    /\ UNCHANGED <<fjob, fblock, tile, sQ, sS, o, O>>

Score(w) ==
    /\ fpc[w] = "score"
    /\ sS' = [sS EXCEPT ![w] =
                [j \in 1 .. fjob.Bc |->
                    LET kv_abs == tile[w] * fjob.Bc + j - 1
                    IN  IF kv_abs >= fjob.Skv \/ (fjob.causal /\ kv_abs > q_row(w))
                        THEN Empty ELSE <<sQ[w], Vector(sK, j - 1)>>]]
    /\ FGoto(w, "sync2")
    /\ UNCHANGED <<fjob, fblock, tile, sQ, sK, sV, o, O>>

(* Nothing but masked scores in a row, m_new is still -1e30. *)
AllMasked(a, S) == a = <<>> /\ \A j \in DOMAIN S : S[j] = Empty

(* The loop that adds the values of a tile to the output a of a row, each  *)
(* with the weight of its score in S: a masked score, -1e30, has the       *)
(* weight 0 unless m_new is -1e30 too, when every weight is exp(0).        *)
Weighted(a, S) ==
    LET sum[j \in 0 .. fjob.Bc] ==
          IF j = 0 THEN a
          ELSE IF AllMasked(a, S) \/ S[j] # Empty
          THEN Append(sum[j - 1], <<S[j], Vector(sV, j - 1)>>)
          ELSE sum[j - 1]
    IN  sum

(* Online softmax. *)
Softmax(w) ==
    /\ fpc[w] = "softmax"
    /\ o' = [o EXCEPT ![w] = Weighted(@, sS[w])[fjob.Bc]]
    /\ FGoto(w, "sync3")
    /\ UNCHANGED <<fjob, fblock, tile, sQ, sK, sV, sS, O>>

(* Mutant: the barrier waits for the warps that have returned, too. *)
SyncWithReturned ==
    LET waiting == {w \in Warps : fpc[w] \in {"syncq", "sync1", "sync2", "sync3"}}
    IN  /\ waiting = Warps
        /\ tile' = [w \in Warps |-> IF fpc[w] = "sync3" THEN tile[w] + 1 ELSE tile[w]]
        /\ fpc' = [w \in Warps |-> CASE fpc[w] \in {"syncq", "sync3"} -> KVLoop(w, tile'[w])
                                     [] fpc[w] = "sync1" -> "score"
                                     [] fpc[w] = "sync2" -> "softmax"]
        /\ UNCHANGED <<fjob, fblock, sQ, sK, sV, sS, o, O>>

(* __syncthreads: released when all warps that have not returned wait. *)
FlashSync ==
    LET waiting == {w \in Warps : fpc[w] \in {"syncq", "sync1", "sync2", "sync3"}}
    IN  /\ waiting # {}
        /\ \A w \in Warps : w \in waiting \/ fpc[w] = "done"
        /\ tile' = [w \in Warps |-> IF fpc[w] = "sync3" THEN tile[w] + 1 ELSE tile[w]]
        /\ fpc' = [w \in Warps |-> CASE fpc[w] \in {"syncq", "sync3"} -> KVLoop(w, tile'[w])
                                     [] fpc[w] = "sync1" -> "score"
                                     [] fpc[w] = "sync2" -> "softmax"
                                     [] OTHER -> "done"]
        /\ UNCHANGED <<fjob, fblock, sQ, sK, sV, sS, o, O>>

StoreO(w) ==
    /\ fpc[w] = "store"
    /\ O' = [O EXCEPT ![RowOf(bh \div fjob.Hq, bh % fjob.Hq, q_row(w), fjob.Hq, fjob.Sq)] = o[w]]
    /\ FGoto(w, "done")
    /\ UNCHANGED <<fjob, fblock, tile, sQ, sK, sV, sS, o>>

FlashWarp(w) == LoadQ(w) \/ LoadKV(w) \/ Score(w) \/ Softmax(w) \/ StoreO(w)

FlashNext ==
    /\ fblock < FlashBlocks
    /\ (\E w \in Warps : FlashWarp(w)) \/ FlashSync \/ NextFlashBlock

FlashDone == fblock = FlashBlocks

(* The launches the kernel is written for, in any size: the key tile is    *)
(* made of whole query tiles, and num_kv_heads divides num_q_heads.        *)
FlashJobs ==
    LET Pos == Nat \ {0}
    IN  {j \in [Br : Pos, Bc : Pos, D : Pos, B : Pos, Hq : Pos, Hkv : Pos,
                Sq : Pos, Skv : Nat, causal : BOOLEAN] :
           j.Bc % j.Br = 0 /\ j.Hq % j.Hkv = 0}

(* One launch after the other. *)
FlashCall ==
    /\ fjob = NoLaunch \/ FlashDone
    /\ \E j \in FlashJobs : StartFlash(j)

FlashSpec == FlashInit /\ [][FlashNext \/ FlashCall]_flashVars

-----------------------------------------------------------------------------
(* Properties *)

(* Attention as defined: query row e against every key of its head, up to  *)
(* its own position if causal, in order.                                   *)
Attention(e) ==
    LET h    == (e \div fjob.Sq) % fjob.Hq
        b    == e \div (fjob.Hq * fjob.Sq)
        kv(s) == (b * fjob.Hkv + (h * fjob.Hkv) \div fjob.Hq) * fjob.Skv + s
        last == IF fjob.causal /\ e % fjob.Sq < fjob.Skv - 1 THEN e % fjob.Sq ELSE fjob.Skv - 1
        vec(s) == [d \in 1 .. fjob.D |-> <<kv(s) * fjob.D + d - 1>>]
    IN  [s \in 1 .. last + 1 |-> << <<<<e>>, vec(s - 1)>>, vec(s - 1) >>]

(* The row is in a tile whose Br rows all exist. *)
InFullTile(e) == ((e % fjob.Sq) \div fjob.Br + 1) * fjob.Br <= fjob.Sq

(* Whatever is stored for a row of a full query tile is attention over     *)
(* exactly the keys it may see, from elements of K and V loaded for the    *)
(* tile in question, and every row is stored by the end of the grid.       *)
(* (The barriers and the causal break of flash_attn_fwd_kernel; in a       *)
(* partial tile the returned warps' share of K and V is never loaded, and  *)
(* the rows that remain are computed from garbage.)                        *)
FlashExact ==
    /\ \A e \in DOMAIN O : O[e] # NoRow /\ InFullTile(e) => O[e] = Attention(e)
    /\ FlashDone => \A e \in DOMAIN O : O[e] # NoRow

(* What a warp is doing before it waits at a barrier. *)
Before == [syncq |-> "loadq", sync1 |-> "loadkv", sync2 |-> "score", sync3 |-> "softmax"]

(* A barrier is reached by every warp that has a row, in the same turn of  *)
(* the loop: when one waits, no other has left the loop for its store or   *)
(* waits elsewhere.  (The causal break depends on the warp's own row, and  *)
(* a __syncthreads in code that some threads skip is undefined.)           *)
BarriersUniform ==
    \A w, u \in Warps :
        fpc[w] \in DOMAIN Before /\ q_row(u) < fjob.Sq =>
            fpc[u] \in {fpc[w], Before[fpc[w]]} /\ tile[u] = tile[w]

=============================================================================
