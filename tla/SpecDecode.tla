------------------------------ MODULE SpecDecode ------------------------------
(***************************************************************************)
(* Speculative decoding of src/speculative.cpp: verify (rejection          *)
(* sampling), verify_greedy and medusa_verify, one draft position at a     *)
(* time.                                                                   *)
(*                                                                         *)
(* A distribution gives each token of the vocabulary 0 .. V-1 a number of  *)
(* D-ths; a random draw from [0, 1) is a number of 2G-ths, G being a       *)
(* multiple of 1 .. D: the odd ones are G equally likely draws, none of    *)
(* them at a boundary of a comparison, so that the 1e-9 in it is of no     *)
(* consequence; 0 is the draw that is at one.  A draft token may lie       *)
(* outside the vocabulary (V).                                             *)
(***************************************************************************)
EXTENDS Integers, Sequences, FiniteSets, SequencesExt, FiniteSetsExt

CONSTANTS V, D, G, MaxK, MaxCalls

ASSUME SpecAssumption ==
    /\ {V, D, G, MaxK, MaxCalls} \subseteq Nat \ {0}
    /\ \A d \in 1 .. D : G % d = 0

Vocab == 0 .. V - 1

(* The sum of the first n of the weights w, for n in 0 .. V. *)
Cum(w) ==
    LET cum[n \in 0 .. V] == IF n = 0 THEN 0 ELSE cum[n - 1] + w[n - 1]
    IN  cum

Dists == {p \in [Vocab -> 0 .. D] : Cum(p)[V] = D}
EvenDraws == {2 * i + 1 : i \in 0 .. G - 1}
Draws == EvenDraws \cup {0}

VARIABLES
    mode,     \* "idle", "verify", "greedy", "medusa"
    k,        \* draft_tokens.size()
    out,      \* accepted_tokens
    bonus,    \* bonus_token, -1 for none
    seen,     \* the target and the draft distribution of the last position
    calls, stats

specVars == <<mode, k, out, bonus, seen, calls, stats>>

Prob(p, x) == IF x \in Vocab THEN p[x] ELSE 0

(* Mutant: the rule of the comment in include/speculative.hpp:11, which    *)
(* has the comparison of the two probabilities the other way round: accept *)
(* if the draft's is the greater, else by their quotient.                  *)
AcceptsAsCommented(x, pt, pd, r) ==
    Prob(pd, x) >= Prob(pt, x) \/ r * Prob(pd, x) <= 2 * G * Prob(pt, x)

(* uniform <= min(1, pt / (pd + 1e-9)) *)
Accepts(x, pt, pd, r) ==
    \/ r = 0
    \/ Prob(pt, x) > 0 /\ r * Prob(pd, x) <= 2 * G * Prob(pt, x)

(* The first token whose cumulative weight (in parts of total) reaches r. *)
sample_from(w, total, r) ==
    LET reached == {i \in Vocab : r * total <= 2 * G * Cum(w)[i + 1]}
    IN  IF reached = {} THEN V - 1 ELSE Min(reached)

(* What a rejection may sample at draw r: a token of the part of the       *)
(* target's distribution that is above the draft's; where there is no such *)
(* part, any token.                                                        *)
sample_from_adjusted(pt, pd, r) ==
    LET adj == [i \in Vocab |-> IF pt[i] > pd[i] THEN pt[i] - pd[i] ELSE 0]
        sum == Cum(adj)[V]
    IN  IF sum = 0 THEN Vocab ELSE {sample_from(adj, sum, r)}

(* std::max_element: the first of the largest. *)
argmax(p) == Min({i \in Vocab : \A j \in Vocab : p[j] <= p[i]})

-----------------------------------------------------------------------------

NoDist == [x \in Vocab |-> 0]

SpecInit ==
    /\ mode = "idle" /\ k = 0 /\ out = <<>> /\ bonus = -1
    /\ seen = [pt |-> NoDist, pd |-> NoDist]
    /\ calls = 0
    /\ stats = [draft |-> 0, accepted |-> 0, rejected |-> 0]

(* medusa_verify is no member of the engine and counts nothing; k is the   *)
(* least of num_heads and the sizes of its arguments.                      *)
Call(m) ==
    /\ mode = "idle" /\ calls < MaxCalls
    /\ mode' = m
    /\ \E n \in 0 .. MaxK :
         /\ k' = n
         /\ stats' = IF m = "medusa" THEN stats ELSE [stats EXCEPT !.draft = @ + n]
    /\ out' = <<>> /\ bonus' = -1
    /\ calls' = calls + 1
    /\ UNCHANGED seen

Accept(x) ==
    /\ out' = Append(out, x)
    /\ stats' = IF mode = "medusa" THEN stats ELSE [stats EXCEPT !.accepted = @ + 1]
    /\ UNCHANGED <<mode, bonus>>

(* Mutant: only the token in question counts as rejected. *)
RejectOne(b) ==
    /\ stats' = [stats EXCEPT !.rejected = @ + 1]
    /\ bonus' = b
    /\ mode' = "idle"
    /\ UNCHANGED out

Reject(b) ==
    /\ stats' = [stats EXCEPT !.rejected = @ + k - Len(out)]
    /\ bonus' = b
    /\ mode' = "idle"
    /\ UNCHANGED out

(* Position i of the loop, 0-based: the number of tokens accepted so far. *)
Look(pt, pd) ==
    /\ Len(out) < k
    /\ seen' = [pt |-> pt, pd |-> pd]
    /\ UNCHANGED <<k, calls>>

VerifyToken ==
    /\ mode = "verify"
    /\ \E x \in 0 .. V, pt, pd \in Dists, r \in Draws :
         /\ Look(pt, pd)
         /\ \/ Accepts(x, pt, pd, r) /\ Accept(x)
            \/ /\ ~Accepts(x, pt, pd, r)
               /\ \E r2 \in Draws, b \in Vocab :
                    b \in sample_from_adjusted(pt, pd, r2) /\ Reject(b)

GreedyToken ==
    /\ mode = "greedy"
    /\ \E x \in 0 .. V, pt \in Dists :
         /\ Look(pt, NoDist)
         /\ IF x = argmax(pt) THEN Accept(x) ELSE Reject(argmax(pt))

(* All accepted: the bonus comes from the target's distribution after      *)
(* them.                                                                   *)
Bonus ==
    /\ mode \in {"verify", "greedy"} /\ Len(out) = k
    /\ \E pt \in Dists, r \in Draws :
         /\ bonus' = IF mode = "verify" THEN sample_from(pt, D, r) ELSE argmax(pt)
         /\ seen' = [pt |-> pt, pd |-> NoDist]
    /\ mode' = "idle"
    /\ UNCHANGED <<k, out, calls, stats>>

(* A threshold (in D-ths), or a draw against the target's probability. *)
MedusaToken ==
    /\ mode = "medusa"
    /\ \E x \in 0 .. V, pt \in Dists, threshold \in 0 .. D, r \in Draws :
         /\ Look(pt, NoDist)
         /\ IF IF threshold > 0 THEN Prob(pt, x) >= threshold ELSE r * D <= 2 * G * Prob(pt, x)
            THEN Accept(x) ELSE mode' = "idle" /\ UNCHANGED <<out, bonus, stats>>

MedusaEnd ==
    /\ mode = "medusa" /\ Len(out) = k
    /\ mode' = "idle"
    /\ UNCHANGED <<k, out, bonus, seen, calls, stats>>

SpecNext ==
    \/ \E m \in {"verify", "greedy", "medusa"} : Call(m)
    \/ VerifyToken \/ GreedyToken \/ Bonus \/ MedusaToken \/ MedusaEnd

DecodeSpec == SpecInit /\ [][SpecNext]_specVars

-----------------------------------------------------------------------------
(* Properties *)

(* Between calls every draft token the engine was given is counted as      *)
(* accepted or rejected, and as one of them only: verify and verify_greedy *)
(* stop at the first rejection, and the rest count as rejected too.        *)
EveryDraftCounted ==
    mode = "idle" => stats.draft = stats.accepted + stats.rejected

(* The tokens that may come first when x was drafted and the draws are r   *)
(* and r2, and how many pairs of equally likely draws make that y.         *)
First(x, pt, pd, r, r2) ==
    IF Accepts(x, pt, pd, r) THEN {x} ELSE sample_from_adjusted(pt, pd, r2)
Ways(x, y, pt, pd) ==
    Cardinality({d \in EvenDraws \X EvenDraws : y \in First(x, pt, pd, d[1], d[2])})

(* The tokens that verify emits are distributed as the target's: over a    *)
(* draft token drawn from the draft distribution and equally likely draws, *)
(* the first token of the result is y as often as the target says, for any *)
(* pair of distributions.  (Acceptance test, adjusted distribution and     *)
(* sampling together.)                                                     *)
OutputFollowsTarget ==
    LET pt == seen.pt
        pd == seen.pd
    IN  pd # NoDist => \A y \in Vocab :
            Cum([x \in Vocab |-> pd[x] * Ways(x, y, pt, pd)])[V] = pt[y] * G * G

=============================================================================
