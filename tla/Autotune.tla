------------------------------- MODULE Autotune -------------------------------
(***************************************************************************)
(* successive_halving and grid_search of include/autotune_sh.hpp, with a   *)
(* measurement that only depends on the configuration.                     *)
(***************************************************************************)
EXTENDS Integers, Sequences, FiniteSets, SequencesExt

CONSTANTS
    Costs,      \* what measure may return
    MaxCands,   \* bound: candidates.size()
    MinReps, MaxReps,
    Etas        \* values of (size_t)eta

ASSUME TuneAssumption ==
    /\ Costs \subseteq Nat /\ {MaxCands, MinReps, MaxReps} \subseteq Nat \ {0}
    /\ MinReps <= MaxReps
    /\ Etas \subseteq Nat \ {0, 1}   \* 1 would keep all for ever, 0 divides by zero

VARIABLES
    stage,   \* "idle", "rounds", "done", "threw"
    cost,    \* cost[i]: time of candidate i
    eta, alive, reps, evals, winner

tuneVars == <<stage, cost, eta, alive, reps, evals, winner>>

TuneInit ==
    /\ stage = "idle" /\ cost = <<>> /\ eta = 2
    /\ alive = {} /\ reps = MinReps /\ evals = 0 /\ winner = 0

(* The argument check (no candidates) and the set-up. *)
successive_halving ==
    /\ stage = "idle"
    /\ \/ cost' = <<>> /\ stage' = "threw"
       \/ \E n \in 1 .. MaxCands : cost' \in [1 .. n -> Costs] /\ stage' = "rounds"
    /\ eta' \in Etas
    /\ alive' = DOMAIN cost'
    /\ UNCHANGED <<reps, evals, winner>>

(* Mutant: without the max with 1. *)
KeepUnclamped(n) == n \div eta

Keep(n) == IF n \div eta > 1 THEN n \div eta ELSE 1

(* Measure all, sort, keep the front.  std::sort leaves equals in any      *)
(* order, so any of them may be kept.                                      *)
Round ==
    /\ stage = "rounds" /\ Cardinality(alive) > 1
    /\ evals' = evals + reps * Cardinality(alive)
    /\ \E kept \in SUBSET alive :
         /\ Cardinality(kept) = Keep(Cardinality(alive))
         /\ \A i \in kept, j \in alive \ kept : cost[i] <= cost[j]
         /\ alive' = kept
    /\ reps' = IF reps * eta < MaxReps THEN reps * eta ELSE MaxReps
    /\ UNCHANGED <<stage, cost, eta, winner>>

Final ==
    /\ stage = "rounds" /\ Cardinality(alive) = 1
    /\ winner' = CHOOSE i \in alive : TRUE
    /\ evals' = evals + MaxReps
    /\ stage' = "done"
    /\ UNCHANGED <<cost, eta, alive, reps>>

TuneNext == successive_halving \/ Round \/ Final

TuneSpec == TuneInit /\ [][TuneNext]_tuneVars

(* The baseline: the first of the fastest, and its number of evaluations. *)
grid_search ==
    LET best[n \in 0 .. Len(cost)] ==
          IF n = 0 THEN [i |-> 0, evals |-> 0]
          ELSE [i |-> IF best[n - 1].i = 0 \/ cost[n] < cost[best[n - 1].i]
                      THEN n ELSE best[n - 1].i,
                evals |-> best[n - 1].evals + MaxReps]
    IN  best[Len(cost)]

-----------------------------------------------------------------------------
(* Properties *)

(* Successive halving comes to an end with a configuration as fast as the  *)
(* one grid search finds, for no more measurements.                        *)
HalvingFindsBest ==
    stage = "rounds" ~> /\ stage = "done"
                        /\ cost[winner] = cost[grid_search.i]
                        /\ evals <= grid_search.evals

=============================================================================
