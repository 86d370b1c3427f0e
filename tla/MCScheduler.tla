---------------------------- MODULE MCScheduler ----------------------------
(* Scheduler on small instances. *)
EXTENDS Scheduler

(* Free pages differ in nothing but their number (none is stamped, none is *)
(* owned), so one order of handing them out stands for all.                *)
LowestFirst(A, F) == \A a \in A, b \in F \ A : a < b

=============================================================================
