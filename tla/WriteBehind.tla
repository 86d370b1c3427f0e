---------------------------- MODULE WriteBehind ----------------------------
(***************************************************************************)
(* What a write-behind store promises: a write is accepted at once and     *)
(* put on disk later; writes reach the disk one at a time, in the order in *)
(* which they were accepted, none lost, repeated or overtaken.             *)
(***************************************************************************)
EXTENDS Sequences

CONSTANTS Keys, Values, Disk0

VARIABLES disk, pending

Accept(k, v) ==
    /\ pending' = Append(pending, [key |-> k, val |-> v])
    /\ UNCHANGED disk

Persist ==
    /\ pending # <<>>
    /\ disk' = [disk EXCEPT ![Head(pending).key] = Head(pending).val]
    /\ pending' = Tail(pending)

Init == disk = Disk0 /\ pending = <<>>

Next == (\E k \in Keys, v \in Values : Accept(k, v)) \/ Persist

Spec == Init /\ [][Next]_<<disk, pending>>

=============================================================================
