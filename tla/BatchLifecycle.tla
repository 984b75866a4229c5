---------------------------- MODULE BatchLifecycle ----------------------------
(***************************************************************************)
(* What the audit trail of the honey batches promises, as a client of the  *)
(* API sees it: a batch is created once, with the three rows of its        *)
(* creation, and then moves through the lifecycle one stage at a time,     *)
(* each stage with exactly one row.                                        *)
(***************************************************************************)
EXTENDS Sequences

CONSTANTS
    Batches,     \* the batches there can be
    Rows,        \* a function: of each stage, the audit rows that record it
    Past,        \* a function: the audit rows of a batch that is at a stage
    Begun,       \* a function: where each batch is at first
    Follows      \* a function: the stages a batch may move to from a stage

VARIABLES
    stage,       \* of each batch: the stage it is at, "none" before its creation
    told         \* of each batch: its audit rows, in the order of their ids

Init ==
    /\ stage = Begun
    /\ told = [b \in Batches |-> Past[stage[b]]]

Move(b, s) ==
    /\ s \in Follows[stage[b]]
    /\ stage' = [stage EXCEPT ![b] = s]
    /\ told' = [told EXCEPT ![b] = @ \o Rows[s]]

Next == \E b \in Batches : \E s \in Follows[stage[b]] : Move(b, s)

Spec == Init /\ [][Next]_<<stage, told>>
=============================================================================
