---------------------------- MODULE PublicWitness ----------------------------
(***************************************************************************)
(* What anchoring promises about the audit log: the rows that a public     *)
(* anchor covers are always the oldest committed rows, all of them up to   *)
(* some row.  New rows commit behind them; a row once covered stays so.    *)
(***************************************************************************)
EXTENDS Naturals

CONSTANT Ids

VARIABLES
    committed,     \* the ids of the committed rows
    witnessed      \* those an anchor covers

\* s holds, of each row in it, every committed row below.
IsPrefixOf(s, rows) ==
    /\ s \subseteq rows
    /\ \A i \in s : \A j \in rows : j < i => j \in s

Init == committed = {} /\ witnessed = {}

Append ==
    /\ committed \subseteq committed' /\ committed' \subseteq Ids
    /\ \A i \in committed' \ committed : \A j \in witnessed : j < i
    /\ UNCHANGED witnessed

Witness ==
    /\ witnessed \subseteq witnessed'
    /\ IsPrefixOf(witnessed', committed)
    /\ UNCHANGED committed

Next == Append \/ Witness

Spec == Init /\ [][Next]_<<committed, witnessed>>
=============================================================================
