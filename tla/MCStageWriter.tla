---------------------------- MODULE MCStageWriter ----------------------------
(* The batch handlers on a small instance. *)
EXTENDS StageWriter

CONSTANTS b1, b2

\* One batch is yet to be created and one has been.
MCBegun == [b \in Batches |-> IF b = b1 THEN "none" ELSE "CREATED"]
MCAllCreated == [b \in Batches |-> "CREATED"]
=============================================================================
