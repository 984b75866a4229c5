----------------------------- MODULE MCFarmers -----------------------------
(* Three requests about one farmer under two keys. *)
EXTENDS Farmers, TLC

CONSTANTS f1, f2, bad, odd

MCSizeOf == [f \in Files |-> IF f = f2 THEN 2 ELSE 1]
MCSymmetry == Permutations(Requests) \cup Permutations(Keys)
=============================================================================
