-------------------------------- MODULE Merkle --------------------------------
(***************************************************************************)
(* The Merkle trees of app/services/merkle.py.                             *)
(*                                                                         *)
(* sha256 is modelled by the term it is applied to: equal hashes have      *)
(* equal inputs.  The prefix bytes 0x00 and 0x01 are the tags that keep    *)
(* the leaves and the inner nodes apart.  Sequences start at 1 here, at 0  *)
(* in the code.                                                            *)
(***************************************************************************)
EXTENDS Naturals, SequencesExt

LeafHash(rowHash) == <<"leaf", rowHash>>

Internal(left, right) == <<"node", left, right>>

\* Nodes are paired; an odd one out goes up as it is.
NextLevel(level) ==
    [i \in 1..((Len(level) + 1) \div 2) |->
        IF 2 * i <= Len(level) THEN Internal(level[2*i - 1], level[2*i]) ELSE level[2*i - 1]]

\* The levels of the tree, from the leaves at 0 up; the last one is the root.
Levels(leaves) ==
    LET up[k \in 0..Len(leaves)] == IF k = 0 THEN leaves ELSE NextLevel(up[k - 1])
    IN  up

BuildRoot(leaves) == Levels(leaves)[Len(leaves)][1]

\* Variant: an odd node is given the node before it as its sibling.
StepsIgnoringPromotion(level, i) ==
    IF Len(level) = 1 THEN <<>>
    ELSE IF i % 2 = 1
         THEN IF i = Len(level) THEN <<[sibling |-> level[i - 1], position |-> "left"]>>
              ELSE <<[sibling |-> level[i + 1], position |-> "right"]>>
         ELSE <<[sibling |-> level[i - 1], position |-> "left"]>>

\* The step a proof of node i takes at a level: its sibling, and the side the
\* sibling is on.  A promoted node takes none.
Steps(level, i) ==
    IF i % 2 = 0 THEN <<[sibling |-> level[i - 1], position |-> "left"]>>
    ELSE IF i < Len(level) THEN <<[sibling |-> level[i + 1], position |-> "right"]>>
    ELSE <<>>

\* Node i, promoted or paired, is under node (i + 1) \div 2 of the next level.
Places(leaves, index) ==
    LET at[k \in 0..Len(leaves)] == IF k = 0 THEN index ELSE (at[k - 1] + 1) \div 2
    IN  at

\* The proof of a leaf: the steps of the levels, from the leaves up.
InclusionProof(leaves, index) ==
    LET path[k \in 0..Len(leaves)] ==
            IF k = 0 THEN <<>>
            ELSE path[k - 1] \o Steps(Levels(leaves)[k - 1], Places(leaves, index)[k - 1])
    IN  path[Len(leaves)]

\* The node above `node`, given its sibling.
Parent(node, step) ==
    IF step.position = "left" THEN Internal(step.sibling, node) ELSE Internal(node, step.sibling)

\* The node that a path leads to.
Climb(leaf, path) ==
    LET node[k \in 0..Len(path)] == IF k = 0 THEN leaf ELSE Parent(node[k - 1], path[k])
    IN  node[Len(path)]

VerifyInclusion(leaf, path, root) == Climb(leaf, path) = root
=============================================================================
