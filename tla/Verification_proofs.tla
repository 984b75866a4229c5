-------------------------- MODULE Verification_proofs --------------------------
(***************************************************************************)
(* Proofs about Verification and the Merkle trees it reads, for any        *)
(* lifecycle, stage values, panels and bounds, and trees of any size.      *)
(***************************************************************************)
EXTENDS Verification, WellFoundedInduction, TLAPS

-----------------------------------------------------------------------------
(* Numbers and sequences.                                                  *)

(* A set of numbers that is not empty has a least one.                     *)
LEMMA LeastNumber ==
    ASSUME NEW S \in SUBSET Nat, S # {}
    PROVE  \E n \in S : \A m \in S : n <= m
<1> DEFINE Below == {pair \in Nat \X Nat : pair[1] < pair[2]}
<1>1. Below = OpToRel(<, Nat)
  BY DEF OpToRel
<1>2. IsWellFoundedOn(Below, Nat)
  BY <1>1, NatLessThanWellFounded
<1>3. PICK n \in S : \A m \in S : ~(<<m, n>> \in Below)
  <2> HIDE DEF Below
  <2> QED
    BY <1>2, WFMin
<1>4. ASSUME NEW m \in S, m < n PROVE FALSE
  <2>1. <<m, n>> \in Nat \X Nat /\ <<m, n>>[1] < <<m, n>>[2]
    BY <1>4
  <2> QED
    BY <2>1, <1>3
<1> QED
  BY <1>4

\* A sequence of whatever elements.
IsSequence(s) == \E S : s \in Seq(S)

LEMMA SequenceShape ==
    ASSUME NEW s, IsSequence(s)
    PROVE  Len(s) \in Nat /\ DOMAIN s = 1..Len(s) /\ s = [i \in 1..Len(s) |-> s[i]]
<1>1. PICK S : s \in Seq(S)
  BY DEF IsSequence
<1> QED
  BY <1>1

LEMMA EmptyIsSequence == IsSequence(<<>>) /\ Len(<<>>) = 0
<1>1. <<>> \in Seq({}) /\ Len(<<>>) = 0
  OBVIOUS
<1> QED
  BY <1>1 DEF IsSequence

LEMMA FunctionIsSequence ==
    ASSUME NEW n \in Nat, NEW s, s = [i \in 1..n |-> s[i]]
    PROVE  IsSequence(s) /\ Len(s) = n
<1> DEFINE S == {s[i] : i \in 1..n}
<1>1. s \in [1..n -> S]
  <2>1. \A i \in 1..n : s[i] \in S
    OBVIOUS
  <2> HIDE DEF S
  <2>2. [i \in 1..n |-> s[i]] \in [1..n -> S]
    BY <2>1
  <2> QED
    BY <2>2
<1> HIDE DEF S
<1>2. s \in Seq(S) /\ Len(s) = n
  BY <1>1
<1> QED
  BY <1>2 DEF IsSequence

LEMMA SequencesEqual ==
    ASSUME NEW s, NEW t, IsSequence(s), IsSequence(t), Len(s) = Len(t),
           \A i \in 1..Len(s) : s[i] = t[i]
    PROVE  s = t
<1>1. s = [i \in 1..Len(s) |-> s[i]] /\ t = [i \in 1..Len(s) |-> t[i]]
  BY SequenceShape, Zenon
<1>2. [i \in 1..Len(s) |-> s[i]] = [i \in 1..Len(s) |-> t[i]]
  OBVIOUS
<1> QED
  BY <1>1, <1>2

(* Append adds one element at the end.                                     *)
LEMMA AppendShape ==
    ASSUME NEW s, IsSequence(s), NEW e
    PROVE  /\ IsSequence(Append(s, e))
           /\ Len(Append(s, e)) = Len(s) + 1
           /\ \A i \in 1..Len(s) : Append(s, e)[i] = s[i]
           /\ Append(s, e)[Len(s) + 1] = e
<1>1. PICK S : s \in Seq(S)
  BY DEF IsSequence
<1>2. s \in Seq(S \cup {e}) /\ e \in S \cup {e}
  BY <1>1
<1> DEFINE T == S \cup {e}
<1> HIDE DEF T
<1>3. s \in Seq(T) /\ e \in T
  BY <1>2 DEF T
<1>4. Append(s, e) \in Seq(T)
  BY <1>3
<1>5. IsSequence(Append(s, e))
  BY <1>4 DEF IsSequence
<1> QED
  BY <1>3, <1>5

LEMMA ConcatShape ==
    ASSUME NEW s, IsSequence(s)
    PROVE  /\ s \o <<>> = s
           /\ \A e : s \o <<e>> = Append(s, e)
<1>1. PICK S : s \in Seq(S)
  BY DEF IsSequence
<1>2. s \o <<>> = s
  BY <1>1
<1>3. ASSUME NEW e PROVE s \o <<e>> = Append(s, e)
  <2> DEFINE T == S \cup {e}
  <2>1. s \in Seq(T) /\ e \in T
    BY <1>1
  <2> HIDE DEF T
  <2> QED
    BY <2>1
<1> QED
  BY <1>2, <1>3

-----------------------------------------------------------------------------
(* The levels of a tree.                                                   *)

IsLevels(up, n, leaves) == up = [k \in 0..n |-> IF k = 0 THEN leaves ELSE NextLevel(up[k - 1])]

(* What Levels defines by recursion is there, for every number of levels.  *)
LEMMA LevelsExist ==
    ASSUME NEW leaves, NEW n \in Nat
    PROVE  \E up : IsLevels(up, n, leaves)
<1> DEFINE lacking == {k \in Nat : ~\E up : IsLevels(up, k, leaves)}
<1> SUFFICES ASSUME lacking # {} PROVE FALSE
  OBVIOUS
<1>1. PICK k \in lacking : \A m \in lacking : k <= m
  <2>1. lacking \in SUBSET Nat
    OBVIOUS
  <2> HIDE DEF lacking
  <2> QED
    BY <2>1, LeastNumber
<1>2. k \in Nat /\ ~\E up : IsLevels(up, k, leaves)
  OBVIOUS
<1>3. CASE k = 0
  <2> DEFINE up == [j \in 0..0 |-> leaves]
  <2>1. IsLevels(up, 0, leaves)
    BY DEF IsLevels
  <2> QED
    BY <1>2, <1>3, <2>1
<1>4. CASE k # 0
  <2>1. k - 1 \in Nat /\ ~(k <= k - 1)
    BY <1>2, <1>4
  <2>2. PICK part : IsLevels(part, k - 1, leaves)
    <3>1. k - 1 \notin lacking
      BY <1>1, <2>1
    <3> QED
      BY <2>1, <3>1
  <2> DEFINE up == [j \in 0..k |-> IF j = k THEN NextLevel(part[k - 1]) ELSE part[j]]
  <2>3. \A j \in 0..k : up[j] = IF j = 0 THEN leaves ELSE NextLevel(up[j - 1])
    <3> SUFFICES ASSUME NEW j \in 0..k
                 PROVE  up[j] = IF j = 0 THEN leaves ELSE NextLevel(up[j - 1])
      OBVIOUS
    <3>1. CASE j = k
      BY <1>2, <1>4, <3>1
    <3>2. CASE j # k
      <4>1. part[j] = IF j = 0 THEN leaves ELSE NextLevel(part[j - 1])
        BY <1>2, <2>2, <3>2 DEF IsLevels
      <4> QED
        BY <1>2, <3>2, <4>1
    <3> QED
      BY <3>1, <3>2
  <2>4. IsLevels(up, k, leaves)
    BY <2>3 DEF IsLevels
  <2> QED
    BY <1>2, <2>4
<1> QED
  BY <1>3, <1>4

LEMMA LevelsAre ==
    ASSUME NEW leaves, IsSequence(leaves)
    PROVE  \A k \in 0..Len(leaves) :
             Levels(leaves)[k] = IF k = 0 THEN leaves ELSE NextLevel(Levels(leaves)[k - 1])
<1> DEFINE up == CHOOSE up : IsLevels(up, Len(leaves), leaves)
<1>1. IsLevels(up, Len(leaves), leaves)
  BY LevelsExist, SequenceShape
<1>2. Levels(leaves) = up
  BY Zenon DEF Levels, IsLevels
<1> QED
  BY <1>1, <1>2 DEF IsLevels

(* One level up: half as many nodes, rounded up.                           *)
LEMMA NextLevelShape ==
    ASSUME NEW level, IsSequence(level), Len(level) >= 1
    PROVE  /\ IsSequence(NextLevel(level))
           /\ Len(NextLevel(level)) = (Len(level) + 1) \div 2
           /\ \A i \in 1..((Len(level) + 1) \div 2) :
                NextLevel(level)[i] = IF 2 * i <= Len(level)
                                      THEN Internal(level[2*i - 1], level[2*i])
                                      ELSE level[2*i - 1]
<1>1. Len(level) \in Nat
  BY SequenceShape
<1> DEFINE n == (Len(level) + 1) \div 2
<1>2. n \in Nat
  BY <1>1
<1>3. \A i \in 1..n : NextLevel(level)[i] = IF 2 * i <= Len(level)
                                            THEN Internal(level[2*i - 1], level[2*i])
                                            ELSE level[2*i - 1]
  BY DEF NextLevel
<1>4. NextLevel(level) = [i \in 1..n |-> NextLevel(level)[i]]
  BY DEF NextLevel
<1>5. IsSequence(NextLevel(level)) /\ Len(NextLevel(level)) = n
  BY <1>2, <1>4, FunctionIsSequence
<1> QED
  BY <1>3, <1>5

LEMMA HalfFits ==
    ASSUME NEW a \in Nat, a >= 1, NEW j \in Nat, j # 0, NEW m \in Nat,
           a = 1 \/ a <= m - (j - 1), NEW b, b = (a + 1) \div 2
    PROVE  b >= 1 /\ (b = 1 \/ b <= m - j)
<1>1. b \in Nat /\ b >= 1 /\ (a = 1 => b = 1) /\ (a > 1 => b <= a - 1)
  OBVIOUS
<1>2. CASE a = 1
  BY <1>1, <1>2
<1>3. CASE a > 1
  BY <1>1, <1>3
<1> QED
  BY <1>2, <1>3

(* Every level has a node, and fewer than the one below until there is one *)
(* left.                                                                   *)
LEMMA LevelsShrink ==
    ASSUME NEW leaves, IsSequence(leaves), Len(leaves) >= 1
    PROVE  \A k \in 0..Len(leaves) :
             /\ IsSequence(Levels(leaves)[k])
             /\ Len(Levels(leaves)[k]) >= 1
             /\ Len(Levels(leaves)[k]) = 1 \/ Len(Levels(leaves)[k]) <= Len(leaves) - k
<1> DEFINE level == Levels(leaves)
           n == Len(leaves)
           Fits(k) == /\ IsSequence(level[k])
                      /\ Len(level[k]) >= 1
                      /\ Len(level[k]) = 1 \/ Len(level[k]) <= n - k
           odd == {k \in 0..n : ~Fits(k)}
<1> SUFFICES ASSUME odd # {} PROVE FALSE
  OBVIOUS
<1>1. n \in Nat
  BY SequenceShape
<1>2. PICK k \in odd : \A m \in odd : k <= m
  <2>1. odd \in SUBSET Nat
    BY <1>1
  <2> HIDE DEF odd
  <2> QED
    BY <2>1, LeastNumber
<1>3. k \in 0..n /\ ~Fits(k)
  OBVIOUS
<1>4. level[k] = IF k = 0 THEN leaves ELSE NextLevel(level[k - 1])
  BY <1>3, LevelsAre
<1>5. CASE k = 0
  BY <1>1, <1>3, <1>4, <1>5
<1>6. CASE k # 0
  <2>1. k - 1 \in 0..n /\ ~(k <= k - 1)
    BY <1>1, <1>3, <1>6
  <2>2. Fits(k - 1)
    <3> HIDE DEF Fits
    <3> QED
      BY <1>2, <2>1
  <2> DEFINE below == level[k - 1]
  <2>3. IsSequence(below) /\ Len(below) >= 1 /\ Len(below) \in Nat
    BY <2>2, SequenceShape
  <2>4. IsSequence(level[k]) /\ Len(level[k]) = (Len(below) + 1) \div 2
    BY <1>4, <1>6, <2>3, NextLevelShape
  <2>5. Len(below) = 1 \/ Len(below) <= n - (k - 1)
    BY <2>2
  <2> HIDE DEF below, level, n, odd
  <2>6. PICK a, b, j, m : a = Len(below) /\ b = Len(level[k]) /\ j = k /\ m = n
    OBVIOUS
  <2>7. /\ a \in Nat /\ a >= 1 /\ j \in Nat /\ j # 0 /\ m \in Nat
        /\ b = (a + 1) \div 2 /\ (a = 1 \/ a <= m - (j - 1))
    <3>1. j \in Nat /\ m \in Nat
      BY <1>1, <1>3, <2>6
    <3> QED
      BY <1>6, <2>3, <2>4, <2>5, <2>6, <3>1
  <2>8. b >= 1 /\ (b = 1 \/ b <= m - j)
    BY <2>7, HalfFits
  <2>9. Len(level[k]) >= 1 /\ (Len(level[k]) = 1 \/ Len(level[k]) <= n - k)
    BY <2>6, <2>8
  <2> QED
    BY <1>3, <2>4, <2>9
<1> QED
  BY <1>5, <1>6

(* The last level is the root alone.                                       *)
LEMMA TopIsRoot ==
    ASSUME NEW leaves, IsSequence(leaves), Len(leaves) >= 1
    PROVE  Len(Levels(leaves)[Len(leaves)]) = 1
<1>1. Len(leaves) \in Nat /\ Len(leaves) \in 0..Len(leaves)
  BY SequenceShape
<1>2. IsSequence(Levels(leaves)[Len(leaves)]) /\ Len(Levels(leaves)[Len(leaves)]) >= 1
  BY <1>1, LevelsShrink
<1>3. \/ Len(Levels(leaves)[Len(leaves)]) = 1
      \/ Len(Levels(leaves)[Len(leaves)]) <= Len(leaves) - Len(leaves)
  BY <1>1, LevelsShrink
<1>4. Len(Levels(leaves)[Len(leaves)]) \in Nat
  BY <1>2, SequenceShape
<1> QED
  BY <1>1, <1>2, <1>3, <1>4

-----------------------------------------------------------------------------
(* Proofs lead up.                                                         *)

(* One level up: the step a proof takes at node i, if it takes one, leads  *)
(* to the node above it.                                                   *)
LEMMA StepLeadsUp ==
    ASSUME NEW level, IsSequence(level), NEW i \in 1..Len(level)
    PROVE  /\ (i + 1) \div 2 \in 1..Len(NextLevel(level))
           /\ \/ Steps(level, i) = <<>> /\ NextLevel(level)[(i + 1) \div 2] = level[i]
              \/ \E step : /\ Steps(level, i) = <<step>>
                           /\ NextLevel(level)[(i + 1) \div 2] = Parent(level[i], step)
<1> DEFINE n == Len(level)
           j == (i + 1) \div 2
<1>1. n \in Nat /\ i \in Nat /\ i >= 1 /\ i <= n /\ n >= 1
  BY SequenceShape
<1>2. /\ Len(NextLevel(level)) = (n + 1) \div 2
      /\ \A m \in 1..((n + 1) \div 2) :
           NextLevel(level)[m] = IF 2 * m <= n THEN Internal(level[2*m - 1], level[2*m])
                                 ELSE level[2*m - 1]
  BY <1>1, NextLevelShape
<1>3. j \in 1..((n + 1) \div 2)
  BY <1>1
<1>4. NextLevel(level)[j] = IF 2 * j <= n THEN Internal(level[2*j - 1], level[2*j])
                            ELSE level[2*j - 1]
  BY <1>2, <1>3
<1>5. CASE i % 2 = 0
  <2>1. 2 * j = i /\ 2 * j <= n /\ 2*j - 1 = i - 1
    BY <1>1, <1>5
  <2> DEFINE step == [sibling |-> level[i - 1], position |-> "left"]
  <2>2. NextLevel(level)[j] = Internal(level[i - 1], level[i])
    BY <1>4, <2>1
  <2>3. Parent(level[i], step) = Internal(level[i - 1], level[i])
    BY DEF Parent
  <2>4. Steps(level, i) = <<step>>
    BY <1>5 DEF Steps
  <2> HIDE DEF step
  <2> QED
    BY <1>2, <1>3, <2>2, <2>3, <2>4
<1>6. CASE i % 2 # 0 /\ i < n
  <2>1. 2 * j = i + 1 /\ 2 * j <= n /\ 2*j - 1 = i
    BY <1>1, <1>6
  <2> DEFINE step == [sibling |-> level[i + 1], position |-> "right"]
  <2>2. NextLevel(level)[j] = Internal(level[i], level[i + 1])
    BY <1>4, <2>1
  <2>3. Parent(level[i], step) = Internal(level[i], level[i + 1])
    BY DEF Parent
  <2>4. Steps(level, i) = <<step>>
    BY <1>6 DEF Steps
  <2> HIDE DEF step
  <2> QED
    BY <1>2, <1>3, <2>2, <2>3, <2>4
<1>7. CASE i % 2 # 0 /\ ~(i < n)
  <2>1. 2 * j = i + 1 /\ ~(2 * j <= n) /\ 2*j - 1 = i
    BY <1>1, <1>7
  <2>2. NextLevel(level)[j] = level[i]
    BY <1>4, <2>1
  <2>3. Steps(level, i) = <<>>
    BY <1>7 DEF Steps
  <2> QED
    BY <1>2, <1>3, <2>2, <2>3
<1> QED
  BY <1>5, <1>6, <1>7

IsPlaces(at, n, index) == at = [k \in 0..n |-> IF k = 0 THEN index ELSE (at[k - 1] + 1) \div 2]

LEMMA PlacesExist ==
    ASSUME NEW index, NEW n \in Nat
    PROVE  \E at : IsPlaces(at, n, index)
<1> DEFINE lacking == {k \in Nat : ~\E at : IsPlaces(at, k, index)}
<1> SUFFICES ASSUME lacking # {} PROVE FALSE
  OBVIOUS
<1>1. PICK k \in lacking : \A m \in lacking : k <= m
  <2>1. lacking \in SUBSET Nat
    OBVIOUS
  <2> HIDE DEF lacking
  <2> QED
    BY <2>1, LeastNumber
<1>2. k \in Nat /\ ~\E at : IsPlaces(at, k, index)
  OBVIOUS
<1>3. CASE k = 0
  <2> DEFINE at == [j \in 0..0 |-> index]
  <2>1. IsPlaces(at, 0, index)
    BY DEF IsPlaces
  <2> QED
    BY <1>2, <1>3, <2>1
<1>4. CASE k # 0
  <2>1. k - 1 \in Nat /\ ~(k <= k - 1)
    BY <1>2, <1>4
  <2>2. PICK part : IsPlaces(part, k - 1, index)
    <3>1. k - 1 \notin lacking
      BY <1>1, <2>1
    <3> QED
      BY <2>1, <3>1
  <2> DEFINE at == [j \in 0..k |-> IF j = k THEN (part[k - 1] + 1) \div 2 ELSE part[j]]
  <2>3. \A j \in 0..k : at[j] = IF j = 0 THEN index ELSE (at[j - 1] + 1) \div 2
    <3> SUFFICES ASSUME NEW j \in 0..k
                 PROVE  at[j] = IF j = 0 THEN index ELSE (at[j - 1] + 1) \div 2
      OBVIOUS
    <3>1. CASE j = k
      BY <1>2, <1>4, <3>1
    <3>2. CASE j # k
      <4>1. part[j] = IF j = 0 THEN index ELSE (part[j - 1] + 1) \div 2
        BY <1>2, <2>2, <3>2 DEF IsPlaces
      <4> QED
        BY <1>2, <3>2, <4>1
    <3> QED
      BY <3>1, <3>2
  <2>4. IsPlaces(at, k, index)
    BY <2>3 DEF IsPlaces
  <2> QED
    BY <1>2, <2>4
<1> QED
  BY <1>3, <1>4

LEMMA PlacesAre ==
    ASSUME NEW leaves, IsSequence(leaves), NEW index
    PROVE  \A k \in 0..Len(leaves) :
             Places(leaves, index)[k] = IF k = 0 THEN index
                                        ELSE (Places(leaves, index)[k - 1] + 1) \div 2
<1> DEFINE at == CHOOSE at : IsPlaces(at, Len(leaves), index)
<1>1. IsPlaces(at, Len(leaves), index)
  BY PlacesExist, SequenceShape
<1>2. Places(leaves, index) = at
  BY Zenon DEF Places, IsPlaces
<1> QED
  BY <1>1, <1>2 DEF IsPlaces

\* The paths of a proof, up to each level.
IsPath(path, n, leaves, index) ==
    path = [k \in 0..n |->
              IF k = 0 THEN <<>>
              ELSE path[k - 1] \o Steps(Levels(leaves)[k - 1], Places(leaves, index)[k - 1])]

LEMMA PathsExist ==
    ASSUME NEW leaves, NEW index, NEW n \in Nat
    PROVE  \E path : IsPath(path, n, leaves, index)
<1> DEFINE Above(p, j) == p \o Steps(Levels(leaves)[j - 1], Places(leaves, index)[j - 1])
           lacking == {k \in Nat : ~\E path : IsPath(path, k, leaves, index)}
<1> SUFFICES ASSUME lacking # {} PROVE FALSE
  OBVIOUS
<1>1. PICK k \in lacking : \A m \in lacking : k <= m
  <2>1. lacking \in SUBSET Nat
    OBVIOUS
  <2> HIDE DEF lacking
  <2> QED
    BY <2>1, LeastNumber
<1>2. k \in Nat /\ ~\E path : IsPath(path, k, leaves, index)
  OBVIOUS
<1>3. CASE k = 0
  <2> DEFINE path == [j \in 0..0 |-> <<>>]
  <2>1. IsPath(path, 0, leaves, index)
    BY DEF IsPath
  <2> QED
    BY <1>2, <1>3, <2>1
<1>4. CASE k # 0
  <2>1. k - 1 \in Nat /\ ~(k <= k - 1)
    BY <1>2, <1>4
  <2>2. PICK part : IsPath(part, k - 1, leaves, index)
    <3>1. k - 1 \notin lacking
      BY <1>1, <2>1
    <3> QED
      BY <2>1, <3>1
  <2> DEFINE path == [j \in 0..k |-> IF j = k THEN Above(part[k - 1], k) ELSE part[j]]
  <2>3. \A j \in 0..k : path[j] = IF j = 0 THEN <<>> ELSE Above(path[j - 1], j)
    <3> SUFFICES ASSUME NEW j \in 0..k
                 PROVE  path[j] = IF j = 0 THEN <<>> ELSE Above(path[j - 1], j)
      OBVIOUS
    <3>1. CASE j = k
      BY <1>2, <1>4, <3>1
    <3>2. CASE j # k
      <4>1. j \in 0..(k - 1)
        BY <1>2, <3>2
      <4>2. part[j] = IF j = 0 THEN <<>> ELSE Above(part[j - 1], j)
        BY <2>2, <4>1, Zenon DEF IsPath
      <4> QED
        BY <1>2, <3>2, <4>2
    <3> QED
      BY <3>1, <3>2
  <2>4. IsPath(path, k, leaves, index)
    BY <2>3 DEF IsPath
  <2> QED
    BY <1>2, <2>4
<1> QED
  BY <1>3, <1>4

LEMMA ProofIs ==
    ASSUME NEW leaves, IsSequence(leaves), NEW index
    PROVE  \E path : /\ InclusionProof(leaves, index) = path[Len(leaves)]
                     /\ IsPath(path, Len(leaves), leaves, index)
<1> DEFINE path == CHOOSE path : IsPath(path, Len(leaves), leaves, index)
<1>1. IsPath(path, Len(leaves), leaves, index)
  BY SequenceShape, PathsExist
<1>2. InclusionProof(leaves, index) = path[Len(leaves)]
  BY Zenon DEF InclusionProof, IsPath
<1> HIDE DEF path
<1> QED
  BY <1>1, <1>2

\* The nodes of a climb, after each step.
IsClimb(node, n, leaf, path) ==
    node = [k \in 0..n |-> IF k = 0 THEN leaf ELSE Parent(node[k - 1], path[k])]

LEMMA ClimbExists ==
    ASSUME NEW leaf, NEW path, NEW n \in Nat
    PROVE  \E node : IsClimb(node, n, leaf, path)
<1> DEFINE lacking == {k \in Nat : ~\E node : IsClimb(node, k, leaf, path)}
<1> SUFFICES ASSUME lacking # {} PROVE FALSE
  OBVIOUS
<1>1. PICK k \in lacking : \A m \in lacking : k <= m
  <2>1. lacking \in SUBSET Nat
    OBVIOUS
  <2> HIDE DEF lacking
  <2> QED
    BY <2>1, LeastNumber
<1>2. k \in Nat /\ ~\E node : IsClimb(node, k, leaf, path)
  OBVIOUS
<1>3. CASE k = 0
  <2> DEFINE node == [j \in 0..0 |-> leaf]
  <2>1. IsClimb(node, 0, leaf, path)
    BY DEF IsClimb
  <2> QED
    BY <1>2, <1>3, <2>1
<1>4. CASE k # 0
  <2>1. k - 1 \in Nat /\ ~(k <= k - 1)
    BY <1>2, <1>4
  <2>2. PICK part : IsClimb(part, k - 1, leaf, path)
    <3>1. k - 1 \notin lacking
      BY <1>1, <2>1
    <3> QED
      BY <2>1, <3>1
  <2> DEFINE node == [j \in 0..k |-> IF j = k THEN Parent(part[k - 1], path[k]) ELSE part[j]]
  <2>3. \A j \in 0..k : node[j] = IF j = 0 THEN leaf ELSE Parent(node[j - 1], path[j])
    <3> SUFFICES ASSUME NEW j \in 0..k
                 PROVE  node[j] = IF j = 0 THEN leaf ELSE Parent(node[j - 1], path[j])
      OBVIOUS
    <3>1. CASE j = k
      BY <1>2, <1>4, <3>1
    <3>2. CASE j # k
      <4>1. part[j] = IF j = 0 THEN leaf ELSE Parent(part[j - 1], path[j])
        BY <1>2, <2>2, <3>2 DEF IsClimb
      <4> QED
        BY <1>2, <3>2, <4>1
    <3> QED
      BY <3>1, <3>2
  <2>4. IsClimb(node, k, leaf, path)
    BY <2>3 DEF IsClimb
  <2> QED
    BY <1>2, <2>4
<1> QED
  BY <1>3, <1>4

LEMMA ClimbIs ==
    ASSUME NEW leaf, NEW path, IsSequence(path)
    PROVE  \E node : /\ Climb(leaf, path) = node[Len(path)]
                     /\ IsClimb(node, Len(path), leaf, path)
<1> DEFINE node == CHOOSE node : IsClimb(node, Len(path), leaf, path)
<1>1. IsClimb(node, Len(path), leaf, path)
  BY SequenceShape, ClimbExists
<1>2. Climb(leaf, path) = node[Len(path)]
  BY Zenon DEF Climb, IsClimb
<1> HIDE DEF node
<1> QED
  BY <1>1, <1>2

(* One step more leads from the node that was reached to its parent.       *)
LEMMA ClimbOneMore ==
    ASSUME NEW leaf, NEW path, IsSequence(path), NEW step
    PROVE  Climb(leaf, Append(path, step)) = Parent(Climb(leaf, path), step)
<1> DEFINE more == Append(path, step)
           n == Len(path)
<1>1. /\ n \in Nat /\ IsSequence(more) /\ Len(more) = n + 1
      /\ \A i \in 1..n : more[i] = path[i]
      /\ more[n + 1] = step
  BY SequenceShape, AppendShape
<1> HIDE DEF more
<1>2. PICK node : Climb(leaf, path) = node[n] /\ IsClimb(node, n, leaf, path)
  BY ClimbIs
<1>3. PICK next : Climb(leaf, more) = next[n + 1] /\ IsClimb(next, n + 1, leaf, more)
  BY <1>1, ClimbIs
<1>4. /\ node[0] = leaf /\ next[0] = leaf
      /\ \A k \in 1..n : node[k] = Parent(node[k - 1], path[k])
      /\ \A k \in 1..(n + 1) : next[k] = Parent(next[k - 1], more[k])
  <2> HIDE DEF n
  <2>1. node[0] = leaf /\ \A k \in 1..n : node[k] = Parent(node[k - 1], path[k])
    BY <1>1, <1>2 DEF IsClimb
  <2>2. n + 1 \in Nat
    BY <1>1
  <2>3. next[0] = leaf /\ \A k \in 1..(n + 1) : next[k] = Parent(next[k - 1], more[k])
    BY <1>3, <2>2 DEF IsClimb
  <2> QED
    BY <2>1, <2>3
<1> DEFINE odd == {k \in 0..n : next[k] # node[k]}
<1>5. odd = {}
  <2> SUFFICES ASSUME odd # {} PROVE FALSE
    OBVIOUS
  <2>1. PICK k \in odd : \A m \in odd : k <= m
    <3>1. odd \in SUBSET Nat
      BY <1>1
    <3> HIDE DEF odd
    <3> QED
      BY <3>1, LeastNumber
  <2>2. k \in 0..n /\ k \in Nat /\ next[k] # node[k]
    BY <1>1
  <2>3. k # 0
    BY <1>4, <2>2
  <2>4. k - 1 \in 0..n /\ ~(k <= k - 1) /\ k \in 1..n /\ k \in 1..(n + 1)
    BY <1>1, <2>2, <2>3
  <2>5. next[k - 1] = node[k - 1]
    BY <2>1, <2>4
  <2> QED
    BY <1>1, <1>4, <2>2, <2>4, <2>5
<1>6. next[n] = node[n] /\ next[n + 1] = Parent(next[n], step)
  <2>1. n \in 0..n /\ n + 1 \in 1..(n + 1) /\ (n + 1) - 1 = n
    BY <1>1
  <2>2. next[n] = node[n]
    BY <1>5, <2>1
  <2>3. next[n + 1] = Parent(next[(n + 1) - 1], more[n + 1])
    BY <1>4, <2>1
  <2> QED
    BY <1>1, <2>1, <2>2, <2>3
<1>7. Climb(leaf, more) = Parent(Climb(leaf, path), step)
  BY <1>2, <1>3, <1>6
<1> QED
  BY <1>7 DEF more

LEMMA ClimbNone ==
    ASSUME NEW leaf
    PROVE  Climb(leaf, <<>>) = leaf
<1>1. IsSequence(<<>>) /\ Len(<<>>) = 0
  BY EmptyIsSequence
<1>2. PICK node : Climb(leaf, <<>>) = node[0] /\ IsClimb(node, 0, leaf, <<>>)
  BY <1>1, ClimbIs
<1> QED
  BY <1>2 DEF IsClimb

(* At every level, the part of the proof that is there so far leads to the *)
(* node the leaf is under.                                                 *)
LEMMA ProofLeadsUp ==
    ASSUME NEW leaves, IsSequence(leaves), NEW index \in 1..Len(leaves),
           NEW path, IsPath(path, Len(leaves), leaves, index)
    PROVE  \A k \in 0..Len(leaves) :
             /\ Places(leaves, index)[k] \in 1..Len(Levels(leaves)[k])
             /\ IsSequence(path[k])
             /\ Climb(leaves[index], path[k]) = Levels(leaves)[k][Places(leaves, index)[k]]
<1> DEFINE n == Len(leaves)
           level == Levels(leaves)
           at == Places(leaves, index)
           Leads(k) == /\ at[k] \in 1..Len(level[k])
                       /\ IsSequence(path[k])
                       /\ Climb(leaves[index], path[k]) = level[k][at[k]]
           odd == {k \in 0..n : ~Leads(k)}
<1> SUFFICES ASSUME odd # {} PROVE FALSE
  OBVIOUS
<1>1. n \in Nat /\ n >= 1
  BY SequenceShape
<1>2. PICK k \in odd : \A m \in odd : k <= m
  <2>1. odd \in SUBSET Nat
    BY <1>1
  <2> HIDE DEF odd
  <2> QED
    BY <2>1, LeastNumber
<1>3. k \in 0..n /\ ~Leads(k)
  OBVIOUS
<1>4. CASE k = 0
  <2>1. level[0] = leaves /\ at[0] = index
    BY <1>1, LevelsAre, PlacesAre
  <2>2. path[0] = <<>>
    BY <1>1 DEF IsPath
  <2>3. Leads(0)
    BY <2>1, <2>2, ClimbNone, EmptyIsSequence
  <2> QED
    BY <1>3, <1>4, <2>3
<1>5. CASE k # 0
  <2>1. k - 1 \in 0..n /\ ~(k <= k - 1)
    BY <1>1, <1>3, <1>5
  <2>2. Leads(k - 1)
    <3> HIDE DEF Leads
    <3> QED
      BY <1>2, <2>1
  <2> DEFINE below == level[k - 1]
             i == at[k - 1]
  <2>3. IsSequence(below) /\ i \in 1..Len(below)
    BY <1>1, <2>1, <2>2, LevelsShrink
  <2>4. level[k] = NextLevel(below)
    BY <1>3, <1>5, LevelsAre
  <2>5. at[k] = (i + 1) \div 2
    BY <1>3, <1>5, PlacesAre
  <2>6. path[k] = path[k - 1] \o Steps(below, i)
    BY <1>3, <1>5, Zenon DEF IsPath
  <2>7. IsSequence(path[k - 1]) /\ Climb(leaves[index], path[k - 1]) = below[i]
    BY <2>2
  <2> HIDE DEF below, i, level, at
  <2>8. (i + 1) \div 2 \in 1..Len(NextLevel(below))
    BY <2>3, StepLeadsUp
  <2>9. CASE Steps(below, i) = <<>> /\ NextLevel(below)[(i + 1) \div 2] = below[i]
    <3>1. path[k] = path[k - 1]
      BY <2>6, <2>7, <2>9, ConcatShape
    <3>2. Leads(k)
      BY <2>4, <2>5, <2>7, <2>8, <2>9, <3>1
    <3> QED
      BY <1>3, <3>2
  <2>10. CASE \E step : /\ Steps(below, i) = <<step>>
                        /\ NextLevel(below)[(i + 1) \div 2] = Parent(below[i], step)
    <3>1. PICK step : /\ Steps(below, i) = <<step>>
                      /\ NextLevel(below)[(i + 1) \div 2] = Parent(below[i], step)
      BY <2>10
    <3>2. path[k] = Append(path[k - 1], step)
      BY <2>6, <2>7, <3>1, ConcatShape
    <3>3. IsSequence(path[k])
      BY <2>7, <3>2, AppendShape
    <3>4. Climb(leaves[index], path[k]) = Parent(below[i], step)
      BY <2>7, <3>2, ClimbOneMore
    <3>5. Leads(k)
      BY <2>4, <2>5, <2>8, <3>1, <3>3, <3>4
    <3> QED
      BY <1>3, <3>5
  <2> QED
    BY <2>3, <2>9, <2>10, StepLeadsUp
<1> QED
  BY <1>4, <1>5

(* The proof of every leaf of a tree, however many there are, verifies     *)
(* against the root: inclusion_proof and verify_inclusion agree.           *)
THEOREM EveryProofVerifies ==
    ASSUME NEW leaves, IsSequence(leaves), NEW index \in 1..Len(leaves)
    PROVE  /\ VerifyInclusion(leaves[index], InclusionProof(leaves, index), BuildRoot(leaves))
           /\ IsSequence(InclusionProof(leaves, index))
<1> DEFINE n == Len(leaves)
<1>1. n \in Nat /\ n >= 1 /\ n \in 0..n
  BY SequenceShape
<1>2. PICK path : /\ InclusionProof(leaves, index) = path[n]
                  /\ IsPath(path, n, leaves, index)
  BY ProofIs
<1>3. /\ Places(leaves, index)[n] \in 1..Len(Levels(leaves)[n])
      /\ IsSequence(path[n])
      /\ Climb(leaves[index], path[n]) = Levels(leaves)[n][Places(leaves, index)[n]]
  BY <1>1, <1>2, ProofLeadsUp
<1>4. Len(Levels(leaves)[n]) = 1
  BY <1>1, TopIsRoot
<1>5. Places(leaves, index)[n] = 1
  BY <1>3, <1>4
<1> QED
  BY <1>2, <1>3, <1>5 DEF VerifyInclusion, BuildRoot

-----------------------------------------------------------------------------
(* Only a leaf has a proof.                                                *)

LEMMA InternalInjective ==
    ASSUME NEW l, NEW r, NEW m, NEW s, Internal(l, r) = Internal(m, s)
    PROVE  l = m /\ r = s
  BY DEF Internal

\* The prefix bytes keep leaves and inner nodes apart.
LEMMA LeafIsNotInternal ==
    ASSUME NEW h, NEW l, NEW r
    PROVE  LeafHash(h) # Internal(l, r)
<1>1. LeafHash(h)[1] = "leaf" /\ Internal(l, r)[1] = "node"
  BY DEF LeafHash, Internal
<1> QED
  BY <1>1

LEMMA LeafHashInjective ==
    ASSUME NEW h, NEW g, LeafHash(h) = LeafHash(g)
    PROVE  h = g
  BY DEF LeafHash

\* The hashes the tree is made of.
InTree(node, leaves) ==
    \E k \in 0..Len(leaves) : \E i \in 1..Len(Levels(leaves)[k]) : Levels(leaves)[k][i] = node

(* A node of the tree that is not a leaf of it is made of two others.      *)
LEMMA NodeOfTree ==
    ASSUME NEW leaves, IsSequence(leaves), Len(leaves) >= 1, NEW node, InTree(node, leaves)
    PROVE  \/ \E i \in 1..Len(leaves) : leaves[i] = node
           \/ \E l, r : /\ node = Internal(l, r)
                        /\ InTree(l, leaves) /\ InTree(r, leaves)
<1> DEFINE n == Len(leaves)
           level == Levels(leaves)
           having == {k \in 0..n : \E i \in 1..Len(level[k]) : level[k][i] = node}
<1>1. n \in Nat
  BY SequenceShape
<1>2. PICK k \in having : \A m \in having : k <= m
  <2>1. having \in SUBSET Nat /\ having # {}
    BY <1>1 DEF InTree
  <2> HIDE DEF having
  <2> QED
    BY <2>1, LeastNumber
<1>3. k \in 0..n /\ \E i \in 1..Len(level[k]) : level[k][i] = node
  OBVIOUS
<1>4. PICK i \in 1..Len(level[k]) : level[k][i] = node
  BY <1>3
<1>5. CASE k = 0
  <2>1. level[0] = leaves
    BY <1>1, LevelsAre
  <2> QED
    BY <1>4, <1>5, <2>1
<1>6. CASE k # 0
  <2>1. k - 1 \in 0..n /\ ~(k <= k - 1)
    BY <1>1, <1>3, <1>6
  <2> DEFINE below == level[k - 1]
  <2>2. IsSequence(below) /\ Len(below) >= 1 /\ Len(below) \in Nat
    BY <2>1, LevelsShrink, SequenceShape
  <2>3. level[k] = NextLevel(below)
    BY <1>3, <1>6, LevelsAre
  <2>4. ~\E j \in 1..Len(below) : below[j] = node
    BY <1>2, <2>1
  <2>5. \A j \in 1..Len(below) : InTree(below[j], leaves)
    BY <2>1 DEF InTree
  <2> HIDE DEF below, level, having, n
  <2>6. i \in 1..((Len(below) + 1) \div 2)
    BY <1>4, <2>2, <2>3, NextLevelShape
  <2>7. node = IF 2 * i <= Len(below) THEN Internal(below[2*i - 1], below[2*i]) ELSE below[2*i - 1]
    BY <1>4, <2>2, <2>3, <2>6, NextLevelShape
  <2>8. 2*i - 1 \in 1..Len(below) /\ (2 * i <= Len(below) => 2*i \in 1..Len(below))
    BY <2>2, <2>6
  <2>9. node = Internal(below[2*i - 1], below[2*i]) /\ 2*i \in 1..Len(below)
    BY <2>4, <2>7, <2>8
  <2>10. InTree(below[2*i - 1], leaves) /\ InTree(below[2*i], leaves)
    BY <2>5, <2>8, <2>9
  <2> QED
    BY <2>9, <2>10
<1> QED
  BY <1>5, <1>6

(* The children of an inner node of the tree are in the tree, and a leaf   *)
(* hash in the tree is one of its leaves.                                  *)
LEMMA ChildrenOfTree ==
    ASSUME NEW leaves, IsSequence(leaves), Len(leaves) >= 1,
           \A i \in 1..Len(leaves) : \E h : leaves[i] = LeafHash(h),
           NEW l, NEW r, InTree(Internal(l, r), leaves)
    PROVE  InTree(l, leaves) /\ InTree(r, leaves)
<1>1. ~\E i \in 1..Len(leaves) : leaves[i] = Internal(l, r)
  BY LeafIsNotInternal
<1>2. PICK m, s : Internal(l, r) = Internal(m, s) /\ InTree(m, leaves) /\ InTree(s, leaves)
  BY <1>1, NodeOfTree
<1> QED
  BY <1>2, InternalInjective

LEMMA LeafOfTree ==
    ASSUME NEW leaves, IsSequence(leaves), Len(leaves) >= 1, NEW h,
           InTree(LeafHash(h), leaves)
    PROVE  \E i \in 1..Len(leaves) : leaves[i] = LeafHash(h)
  BY NodeOfTree, LeafIsNotInternal

(* A path that leads from a leaf hash to the root of a tree, whatever path *)
(* it is, starts at a leaf of the tree: verify_inclusion accepts no hash   *)
(* that was not anchored (app/services/merkle.py:100-114).                 *)
THEOREM OnlyLeavesVerify ==
    ASSUME NEW leaves, IsSequence(leaves), Len(leaves) >= 1,
           \A i \in 1..Len(leaves) : \E g : leaves[i] = LeafHash(g),
           NEW h, NEW path, IsSequence(path),
           VerifyInclusion(LeafHash(h), path, BuildRoot(leaves))
    PROVE  \E i \in 1..Len(leaves) : leaves[i] = LeafHash(h)
<1> DEFINE m == Len(path)
<1>1. m \in Nat
  BY SequenceShape
<1>2. PICK node : Climb(LeafHash(h), path) = node[m] /\ IsClimb(node, m, LeafHash(h), path)
  BY ClimbIs
<1>3. node[m] = BuildRoot(leaves)
  BY <1>2 DEF VerifyInclusion
<1>4. InTree(node[m], leaves)
  <2>1. Len(leaves) \in Nat /\ Len(leaves) \in 0..Len(leaves)
    BY SequenceShape
  <2>2. 1 \in 1..Len(Levels(leaves)[Len(leaves)])
    BY TopIsRoot
  <2> QED
    BY <1>3, <2>1, <2>2 DEF BuildRoot, InTree
<1>5. node[0] = LeafHash(h) /\ \A k \in 1..m : node[k] = Parent(node[k - 1], path[k])
  BY <1>1, <1>2 DEF IsClimb
<1> DEFINE odd == {j \in 0..m : ~InTree(node[m - j], leaves)}
<1>6. odd = {}
  <2> SUFFICES ASSUME odd # {} PROVE FALSE
    OBVIOUS
  <2>1. PICK j \in odd : \A i \in odd : j <= i
    <3>1. odd \in SUBSET Nat
      BY <1>1
    <3> HIDE DEF odd
    <3> QED
      BY <3>1, LeastNumber
  <2>2. j \in 0..m /\ ~InTree(node[m - j], leaves)
    OBVIOUS
  <2>3. j # 0
    BY <1>1, <1>4, <2>2
  <2>4. j - 1 \in 0..m /\ ~(j <= j - 1) /\ m - (j - 1) \in 1..m /\ (m - (j - 1)) - 1 = m - j
    BY <1>1, <2>2, <2>3
  <2>5. InTree(node[m - (j - 1)], leaves)
    BY <2>1, <2>4
  <2>6. node[m - (j - 1)] = Parent(node[m - j], path[m - (j - 1)])
    BY <1>5, <2>4
  <2>7. \E s : \/ node[m - (j - 1)] = Internal(s, node[m - j])
               \/ node[m - (j - 1)] = Internal(node[m - j], s)
    BY <2>6 DEF Parent
  <2>8. InTree(node[m - j], leaves)
    <3>1. PICK child, above : child = node[m - j] /\ above = node[m - (j - 1)]
      OBVIOUS
    <3>2. PICK s : above = Internal(s, child) \/ above = Internal(child, s)
      BY <2>7, <3>1
    <3>3. InTree(above, leaves)
      BY <2>5, <3>1
    <3> HIDE DEF odd, m
    <3>4. InTree(child, leaves)
      BY <3>2, <3>3, ChildrenOfTree
    <3> QED
      BY <3>1, <3>4
  <2> QED
    BY <2>2, <2>8
<1>7. InTree(node[0], leaves)
  <2>1. m \in 0..m /\ m - m = 0
    BY <1>1
  <2> QED
    BY <1>6, <2>1
<1> QED
  BY <1>5, <1>7, LeafOfTree

-----------------------------------------------------------------------------
(* The log.                                                                *)

\* The log after each of some calls of append().
IsChain(after, n, rows, actions, payloads) ==
    after = [k \in 0..n |->
               IF k = 0 THEN rows ELSE Appended(after[k - 1], actions[k], payloads[k])]

LEMMA ChainExists ==
    ASSUME NEW rows, NEW actions, NEW payloads, NEW n \in Nat
    PROVE  \E after : IsChain(after, n, rows, actions, payloads)
<1> DEFINE lacking == {k \in Nat : ~\E after : IsChain(after, k, rows, actions, payloads)}
<1> SUFFICES ASSUME lacking # {} PROVE FALSE
  OBVIOUS
<1>1. PICK k \in lacking : \A m \in lacking : k <= m
  <2>1. lacking \in SUBSET Nat
    OBVIOUS
  <2> HIDE DEF lacking
  <2> QED
    BY <2>1, LeastNumber
<1>2. k \in Nat /\ ~\E after : IsChain(after, k, rows, actions, payloads)
  OBVIOUS
<1>3. CASE k = 0
  <2> DEFINE after == [j \in 0..0 |-> rows]
  <2>1. IsChain(after, 0, rows, actions, payloads)
    BY DEF IsChain
  <2> QED
    BY <1>2, <1>3, <2>1
<1>4. CASE k # 0
  <2>1. k - 1 \in Nat /\ ~(k <= k - 1)
    BY <1>2, <1>4
  <2>2. PICK part : IsChain(part, k - 1, rows, actions, payloads)
    <3>1. k - 1 \notin lacking
      BY <1>1, <2>1
    <3> QED
      BY <2>1, <3>1
  <2> DEFINE after == [j \in 0..k |-> IF j = k THEN Appended(part[k - 1], actions[k], payloads[k]) ELSE part[j]]
  <2>3. \A j \in 0..k : after[j] = IF j = 0 THEN rows ELSE Appended(after[j - 1], actions[j], payloads[j])
    <3> SUFFICES ASSUME NEW j \in 0..k
                 PROVE  after[j] = IF j = 0 THEN rows ELSE Appended(after[j - 1], actions[j], payloads[j])
      OBVIOUS
    <3>1. CASE j = k
      BY <1>2, <1>4, <3>1
    <3>2. CASE j # k
      <4>1. part[j] = IF j = 0 THEN rows ELSE Appended(part[j - 1], actions[j], payloads[j])
        BY <1>2, <2>2, <3>2 DEF IsChain
      <4> QED
        BY <1>2, <3>2, <4>1
    <3> QED
      BY <3>1, <3>2
  <2>4. IsChain(after, k, rows, actions, payloads)
    BY <2>3 DEF IsChain
  <2> QED
    BY <1>2, <2>4
<1> QED
  BY <1>3, <1>4

LEMMA AppendedShape ==
    ASSUME NEW rows, IsSequence(rows), NEW action, NEW payload
    PROVE  /\ IsSequence(Appended(rows, action, payload))
           /\ Len(Appended(rows, action, payload)) = Len(rows) + 1
           /\ \A i \in 1..Len(rows) : Appended(rows, action, payload)[i] = rows[i]
           /\ \E prev : Appended(rows, action, payload)[Len(rows) + 1] = Row(prev, action, payload)
<1> DEFINE row == Row(PrevHash(rows, Len(rows) + 1), action, payload)
<1>1. Appended(rows, action, payload) = Append(rows, row)
  BY DEF Appended
<1>2. \E prev : row = Row(prev, action, payload)
  OBVIOUS
<1> HIDE DEF row
<1> QED
  BY <1>1, <1>2, AppendShape

(* append() for some actions leaves the rows that are there alone, and     *)
(* adds a row of each action with its payload.                             *)
LEMMA ChainedShape ==
    ASSUME NEW rows, IsSequence(rows), NEW actions, IsSequence(actions), NEW payloads
    PROVE  /\ IsSequence(Chained(rows, actions, payloads))
           /\ Len(Chained(rows, actions, payloads)) = Len(rows) + Len(actions)
           /\ \A i \in 1..Len(rows) : Chained(rows, actions, payloads)[i] = rows[i]
           /\ \A j \in 1..Len(actions) :
                \E prev : Chained(rows, actions, payloads)[Len(rows) + j]
                          = Row(prev, actions[j], payloads[j])
<1> DEFINE n == Len(actions)
           m == Len(rows)
           after == CHOOSE after : IsChain(after, n, rows, actions, payloads)
<1>1. n \in Nat /\ m \in Nat
  BY SequenceShape
<1>2. IsChain(after, n, rows, actions, payloads)
  BY <1>1, ChainExists
<1>3. Chained(rows, actions, payloads) = after[n]
  BY Zenon DEF Chained, IsChain
<1> HIDE DEF after
<1> DEFINE Shape(k) == /\ IsSequence(after[k])
                       /\ Len(after[k]) = m + k
                       /\ \A i \in 1..m : after[k][i] = rows[i]
                       /\ \A j \in 1..k : \E prev : after[k][m + j] = Row(prev, actions[j], payloads[j])
           odd == {k \in 0..n : ~Shape(k)}
<1>4. odd = {}
  <2> SUFFICES ASSUME odd # {} PROVE FALSE
    OBVIOUS
  <2>1. PICK k \in odd : \A i \in odd : k <= i
    <3>1. odd \in SUBSET Nat
      BY <1>1
    <3> HIDE DEF odd
    <3> QED
      BY <3>1, LeastNumber
  <2>2. k \in 0..n /\ ~Shape(k)
    OBVIOUS
  <2>3. CASE k = 0
    <3>1. after[0] = rows
      BY <1>1, <1>2 DEF IsChain
    <3>2. Shape(0)
      BY <1>1, <3>1
    <3> QED
      BY <2>2, <2>3, <3>2
  <2>4. CASE k # 0
    <3>1. k - 1 \in 0..n /\ ~(k <= k - 1) /\ k \in Nat
      BY <1>1, <2>2, <2>4
    <3>2. Shape(k - 1)
      <4> HIDE DEF Shape
      <4> QED
        BY <2>1, <3>1
    <3> DEFINE before == after[k - 1]
    <3>3. after[k] = Appended(before, actions[k], payloads[k])
      BY <1>2, <2>2, <2>4, Zenon DEF IsChain
    <3>4. /\ IsSequence(before) /\ Len(before) = m + (k - 1)
          /\ \A i \in 1..m : before[i] = rows[i]
          /\ \A j \in 1..(k - 1) : \E prev : before[m + j] = Row(prev, actions[j], payloads[j])
      BY <3>2
    <3> HIDE DEF before, m, n
    <3>5. /\ IsSequence(after[k]) /\ Len(after[k]) = Len(before) + 1
          /\ \A i \in 1..Len(before) : after[k][i] = before[i]
          /\ \E prev : after[k][Len(before) + 1] = Row(prev, actions[k], payloads[k])
      BY <3>3, <3>4, AppendedShape
    <3>6. Len(after[k]) = m + k /\ Len(before) + 1 = m + k
      BY <1>1, <3>1, <3>4, <3>5
    <3>7. \A i \in 1..m : i \in 1..Len(before)
      BY <1>1, <2>4, <3>1, <3>4
    <3>8. \A i \in 1..m : after[k][i] = rows[i]
      BY <3>4, <3>5, <3>7
    <3>9. ASSUME NEW j \in 1..k
          PROVE  \E prev : after[k][m + j] = Row(prev, actions[j], payloads[j])
      <4>1. CASE j = k
        BY <3>5, <3>6, <4>1
      <4>2. CASE j # k
        <5>1. j \in 1..(k - 1) /\ m + j \in 1..Len(before)
          BY <1>1, <3>1, <3>4, <4>2
        <5>2. after[k][m + j] = before[m + j]
          BY <3>5, <5>1
        <5> QED
          BY <3>4, <5>1, <5>2
      <4> QED
        BY <4>1, <4>2
    <3>10. Shape(k)
      BY <3>5, <3>6, <3>8, <3>9
    <3> QED
      BY <2>2, <3>10
  <2> QED
    BY <2>3, <2>4
<1>5. Shape(n)
  <2>1. n \in 0..n
    BY <1>1
  <2> HIDE DEF Shape
  <2> QED
    BY <1>4, <2>1
<1> QED
  BY <1>3, <1>5

-----------------------------------------------------------------------------
(* The inductive invariant.                                                *)

IsRow(row) ==
    row = [action |-> row.action, payload |-> row.payload, payloadHash |-> row.payloadHash,
           prev |-> row.prev, rowHash |-> row.rowHash]

IsAnchor(a) ==
    /\ a = [from |-> a.from, to |-> a.to, root |-> a.root, verified |-> a.verified]
    /\ a.from \in Nat /\ a.to \in Nat

\* What TypeOK leaves open.
SequencesOK ==
    /\ IsSequence(log) /\ \A i \in 1..Len(log) : IsRow(log[i]) /\ log[i].action \in Actions
    /\ IsSequence(anchors) /\ \A k \in 1..Len(anchors) : IsAnchor(anchors[k])

\* A block is recorded by its commit, and the log has a row of it from then on,
\* and one only.
InCommit(b, c) == \E i \in 1..Len(Commits[c]) : Commits[c][i] = b

RecordedOnce ==
    /\ \A b \in Blocks : truth[b] # NoValue => \E c \in 1..reached : InCommit(b, c)
    /\ \A i \in 1..Len(log) : log[i].action \in Blocks => truth[log[i].action] # NoValue
    /\ \A b \in Blocks : truth[b] # NoValue => \E i \in 1..Len(log) : log[i].action = b
    /\ \A i, j \in 1..Len(log) :
         log[i].action = log[j].action /\ log[i].action \in Blocks => i = j

\* The payload says what was recorded for the action.
Said(action, payload) ==
    action \in Blocks => /\ truth[action] # NoValue /\ payload[1] = truth[action]
                         /\ action = "lab" => payload[3] = judged

\* A row hash that commits to such a payload.
Meant(rowHash) ==
    \E prev, action, payload :
        rowHash = RowHash(prev, action, Digest(payload), payload) /\ Said(action, payload)

RowMeant(row) ==
    /\ row.rowHash = RowHash(row.prev, row.action, Digest(row.payload), row.payload)
    /\ Said(row.action, row.payload)

\* What no anchor covers yet nobody has edited.
UncoveredMeant == \A i \in 1..Len(log) : i >= FirstUncovered => RowMeant(log[i])

\* The root is that of a tree whose leaves are hashes of rows nobody had edited.
MeantLeaves(leaves, root) ==
    /\ IsSequence(leaves) /\ Len(leaves) >= 1 /\ root = BuildRoot(leaves)
    /\ \A i \in 1..Len(leaves) : \E h : leaves[i] = LeafHash(h) /\ Meant(h)

WitnessMeant == \A root \in witness : \E leaves : MeantLeaves(leaves, root)

\* Without an edit, the stage rows and the log say what was recorded, under the
\* rule set of the conformance row.
Untouched ==
    edits = 0 =>
        /\ stageRow = truth
        /\ truth["lab"] # NoValue => conformance # NoValue
        /\ \A i \in 1..Len(log) :
             LET row == log[i]
             IN  /\ row.action \in Blocks =>
                      row.payload = Payload(row.action, truth[row.action], conformance)
                 /\ row.payloadHash = Digest(row.payload)

RootBuilt(k) == anchors[k].root = BuildRoot(LeavesFor(anchors[k].from, anchors[k].to))

RootsBuilt == edits = 0 => \A k \in 1..Len(anchors) : RootBuilt(k)

\* What has been read of an answer that nothing disturbed is as the data are.
Snapshot ==
    /\ pc = "done" <=> Len(read) = Len(BlockOrder)
    /\ pc \in {"idle", "rows", "conformance"} => read = <<>>
    /\ quiet =>
         /\ pc # "idle" => entries = [i \in OwnIds |-> ProofEntry(i)]
         /\ pc \in {"conformance", "blocks", "done"} => recorded = [i \in OwnIds |-> log[i]]
         /\ pc \in {"blocks", "done"} => scored = conformance
         /\ \A k \in 1..Len(read) : read[k] = stageRow[BlockOrder[k]]

\* The conjuncts of TypeOK, apart: what a transition writes, the anchors, the
\* verdict, and the answer.
RowsTypeOK ==
    /\ reached \in 0..Len(Commits)
    /\ stageRow \in [Blocks -> Values \cup {NoValue}]
    /\ truth \in [Blocks -> Values \cup {NoValue}]
    /\ edits \in 0..MaxEdits

AnchorsFit ==
    \A k \in 1..Len(anchors) :
        /\ anchors[k].from = IF k = 1 THEN 1 ELSE anchors[k - 1].to + 1
        /\ anchors[k].from <= anchors[k].to /\ anchors[k].to <= Len(log)
        /\ anchors[k].root \in witness

VerdictTypeOK ==
    /\ conformance \in DOMAIN RULES \cup {NoValue} /\ default \in DOMAIN RULES
    /\ judged \in {"PASS", "FAIL", "INCOMPLETE", NoValue}

AnswerTypeOK ==
    /\ pc \in {"idle", "rows", "conformance", "blocks", "done"} /\ quiet \in BOOLEAN
    /\ scored \in DOMAIN RULES \cup {NoValue}
    /\ IsSequence(read) /\ Len(read) <= Len(BlockOrder)
    /\ DOMAIN entries \subseteq DOMAIN log /\ DOMAIN recorded \subseteq DOMAIN log

DataInv == SequencesOK /\ RecordedOnce /\ UncoveredMeant /\ WitnessMeant /\ Untouched /\ RootsBuilt

IInv ==
    /\ RowsTypeOK /\ AnchorsFit /\ VerdictTypeOK /\ AnswerTypeOK
    /\ DataInv
    /\ Snapshot /\ ProofsVerify

-----------------------------------------------------------------------------
(* Payloads and rows.                                                      *)

LEMMA PayloadSays ==
    ASSUME NEW action, NEW v, NEW version
    PROVE  /\ Payload(action, v, version)[1] = v
           /\ action = "lab" => Payload(action, v, version)[3] = Verdict(Panels[v], version)
<1>1. CASE action = "lab"
  <2>1. Payload(action, v, version) = <<v, version, Verdict(Panels[v], version)>>
    BY <1>1 DEF Payload
  <2> QED
    BY <2>1
<1>2. CASE action # "lab"
  BY <1>2 DEF Payload
<1> QED
  BY <1>1, <1>2

LEMMA DigestInjective ==
    ASSUME NEW p, NEW q, Digest(p) = Digest(q)
    PROVE  p = q
  BY DEF Digest

LEMMA RowHashInjective ==
    ASSUME NEW prev, NEW action, NEW digest, NEW payload,
           NEW prev2, NEW action2, NEW digest2, NEW payload2,
           RowHash(prev, action, digest, payload) = RowHash(prev2, action2, digest2, payload2)
    PROVE  action = action2 /\ payload = payload2
  BY DEF RowHash

LEMMA RowShape ==
    ASSUME NEW prev, NEW action, NEW payload, NEW row, row = Row(prev, action, payload)
    PROVE  /\ IsRow(row) /\ row.action = action /\ row.payload = payload
           /\ row.payloadHash = Digest(payload)
           /\ row.rowHash = RowHash(row.prev, row.action, Digest(row.payload), row.payload)
  BY DEF Row, IsRow

(* A tree whose leaves are not edited rows' holds no edited row: what      *)
(* verifies against its root is the hash of a row that says what was       *)
(* recorded.                                                               *)
LEMMA ProvenIsMeant ==
    ASSUME WitnessMeant, NEW h, NEW path, IsSequence(path), NEW root \in witness,
           VerifyInclusion(LeafHash(h), path, root)
    PROVE  Meant(h)
<1>1. PICK leaves : MeantLeaves(leaves, root)
  BY DEF WitnessMeant
<1>2. /\ IsSequence(leaves) /\ Len(leaves) >= 1 /\ root = BuildRoot(leaves)
      /\ \A i \in 1..Len(leaves) : \E g : leaves[i] = LeafHash(g) /\ Meant(g)
  BY <1>1 DEF MeantLeaves
<1>3. \A i \in 1..Len(leaves) : \E g : leaves[i] = LeafHash(g)
  BY <1>2
<1>4. PICK i \in 1..Len(leaves) : leaves[i] = LeafHash(h)
  BY <1>2, <1>3, OnlyLeavesVerify
<1>5. PICK g : leaves[i] = LeafHash(g) /\ Meant(g)
  BY <1>2
<1>6. g = h
  BY <1>4, <1>5, LeafHashInjective
<1> QED
  BY <1>5, <1>6

LEMMA MeantSays ==
    ASSUME NEW prev, NEW action, NEW digest, NEW payload,
           Meant(RowHash(prev, action, digest, payload))
    PROVE  Said(action, payload)
<1>1. PICK prev2, action2, payload2 :
        /\ RowHash(prev, action, digest, payload)
             = RowHash(prev2, action2, Digest(payload2), payload2)
        /\ Said(action2, payload2)
  BY DEF Meant
<1>2. action = action2 /\ payload = payload2
  BY <1>1, RowHashInjective
<1> QED
  BY <1>1, <1>2

-----------------------------------------------------------------------------
(* What the invariant says of an answer.                                   *)

LEMMA LogDomain ==
    ASSUME SequencesOK
    PROVE  DOMAIN log = 1..Len(log) /\ Len(log) \in Nat
  BY SequenceShape DEF SequencesOK

LEMMA BlockOrderShape ==
    /\ DOMAIN BlockOrder = 1..Len(BlockOrder) /\ Len(BlockOrder) \in Nat /\ Len(BlockOrder) >= 1
    /\ \A k \in 1..Len(BlockOrder) : BlockOrder[k] \in Blocks
    /\ \A b \in Blocks : \E k \in 1..Len(BlockOrder) : BlockOrder[k] = b
<1>1. BlockOrder \in Seq(Blocks)
  BY BlocksAssumption
<1>2. DOMAIN BlockOrder = 1..Len(BlockOrder) /\ Len(BlockOrder) \in Nat
  BY <1>1
<1>3. \A k \in 1..Len(BlockOrder) : BlockOrder[k] \in Blocks
  BY <1>1
<1>4. \A b \in Blocks : \E k \in 1..Len(BlockOrder) : BlockOrder[k] = b
  BY <1>2 DEF Blocks, ToSet
<1>5. Len(BlockOrder) # 0
  BY <1>4, BlocksAssumption
<1> QED
  BY <1>2, <1>3, <1>4, <1>5

LEMMA ShownIs ==
    ASSUME Snapshot, pc = "done", quiet, NEW b \in Blocks
    PROVE  Shown(b) = stageRow[b]
<1> DEFINE k == CHOOSE k \in DOMAIN BlockOrder : BlockOrder[k] = b
<1>1. k \in DOMAIN BlockOrder /\ BlockOrder[k] = b
  BY BlockOrderShape
<1>2. Shown(b) = read[k]
  BY DEF Shown
<1> HIDE DEF k
<1>3. k \in 1..Len(read)
  BY <1>1, BlockOrderShape DEF Snapshot
<1>4. \A j \in 1..Len(read) : read[j] = stageRow[BlockOrder[j]]
  BY DEF Snapshot
<1> QED
  BY <1>1, <1>2, <1>3, <1>4

\* The rows of a block in the log.
RowsOf(b) == {i \in 1..Len(log) : log[i].action = b}

LEMMA AnswerIs ==
    ASSUME Snapshot, SequencesOK, pc = "done", quiet
    PROVE  /\ entries = [i \in OwnIds |-> ProofEntry(i)]
           /\ recorded = [i \in OwnIds |-> log[i]]
           /\ scored = conformance
           /\ OwnIds = {i \in 1..Len(log) : log[i].action # "other"}
           /\ \A b \in Blocks : AuditRowsOf(b) = RowsOf(b)
<1>1. /\ entries = [i \in OwnIds |-> ProofEntry(i)]
      /\ recorded = [i \in OwnIds |-> log[i]]
      /\ scored = conformance
  BY DEF Snapshot
<1>2. OwnIds = {i \in 1..Len(log) : log[i].action # "other"}
  BY LogDomain DEF OwnIds
<1>3. ASSUME NEW b \in Blocks PROVE AuditRowsOf(b) = RowsOf(b)
  <2>1. b # "other"
    BY BlocksAssumption
  <2>2. DOMAIN recorded = OwnIds /\ \A i \in OwnIds : recorded[i] = log[i]
    BY <1>1
  <2>3. AuditRowsOf(b) = {i \in OwnIds : log[i].action = b}
    BY <2>2 DEF AuditRowsOf
  <2> QED
    BY <1>2, <2>1, <2>3 DEF RowsOf
<1> QED
  BY <1>1, <1>2, <1>3

(* There is at most one row of a block.                                    *)
LEMMA RowOfBlock ==
    ASSUME RecordedOnce, NEW b \in Blocks, NEW i \in RowsOf(b)
    PROVE  RowsOf(b) = {i}
<1>1. \A j \in RowsOf(b) : j = i
  BY DEF RecordedOnce, RowsOf
<1> QED
  BY <1>1

LEMMA InvImpliesHonestBlocksMatch == IInv => HonestBlocksMatch
<1> SUFFICES ASSUME IInv, pc = "done", quiet, edits = 0, NEW b \in Blocks
             PROVE  IF truth[b] = NoValue THEN NotReached(b)
                    ELSE Match(b) /\ Shown(b) = truth[b]
  BY DEF HonestBlocksMatch, Answered
<1>1. Snapshot /\ SequencesOK /\ RecordedOnce /\ Untouched
  BY DEF IInv, DataInv
<1>2. Shown(b) = truth[b]
  BY <1>1, ShownIs DEF Untouched
<1>3. AuditRowsOf(b) = RowsOf(b) /\ recorded = [i \in OwnIds |-> log[i]] /\ scored = conformance
      /\ OwnIds = {i \in 1..Len(log) : log[i].action # "other"}
  BY <1>1, AnswerIs
<1>4. CASE truth[b] = NoValue
  <2>1. RowsOf(b) = {}
    BY <1>1, <1>4 DEF RecordedOnce, RowsOf
  <2> QED
    BY <1>2, <1>3, <1>4, <2>1 DEF NotReached
<1>5. CASE truth[b] # NoValue
  <2>1. PICK i \in 1..Len(log) : log[i].action = b
    BY <1>1, <1>5 DEF RecordedOnce
  <2>2. RowsOf(b) = {i}
    BY <1>1, <2>1, RowOfBlock DEF RowsOf
  <2>3. log[i].payload = Payload(b, truth[b], conformance) /\ log[i].payloadHash = Digest(log[i].payload)
    BY <1>1, <2>1 DEF Untouched
  <2>4. i \in OwnIds /\ DOMAIN recorded = OwnIds /\ recorded[i] = log[i]
    BY <1>3, <2>1, BlocksAssumption
  <2>5. Recomputed(b) = recorded[i].payloadHash
    BY <1>2, <1>3, <2>3, <2>4 DEF Recomputed
  <2>6. b = "lab" => scored # NoValue
    BY <1>1, <1>3, <1>5 DEF Untouched
  <2>7. Match(b)
    BY <1>2, <1>3, <1>5, <2>2, <2>4, <2>5, <2>6 DEF Match
  <2> QED
    BY <1>2, <1>5, <2>7
<1> QED
  BY <1>4, <1>5

(* A proven block has its row, and what that row hashes to is what was     *)
(* recorded.                                                               *)
LEMMA LeavesForShape ==
    ASSUME NEW from \in Nat, NEW to \in Nat, from <= to
    PROVE  /\ IsSequence(LeavesFor(from, to)) /\ Len(LeavesFor(from, to)) = to - from + 1
           /\ \A i \in 1..(to - from + 1) :
                LeavesFor(from, to)[i] = LeafHash(log[from + i - 1].rowHash)
<1> DEFINE n == to - from + 1
<1>1. n \in Nat
  OBVIOUS
<1>2. LeavesFor(from, to) = [i \in 1..n |-> LeavesFor(from, to)[i]]
  BY DEF LeavesFor
<1>3. \A i \in 1..n : LeavesFor(from, to)[i] = LeafHash(log[from + i - 1].rowHash)
  BY DEF LeavesFor
<1> QED
  BY <1>1, <1>2, <1>3, FunctionIsSequence

LEMMA CoveringIs ==
    ASSUME SequencesOK, NEW i, Covering(i) # 0
    PROVE  /\ Covering(i) \in 1..Len(anchors)
           /\ anchors[Covering(i)].from <= i /\ i <= anchors[Covering(i)].to
<1>1. DOMAIN anchors = 1..Len(anchors)
  BY SequenceShape DEF SequencesOK
<1> QED
  BY <1>1 DEF Covering

(* The entry of a covered row carries the proof of the leaf of that row.   *)
LEMMA EntryOfCovered ==
    ASSUME SequencesOK, NEW i \in 1..Len(log), ProofEntry(i).status # "pending"
    PROVE  \E k \in 1..Len(anchors) :
             LET leaves == LeavesFor(anchors[k].from, anchors[k].to)
                 index == i - anchors[k].from + 1
             IN  /\ IsSequence(leaves) /\ index \in 1..Len(leaves)
                 /\ leaves[index] = LeafHash(log[i].rowHash)
                 /\ ProofEntry(i).path = InclusionProof(leaves, index)
                 /\ ProofEntry(i).root = anchors[k].root
<1> DEFINE k == Covering(i)
<1>1. k # 0
  BY DEF ProofEntry
<1>2. k \in 1..Len(anchors) /\ anchors[k].from <= i /\ i <= anchors[k].to
  BY <1>1, CoveringIs
<1>3. ProofEntry(i).path = InclusionProof(LeavesFor(anchors[k].from, anchors[k].to),
                                          i - anchors[k].from + 1)
      /\ ProofEntry(i).root = anchors[k].root
  BY <1>1 DEF ProofEntry
<1> HIDE DEF k
<1>4. anchors[k].from \in Nat /\ anchors[k].to \in Nat /\ i \in Nat
  <2>1. IsAnchor(anchors[k])
    BY <1>2 DEF SequencesOK
  <2>2. i \in Nat
    OBVIOUS
  <2> QED
    BY <2>1, <2>2 DEF IsAnchor
<1> DEFINE from == anchors[k].from
           to == anchors[k].to
           leaves == LeavesFor(from, to)
<1>5. i - from + 1 \in 1..(to - from + 1) /\ from + (i - from + 1) - 1 = i /\ from <= to
  <2>1. PICK a, b : a = from /\ b = to
    OBVIOUS
  <2>2. a \in Nat /\ b \in Nat /\ i \in Nat /\ a <= i /\ i <= b
    BY <1>2, <1>4, <2>1
  <2>3. i - a + 1 \in 1..(b - a + 1) /\ a + (i - a + 1) - 1 = i /\ a <= b
    BY <2>2
  <2> QED
    BY <2>1, <2>3
<1>6. IsSequence(leaves) /\ Len(leaves) = to - from + 1
      /\ leaves[i - from + 1] = LeafHash(log[from + (i - from + 1) - 1].rowHash)
  BY <1>4, <1>5, LeavesForShape
<1> QED
  BY <1>2, <1>3, <1>5, <1>6

LEMMA ProvenRow ==
    ASSUME IInv, pc = "done", quiet, NEW b \in Blocks, Proven(b)
    PROVE  \E i \in RowsOf(b) : Meant(log[i].rowHash)
<1>1. Snapshot /\ SequencesOK /\ WitnessMeant
  BY DEF IInv, DataInv
<1>2. entries = [i \in OwnIds |-> ProofEntry(i)] /\ OwnIds = {i \in 1..Len(log) : log[i].action # "other"}
  BY <1>1, AnswerIs
<1>3. PICK i \in OwnIds : /\ ProofEntry(i).action = b /\ ProofEntry(i).status # "pending"
                          /\ VerifyInclusion(LeafHash(ProofEntry(i).rowHash), ProofEntry(i).path,
                                             ProofEntry(i).root)
                          /\ ProofEntry(i).root \in witness
  BY <1>2 DEF Proven
<1>4. ProofEntry(i).action = log[i].action /\ ProofEntry(i).rowHash = log[i].rowHash
  BY DEF ProofEntry
<1>5. i \in RowsOf(b) /\ i \in 1..Len(log)
  BY <1>2, <1>3, <1>4 DEF RowsOf
<1>6. IsSequence(ProofEntry(i).path)
  BY <1>1, <1>3, <1>5, EntryOfCovered, EveryProofVerifies
<1>7. Meant(log[i].rowHash)
  BY <1>1, <1>3, <1>4, <1>6, ProvenIsMeant
<1> QED
  BY <1>5, <1>7

(* With a chain that verifies, so does the row itself.                     *)
LEMMA ProvenPayload ==
    ASSUME IInv, pc = "done", quiet, ChainOK, NEW b \in Blocks, Proven(b)
    PROVE  \E i \in 1..Len(log) : /\ RowsOf(b) = {i}
                                  /\ log[i].payloadHash = Digest(log[i].payload)
                                  /\ Said(b, log[i].payload)
<1>1. SequencesOK /\ RecordedOnce
  BY DEF IInv, DataInv
<1>2. PICK i \in RowsOf(b) : Meant(log[i].rowHash)
  BY ProvenRow
<1>3. i \in 1..Len(log) /\ log[i].action = b
  BY <1>2 DEF RowsOf
<1>4. log[i].payloadHash = Digest(log[i].payload)
      /\ log[i].rowHash = RowHash(log[i].prev, log[i].action, log[i].payloadHash, log[i].payload)
  BY <1>1, <1>3, LogDomain DEF ChainOK
<1>5. Said(b, log[i].payload)
  BY <1>2, <1>3, <1>4, MeantSays
<1> QED
  BY <1>1, <1>2, <1>3, <1>4, <1>5, RowOfBlock

LEMMA InvImpliesThreeWays == IInv => ThreeWaysShowEveryEdit
<1> SUFFICES ASSUME IInv, pc = "done", quiet, ChainOK, NEW b \in Blocks, Match(b), Proven(b)
             PROVE  Shown(b) = truth[b]
  BY DEF ThreeWaysShowEveryEdit, Answered
<1>1. Snapshot /\ SequencesOK
  BY DEF IInv, DataInv
<1>2. PICK i \in 1..Len(log) : /\ RowsOf(b) = {i}
                               /\ log[i].payloadHash = Digest(log[i].payload)
                               /\ Said(b, log[i].payload)
  BY ProvenPayload
<1>3. AuditRowsOf(b) = {i} /\ recorded = [j \in OwnIds |-> log[j]]
  BY <1>1, <1>2, AnswerIs
<1>4. PICK j \in DOMAIN recorded : AuditRowsOf(b) = {j} /\ Recomputed(b) = recorded[j].payloadHash
  BY DEF Match
<1>5. j = i /\ recorded[j] = log[i]
  BY <1>3, <1>4
<1>6. Payload(b, Shown(b), scored) = log[i].payload
  BY <1>2, <1>4, <1>5, DigestInjective DEF Recomputed
<1>7. log[i].payload[1] = Shown(b)
  BY <1>6, PayloadSays
<1> QED
  BY <1>2, <1>7 DEF Said

LEMMA InvImpliesConformance == IInv => ConformanceIsWitnessed
<1> SUFFICES ASSUME IInv, pc = "done", quiet, ChainOK, Proven("lab"), Conformance # NoValue
             PROVE  Conformance = judged
  BY DEF ConformanceIsWitnessed, Answered
<1>1. Snapshot /\ SequencesOK /\ "lab" \in Blocks
  BY BlocksAssumption DEF IInv, DataInv
<1>2. PICK i \in 1..Len(log) : RowsOf("lab") = {i} /\ Said("lab", log[i].payload)
  BY <1>1, ProvenPayload
<1>3. AuditRowsOf("lab") = {i} /\ recorded = [j \in OwnIds |-> log[j]]
  BY <1>1, <1>2, AnswerIs
<1> DEFINE j == CHOOSE j \in DOMAIN recorded : AuditRowsOf("lab") = {j}
<1>4. Conformance = recorded[j].payload[3] /\ \E m \in DOMAIN recorded : AuditRowsOf("lab") = {m}
  BY DEF Conformance
<1>5. j \in DOMAIN recorded /\ AuditRowsOf("lab") = {j}
  BY <1>4
<1>6. recorded[j] = log[i]
  BY <1>3, <1>5
<1> QED
  BY <1>1, <1>2, <1>4, <1>6 DEF Said

LEMMA InvImpliesTypeOK == IInv => TypeOK
<1> SUFFICES ASSUME IInv PROVE TypeOK
  OBVIOUS
<1>1. DOMAIN anchors = 1..Len(anchors)
  BY SequenceShape DEF IInv, DataInv, SequencesOK
<1>2. AnchorsFit
  BY DEF IInv
<1>3. \A k \in DOMAIN anchors :
        /\ anchors[k].from = IF k = 1 THEN 1 ELSE anchors[k - 1].to + 1
        /\ anchors[k].from <= anchors[k].to /\ anchors[k].to <= Len(log)
        /\ anchors[k].root \in witness
  BY <1>1, <1>2, Zenon DEF AnchorsFit
<1>4. RowsTypeOK /\ VerdictTypeOK /\ AnswerTypeOK
  BY DEF IInv
<1> QED
  BY <1>3, <1>4, Zenon DEF TypeOK, RowsTypeOK, VerdictTypeOK, AnswerTypeOK

-----------------------------------------------------------------------------
(* The invariant holds initially.                                          *)

LEMMA DefaultIsARule == DEFAULT_RULE_SET \in DOMAIN RULES
  BY DEF DEFAULT_RULE_SET, RULES

LEMMA InvInit == Init => IInv
<1> SUFFICES ASSUME Init PROVE IInv
  OBVIOUS
<1>1. /\ reached = 0
      /\ stageRow = [b \in Blocks |-> NoValue]
      /\ conformance = NoValue /\ default = DEFAULT_RULE_SET
      /\ log = <<>> /\ anchors = <<>> /\ witness = {}
      /\ truth = [b \in Blocks |-> NoValue] /\ judged = NoValue
      /\ edits = 0
      /\ pc = "idle"
      /\ entries = <<>> /\ recorded = <<>> /\ scored = NoValue /\ read = <<>>
      /\ quiet = TRUE
  BY DEF Init
<1>2. IsSequence(log) /\ Len(log) = 0 /\ IsSequence(anchors) /\ Len(anchors) = 0
      /\ IsSequence(read) /\ Len(read) = 0
  BY <1>1, EmptyIsSequence
<1>3. Len(Commits) \in Nat
  BY CommitsAssumption
<1>4. RowsTypeOK
  BY <1>1, <1>3, BoundsAssumption DEF RowsTypeOK
<1>5. AnchorsFit
  BY <1>2 DEF AnchorsFit
<1>6. VerdictTypeOK
  BY <1>1, DefaultIsARule DEF VerdictTypeOK
<1>7. AnswerTypeOK
  <2>1. Len(read) <= Len(BlockOrder)
    BY <1>2, BlockOrderShape
  <2>2. pc \in {"idle", "rows", "conformance", "blocks", "done"} /\ quiet \in BOOLEAN
        /\ scored \in DOMAIN RULES \cup {NoValue}
    BY <1>1
  <2>3. entries = log /\ recorded = log
    BY <1>1
  <2> QED
    BY <1>2, <2>1, <2>2, <2>3 DEF AnswerTypeOK
<1>8. SequencesOK
  BY <1>2 DEF SequencesOK
<1>9. RecordedOnce
  <2>1. \A b \in Blocks : truth[b] = NoValue
    BY <1>1
  <2> QED
    BY <1>2, <2>1 DEF RecordedOnce
<1>10. UncoveredMeant
  BY <1>2 DEF UncoveredMeant
<1>11. WitnessMeant
  BY <1>1 DEF WitnessMeant
<1>12. Untouched
  <2>1. stageRow = truth /\ truth["lab"] = NoValue
    BY <1>1, BlocksAssumption
  <2> QED
    BY <1>2, <2>1 DEF Untouched
<1>13. RootsBuilt
  BY <1>2 DEF RootsBuilt
<1>14. Snapshot
  <2>1. Len(read) # Len(BlockOrder)
    BY <1>2, BlockOrderShape
  <2> QED
    BY <1>1, <1>2, <2>1 DEF Snapshot
<1>15. ProofsVerify
  <2>1. DOMAIN entries = {}
    <3>1. DOMAIN log = 1..0
      BY <1>2, SequenceShape
    <3> QED
      BY <1>1, <3>1
  <2> QED
    BY <2>1 DEF ProofsVerify
<1> QED
  BY <1>4, <1>5, <1>6, <1>7, <1>8, <1>9, <1>10, <1>11, <1>12, <1>13, <1>14, <1>15 DEF IInv, DataInv

-----------------------------------------------------------------------------
(* The steps that change the data.                                         *)

(* An answer in progress: nothing of it changes but that it is no longer   *)
(* of the data as they are.                                                *)
LEMMA DisturbedAnswer ==
    ASSUME IInv, Disturbs, edits' = 0 => edits = 0, DOMAIN log \subseteq DOMAIN log'
    PROVE  AnswerTypeOK' /\ Snapshot' /\ ProofsVerify'
<1>1. /\ pc # "done" /\ pc' = pc /\ quiet' = (pc = "idle")
      /\ entries' = entries /\ recorded' = recorded /\ scored' = scored /\ read' = read
  BY DEF Disturbs, answer
<1>2. AnswerTypeOK'
  <2>1. AnswerTypeOK
    BY DEF IInv
  <2>2. quiet' \in BOOLEAN
    BY <1>1
  <2>3. pc' \in {"idle", "rows", "conformance", "blocks", "done"} /\ scored' \in DOMAIN RULES \cup {NoValue}
    BY <1>1, <2>1 DEF AnswerTypeOK
  <2>4. IsSequence(read') /\ Len(read') <= Len(BlockOrder)
    BY <1>1, <2>1 DEF AnswerTypeOK
  <2>5. DOMAIN entries' \subseteq DOMAIN log' /\ DOMAIN recorded' \subseteq DOMAIN log'
    BY <1>1, <2>1 DEF AnswerTypeOK
  <2> QED
    BY <2>2, <2>3, <2>4, <2>5 DEF AnswerTypeOK
<1>3. Snapshot'
  <2>1. Snapshot
    BY DEF IInv
  <2>2. (pc' = "done" <=> Len(read') = Len(BlockOrder))
        /\ (pc' \in {"idle", "rows", "conformance"} => read' = <<>>)
    BY <1>1, <2>1 DEF Snapshot
  <2>3. quiet' => pc' = "idle"
    BY <1>1
  <2>4. quiet' => 1..Len(read') = {}
    BY <2>2, <2>3, EmptyIsSequence
  <2> QED
    BY <2>2, <2>3, <2>4 DEF Snapshot
<1>4. ProofsVerify'
  <2>1. ProofsVerify
    BY DEF IInv
  <2> QED
    BY <1>1, <2>1 DEF ProofsVerify
<1> QED
  BY <1>2, <1>3, <1>4

\* What was recorded stays recorded.
TruthStays ==
    /\ \A b \in Blocks : truth[b] # NoValue => truth'[b] = truth[b]
    /\ truth["lab"] # NoValue => judged' = judged

LEMMA SaidStays ==
    ASSUME TruthStays, NEW action, NEW payload, Said(action, payload)
    PROVE  Said(action, payload)'
  BY DEF TruthStays, Said

LEMMA MeantStays ==
    ASSUME TruthStays, NEW h, Meant(h)
    PROVE  Meant(h)'
<1>1. PICK prev, action, payload : /\ h = RowHash(prev, action, Digest(payload), payload)
                                   /\ Said(action, payload)
  BY DEF Meant
<1>2. Said(action, payload)'
  BY <1>1, SaidStays
<1> QED
  BY <1>1, <1>2 DEF Meant

LEMMA MeantLeavesStay ==
    ASSUME TruthStays, NEW leaves, NEW root, MeantLeaves(leaves, root)
    PROVE  MeantLeaves(leaves, root)'
<1>1. ASSUME NEW i \in 1..Len(leaves) PROVE \E h : leaves[i] = LeafHash(h) /\ Meant(h)'
  <2>1. PICK h : leaves[i] = LeafHash(h) /\ Meant(h)
    BY DEF MeantLeaves
  <2> QED
    BY <2>1, MeantStays
<1> QED
  BY <1>1 DEF MeantLeaves

LEMMA WitnessStays ==
    ASSUME WitnessMeant, TruthStays, witness' = witness
    PROVE  WitnessMeant'
<1> SUFFICES ASSUME NEW root \in witness PROVE \E leaves : MeantLeaves(leaves, root)'
  BY DEF WitnessMeant
<1>1. PICK leaves : MeantLeaves(leaves, root)
  BY DEF WitnessMeant
<1> QED
  BY <1>1, MeantLeavesStay

\* Rows are added at the end of the log.
Grows ==
    /\ IsSequence(log') /\ Len(log') >= Len(log)
    /\ \A i \in 1..Len(log) : log'[i] = log[i]
    /\ \A i \in 1..Len(log') : i > Len(log) => IsRow(log'[i]) /\ log'[i].action \in Actions

LEMMA GrowsTypes ==
    ASSUME SequencesOK, Grows, anchors' = anchors
    PROVE  SequencesOK' /\ DOMAIN log \subseteq DOMAIN log' /\ FirstUncovered' = FirstUncovered
<1>1. Len(log) \in Nat /\ Len(log') \in Nat /\ DOMAIN log = 1..Len(log) /\ DOMAIN log' = 1..Len(log')
  BY SequenceShape DEF SequencesOK, Grows
<1>2. ASSUME NEW i \in 1..Len(log') PROVE IsRow(log'[i]) /\ log'[i].action \in Actions
  <2>1. CASE i > Len(log)
    BY <2>1 DEF Grows
  <2>2. CASE ~(i > Len(log))
    <3>1. i \in 1..Len(log)
      BY <1>1, <2>2
    <3>2. log'[i] = log[i]
      BY <3>1 DEF Grows
    <3>3. IsRow(log[i]) /\ log[i].action \in Actions
      BY <3>1 DEF SequencesOK
    <3> QED
      BY <3>2, <3>3
  <2> QED
    BY <2>1, <2>2
<1>3. IsSequence(log') /\ IsSequence(anchors') /\ \A k \in 1..Len(anchors') : IsAnchor(anchors'[k])
  BY DEF Grows, SequencesOK
<1>4. SequencesOK'
  BY <1>2, <1>3 DEF SequencesOK
<1>5. DOMAIN log \subseteq DOMAIN log'
  BY <1>1 DEF Grows
<1>6. FirstUncovered' = FirstUncovered
  BY DEF FirstUncovered
<1> QED
  BY <1>4, <1>5, <1>6

(* Every anchored range is within the log.                                 *)
LEMMA AnchorRange ==
    ASSUME SequencesOK, AnchorsFit, NEW k \in 1..Len(anchors)
    PROVE  /\ anchors[k].from \in Nat /\ anchors[k].to \in Nat
           /\ anchors[k].from <= anchors[k].to /\ anchors[k].to <= Len(log)
<1>1. IsAnchor(anchors[k])
  BY DEF SequencesOK
<1>2. anchors[k].from <= anchors[k].to /\ anchors[k].to <= Len(log)
  BY DEF AnchorsFit
<1> QED
  BY <1>1, <1>2 DEF IsAnchor

LEMMA AnchorStartsAtOne ==
    ASSUME SequencesOK, AnchorsFit
    PROVE  \A k \in 1..Len(anchors) : anchors[k].from >= 1
<1> SUFFICES ASSUME NEW k \in 1..Len(anchors) PROVE anchors[k].from >= 1
  OBVIOUS
<1>1. Len(anchors) \in Nat
  BY SequenceShape DEF SequencesOK
<1>2. anchors[k].from = IF k = 1 THEN 1 ELSE anchors[k - 1].to + 1
  BY DEF AnchorsFit
<1>3. CASE k = 1
  BY <1>2, <1>3
<1>4. CASE k # 1
  <2>1. k - 1 \in 1..Len(anchors)
    BY <1>1, <1>4
  <2>2. anchors[k - 1].to \in Nat
    BY <2>1, AnchorRange
  <2> QED
    BY <1>2, <1>4, <2>2
<1> QED
  BY <1>3, <1>4

(* The leaves of an anchored range stay when the log grows.                *)
LEMMA LeavesStay ==
    ASSUME SequencesOK, Grows, NEW from \in Nat, NEW to \in Nat, from >= 1, to <= Len(log)
    PROVE  LeavesFor(from, to)' = LeavesFor(from, to)
<1>1. Len(log) \in Nat
  BY LogDomain
<1>2. ASSUME NEW i \in 1..(to - from + 1) PROVE log'[from + i - 1] = log[from + i - 1]
  <2>1. from + i - 1 \in 1..Len(log)
    BY <1>1
  <2> QED
    BY <2>1 DEF Grows
<1> QED
  BY <1>2 DEF LeavesFor

LEMMA GrowsKeepsAnchors ==
    ASSUME SequencesOK, AnchorsFit, RootsBuilt, Grows,
           anchors' = anchors, witness' = witness, edits' = edits
    PROVE  AnchorsFit' /\ RootsBuilt'
<1>1. Len(log) \in Nat /\ Len(log') \in Nat /\ Len(log') >= Len(log)
  BY SequenceShape DEF SequencesOK, Grows
<1>2. ASSUME NEW k \in 1..Len(anchors)
      PROVE  /\ anchors[k].from = IF k = 1 THEN 1 ELSE anchors[k - 1].to + 1
             /\ anchors[k].from <= anchors[k].to /\ anchors[k].to <= Len(log')
             /\ anchors[k].root \in witness
  <2>1. anchors[k].to \in Nat /\ anchors[k].to <= Len(log)
    BY AnchorRange
  <2>2. anchors[k].to <= Len(log')
    BY <1>1, <2>1
  <2> QED
    BY <2>2 DEF AnchorsFit
<1>3. AnchorsFit'
  BY <1>2, Zenon DEF AnchorsFit
<1>4. ASSUME edits = 0, NEW k \in 1..Len(anchors) PROVE RootBuilt(k)'
  <2>1. anchors[k].from \in Nat /\ anchors[k].to \in Nat /\ anchors[k].to <= Len(log)
        /\ anchors[k].from >= 1
    BY AnchorRange, AnchorStartsAtOne
  <2>2. RootBuilt(k)
    BY <1>4 DEF RootsBuilt
  <2>3. PICK from \in Nat, to \in Nat : from = anchors[k].from /\ to = anchors[k].to
    BY <2>1
  <2>4. LeavesFor(from, to)' = LeavesFor(from, to)
    BY <2>1, <2>3, LeavesStay
  <2>5. anchors[k].root = BuildRoot(LeavesFor(from, to))
    BY <2>2, <2>3 DEF RootBuilt
  <2>6. anchors'[k].root = BuildRoot(LeavesFor(from, to)')
    BY <2>4, <2>5
  <2>7. anchors'[k].from = from /\ anchors'[k].to = to
    BY <2>3
  <2> QED
    BY <2>6, <2>7 DEF RootBuilt, LeavesFor
<1> QED
  BY <1>3, <1>4 DEF RootsBuilt

LEMMA RowMeantStays ==
    ASSUME TruthStays, NEW row, RowMeant(row)
    PROVE  RowMeant(row)'
  BY SaidStays DEF RowMeant

LEMMA GrowsKeepsMeant ==
    ASSUME SequencesOK, UncoveredMeant, TruthStays, Grows, anchors' = anchors,
           \A i \in 1..Len(log') : i > Len(log) => \E row : row = log'[i] /\ RowMeant(row)'
    PROVE  UncoveredMeant'
<1>1. Len(log) \in Nat /\ Len(log') \in Nat
  BY SequenceShape DEF SequencesOK, Grows
<1>2. FirstUncovered' = FirstUncovered
  BY GrowsTypes
<1>3. ASSUME NEW i \in 1..Len(log'), i >= FirstUncovered
      PROVE  \E row : row = log'[i] /\ RowMeant(row)'
  <2>1. CASE ~(i > Len(log))
    <3>1. i \in 1..Len(log)
      BY <1>1, <2>1
    <3>2. log'[i] = log[i]
      BY <3>1 DEF Grows
    <3>3. RowMeant(log[i])
      BY <1>3, <3>1 DEF UncoveredMeant
    <3>4. PICK row : row = log[i]
      OBVIOUS
    <3>5. RowMeant(row)'
      BY <3>3, <3>4, RowMeantStays
    <3> QED
      BY <3>2, <3>4, <3>5
  <2> QED
    BY <2>1
<1>4. ASSUME NEW i \in 1..Len(log'), i >= FirstUncovered PROVE RowMeant(log[i])'
  <2>1. PICK row : row = log'[i] /\ RowMeant(row)'
    BY <1>3, <1>4
  <2> QED
    BY <2>1 DEF RowMeant
<1> QED
  BY <1>2, <1>4 DEF UncoveredMeant

(* Another subject's row.                                                  *)
LEMMA OtherRowInv ==
    ASSUME IInv, OtherRow
    PROVE  IInv'
<1>1. /\ SequencesOK /\ RecordedOnce /\ UncoveredMeant /\ WitnessMeant /\ Untouched /\ RootsBuilt
      /\ RowsTypeOK /\ AnchorsFit /\ VerdictTypeOK
  BY DEF IInv, DataInv
<1>2. /\ log' = Appended(log, "other", <<>>) /\ Disturbs
      /\ reached' = reached /\ stageRow' = stageRow /\ conformance' = conformance
      /\ default' = default /\ anchors' = anchors /\ witness' = witness /\ truth' = truth
      /\ judged' = judged /\ edits' = edits
  BY DEF OtherRow
<1>3. IsSequence(log) /\ Len(log) \in Nat
  BY <1>1, LogDomain DEF SequencesOK
<1>4. /\ IsSequence(log') /\ Len(log') = Len(log) + 1
      /\ \A i \in 1..Len(log) : log'[i] = log[i]
      /\ \E prev : log'[Len(log) + 1] = Row(prev, "other", <<>>)
  BY <1>2, <1>3, AppendedShape
<1>5. PICK row : /\ row = log'[Len(log) + 1] /\ IsRow(row) /\ row.action = "other"
                 /\ row.payloadHash = Digest(row.payload)
                 /\ row.rowHash = RowHash(row.prev, row.action, Digest(row.payload), row.payload)
  BY <1>4, RowShape
<1>6. \A i \in 1..Len(log') : i \in 1..Len(log) \/ i = Len(log) + 1
  BY <1>3, <1>4
<1>7. "other" \in Actions /\ "other" \notin Blocks
  BY BlocksAssumption DEF Actions
<1>8. Grows
  <2>1. \A i \in 1..Len(log') : i > Len(log) => i = Len(log) + 1
    BY <1>3, <1>4
  <2> QED
    BY <1>3, <1>4, <1>5, <1>7, <2>1 DEF Grows
<1>9. TruthStays
  BY <1>2 DEF TruthStays
<1>10. SequencesOK' /\ DOMAIN log \subseteq DOMAIN log' /\ FirstUncovered' = FirstUncovered
  BY <1>1, <1>2, <1>8, GrowsTypes
<1>11. AnchorsFit' /\ RootsBuilt'
  BY <1>1, <1>2, <1>8, GrowsKeepsAnchors
<1>12. WitnessMeant'
  BY <1>1, <1>2, <1>9, WitnessStays
<1>13. UncoveredMeant'
  <2>1. RowMeant(row)'
    BY <1>5, <1>7 DEF RowMeant, Said
  <2>2. \A i \in 1..Len(log') : i > Len(log) => i = Len(log) + 1
    BY <1>3, <1>4
  <2> QED
    BY <1>1, <1>2, <1>5, <1>8, <1>9, <2>1, <2>2, GrowsKeepsMeant
<1>14. AnswerTypeOK' /\ Snapshot' /\ ProofsVerify'
  BY <1>2, <1>10, DisturbedAnswer
<1>15. RowsTypeOK' /\ VerdictTypeOK'
  BY <1>1, <1>2 DEF RowsTypeOK, VerdictTypeOK
<1>16. RecordedOnce'
  <2>1. \A b \in Blocks : truth'[b] # NoValue => \E c \in 1..reached' : InCommit(b, c)
    BY <1>1, <1>2 DEF RecordedOnce
  <2>2. \A i \in 1..Len(log') : log'[i].action \in Blocks => i \in 1..Len(log)
    BY <1>5, <1>6, <1>7
  <2>3. \A i \in 1..Len(log') : log'[i].action \in Blocks => truth'[log'[i].action] # NoValue
    BY <1>1, <1>2, <1>4, <2>2 DEF RecordedOnce
  <2>4. \A i \in 1..Len(log) : i \in 1..Len(log')
    BY <1>3, <1>4
  <2>5. \A b \in Blocks : truth'[b] # NoValue => \E i \in 1..Len(log') : log'[i].action = b
    BY <1>1, <1>2, <1>4, <2>4 DEF RecordedOnce
  <2>6. \A i, j \in 1..Len(log') :
          log'[i].action = log'[j].action /\ log'[i].action \in Blocks => i = j
    BY <1>1, <1>4, <2>2 DEF RecordedOnce
  <2> QED
    BY <2>1, <2>3, <2>5, <2>6 DEF RecordedOnce, InCommit
<1>17. Untouched'
  <2> SUFFICES ASSUME edits' = 0 PROVE
        /\ stageRow' = truth'
        /\ truth'["lab"] # NoValue => conformance' # NoValue
        /\ \A i \in 1..Len(log') :
             /\ log'[i].action \in Blocks =>
                  log'[i].payload = Payload(log'[i].action, truth'[log'[i].action], conformance')
             /\ log'[i].payloadHash = Digest(log'[i].payload)
    BY DEF Untouched
  <2>1. /\ stageRow = truth
        /\ truth["lab"] # NoValue => conformance # NoValue
        /\ \A i \in 1..Len(log) :
             /\ log[i].action \in Blocks =>
                  log[i].payload = Payload(log[i].action, truth[log[i].action], conformance)
             /\ log[i].payloadHash = Digest(log[i].payload)
    BY <1>1, <1>2 DEF Untouched
  <2>2. ASSUME NEW i \in 1..Len(log')
        PROVE  /\ log'[i].action \in Blocks =>
                    log'[i].payload = Payload(log'[i].action, truth'[log'[i].action], conformance')
               /\ log'[i].payloadHash = Digest(log'[i].payload)
    <3>1. CASE i \in 1..Len(log)
      <4>1. log'[i] = log[i]
        BY <1>4, <3>1
      <4> QED
        BY <1>2, <2>1, <3>1, <4>1
    <3>2. CASE i = Len(log) + 1
      BY <1>5, <1>7, <3>2
    <3> QED
      BY <1>6, <3>1, <3>2
  <2> QED
    BY <1>2, <2>1, <2>2
<1> QED
  BY <1>10, <1>11, <1>12, <1>13, <1>14, <1>15, <1>16, <1>17 DEF IInv, DataInv

(* A commit of the lifecycle.                                              *)
CommitShape(c) == IsSequence(Commits[c]) /\ \A i \in 1..Len(Commits[c]) : Commits[c][i] \in Actions

LEMMA CommitsShape ==
    /\ Len(Commits) \in Nat
    /\ \A c \in 1..Len(Commits) : CommitShape(c)
    /\ \A c, d \in 1..Len(Commits) :
         \A i \in 1..Len(Commits[c]), j \in 1..Len(Commits[d]) :
             Commits[c][i] = Commits[d][j] => c = d /\ i = j
<1> DEFINE S == Seq(Blocks \cup {"created"})
<1>1. Commits \in Seq(S)
  BY CommitsAssumption
<1> HIDE DEF S
<1>2. Len(Commits) \in Nat /\ DOMAIN Commits = 1..Len(Commits)
      /\ \A c \in 1..Len(Commits) : Commits[c] \in S
  BY <1>1
<1>3. ASSUME NEW c \in 1..Len(Commits)
      PROVE  CommitShape(c) /\ DOMAIN Commits[c] = 1..Len(Commits[c])
  <2>1. Commits[c] \in Seq(Blocks \cup {"created"})
    BY <1>2 DEF S
  <2>2. DOMAIN Commits[c] = 1..Len(Commits[c])
        /\ \A i \in 1..Len(Commits[c]) : Commits[c][i] \in Blocks \cup {"created"}
    BY <2>1
  <2>3. IsSequence(Commits[c])
    BY <2>1 DEF IsSequence
  <2> QED
    BY <2>2, <2>3 DEF CommitShape, Actions
<1>4. \A c, d \in 1..Len(Commits) :
        \A i \in 1..Len(Commits[c]), j \in 1..Len(Commits[d]) :
            Commits[c][i] = Commits[d][j] => c = d /\ i = j
  <2> SUFFICES ASSUME NEW c \in 1..Len(Commits), NEW d \in 1..Len(Commits),
                      NEW i \in 1..Len(Commits[c]), NEW j \in 1..Len(Commits[d]),
                      Commits[c][i] = Commits[d][j]
               PROVE  c = d /\ i = j
    BY Zenon
  <2>1. c \in DOMAIN Commits /\ d \in DOMAIN Commits
    BY <1>2
  <2>2. i \in DOMAIN Commits[c] /\ j \in DOMAIN Commits[d]
    BY <1>3
  <2> QED
    BY <2>1, <2>2, CommitsAssumption, Zenon
<1> QED
  BY <1>2, <1>3, <1>4

LEMMA CommitOnce ==
    ASSUME NEW b, NEW c \in 1..Len(Commits), NEW d \in 1..Len(Commits),
           InCommit(b, c), InCommit(b, d)
    PROVE  c = d
  BY CommitsShape DEF InCommit

\* What the transition to the next commit does with the value v.
Records(v) ==
    LET c == reached + 1
        write(b, old) == IF InCommit(b, c) THEN v ELSE old
    IN  /\ c \in 1..Len(Commits) /\ reached' = c
        /\ stageRow' = [b \in Blocks |-> write(b, stageRow[b])]
        /\ truth' = [b \in Blocks |-> write(b, truth[b])]
        /\ IF InCommit("lab", c)
           THEN conformance' = default /\ judged' = Verdict(Panels[v], default)
           ELSE conformance' = conformance /\ judged' = judged
        /\ IsSequence(log') /\ Len(log') = Len(log) + Len(Commits[c])
        /\ \A i \in 1..Len(log) : log'[i] = log[i]
        /\ \A j \in 1..Len(Commits[c]) :
             \E prev : log'[Len(log) + j]
                       = Row(prev, Commits[c][j], Payload(Commits[c][j], v, default))

LEMMA TransitionRecords ==
    ASSUME IInv, Transition
    PROVE  \E v \in Values : Records(v)
<1> DEFINE c == reached + 1
           actions == Commits[c]
<1>1. reached \in 0..Len(Commits) /\ SequencesOK
  BY DEF IInv, RowsTypeOK, DataInv
<1>2. reached < Len(Commits) /\ reached' = reached + 1
  BY DEF Transition
<1>3. c \in 1..Len(Commits)
  BY <1>1, <1>2, CommitsShape
<1>4. IsSequence(actions) /\ DOMAIN actions = 1..Len(actions)
  BY <1>3, CommitsShape, SequenceShape DEF CommitShape
<1>5. \A b : b \in ToSet(actions) <=> InCommit(b, c)
  BY <1>4 DEF ToSet, InCommit
<1>6. PICK v \in Values :
        LET write(b, old) == IF b \in ToSet(actions) THEN v ELSE old
        IN  /\ stageRow' = [b \in Blocks |-> write(b, stageRow[b])]
            /\ truth' = [b \in Blocks |-> write(b, truth[b])]
            /\ IF "lab" \in ToSet(actions)
               THEN conformance' = default /\ judged' = Verdict(Panels[v], default)
               ELSE UNCHANGED <<conformance, judged>>
            /\ log' = Chained(log, actions,
                              [k \in DOMAIN actions |-> Payload(actions[k], v, default)])
  BY DEF Transition
<1> DEFINE payloads == [k \in DOMAIN actions |-> Payload(actions[k], v, default)]
<1>7. \A j \in 1..Len(actions) : payloads[j] = Payload(actions[j], v, default)
  BY <1>4
<1>8. log' = Chained(log, actions, payloads)
  BY <1>6
<1> HIDE DEF payloads
<1>9. /\ IsSequence(log') /\ Len(log') = Len(log) + Len(actions)
      /\ \A i \in 1..Len(log) : log'[i] = log[i]
      /\ \A j \in 1..Len(actions) : \E prev : log'[Len(log) + j] = Row(prev, actions[j], payloads[j])
  <2>1. IsSequence(log)
    BY <1>1 DEF SequencesOK
  <2> HIDE DEF c
  <2>2. PICK rows, acts, pays : rows = log /\ acts = actions /\ pays = payloads
    OBVIOUS
  <2>3. IsSequence(rows) /\ IsSequence(acts)
    BY <1>4, <2>1, <2>2
  <2>4. /\ IsSequence(Chained(rows, acts, pays))
        /\ Len(Chained(rows, acts, pays)) = Len(rows) + Len(acts)
        /\ \A i \in 1..Len(rows) : Chained(rows, acts, pays)[i] = rows[i]
        /\ \A j \in 1..Len(acts) :
             \E prev : Chained(rows, acts, pays)[Len(rows) + j] = Row(prev, acts[j], pays[j])
    BY <2>3, ChainedShape
  <2> QED
    BY <1>8, <2>2, <2>4
<1>10. \A j \in 1..Len(actions) :
         \E prev : log'[Len(log) + j] = Row(prev, actions[j], Payload(actions[j], v, default))
  BY <1>7, <1>9
<1>11. /\ stageRow' = [b \in Blocks |-> IF InCommit(b, c) THEN v ELSE stageRow[b]]
       /\ truth' = [b \in Blocks |-> IF InCommit(b, c) THEN v ELSE truth[b]]
       /\ IF InCommit("lab", c)
          THEN conformance' = default /\ judged' = Verdict(Panels[v], default)
          ELSE conformance' = conformance /\ judged' = judged
  BY <1>5, <1>6
<1> HIDE DEF c
<1>12. reached' = c
  BY <1>2 DEF c
<1>13. Records(v)
  BY <1>3, <1>9, <1>10, <1>11, <1>12 DEF Records, c
<1> QED
  BY <1>13

(* The rule set is in the payload of a lab result only.                    *)
LEMMA PayloadVersion ==
    ASSUME NEW action, action # "lab", NEW v, NEW version, NEW version2
    PROVE  Payload(action, v, version) = Payload(action, v, version2)
  BY DEF Payload

\* A row that says v of the action.
NewRow(row, action, v) ==
    /\ IsRow(row) /\ row.action = action /\ row.payload = Payload(action, v, default)
    /\ row.payloadHash = Digest(row.payload)
    /\ row.rowHash = RowHash(row.prev, row.action, Digest(row.payload), row.payload)

LEMMA RowIsNew ==
    ASSUME NEW row, NEW action, NEW v, \E prev : row = Row(prev, action, Payload(action, v, default))
    PROVE  NewRow(row, action, v)
<1>1. PICK prev : row = Row(prev, action, Payload(action, v, default))
  OBVIOUS
<1>2. PICK payload : payload = Payload(action, v, default)
  OBVIOUS
<1>3. row = Row(prev, action, payload)
  BY <1>1, <1>2
<1> QED
  BY <1>2, <1>3, RowShape DEF NewRow

\* The same, of the commit that is number c.
RecordsAs(v, c) ==
    /\ v # NoValue /\ reached' = c
    /\ \A b \in Blocks : InCommit(b, c) => truth[b] = NoValue /\ truth'[b] = v /\ stageRow'[b] = v
    /\ \A b \in Blocks : ~InCommit(b, c) => truth'[b] = truth[b] /\ stageRow'[b] = stageRow[b]
    /\ InCommit("lab", c) => conformance' = default /\ judged' = Verdict(Panels[v], default)
    /\ ~InCommit("lab", c) => conformance' = conformance /\ judged' = judged
    /\ \A j \in 1..Len(Commits[c]) : NewRow(log'[Len(log) + j], Commits[c][j], v)
    /\ \A i \in 1..Len(log') : i \in 1..Len(log)
                               \/ \E j \in 1..Len(Commits[c]) : i = Len(log) + j

LEMMA RecordsInCommit ==
    ASSUME IInv, NEW v \in Values, Records(v)
    PROVE  RecordsAs(v, reached + 1) /\ Grows /\ TruthStays
<1>1. /\ SequencesOK /\ RecordedOnce /\ reached \in Nat
  BY CommitsShape DEF IInv, DataInv, RowsTypeOK
<1>2. PICK c : c = reached + 1
  OBVIOUS
<1>3. /\ c \in 1..Len(Commits) /\ reached' = c
      /\ stageRow' = [b \in Blocks |-> IF InCommit(b, c) THEN v ELSE stageRow[b]]
      /\ truth' = [b \in Blocks |-> IF InCommit(b, c) THEN v ELSE truth[b]]
      /\ IF InCommit("lab", c)
         THEN conformance' = default /\ judged' = Verdict(Panels[v], default)
         ELSE conformance' = conformance /\ judged' = judged
      /\ IsSequence(log') /\ Len(log') = Len(log) + Len(Commits[c])
      /\ \A i \in 1..Len(log) : log'[i] = log[i]
      /\ \A j \in 1..Len(Commits[c]) :
           \E prev : log'[Len(log) + j]
                     = Row(prev, Commits[c][j], Payload(Commits[c][j], v, default))
  BY <1>2, Zenon DEF Records
<1>4. Len(log) \in Nat
  BY <1>1, LogDomain
<1>5. /\ Len(Commits[c]) \in Nat
      /\ \A j \in 1..Len(Commits[c]) : Commits[c][j] \in Actions
  <2>1. CommitShape(c)
    BY <1>3, CommitsShape
  <2> QED
    BY <2>1, SequenceShape DEF CommitShape
<1>6. v # NoValue
  BY NoValueAssumption
<1>7. ASSUME NEW b \in Blocks, InCommit(b, c) PROVE truth[b] = NoValue
  <2> SUFFICES ASSUME truth[b] # NoValue PROVE FALSE
    OBVIOUS
  <2>1. PICK d \in 1..reached : InCommit(b, d)
    BY <1>1 DEF RecordedOnce
  <2>2. d \in 1..Len(Commits) /\ d # c
    BY <1>1, <1>2, <1>3, CommitsShape
  <2> QED
    BY <1>3, <1>7, <2>1, <2>2, CommitOnce
<1>8. ASSUME NEW j \in 1..Len(Commits[c]) PROVE NewRow(log'[Len(log) + j], Commits[c][j], v)
  BY <1>3, <1>8, RowIsNew
<1>9. ASSUME NEW i \in 1..Len(log')
      PROVE  i \in 1..Len(log) \/ \E j \in 1..Len(Commits[c]) : i = Len(log) + j
  <2>1. CASE i > Len(log)
    <3>1. i - Len(log) \in 1..Len(Commits[c]) /\ i = Len(log) + (i - Len(log))
      BY <1>3, <1>4, <1>5, <2>1
    <3> QED
      BY <3>1
  <2>2. CASE ~(i > Len(log))
    BY <1>4, <2>2
  <2> QED
    BY <2>1, <2>2
<1>10. /\ \A b \in Blocks : InCommit(b, c) => truth'[b] = v /\ stageRow'[b] = v
       /\ \A b \in Blocks : ~InCommit(b, c) => truth'[b] = truth[b] /\ stageRow'[b] = stageRow[b]
  BY <1>3
<1>11. RecordsAs(v, c)
  BY <1>3, <1>6, <1>7, <1>8, <1>9, <1>10, Zenon DEF RecordsAs
<1>12. Grows
  <2>1. ASSUME NEW i \in 1..Len(log'), i > Len(log)
        PROVE  IsRow(log'[i]) /\ log'[i].action \in Actions
    <3>1. i \notin 1..Len(log)
      BY <1>4, <2>1
    <3>2. \E j \in 1..Len(Commits[c]) : i = Len(log) + j
      BY <1>9, <3>1, Zenon
    <3>3. PICK j \in 1..Len(Commits[c]) : i = Len(log) + j
      BY <3>2
    <3>4. NewRow(log'[i], Commits[c][j], v)
      BY <1>8, <3>3
    <3> QED
      BY <1>5, <3>4 DEF NewRow
  <2>2. Len(log') >= Len(log)
    BY <1>3, <1>4, <1>5
  <2> QED
    BY <1>3, <2>1, <2>2 DEF Grows
<1>13. TruthStays
  <2>1. \A b \in Blocks : truth[b] # NoValue => ~InCommit(b, c)
    BY <1>7
  <2> QED
    BY <1>3, <1>10, <2>1, BlocksAssumption DEF TruthStays
<1> QED
  BY <1>2, <1>11, <1>12, <1>13

LEMMA VerdictIs == \A panel, version : Verdict(panel, version) \in {"PASS", "FAIL", "INCOMPLETE"}
  BY DEF Verdict

LEMMA TransitionInv ==
    ASSUME IInv, Transition
    PROVE  IInv'
<1>1. /\ SequencesOK /\ RecordedOnce /\ UncoveredMeant /\ WitnessMeant /\ Untouched /\ RootsBuilt
      /\ RowsTypeOK /\ AnchorsFit /\ VerdictTypeOK
  BY DEF IInv, DataInv
<1>2. /\ Disturbs /\ default' = default /\ anchors' = anchors /\ witness' = witness
      /\ edits' = edits
  BY DEF Transition
<1>3. PICK v, c : /\ v \in Values /\ Records(v) /\ c = reached + 1 /\ RecordsAs(v, c)
                  /\ Grows /\ TruthStays
  BY TransitionRecords, RecordsInCommit
<1>4. /\ v # NoValue /\ reached' = c
      /\ \A b \in Blocks : InCommit(b, c) => truth[b] = NoValue /\ truth'[b] = v /\ stageRow'[b] = v
      /\ \A b \in Blocks : ~InCommit(b, c) => truth'[b] = truth[b] /\ stageRow'[b] = stageRow[b]
      /\ InCommit("lab", c) => conformance' = default /\ judged' = Verdict(Panels[v], default)
      /\ ~InCommit("lab", c) => conformance' = conformance /\ judged' = judged
      /\ \A j \in 1..Len(Commits[c]) : NewRow(log'[Len(log) + j], Commits[c][j], v)
      /\ \A i \in 1..Len(log') : i \in 1..Len(log)
                                 \/ \E j \in 1..Len(Commits[c]) : i = Len(log) + j
  BY <1>3 DEF RecordsAs
<1>5. /\ IsSequence(log') /\ Len(log') >= Len(log)
      /\ \A i \in 1..Len(log) : log'[i] = log[i]
  BY <1>3 DEF Grows
<1>6. Len(log) \in Nat /\ Len(log') \in Nat /\ reached \in Nat /\ c \in 1..Len(Commits)
      /\ \A i \in 1..Len(log) : i \in 1..Len(log')
  <2>1. Len(log) \in Nat /\ Len(log') \in Nat
    BY <1>1, <1>5, LogDomain, SequenceShape
  <2>2. reached \in Nat /\ c \in 1..Len(Commits)
    <3>1. reached \in 0..Len(Commits) /\ Len(Commits) \in Nat
      BY <1>1, CommitsShape DEF RowsTypeOK
    <3>2. reached + 1 \in 1..Len(Commits)
      BY <1>3, Zenon DEF Records
    <3> QED
      BY <1>3, <3>1, <3>2
  <2> QED
    BY <1>5, <2>1, <2>2
<1>7. /\ Len(log') = Len(log) + Len(Commits[c]) /\ Len(Commits[c]) \in Nat
      /\ \A j \in 1..Len(Commits[c]) : Len(log) + j \in 1..Len(log')
  <2>1. Len(log') = Len(log) + Len(Commits[c])
    BY <1>3, Zenon DEF Records
  <2>2. Len(Commits[c]) \in Nat
    BY <1>6, CommitsShape, SequenceShape DEF CommitShape
  <2> QED
    BY <1>6, <2>1, <2>2
<1>8. \A j \in 1..Len(Commits[c]) : Commits[c][j] \in Blocks => InCommit(Commits[c][j], c)
  BY DEF InCommit
\* The rows, old and new.
<1> DEFINE Old(i) == i \in 1..Len(log) /\ log'[i] = log[i]
           New(i) == \E j \in 1..Len(Commits[c]) :
                       i = Len(log) + j /\ NewRow(log'[i], Commits[c][j], v)
<1>9. \A i \in 1..Len(log') : Old(i) \/ New(i)
  BY <1>4, <1>5
<1>10. SequencesOK' /\ DOMAIN log \subseteq DOMAIN log' /\ FirstUncovered' = FirstUncovered
  BY <1>1, <1>2, <1>3, GrowsTypes
<1>11. AnchorsFit' /\ RootsBuilt'
  BY <1>1, <1>2, <1>3, GrowsKeepsAnchors
<1>12. WitnessMeant'
  BY <1>1, <1>2, <1>3, WitnessStays
<1>13. UncoveredMeant'
  <2>1. ASSUME NEW i \in 1..Len(log'), i > Len(log)
        PROVE  \E row : row = log'[i] /\ RowMeant(row)'
    <3>1. New(i)
      <4>1. ~Old(i)
        BY <1>6, <2>1
      <4> QED
        BY <1>9, <4>1
    <3>2. PICK j \in 1..Len(Commits[c]) : NewRow(log'[i], Commits[c][j], v)
      BY <3>1
    <3>3. PICK row : row = log'[i]
      OBVIOUS
    <3>4. /\ row.action = Commits[c][j] /\ row.payload = Payload(Commits[c][j], v, default)
          /\ row.rowHash = RowHash(row.prev, row.action, Digest(row.payload), row.payload)
      BY <3>2, <3>3 DEF NewRow
    <3>5. ASSUME row.action \in Blocks
          PROVE  /\ truth'[row.action] # NoValue /\ row.payload[1] = truth'[row.action]
                 /\ row.action = "lab" => row.payload[3] = judged'
      <4>1. InCommit(row.action, c)
        BY <1>8, <3>4, <3>5
      <4>2. row.payload[1] = v
            /\ (row.action = "lab" => row.payload[3] = Verdict(Panels[v], default))
        BY <3>4, PayloadSays
      <4> QED
        BY <1>4, <3>5, <4>1, <4>2
    <3>6. RowMeant(row)'
      BY <3>4, <3>5 DEF RowMeant, Said
    <3> QED
      BY <3>3, <3>6
  <2> QED
    BY <1>1, <1>2, <1>3, <2>1, GrowsKeepsMeant
<1>14. AnswerTypeOK' /\ Snapshot' /\ ProofsVerify'
  BY <1>2, <1>10, DisturbedAnswer
<1>15. RowsTypeOK'
  <2>1. reached' \in 0..Len(Commits)
    BY <1>4, <1>6, CommitsShape
  <2>2. /\ stageRow' = [b \in Blocks |-> IF InCommit(b, c) THEN v ELSE stageRow[b]]
        /\ truth' = [b \in Blocks |-> IF InCommit(b, c) THEN v ELSE truth[b]]
    BY <1>3, Zenon DEF Records
  <2>3. /\ stageRow \in [Blocks -> Values \cup {NoValue}]
        /\ truth \in [Blocks -> Values \cup {NoValue}] /\ edits' \in 0..MaxEdits
    BY <1>1, <1>2 DEF RowsTypeOK
  <2>4. v \in Values
    BY <1>3
  <2>5. /\ stageRow' \in [Blocks -> Values \cup {NoValue}]
        /\ truth' \in [Blocks -> Values \cup {NoValue}]
    BY <2>2, <2>3, <2>4
  <2> QED
    BY <2>1, <2>3, <2>5 DEF RowsTypeOK
<1>16. VerdictTypeOK'
  <2>1. CASE InCommit("lab", c)
    BY <1>1, <1>2, <1>4, <2>1, VerdictIs DEF VerdictTypeOK
  <2>2. CASE ~InCommit("lab", c)
    BY <1>1, <1>2, <1>4, <2>2 DEF VerdictTypeOK
  <2> QED
    BY <2>1, <2>2
<1>17. RecordedOnce'
  <2>1. ASSUME NEW b \in Blocks, truth'[b] # NoValue PROVE \E d \in 1..reached' : InCommit(b, d)
    <3>1. CASE InCommit(b, c)
      BY <1>4, <1>6, <3>1
    <3>2. CASE ~InCommit(b, c)
      <4>1. PICK d \in 1..reached : InCommit(b, d)
        BY <1>1, <1>4, <2>1, <3>2 DEF RecordedOnce
      <4>2. d \in 1..reached'
        BY <1>3, <1>4, <1>6
      <4> QED
        BY <4>1, <4>2
    <3> QED
      BY <3>1, <3>2
  <2>2. ASSUME NEW i \in 1..Len(log'), log'[i].action \in Blocks PROVE truth'[log'[i].action] # NoValue
    <3>1. CASE Old(i)
      BY <1>1, <1>3, <2>2, <3>1 DEF RecordedOnce, TruthStays
    <3>2. CASE New(i)
      BY <1>4, <1>8, <2>2, <3>2 DEF NewRow
    <3> QED
      BY <1>9, <3>1, <3>2
  <2>3. ASSUME NEW b \in Blocks, truth'[b] # NoValue PROVE \E i \in 1..Len(log') : log'[i].action = b
    <3>1. CASE InCommit(b, c)
      <4>1. PICK j \in 1..Len(Commits[c]) : Commits[c][j] = b
        BY <3>1 DEF InCommit
      <4>2. log'[Len(log) + j].action = b
        BY <1>4, <4>1 DEF NewRow
      <4> QED
        BY <1>7, <4>2
    <3>2. CASE ~InCommit(b, c)
      <4>1. PICK i \in 1..Len(log) : log[i].action = b
        BY <1>1, <1>4, <2>3, <3>2 DEF RecordedOnce
      <4> QED
        BY <1>5, <1>6, <4>1
    <3> QED
      BY <3>1, <3>2
  <2>4. ASSUME NEW i \in 1..Len(log'), NEW k \in 1..Len(log'),
               log'[i].action = log'[k].action, log'[i].action \in Blocks
        PROVE  i = k
    <3>1. CASE Old(i) /\ Old(k)
      BY <1>1, <2>4, <3>1 DEF RecordedOnce
    <3>2. CASE New(i) /\ New(k)
      <4>1. PICK j \in 1..Len(Commits[c]) : i = Len(log) + j /\ log'[i].action = Commits[c][j]
        BY <3>2 DEF NewRow
      <4>2. PICK m \in 1..Len(Commits[c]) : k = Len(log) + m /\ log'[k].action = Commits[c][m]
        BY <3>2 DEF NewRow
      <4>3. Commits[c][j] = Commits[c][m]
        BY <2>4, <4>1, <4>2
      <4>4. j = m
        BY <1>6, <4>3, CommitsShape, Zenon
      <4> QED
        BY <4>1, <4>2, <4>4
    <3>3. \A g \in 1..Len(log') : Old(g) /\ log'[g].action \in Blocks => truth[log'[g].action] # NoValue
      BY <1>1 DEF RecordedOnce
    <3>4. \A g \in 1..Len(log') : New(g) /\ log'[g].action \in Blocks => truth[log'[g].action] = NoValue
      BY <1>4, <1>8 DEF NewRow
    <3> HIDE DEF Old, New
    <3> QED
      BY <1>9, <2>4, <3>1, <3>2, <3>3, <3>4
  <2> QED
    BY <2>1, <2>2, <2>3, <2>4 DEF RecordedOnce, InCommit
<1>18. Untouched'
  <2> SUFFICES ASSUME edits' = 0 PROVE
        /\ stageRow' = truth'
        /\ truth'["lab"] # NoValue => conformance' # NoValue
        /\ \A i \in 1..Len(log') :
             /\ log'[i].action \in Blocks =>
                  log'[i].payload = Payload(log'[i].action, truth'[log'[i].action], conformance')
             /\ log'[i].payloadHash = Digest(log'[i].payload)
    BY DEF Untouched
  <2>1. /\ stageRow = truth
        /\ truth["lab"] # NoValue => conformance # NoValue
        /\ \A i \in 1..Len(log) :
             /\ log[i].action \in Blocks =>
                  log[i].payload = Payload(log[i].action, truth[log[i].action], conformance)
             /\ log[i].payloadHash = Digest(log[i].payload)
    BY <1>1, <1>2 DEF Untouched
  <2>2. stageRow' = truth'
    BY <1>3, <2>1, Zenon DEF Records
  <2>3. default # NoValue
    BY <1>1, NoValueAssumption DEF VerdictTypeOK
  <2>4. truth'["lab"] # NoValue => conformance' # NoValue
    BY <1>4, <2>1, <2>3, BlocksAssumption
  <2>5. ASSUME NEW i \in 1..Len(log')
        PROVE  /\ log'[i].action \in Blocks =>
                    log'[i].payload = Payload(log'[i].action, truth'[log'[i].action], conformance')
               /\ log'[i].payloadHash = Digest(log'[i].payload)
    <3>1. CASE Old(i)
      <4>1. PICK a : a = log[i].action
        OBVIOUS
      <4>2. ASSUME a \in Blocks PROVE log[i].payload = Payload(a, truth'[a], conformance')
        <5>1. truth[a] # NoValue /\ truth'[a] = truth[a]
          BY <1>1, <1>3, <3>1, <4>1, <4>2 DEF RecordedOnce, TruthStays
        <5>2. log[i].payload = Payload(a, truth'[a], conformance)
          BY <2>1, <3>1, <4>1, <4>2, <5>1
        <5>3. CASE a = "lab"
          BY <1>4, <4>2, <5>1, <5>2, <5>3
        <5>4. CASE a # "lab"
          BY <5>2, <5>4, PayloadVersion
        <5> QED
          BY <5>3, <5>4
      <4> QED
        BY <2>1, <3>1, <4>1, <4>2
    <3>2. CASE New(i)
      <4>1. PICK j \in 1..Len(Commits[c]) : NewRow(log'[i], Commits[c][j], v)
        BY <3>2
      <4>2. PICK a : a = Commits[c][j]
        OBVIOUS
      <4>3. /\ log'[i].action = a /\ log'[i].payload = Payload(a, v, default)
            /\ log'[i].payloadHash = Digest(log'[i].payload)
        BY <4>1, <4>2 DEF NewRow
      <4>4. ASSUME a \in Blocks PROVE Payload(a, v, default) = Payload(a, truth'[a], conformance')
        <5>1. InCommit(a, c) /\ truth'[a] = v
          BY <1>4, <1>8, <4>2, <4>4
        <5>2. CASE a = "lab"
          BY <1>4, <5>1, <5>2
        <5>3. CASE a # "lab"
          BY <5>1, <5>3, PayloadVersion
        <5> QED
          BY <5>2, <5>3
      <4> QED
        BY <4>3, <4>4
    <3> QED
      BY <1>9, <3>1, <3>2
  <2> QED
    BY <2>2, <2>4, <2>5
<1> QED
  BY <1>10, <1>11, <1>12, <1>13, <1>14, <1>15, <1>16, <1>17, <1>18 DEF IInv, DataInv

(* Nothing is recorded and no row changes.                                 *)
SameLog ==
    /\ reached' = reached /\ truth' = truth /\ judged' = judged /\ log' = log

LEMMA SameLogKeeps ==
    ASSUME RecordedOnce, SameLog
    PROVE  RecordedOnce' /\ TruthStays
<1>1. RecordedOnce'
  BY DEF SameLog, RecordedOnce, InCommit
<1>2. TruthStays
  BY DEF SameLog, TruthStays
<1> QED
  BY <1>1, <1>2

LEMMA SameLogUncovered ==
    ASSUME UncoveredMeant, SameLog, FirstUncovered' = FirstUncovered
    PROVE  UncoveredMeant'
  BY DEF SameLog, UncoveredMeant, RowMeant, Said

LEMMA SameUntouched ==
    ASSUME Untouched, SameLog, stageRow' = stageRow, conformance' = conformance, edits' = edits
    PROVE  Untouched'
  BY DEF SameLog, Untouched

(* The default of another release.                                         *)
LEMMA MoveDefaultInv ==
    ASSUME IInv, MoveDefault
    PROVE  IInv'
<1>1. /\ SequencesOK /\ RecordedOnce /\ UncoveredMeant /\ WitnessMeant /\ Untouched /\ RootsBuilt
      /\ RowsTypeOK /\ AnchorsFit /\ VerdictTypeOK
  BY DEF IInv, DataInv
<1>2. /\ Disturbs /\ default' \in DOMAIN RULES
      /\ reached' = reached /\ stageRow' = stageRow /\ conformance' = conformance
      /\ log' = log /\ anchors' = anchors /\ witness' = witness /\ truth' = truth
      /\ judged' = judged /\ edits' = edits
  BY DEF MoveDefault, tables
<1>3. SameLog
  BY <1>2 DEF SameLog
<1>4. RecordedOnce' /\ TruthStays
  BY <1>1, <1>3, SameLogKeeps
<1>5. SequencesOK' /\ FirstUncovered' = FirstUncovered
  BY <1>1, <1>2 DEF SequencesOK, FirstUncovered
<1>6. UncoveredMeant'
  BY <1>1, <1>3, <1>5, SameLogUncovered
<1>7. WitnessMeant'
  BY <1>1, <1>2, <1>4, WitnessStays
<1>8. Untouched'
  BY <1>1, <1>2, <1>3, SameUntouched
<1>9. RootsBuilt' /\ AnchorsFit'
  BY <1>1, <1>2 DEF RootsBuilt, RootBuilt, LeavesFor, AnchorsFit
<1>10. RowsTypeOK' /\ VerdictTypeOK'
  BY <1>1, <1>2 DEF RowsTypeOK, VerdictTypeOK
<1>11. AnswerTypeOK' /\ Snapshot' /\ ProofsVerify'
  BY <1>2, DisturbedAnswer
<1> QED
  BY <1>4, <1>5, <1>6, <1>7, <1>8, <1>9, <1>10, <1>11 DEF IInv, DataInv

(* An anchor is upgraded: its range and its root stay.                     *)
LEMMA UpgradeInv ==
    ASSUME IInv, Upgrade
    PROVE  IInv'
<1>1. /\ SequencesOK /\ RecordedOnce /\ UncoveredMeant /\ WitnessMeant /\ Untouched /\ RootsBuilt
      /\ RowsTypeOK /\ AnchorsFit /\ VerdictTypeOK
  BY DEF IInv, DataInv
<1>2. /\ Disturbs /\ default' = default
      /\ reached' = reached /\ stageRow' = stageRow /\ conformance' = conformance
      /\ log' = log /\ witness' = witness /\ truth' = truth /\ judged' = judged /\ edits' = edits
  BY DEF Upgrade
<1>3. PICK g \in DOMAIN anchors : anchors' = [anchors EXCEPT ![g].verified = TRUE]
  BY DEF Upgrade
<1>4. DOMAIN anchors = 1..Len(anchors) /\ Len(anchors) \in Nat
  BY <1>1, SequenceShape DEF SequencesOK
<1>5. \A k \in 1..Len(anchors) : IsAnchor(anchors[k])
  BY <1>1 DEF SequencesOK
<1>6. ASSUME NEW k \in 1..Len(anchors)
      PROVE  /\ IsAnchor(anchors'[k]) /\ anchors'[k].from = anchors[k].from
             /\ anchors'[k].to = anchors[k].to /\ anchors'[k].root = anchors[k].root
  <2>1. PICK a : a = anchors[k]
    OBVIOUS
  <2>2. /\ a = [from |-> a.from, to |-> a.to, root |-> a.root, verified |-> a.verified]
        /\ a.from \in Nat /\ a.to \in Nat
    BY <1>5, <2>1 DEF IsAnchor
  <2>3. anchors'[k] = a \/ anchors'[k] = [a EXCEPT !.verified = TRUE]
    BY <1>3, <1>4, <2>1
  <2>4. CASE anchors'[k] = a
    BY <1>5, <2>1, <2>4
  <2>5. CASE anchors'[k] = [a EXCEPT !.verified = TRUE]
    <3>1. PICK from, to, root, verified :
            /\ a = [from |-> from, to |-> to, root |-> root, verified |-> verified]
            /\ from = a.from /\ to = a.to /\ root = a.root
      BY <2>2
    <3>2. PICK e : e = anchors'[k] /\ e = [a EXCEPT !.verified = TRUE]
      BY <2>5
    <3>3. e = [from |-> from, to |-> to, root |-> root, verified |-> TRUE]
      <4>1. a = [from |-> from, to |-> to, root |-> root, verified |-> verified]
        BY <3>1
      <4> QED
        BY <3>2, <4>1
    <3>4. IsAnchor(e) /\ e.from = a.from /\ e.to = a.to /\ e.root = a.root
      BY <2>2, <3>1, <3>3 DEF IsAnchor
    <3> QED
      BY <2>1, <3>2, <3>4
  <2> QED
    BY <2>3, <2>4, <2>5
<1>7. IsSequence(anchors') /\ Len(anchors') = Len(anchors)
  <2>1. anchors' = [k \in 1..Len(anchors) |-> anchors'[k]]
    BY <1>3, <1>4
  <2>2. \E later, n : later = anchors' /\ n = Len(anchors)
    OBVIOUS
  <2>3. PICK later, n : later = anchors' /\ n = Len(anchors)
    BY <2>2
  <2>4. n \in Nat /\ later = [k \in 1..n |-> later[k]]
    BY <1>4, <2>1, <2>3
  <2>5. IsSequence(later) /\ Len(later) = n
    BY <2>4, FunctionIsSequence
  <2> QED
    BY <2>3, <2>5
<1>8. SequencesOK'
  BY <1>1, <1>2, <1>6, <1>7 DEF SequencesOK
<1>9. FirstUncovered' = FirstUncovered
  <2>1. anchors = <<>> <=> Len(anchors) = 0
    BY <1>1, SequenceShape, EmptyIsSequence, SequencesEqual DEF SequencesOK
  <2>2. anchors' = <<>> <=> Len(anchors') = 0
    BY <1>7, SequenceShape, EmptyIsSequence, SequencesEqual
  <2>3. CASE anchors = <<>>
    BY <1>7, <2>1, <2>2, <2>3 DEF FirstUncovered
  <2>4. CASE anchors # <<>>
    <3>1. Len(anchors) \in 1..Len(anchors)
      BY <1>4, <2>1, <2>4
    <3>2. anchors'[Len(anchors)].to = anchors[Len(anchors)].to
      BY <1>6, <3>1
    <3> QED
      BY <1>7, <2>1, <2>2, <2>4, <3>2 DEF FirstUncovered, Last
  <2> QED
    BY <2>3, <2>4
<1>10. SameLog
  BY <1>2 DEF SameLog
<1>11. RecordedOnce' /\ TruthStays
  BY <1>1, <1>10, SameLogKeeps
<1>12. UncoveredMeant'
  BY <1>1, <1>9, <1>10, SameLogUncovered
<1>13. WitnessMeant'
  BY <1>1, <1>2, <1>11, WitnessStays
<1>14. Untouched'
  BY <1>1, <1>2, <1>10, SameUntouched
<1>15. RootsBuilt'
  <2>1. ASSUME NEW k \in 1..Len(anchors), RootBuilt(k) PROVE RootBuilt(k)'
    BY <1>2, <1>6, <2>1 DEF RootBuilt, LeavesFor
  <2> QED
    BY <1>1, <1>2, <1>7, <2>1 DEF RootsBuilt
<1>16. AnchorsFit'
  <2>1. ASSUME NEW k \in 1..Len(anchors)
        PROVE  /\ anchors'[k].from = IF k = 1 THEN 1 ELSE anchors'[k - 1].to + 1
               /\ anchors'[k].from <= anchors'[k].to /\ anchors'[k].to <= Len(log)
               /\ anchors'[k].root \in witness
    <3>1. /\ anchors[k].from = IF k = 1 THEN 1 ELSE anchors[k - 1].to + 1
          /\ anchors[k].from <= anchors[k].to /\ anchors[k].to <= Len(log)
          /\ anchors[k].root \in witness
      BY <1>1, Zenon DEF AnchorsFit
    <3>2. k # 1 => k - 1 \in 1..Len(anchors)
      BY <1>4
    <3>3. k # 1 => anchors'[k - 1].to = anchors[k - 1].to
      BY <1>6, <3>2
    <3> QED
      BY <1>6, <3>1, <3>3
  <2> QED
    BY <1>2, <1>7, <2>1, Zenon DEF AnchorsFit
<1>17. RowsTypeOK' /\ VerdictTypeOK'
  BY <1>1, <1>2 DEF RowsTypeOK, VerdictTypeOK
<1>18. AnswerTypeOK' /\ Snapshot' /\ ProofsVerify'
  BY <1>2, DisturbedAnswer
<1> QED
  BY <1>8, <1>11, <1>12, <1>13, <1>14, <1>15, <1>16, <1>17, <1>18 DEF IInv, DataInv

(* What the anchors leave starts after the last of them.                   *)
LEMMA FirstUncoveredIs ==
    ASSUME SequencesOK, AnchorsFit
    PROVE  /\ FirstUncovered \in Nat /\ FirstUncovered >= 1
           /\ FirstUncovered = IF Len(anchors) = 0 THEN 1 ELSE anchors[Len(anchors)].to + 1
<1>1. anchors = <<>> <=> Len(anchors) = 0
  BY SequenceShape, EmptyIsSequence, SequencesEqual DEF SequencesOK
<1>2. Len(anchors) \in Nat
  BY SequenceShape DEF SequencesOK
<1>3. FirstUncovered = IF Len(anchors) = 0 THEN 1 ELSE anchors[Len(anchors)].to + 1
  BY <1>1 DEF FirstUncovered, Last
<1>4. Len(anchors) # 0 => anchors[Len(anchors)].to \in Nat
  <2>1. Len(anchors) # 0 => Len(anchors) \in 1..Len(anchors)
    BY <1>2
  <2> QED
    BY <2>1, AnchorRange
<1> QED
  BY <1>3, <1>4

(* The rows no anchor covers are anchored.                                 *)
LEMMA AnchorInv ==
    ASSUME IInv, Anchor
    PROVE  IInv'
<1>1. /\ SequencesOK /\ RecordedOnce /\ UncoveredMeant /\ WitnessMeant /\ Untouched /\ RootsBuilt
      /\ RowsTypeOK /\ AnchorsFit /\ VerdictTypeOK
  BY DEF IInv, DataInv
<1>2. /\ Disturbs /\ default' = default /\ FirstUncovered <= Len(log)
      /\ reached' = reached /\ stageRow' = stageRow /\ conformance' = conformance
      /\ log' = log /\ truth' = truth /\ judged' = judged /\ edits' = edits
  BY DEF Anchor
<1>3. /\ Len(log) \in Nat /\ FirstUncovered \in Nat /\ FirstUncovered >= 1
      /\ Len(anchors) \in Nat /\ IsSequence(anchors)
  BY <1>1, LogDomain, FirstUncoveredIs, SequenceShape DEF SequencesOK
<1>4. PICK from, to, leaves, a :
        /\ from = FirstUncovered /\ to = Len(log) /\ leaves = LeavesFor(from, to)
        /\ a = [from |-> from, to |-> to, root |-> BuildRoot(leaves), verified |-> FALSE]
  OBVIOUS
<1>5. anchors' = Append(anchors, a) /\ witness' = witness \cup {a.root} /\ a.root = BuildRoot(leaves)
  BY <1>4 DEF Anchor
<1>6. from \in Nat /\ to \in Nat /\ from >= 1 /\ from <= to
  BY <1>2, <1>3, <1>4
<1>7. IsAnchor(a) /\ a.from = from /\ a.to = to
  BY <1>4, <1>6 DEF IsAnchor
<1>8. /\ IsSequence(anchors') /\ Len(anchors') = Len(anchors) + 1
      /\ \A k \in 1..Len(anchors) : anchors'[k] = anchors[k]
      /\ anchors'[Len(anchors) + 1] = a
  <2>1. PICK before, e : before = anchors /\ e = a
    OBVIOUS
  <2>2. /\ IsSequence(Append(before, e)) /\ Len(Append(before, e)) = Len(before) + 1
        /\ \A k \in 1..Len(before) : Append(before, e)[k] = before[k]
        /\ Append(before, e)[Len(before) + 1] = e
    BY <1>3, <2>1, AppendShape
  <2> QED
    BY <1>5, <2>1, <2>2
<1>9. ASSUME NEW k \in 1..Len(anchors')
      PROVE  k \in 1..Len(anchors) \/ k = Len(anchors) + 1
  BY <1>3, <1>8
<1>10. SequencesOK'
  <2>1. \A k \in 1..Len(anchors') : IsAnchor(anchors'[k])
    BY <1>1, <1>7, <1>8, <1>9 DEF SequencesOK
  <2> QED
    BY <1>1, <1>2, <1>8, <2>1 DEF SequencesOK
<1>11. FirstUncovered' = Len(log) + 1
  <2>1. anchors' # <<>>
    BY <1>3, <1>8, EmptyIsSequence
  <2>2. Last(anchors').to = to
    BY <1>7, <1>8 DEF Last
  <2> QED
    BY <1>4, <2>1, <2>2 DEF FirstUncovered
<1>12. SameLog
  BY <1>2 DEF SameLog
<1>13. RecordedOnce' /\ TruthStays
  BY <1>1, <1>12, SameLogKeeps
<1>14. UncoveredMeant'
  <2>1. \A i \in 1..Len(log') : ~(i >= FirstUncovered')
    BY <1>2, <1>3, <1>11
  <2> QED
    BY <2>1 DEF UncoveredMeant
<1>15. WitnessMeant'
  <2>1. MeantLeaves(leaves, a.root)
    <3>1. /\ IsSequence(leaves) /\ Len(leaves) = to - from + 1
          /\ \A i \in 1..(to - from + 1) : leaves[i] = LeafHash(log[from + i - 1].rowHash)
      BY <1>4, <1>6, LeavesForShape
    <3>2. ASSUME NEW i \in 1..Len(leaves) PROVE \E h : leaves[i] = LeafHash(h) /\ Meant(h)
      <4>1. PICK j : j = from + i - 1
        OBVIOUS
      <4>2. j \in 1..Len(log) /\ j >= FirstUncovered
        BY <1>4, <1>6, <3>1, <4>1
      <4>3. RowMeant(log[j])
        BY <1>1, <4>2 DEF UncoveredMeant
      <4>4. Meant(log[j].rowHash)
        BY <4>3 DEF RowMeant, Meant
      <4>5. leaves[i] = LeafHash(log[j].rowHash)
        BY <3>1, <4>1
      <4> QED
        BY <4>4, <4>5
    <3>3. Len(leaves) >= 1
      BY <1>6, <3>1
    <3> QED
      BY <1>5, <3>1, <3>2, <3>3 DEF MeantLeaves
  <2>2. ASSUME NEW root \in witness' PROVE \E L : MeantLeaves(L, root)
    <3>1. CASE root \in witness
      BY <1>1, <3>1 DEF WitnessMeant
    <3>2. CASE root = a.root
      BY <2>1, <3>2
    <3> QED
      BY <1>5, <3>1, <3>2
  <2>3. ASSUME NEW root \in witness' PROVE \E L : MeantLeaves(L, root)'
    <3>1. PICK L : MeantLeaves(L, root)
      BY <2>2
    <3>2. PICK r : r = root
      OBVIOUS
    <3>3. MeantLeaves(L, r)'
      BY <1>13, <3>1, <3>2, MeantLeavesStay
    <3> QED
      BY <3>2, <3>3 DEF MeantLeaves
  <2> QED
    BY <2>3 DEF WitnessMeant
<1>16. Untouched'
  BY <1>1, <1>2, <1>12, SameUntouched
<1>17. RootsBuilt'
  <2>1. ASSUME NEW k \in 1..Len(anchors), RootBuilt(k) PROVE RootBuilt(k)'
    BY <1>2, <1>8, <2>1 DEF RootBuilt, LeavesFor
  <2>2. ASSUME NEW k, k = Len(anchors) + 1 PROVE RootBuilt(k)'
    <3>1. anchors'[k].root = BuildRoot(leaves) /\ anchors'[k].from = from /\ anchors'[k].to = to
      BY <1>5, <1>7, <1>8, <2>2
    <3>2. leaves = LeavesFor(from, to)'
      BY <1>2, <1>4 DEF LeavesFor
    <3> QED
      BY <3>1, <3>2 DEF RootBuilt, LeavesFor
  <2> QED
    BY <1>1, <1>2, <1>9, <2>1, <2>2 DEF RootsBuilt
<1>18. AnchorsFit'
  <2>1. ASSUME NEW k \in 1..Len(anchors')
        PROVE  /\ anchors'[k].from = IF k = 1 THEN 1 ELSE anchors'[k - 1].to + 1
               /\ anchors'[k].from <= anchors'[k].to /\ anchors'[k].to <= Len(log)
               /\ anchors'[k].root \in witness'
    <3>1. k # 1 => k - 1 \in 1..Len(anchors)
      BY <1>3, <1>8
    <3>2. k # 1 => anchors'[k - 1] = anchors[k - 1]
      BY <1>8, <3>1
    <3>3. CASE k \in 1..Len(anchors)
      <4>1. /\ anchors[k].from = IF k = 1 THEN 1 ELSE anchors[k - 1].to + 1
            /\ anchors[k].from <= anchors[k].to /\ anchors[k].to <= Len(log)
            /\ anchors[k].root \in witness
        BY <1>1, <3>3, Zenon DEF AnchorsFit
      <4>2. anchors'[k] = anchors[k]
        BY <1>8, <3>3
      <4>3. anchors'[k].root \in witness'
        BY <1>5, <4>1, <4>2
      <4> QED
        BY <3>2, <4>1, <4>2, <4>3
    <3>4. CASE k = Len(anchors) + 1
      <4>1. from = IF k = 1 THEN 1 ELSE anchors[k - 1].to + 1
        BY <1>1, <1>3, <1>4, <3>4, FirstUncoveredIs
      <4>2. anchors'[k].from = from /\ anchors'[k].to = to /\ anchors'[k].root \in witness'
        BY <1>5, <1>7, <1>8, <3>4
      <4>3. from <= to /\ to <= Len(log)
        BY <1>3, <1>4, <1>6
      <4> QED
        BY <3>2, <4>1, <4>2, <4>3
    <3> QED
      BY <1>9, <3>3, <3>4
  <2> QED
    BY <1>2, <2>1, Zenon DEF AnchorsFit
<1>19. RowsTypeOK' /\ VerdictTypeOK'
  BY <1>1, <1>2 DEF RowsTypeOK, VerdictTypeOK
<1>20. AnswerTypeOK' /\ Snapshot' /\ ProofsVerify'
  BY <1>2, DisturbedAnswer
<1> QED
  BY <1>10, <1>13, <1>14, <1>15, <1>16, <1>17, <1>18, <1>19, <1>20 DEF IInv, DataInv

(* What an edit leaves of the log: its length, what each row is of, and    *)
(* the rows no anchor covers, at most linked anew.                         *)
Edited ==
    /\ IsSequence(log') /\ Len(log') = Len(log)
    /\ \A j \in 1..Len(log) :
         /\ IsRow(log'[j]) /\ log'[j].action = log[j].action
         /\ j >= FirstUncovered =>
              \/ log'[j] = log[j]
              \/ /\ log'[j].payload = log[j].payload
                 /\ log'[j].rowHash = RowHash(log'[j].prev, log'[j].action,
                                              Digest(log'[j].payload), log'[j].payload)

LEMMA PayloadEdited ==
    ASSUME NEW row, IsRow(row), NEW said, NEW e, e = [row EXCEPT !.payload = said]
    PROVE  IsRow(e) /\ e.action = row.action
<1>1. PICK action, payload, payloadHash, prev, rowHash :
        /\ row = [action |-> action, payload |-> payload, payloadHash |-> payloadHash,
                  prev |-> prev, rowHash |-> rowHash]
        /\ action = row.action
  BY DEF IsRow
<1>2. row = [action |-> action, payload |-> payload, payloadHash |-> payloadHash,
             prev |-> prev, rowHash |-> rowHash]
  BY <1>1
<1>3. e = [action |-> action, payload |-> said, payloadHash |-> payloadHash,
           prev |-> prev, rowHash |-> rowHash]
  BY <1>2
<1> QED
  BY <1>1, <1>3 DEF IsRow

LEMMA HashEdited ==
    ASSUME NEW row, IsRow(row), NEW digest, NEW e, e = [row EXCEPT !.payloadHash = digest]
    PROVE  IsRow(e) /\ e.action = row.action
<1>1. PICK action, payload, payloadHash, prev, rowHash :
        /\ row = [action |-> action, payload |-> payload, payloadHash |-> payloadHash,
                  prev |-> prev, rowHash |-> rowHash]
        /\ action = row.action
  BY DEF IsRow
<1>2. row = [action |-> action, payload |-> payload, payloadHash |-> payloadHash,
             prev |-> prev, rowHash |-> rowHash]
  BY <1>1
<1>3. e = [action |-> action, payload |-> payload, payloadHash |-> digest,
           prev |-> prev, rowHash |-> rowHash]
  BY <1>2
<1> QED
  BY <1>1, <1>3 DEF IsRow

LEMMA EditLogEdited ==
    ASSUME SequencesOK, AnchorsFit, EditLog
    PROVE  Edited
<1>1. /\ IsSequence(log) /\ Len(log) \in Nat /\ DOMAIN log = 1..Len(log)
      /\ \A j \in 1..Len(log) : IsRow(log[j])
      /\ FirstUncovered \in Nat
  BY LogDomain, FirstUncoveredIs DEF SequencesOK
<1>2. PICK i \in DOMAIN log, v \in Values :
        LET row == log[i]
            said == Payload(row.action, v, VersionOf(row))
            actions == [k \in DOMAIN log |-> log[k].action]
            payloads == [k \in DOMAIN log |-> IF k = i THEN said ELSE log[k].payload]
        IN  /\ row.action \in Blocks /\ i < FirstUncovered
            /\ row.payload # said
            /\ \/ log' = [log EXCEPT ![i].payload = said]
               \/ log' = [log EXCEPT ![i].payload = said, ![i].payloadHash = Digest(said)]
               \/ log' = Chained(<<>>, actions, payloads)
  BY DEF EditLog
<1>3. PICK row, said, actions, payloads :
        /\ row = log[i] /\ said = Payload(row.action, v, VersionOf(row))
        /\ actions = [k \in DOMAIN log |-> log[k].action]
        /\ payloads = [k \in DOMAIN log |-> IF k = i THEN said ELSE log[k].payload]
  OBVIOUS
<1>4. /\ i < FirstUncovered /\ i \in 1..Len(log)
      /\ \/ log' = [log EXCEPT ![i].payload = said]
         \/ log' = [log EXCEPT ![i].payload = said, ![i].payloadHash = Digest(said)]
         \/ log' = Chained(<<>>, actions, payloads)
  BY <1>1, <1>2, <1>3, Zenon
<1>5. \A j \in 1..Len(log) : j >= FirstUncovered => j # i
  BY <1>1, <1>4
<1>6. ASSUME NEW e, IsRow(e), e.action = row.action, log' = [log EXCEPT ![i] = e]
      PROVE  Edited
  <2>1. PICK before, later : before = log /\ later = log'
    OBVIOUS
  <2>2. /\ IsSequence(later) /\ Len(later) = Len(before) /\ later[i] = e
        /\ \A j \in 1..Len(before) : j # i => later[j] = before[j]
    <3>1. DOMAIN before = 1..Len(before) /\ Len(before) \in Nat /\ i \in 1..Len(before)
      BY <1>1, <1>4, <2>1
    <3>2. later = [before EXCEPT ![i] = e]
      BY <1>6, <2>1
    <3>3. later[i] = e /\ \A j \in 1..Len(before) : j # i => later[j] = before[j]
      BY <3>1, <3>2
    <3>4. PICK n : n = Len(before)
      OBVIOUS
    <3>5. n \in Nat /\ later = [j \in 1..n |-> later[j]]
      BY <3>1, <3>2, <3>4
    <3>6. IsSequence(later) /\ Len(later) = n
      BY <3>5, FunctionIsSequence
    <3> QED
      BY <3>3, <3>4, <3>6
  <2>3. ASSUME NEW j \in 1..Len(log)
        PROVE  /\ IsRow(log'[j]) /\ log'[j].action = log[j].action
               /\ j >= FirstUncovered => log'[j] = log[j]
    <3>1. CASE j = i
      BY <1>3, <1>5, <1>6, <2>1, <2>2, <3>1
    <3>2. CASE j # i
      BY <1>1, <2>1, <2>2, <3>2
    <3> QED
      BY <3>1, <3>2
  <2> QED
    BY <2>1, <2>2, <2>3 DEF Edited
<1>7. CASE log' = [log EXCEPT ![i].payload = said]
  <2>1. PICK e : e = [row EXCEPT !.payload = said]
    OBVIOUS
  <2>2. IsRow(e) /\ e.action = row.action
    BY <1>1, <1>3, <1>4, <2>1, PayloadEdited
  <2>3. log' = [log EXCEPT ![i] = e]
    BY <1>3, <1>7, <2>1
  <2> QED
    BY <1>6, <2>2, <2>3
<1>8. CASE log' = [log EXCEPT ![i].payload = said, ![i].payloadHash = Digest(said)]
  <2>1. PICK e : e = [row EXCEPT !.payload = said]
    OBVIOUS
  <2>2. PICK f : f = [e EXCEPT !.payloadHash = Digest(said)]
    OBVIOUS
  <2>3. IsRow(e) /\ e.action = row.action
    BY <1>1, <1>3, <1>4, <2>1, PayloadEdited
  <2>4. IsRow(f) /\ f.action = row.action
    <3>1. PICK digest : digest = Digest(said)
      OBVIOUS
    <3>2. f = [e EXCEPT !.payloadHash = digest]
      BY <2>2, <3>1
    <3> QED
      BY <2>3, <3>2, HashEdited
  <2>5. log' = [log EXCEPT ![i] = f]
    BY <1>1, <1>3, <1>4, <1>8, <2>1, <2>2
  <2> QED
    BY <1>6, <2>4, <2>5
<1>9. CASE log' = Chained(<<>>, actions, payloads)
  <2>1. IsSequence(actions) /\ Len(actions) = Len(log)
    <3>1. PICK n : n = Len(log)
      OBVIOUS
    <3>2. n \in Nat /\ actions = [j \in 1..n |-> actions[j]]
      BY <1>1, <1>3, <3>1
    <3> QED
      BY <3>1, <3>2, FunctionIsSequence
  <2>2. PICK none : none = <<>> /\ IsSequence(none) /\ Len(none) = 0
    BY EmptyIsSequence
  <2>3. /\ IsSequence(Chained(none, actions, payloads))
        /\ Len(Chained(none, actions, payloads)) = Len(none) + Len(actions)
        /\ \A j \in 1..Len(actions) :
             \E prev : Chained(none, actions, payloads)[Len(none) + j]
                       = Row(prev, actions[j], payloads[j])
    BY <2>1, <2>2, ChainedShape
  <2>4. log' = Chained(none, actions, payloads)
    BY <1>9, <2>2
  <2>5. IsSequence(log') /\ Len(log') = Len(log)
    BY <1>1, <2>1, <2>2, <2>3, <2>4
  <2>6. ASSUME NEW j \in 1..Len(log)
        PROVE  /\ IsRow(log'[j]) /\ log'[j].action = log[j].action
               /\ log'[j].rowHash = RowHash(log'[j].prev, log'[j].action,
                                            Digest(log'[j].payload), log'[j].payload)
               /\ j # i => log'[j].payload = log[j].payload
    <3>1. Len(none) + j = j
      BY <2>2
    <3>2. PICK prev : log'[j] = Row(prev, actions[j], payloads[j])
      BY <2>1, <2>3, <2>4, <3>1
    <3>3. PICK action, payload, r :
            action = actions[j] /\ payload = payloads[j] /\ r = log'[j]
      OBVIOUS
    <3>4. r = Row(prev, action, payload)
      BY <3>2, <3>3
    <3>5. /\ IsRow(r) /\ r.action = action /\ r.payload = payload
          /\ r.rowHash = RowHash(r.prev, r.action, Digest(r.payload), r.payload)
      BY <3>4, RowShape
    <3>6. action = log[j].action /\ (j # i => payload = log[j].payload)
      BY <1>1, <1>3, <3>3
    <3> QED
      BY <3>3, <3>5, <3>6
  <2> QED
    BY <1>5, <2>5, <2>6 DEF Edited
<1> QED
  BY <1>4, <1>7, <1>8, <1>9

(* Rows no anchor covers still say what was recorded, and everything else  *)
(* the invariant says of the data is said of data nobody edited.           *)
LEMMA EditInv ==
    ASSUME IInv, Edit
    PROVE  IInv'
<1>1. /\ SequencesOK /\ RecordedOnce /\ UncoveredMeant /\ WitnessMeant
      /\ RowsTypeOK /\ AnchorsFit /\ VerdictTypeOK
  BY DEF IInv, DataInv
<1>2. /\ Disturbs /\ edits < MaxEdits /\ edits' = edits + 1
      /\ reached' = reached /\ default' = default /\ anchors' = anchors /\ witness' = witness
      /\ truth' = truth /\ judged' = judged
  BY DEF Edit
<1>3. edits' \in 0..MaxEdits /\ edits' # 0
  BY <1>1, <1>2, BoundsAssumption DEF RowsTypeOK
<1>4. /\ Len(log) \in Nat /\ DOMAIN log = 1..Len(log) /\ IsSequence(log) /\ FirstUncovered \in Nat
      /\ \A j \in 1..Len(log) : IsRow(log[j]) /\ log[j].action \in Actions
  BY <1>1, LogDomain, FirstUncoveredIs DEF SequencesOK
<1>5. /\ Edited
      /\ stageRow' \in [Blocks -> Values \cup {NoValue}]
      /\ conformance' \in DOMAIN RULES \cup {NoValue}
  <2>1. /\ stageRow \in [Blocks -> Values \cup {NoValue}]
        /\ conformance \in DOMAIN RULES \cup {NoValue}
    BY <1>1 DEF RowsTypeOK, VerdictTypeOK
  <2>2. log' = log => Edited
    BY <1>4 DEF Edited
  <2>3. CASE EditStageRow
    BY <2>1, <2>2, <2>3 DEF EditStageRow
  <2>4. CASE EditConformance
    BY <2>1, <2>2, <2>4 DEF EditConformance
  <2>5. CASE EditLog
    <3>1. stageRow' = stageRow /\ conformance' = conformance
      BY <2>5 DEF EditLog
    <3> QED
      BY <1>1, <2>1, <2>5, <3>1, EditLogEdited
  <2> QED
    BY <2>3, <2>4, <2>5 DEF Edit
<1>6. /\ IsSequence(log') /\ Len(log') = Len(log)
      /\ \A j \in 1..Len(log) : IsRow(log'[j]) /\ log'[j].action = log[j].action
  BY <1>5 DEF Edited
<1>7. SequencesOK'
  <2>1. \A j \in 1..Len(log') : IsRow(log'[j]) /\ log'[j].action \in Actions
    BY <1>4, <1>6
  <2>2. IsSequence(anchors') /\ \A k \in 1..Len(anchors') : IsAnchor(anchors'[k])
    BY <1>1, <1>2 DEF SequencesOK
  <2> QED
    BY <1>6, <2>1, <2>2 DEF SequencesOK
<1>8. DOMAIN log \subseteq DOMAIN log' /\ FirstUncovered' = FirstUncovered
  <2>1. DOMAIN log' = 1..Len(log')
    BY <1>6, SequenceShape
  <2> QED
    BY <1>2, <1>4, <1>6, <2>1 DEF FirstUncovered
<1>9. TruthStays
  BY <1>2 DEF TruthStays
<1>10. WitnessMeant'
  BY <1>1, <1>2, <1>9, WitnessStays
<1>11. RecordedOnce'
  BY <1>1, <1>2, <1>6, Zenon DEF RecordedOnce, InCommit
<1>12. UncoveredMeant'
  <2>1. ASSUME NEW j \in 1..Len(log), j >= FirstUncovered PROVE RowMeant(log[j])'
    <3>1. log[j].rowHash = RowHash(log[j].prev, log[j].action, Digest(log[j].payload), log[j].payload)
          /\ Said(log[j].action, log[j].payload)
      BY <1>1, <2>1 DEF UncoveredMeant, RowMeant
    <3>2. /\ log'[j].payload = log[j].payload
          /\ log'[j].rowHash = RowHash(log'[j].prev, log'[j].action,
                                       Digest(log'[j].payload), log'[j].payload)
      BY <1>5, <2>1, <3>1 DEF Edited
    <3>3. PICK action, payload : action = log[j].action /\ payload = log[j].payload
      OBVIOUS
    <3>4. Said(action, payload)'
      BY <1>9, <3>1, <3>3, SaidStays
    <3>5. log'[j].action = action /\ log'[j].payload = payload
      BY <1>6, <3>2, <3>3
    <3> QED
      BY <3>2, <3>4, <3>5 DEF RowMeant, Said
  <2> QED
    BY <1>6, <1>8, <2>1 DEF UncoveredMeant
<1>13. Untouched' /\ RootsBuilt'
  BY <1>3 DEF Untouched, RootsBuilt
<1>14. AnchorsFit'
  BY <1>1, <1>2, <1>6 DEF AnchorsFit
<1>15. RowsTypeOK' /\ VerdictTypeOK'
  BY <1>1, <1>2, <1>3, <1>5 DEF RowsTypeOK, VerdictTypeOK
<1>16. AnswerTypeOK' /\ Snapshot' /\ ProofsVerify'
  BY <1>2, <1>3, <1>8, DisturbedAnswer
<1> QED
  BY <1>7, <1>10, <1>11, <1>12, <1>13, <1>14, <1>15, <1>16 DEF IInv, DataInv

-----------------------------------------------------------------------------
(* The steps of verify_batch.                                              *)

LEMMA DataStays ==
    UNCHANGED data =>
        /\ reached' = reached /\ stageRow' = stageRow /\ conformance' = conformance
        /\ default' = default /\ log' = log /\ anchors' = anchors /\ witness' = witness
        /\ truth' = truth /\ judged' = judged /\ edits' = edits
  BY DEF data, tables

LEMMA SameData ==
    ASSUME IInv, UNCHANGED data
    PROVE  /\ RowsTypeOK' /\ AnchorsFit' /\ VerdictTypeOK' /\ DataInv'
           /\ OwnIds' = OwnIds /\ \A i : ProofEntry(i)' = ProofEntry(i)
<1>1. /\ SequencesOK /\ RecordedOnce /\ UncoveredMeant /\ WitnessMeant /\ Untouched /\ RootsBuilt
      /\ RowsTypeOK /\ AnchorsFit /\ VerdictTypeOK
  BY DEF IInv, DataInv
<1>2. /\ reached' = reached /\ stageRow' = stageRow /\ conformance' = conformance
      /\ default' = default /\ log' = log /\ anchors' = anchors /\ witness' = witness
      /\ truth' = truth /\ judged' = judged /\ edits' = edits
  BY DataStays
<1>3. SameLog
  BY <1>2 DEF SameLog
<1>4. RecordedOnce' /\ TruthStays
  BY <1>1, <1>3, SameLogKeeps
<1>5. SequencesOK' /\ FirstUncovered' = FirstUncovered
  BY <1>1, <1>2 DEF SequencesOK, FirstUncovered
<1>6. UncoveredMeant'
  BY <1>1, <1>3, <1>5, SameLogUncovered
<1>7. WitnessMeant'
  BY <1>1, <1>2, <1>4, WitnessStays
<1>8. Untouched'
  BY <1>1, <1>2, <1>3, SameUntouched
<1>9. RootsBuilt' /\ AnchorsFit'
  BY <1>1, <1>2 DEF RootsBuilt, RootBuilt, LeavesFor, AnchorsFit
<1>10. RowsTypeOK' /\ VerdictTypeOK'
  BY <1>1, <1>2 DEF RowsTypeOK, VerdictTypeOK
<1>11. OwnIds' = OwnIds /\ \A i : ProofEntry(i)' = ProofEntry(i)
  BY <1>2 DEF OwnIds, ProofEntry, Covering, LeavesFor
<1> QED
  BY <1>4, <1>5, <1>6, <1>7, <1>8, <1>9, <1>10, <1>11 DEF DataInv

(* What entries_for_subject returns verifies.                              *)
LEMMA EntryVerifies ==
    ASSUME IInv, edits = 0, NEW i \in 1..Len(log), ProofEntry(i).status # "pending"
    PROVE  VerifyInclusion(LeafHash(ProofEntry(i).rowHash), ProofEntry(i).path, ProofEntry(i).root)
<1>1. SequencesOK /\ RootsBuilt
  BY DEF IInv, DataInv
<1>2. PICK k, leaves, index :
        /\ k \in 1..Len(anchors) /\ leaves = LeavesFor(anchors[k].from, anchors[k].to)
        /\ IsSequence(leaves) /\ index \in 1..Len(leaves)
        /\ leaves[index] = LeafHash(log[i].rowHash)
        /\ ProofEntry(i).path = InclusionProof(leaves, index)
        /\ ProofEntry(i).root = anchors[k].root
  BY <1>1, EntryOfCovered
<1>3. ProofEntry(i).root = BuildRoot(leaves)
  BY <1>1, <1>2 DEF RootsBuilt, RootBuilt
<1>4. VerifyInclusion(leaves[index], InclusionProof(leaves, index), BuildRoot(leaves))
  BY <1>2, EveryProofVerifies
<1>5. ProofEntry(i).rowHash = log[i].rowHash
  BY DEF ProofEntry
<1> QED
  BY <1>2, <1>3, <1>4, <1>5

LEMMA ReadEntriesInv ==
    ASSUME IInv, ReadEntries
    PROVE  IInv'
<1>1. /\ pc = "idle" /\ pc' = "rows" /\ entries' = [i \in OwnIds |-> ProofEntry(i)]
      /\ UNCHANGED data /\ recorded' = recorded /\ scored' = scored /\ read' = read
      /\ quiet' = quiet
  BY DEF ReadEntries
<1>2. /\ RowsTypeOK' /\ AnchorsFit' /\ VerdictTypeOK' /\ DataInv'
      /\ OwnIds' = OwnIds /\ \A i : ProofEntry(i)' = ProofEntry(i)
  BY <1>1, SameData
<1>3. log' = log /\ edits' = edits
  BY <1>1, DataStays
<1>4. AnswerTypeOK /\ Snapshot /\ SequencesOK
  BY DEF IInv, DataInv
<1>5. OwnIds \subseteq 1..Len(log) /\ DOMAIN log = 1..Len(log)
  BY <1>4, LogDomain DEF OwnIds
<1>6. AnswerTypeOK'
  <2>1. DOMAIN entries' \subseteq DOMAIN log'
    BY <1>1, <1>3, <1>5
  <2>2. DOMAIN recorded' \subseteq DOMAIN log'
    BY <1>1, <1>3, <1>4 DEF AnswerTypeOK
  <2>3. pc' \in {"idle", "rows", "conformance", "blocks", "done"} /\ quiet' \in BOOLEAN
        /\ scored' \in DOMAIN RULES \cup {NoValue}
    BY <1>1, <1>4 DEF AnswerTypeOK
  <2>4. IsSequence(read') /\ Len(read') <= Len(BlockOrder)
    BY <1>1, <1>4 DEF AnswerTypeOK
  <2> QED
    BY <2>1, <2>2, <2>3, <2>4 DEF AnswerTypeOK
<1>7. Snapshot'
  <2>1. read = <<>> /\ Len(read) # Len(BlockOrder)
    BY <1>1, <1>4 DEF Snapshot
  <2>2. 1..Len(read') = {}
    BY <1>1, <2>1, EmptyIsSequence
  <2> QED
    BY <1>1, <1>2, <2>1, <2>2 DEF Snapshot
<1>8. ProofsVerify'
  <2>1. ASSUME edits = 0, NEW i \in OwnIds, ProofEntry(i).status # "pending"
        PROVE  VerifyInclusion(LeafHash(ProofEntry(i).rowHash), ProofEntry(i).path,
                               ProofEntry(i).root)
    BY <1>5, <2>1, EntryVerifies
  <2> QED
    BY <1>1, <1>3, <2>1 DEF ProofsVerify
<1> QED
  BY <1>2, <1>6, <1>7, <1>8 DEF IInv

LEMMA ReadRowsInv ==
    ASSUME IInv, ReadRows
    PROVE  IInv'
<1>1. /\ pc = "rows" /\ pc' = "conformance" /\ recorded' = [i \in OwnIds |-> log[i]]
      /\ UNCHANGED data /\ entries' = entries /\ scored' = scored /\ read' = read
      /\ quiet' = quiet
  BY DEF ReadRows
<1>2. /\ RowsTypeOK' /\ AnchorsFit' /\ VerdictTypeOK' /\ DataInv'
      /\ OwnIds' = OwnIds /\ \A i : ProofEntry(i)' = ProofEntry(i)
  BY <1>1, SameData
<1>3. log' = log /\ edits' = edits
  BY <1>1, DataStays
<1>4. AnswerTypeOK /\ Snapshot /\ SequencesOK /\ ProofsVerify
  BY DEF IInv, DataInv
<1>5. OwnIds \subseteq 1..Len(log) /\ DOMAIN log = 1..Len(log)
  BY <1>4, LogDomain DEF OwnIds
<1>6. AnswerTypeOK'
  <2>1. DOMAIN recorded' \subseteq DOMAIN log'
    BY <1>1, <1>3, <1>5
  <2>2. DOMAIN entries' \subseteq DOMAIN log'
    BY <1>1, <1>3, <1>4 DEF AnswerTypeOK
  <2>3. pc' \in {"idle", "rows", "conformance", "blocks", "done"} /\ quiet' \in BOOLEAN
        /\ scored' \in DOMAIN RULES \cup {NoValue}
    BY <1>1, <1>4 DEF AnswerTypeOK
  <2>4. IsSequence(read') /\ Len(read') <= Len(BlockOrder)
    BY <1>1, <1>4 DEF AnswerTypeOK
  <2> QED
    BY <2>1, <2>2, <2>3, <2>4 DEF AnswerTypeOK
<1>7. Snapshot'
  <2>1. read = <<>> /\ Len(read) # Len(BlockOrder)
    BY <1>1, <1>4 DEF Snapshot
  <2>2. 1..Len(read') = {}
    BY <1>1, <2>1, EmptyIsSequence
  <2>3. quiet' => entries' = [i \in OwnIds |-> ProofEntry(i)]
    BY <1>1, <1>4 DEF Snapshot
  <2>4. recorded' = [i \in OwnIds' |-> log'[i]]
    BY <1>1, <1>2, <1>3
  <2> QED
    BY <1>1, <1>2, <2>1, <2>2, <2>3, <2>4 DEF Snapshot
<1>8. ProofsVerify'
  BY <1>1, <1>3, <1>4 DEF ProofsVerify
<1> QED
  BY <1>2, <1>6, <1>7, <1>8 DEF IInv

LEMMA ReadConformanceInv ==
    ASSUME IInv, ReadConformance
    PROVE  IInv'
<1>1. /\ pc = "conformance" /\ pc' = "blocks" /\ scored' = conformance
      /\ UNCHANGED data /\ entries' = entries /\ recorded' = recorded /\ read' = read
      /\ quiet' = quiet
  BY DEF ReadConformance
<1>2. /\ RowsTypeOK' /\ AnchorsFit' /\ VerdictTypeOK' /\ DataInv'
      /\ OwnIds' = OwnIds /\ \A i : ProofEntry(i)' = ProofEntry(i)
  BY <1>1, SameData
<1>3. log' = log /\ edits' = edits /\ conformance' = conformance
  BY <1>1, DataStays
<1>4. AnswerTypeOK /\ Snapshot /\ ProofsVerify /\ VerdictTypeOK
  BY DEF IInv
<1>5. AnswerTypeOK'
  <2>1. DOMAIN recorded' \subseteq DOMAIN log' /\ DOMAIN entries' \subseteq DOMAIN log'
    BY <1>1, <1>3, <1>4 DEF AnswerTypeOK
  <2>2. pc' \in {"idle", "rows", "conformance", "blocks", "done"} /\ quiet' \in BOOLEAN
        /\ scored' \in DOMAIN RULES \cup {NoValue}
    BY <1>1, <1>4 DEF AnswerTypeOK, VerdictTypeOK
  <2>3. IsSequence(read') /\ Len(read') <= Len(BlockOrder)
    BY <1>1, <1>4 DEF AnswerTypeOK
  <2> QED
    BY <2>1, <2>2, <2>3 DEF AnswerTypeOK
<1>6. Snapshot'
  <2>1. read = <<>> /\ Len(read) # Len(BlockOrder)
    BY <1>1, <1>4 DEF Snapshot
  <2>2. 1..Len(read') = {}
    BY <1>1, <2>1, EmptyIsSequence
  <2>3. quiet' => /\ entries' = [i \in OwnIds |-> ProofEntry(i)]
                  /\ recorded' = [i \in OwnIds |-> log[i]]
    BY <1>1, <1>4 DEF Snapshot
  <2> QED
    BY <1>1, <1>2, <1>3, <2>1, <2>2, <2>3 DEF Snapshot
<1>7. ProofsVerify'
  BY <1>1, <1>3, <1>4 DEF ProofsVerify
<1> QED
  BY <1>2, <1>5, <1>6, <1>7 DEF IInv

LEMMA ReadBlockInv ==
    ASSUME IInv, ReadBlock
    PROVE  IInv'
<1>1. /\ pc = "blocks" /\ read' = Append(read, stageRow[BlockOrder[Len(read) + 1]])
      /\ pc' = IF Len(read') = Len(BlockOrder) THEN "done" ELSE "blocks"
      /\ UNCHANGED data /\ entries' = entries /\ recorded' = recorded /\ scored' = scored
      /\ quiet' = quiet
  BY DEF ReadBlock
<1>2. /\ RowsTypeOK' /\ AnchorsFit' /\ VerdictTypeOK' /\ DataInv'
      /\ OwnIds' = OwnIds /\ \A i : ProofEntry(i)' = ProofEntry(i)
  BY <1>1, SameData
<1>3. log' = log /\ edits' = edits /\ conformance' = conformance /\ stageRow' = stageRow
  BY <1>1, DataStays
<1>4. AnswerTypeOK /\ Snapshot /\ ProofsVerify
  BY DEF IInv
<1>5. IsSequence(read) /\ Len(read) \in Nat /\ Len(BlockOrder) \in Nat /\ Len(read) < Len(BlockOrder)
  <2>1. IsSequence(read) /\ Len(read) <= Len(BlockOrder)
    BY <1>4 DEF AnswerTypeOK
  <2>2. Len(read) # Len(BlockOrder)
    BY <1>1, <1>4 DEF Snapshot
  <2>3. Len(read) \in Nat
    BY <2>1, SequenceShape
  <2> QED
    BY <2>1, <2>2, <2>3, BlockOrderShape
<1>6. /\ IsSequence(read') /\ Len(read') = Len(read) + 1
      /\ \A k \in 1..Len(read) : read'[k] = read[k]
      /\ read'[Len(read) + 1] = stageRow[BlockOrder[Len(read) + 1]]
  <2>1. PICK before, e : before = read /\ e = stageRow[BlockOrder[Len(read) + 1]]
    OBVIOUS
  <2>2. /\ IsSequence(Append(before, e)) /\ Len(Append(before, e)) = Len(before) + 1
        /\ \A k \in 1..Len(before) : Append(before, e)[k] = before[k]
        /\ Append(before, e)[Len(before) + 1] = e
    BY <1>5, <2>1, AppendShape
  <2> QED
    BY <1>1, <2>1, <2>2
<1>7. AnswerTypeOK'
  <2>1. DOMAIN recorded' \subseteq DOMAIN log' /\ DOMAIN entries' \subseteq DOMAIN log'
    BY <1>1, <1>3, <1>4 DEF AnswerTypeOK
  <2>2. pc' \in {"idle", "rows", "conformance", "blocks", "done"} /\ quiet' \in BOOLEAN
        /\ scored' \in DOMAIN RULES \cup {NoValue}
    BY <1>1, <1>4 DEF AnswerTypeOK
  <2>3. IsSequence(read') /\ Len(read') <= Len(BlockOrder)
    BY <1>5, <1>6
  <2> QED
    BY <2>1, <2>2, <2>3 DEF AnswerTypeOK
<1>8. Snapshot'
  <2>1. /\ pc' = "done" <=> Len(read') = Len(BlockOrder)
        /\ pc' \notin {"idle", "rows", "conformance"}
    BY <1>1
  <2>2. quiet' => /\ entries' = [i \in OwnIds |-> ProofEntry(i)]
                  /\ recorded' = [i \in OwnIds |-> log[i]]
                  /\ scored' = conformance
                  /\ \A k \in 1..Len(read) : read[k] = stageRow[BlockOrder[k]]
    BY <1>1, <1>4 DEF Snapshot
  <2>3. ASSUME quiet', NEW k \in 1..Len(read') PROVE read'[k] = stageRow'[BlockOrder[k]]
    <3>1. CASE k \in 1..Len(read)
      BY <1>3, <1>6, <2>2, <2>3, <3>1
    <3>2. CASE k \notin 1..Len(read)
      <4>1. k = Len(read) + 1
        BY <1>5, <1>6, <3>2
      <4> QED
        BY <1>3, <1>6, <4>1
    <3> QED
      BY <3>1, <3>2
  <2>4. quiet' => /\ entries' = [i \in OwnIds' |-> ProofEntry(i)']
                  /\ recorded' = [i \in OwnIds' |-> log'[i]]
                  /\ scored' = conformance'
    BY <1>2, <1>3, <2>2
  <2> QED
    BY <2>1, <2>3, <2>4 DEF Snapshot
<1>9. ProofsVerify'
  BY <1>1, <1>3, <1>4 DEF ProofsVerify
<1> QED
  BY <1>2, <1>7, <1>8, <1>9 DEF IInv

LEMMA StutterInv ==
    ASSUME IInv, UNCHANGED vars
    PROVE  IInv'
<1>1. /\ UNCHANGED data /\ pc' = pc /\ entries' = entries /\ recorded' = recorded
      /\ scored' = scored /\ read' = read /\ quiet' = quiet
  BY DEF vars, answer
<1>2. /\ RowsTypeOK' /\ AnchorsFit' /\ VerdictTypeOK' /\ DataInv'
      /\ OwnIds' = OwnIds /\ \A i : ProofEntry(i)' = ProofEntry(i)
  BY <1>1, SameData
<1>3. log' = log /\ edits' = edits /\ conformance' = conformance /\ stageRow' = stageRow
  BY <1>1, DataStays
<1>4. AnswerTypeOK /\ Snapshot /\ ProofsVerify
  BY DEF IInv
<1>5. AnswerTypeOK' /\ ProofsVerify'
  BY <1>1, <1>3, <1>4 DEF AnswerTypeOK, ProofsVerify
<1>6. Snapshot'
  BY <1>1, <1>2, <1>3, <1>4 DEF Snapshot
<1> QED
  BY <1>2, <1>5, <1>6 DEF IInv

LEMMA InvStep == IInv /\ [Next]_vars => IInv'
<1> SUFFICES ASSUME IInv, [Next]_vars PROVE IInv'
  OBVIOUS
<1>1. CASE Transition
  BY <1>1, TransitionInv
<1>2. CASE MoveDefault
  BY <1>2, MoveDefaultInv
<1>3. CASE OtherRow
  BY <1>3, OtherRowInv
<1>4. CASE Anchor
  BY <1>4, AnchorInv
<1>5. CASE Upgrade
  BY <1>5, UpgradeInv
<1>6. CASE Edit
  BY <1>6, EditInv
<1>7. CASE ReadEntries
  BY <1>7, ReadEntriesInv
<1>8. CASE ReadRows
  BY <1>8, ReadRowsInv
<1>9. CASE ReadConformance
  BY <1>9, ReadConformanceInv
<1>10. CASE ReadBlock
  BY <1>10, ReadBlockInv
<1>11. CASE UNCHANGED vars
  BY <1>11, StutterInv
<1> QED
  BY <1>1, <1>2, <1>3, <1>4, <1>5, <1>6, <1>7, <1>8, <1>9, <1>10, <1>11 DEF Next

-----------------------------------------------------------------------------
(* The theorems.                                                           *)

\* In every state, what no anchor covers says what was recorded, every witnessed
\* root is that of a tree of such rows, and an answer nothing disturbed is of the
\* data as they are.
LEMMA Invariance == Spec => []IInv
<1>1. Init => IInv
  BY InvInit
<1>2. IInv /\ [Next]_vars => IInv'
  BY InvStep
<1> QED
  BY <1>1, <1>2, PTL DEF Spec

\* The rows, the anchors and the answer keep the shape their columns give them,
\* and the anchors cover the log from its start without a gap or an overlap.
THEOREM TypeCorrect == Spec => []TypeOK
  BY Invariance, InvImpliesTypeOK, PTL

\* verify_batch never contradicts what was recorded when nobody edited anything
\* and nothing was written while it ran: every recorded stage matches, every
\* other one is None.
THEOREM HonestAnswersMatch == Spec => []HonestBlocksMatch
  BY Invariance, InvImpliesHonestBlocksMatch, PTL

LEMMA InvImpliesProofsVerify == IInv => ProofsVerify
  BY DEF IInv

\* The inclusion proof of every entry an anchor covers leads to the root of that
\* anchor, whatever the number of rows each anchor took.
THEOREM ReturnedProofsVerify == Spec => []ProofsVerify
  BY Invariance, InvImpliesProofsVerify, PTL

\* Whatever was edited behind the program's back, and however the log was linked
\* anew after it: a block that matches next to a chain that verifies and a proof
\* that leads to a witnessed root shows what was recorded.
THEOREM NoEditIsUnseen == Spec => []ThreeWaysShowEveryEdit
  BY Invariance, InvImpliesThreeWays, PTL

\* The verdict that verify_batch shows next to a chain that verifies and a proof
\* of the lab result's row is the one that was recorded with it, whichever rule
\* set is the default by now and whatever became of the rows it was worked out from.
THEOREM ConformanceAsAnchored == Spec => []ConformanceIsWitnessed
  BY Invariance, InvImpliesConformance, PTL
=============================================================================
