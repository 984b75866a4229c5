--------------------------- MODULE Anchoring_proofs ---------------------------
(***************************************************************************)
(* Proofs about AuditChain and about Anchoring, which extends it, for any  *)
(* transactions, replicas, bodies and bounds.  The chain comes first, on   *)
(* its own: what anchoring needs of it is that a commit only ever adds     *)
(* rows above the committed ones.                                          *)
(***************************************************************************)
EXTENDS Anchoring, TLAPS, FiniteSetTheorems, WellFoundedInduction

-----------------------------------------------------------------------------
(* AuditChain: the greatest id of a set.                                   *)

(* A set of ids that is not empty has a greatest element: the sets of the  *)
(* elements above each of its elements are finite, so one is minimal.      *)
LEMMA GreatestExists ==
    ASSUME NEW S \in SUBSET Nat, IsFiniteSet(S), S # {}
    PROVE  /\ Greatest(S) \in S
           /\ \A j \in S : j <= Greatest(S)
<1> DEFINE Above(i) == {k \in S : i < k}
           T == {Above(k) : k \in S}
<1>1. T \subseteq FiniteSubsetsOf(S)
  BY FS_Subset DEF FiniteSubsetsOf
<1>2. T # {}
  OBVIOUS
<1>3. PICK x \in T : \A y \in T : ~(<<y, x>> \in StrictSubsetOrdering(S))
  <2> HIDE DEF T
  <2> QED
    BY <1>1, <1>2, WFMin, FS_StrictSubsetOrderingWellFounded
<1>4. PICK i \in S : x = Above(i)
  OBVIOUS
<1>5. ASSUME NEW j \in S, i < j PROVE FALSE
  <2>1. Above(j) \in T
    OBVIOUS
  <2>2. Above(j) \subseteq Above(i) /\ j \in Above(i) /\ j \notin Above(j)
    <3>1. \A k \in S : j < k => i < k
      BY <1>5
    <3>2. ~(j < j)
      OBVIOUS
    <3> QED
      BY <1>5, <3>1, <3>2
  <2>3. <<Above(j), Above(i)>> \in StrictSubsetOrdering(S)
    BY <2>2 DEF StrictSubsetOrdering
  <2> QED
    BY <2>1, <2>3, <1>3, <1>4
<1>6. \A j \in S : j <= i
  BY <1>5
<1> QED
  BY <1>6 DEF Greatest

LEMMA GreatestId ==
    ASSUME NEW S \in SUBSET Ids, S # {}
    PROVE  /\ Greatest(S) \in S
           /\ \A j \in S : j <= Greatest(S)
<1>1. S \in SUBSET Nat
  BY BoundsAssumption DEF Ids
<1>2. IsFiniteSet(Ids)
  BY FS_Interval, BoundsAssumption DEF Ids
<1>3. IsFiniteSet(S)
  BY <1>2, FS_Subset
<1> QED
  BY <1>1, <1>3, GreatestExists

(* Adding an id above all of S makes it the greatest; ids below those of S *)
(* do not change the greatest.                                             *)
LEMMA GreatestOfUnion ==
    ASSUME NEW S \in SUBSET Ids, NEW T \in SUBSET Ids, T # {},
           \A i \in S, j \in T : i < j
    PROVE  Greatest(S \cup T) = Greatest(T)
<1>1. Greatest(T) \in T /\ \A j \in T : j <= Greatest(T)
  BY GreatestId
<1>2. Greatest(S \cup T) \in S \cup T /\ \A j \in S \cup T : j <= Greatest(S \cup T)
  BY GreatestId
<1>3. \A i \in S \cup T : i \in Nat
  BY BoundsAssumption DEF Ids
<1>4. Greatest(S \cup T) \notin S
  BY <1>1, <1>2, <1>3
<1> QED
  BY <1>1, <1>2, <1>3, <1>4

LEMMA TailHashType ==
    ASSUME ChainTypeOK, NEW S \in SUBSET Ids,
           \A i \in S : status[i] \in {"inflight", "committed"}
    PROVE  TailHash(S) \in Hashes
<1>1. CASE S = {}
  BY <1>1 DEF TailHash, GenesisPrevHash, Hashes
<1>2. CASE S # {}
  <2>1. Greatest(S) \in S
    BY <1>2, GreatestId
  <2>2. entry[Greatest(S)] \in Row
    BY <2>1 DEF ChainTypeOK
  <2> QED
    BY <1>2, <2>2 DEF TailHash, Row
<1> QED
  BY <1>1, <1>2

-----------------------------------------------------------------------------
(* Type correctness.                                                       *)

LEMMA EndTransactionType ==
    ASSUME ChainTypeOK, NEW w \in Writers, EndTransaction(w)
    PROVE  /\ chainLock' \in Writers \cup {NoWriter}
           /\ pc' \in [Writers -> {"idle", "waiting", "reading", "inserting", "open"}]
           /\ tail' \in [Writers -> Hashes]
BY DEF ChainTypeOK, EndTransaction, GenesisPrevHash, Hashes

LEMMA UndoType ==
    ASSUME ChainTypeOK, NEW w \in Writers, Undo(w)
    PROVE  ChainTypeOK'
<1>1. /\ nextId' = nextId
      /\ nextId' \in 1..(MaxId + 1)
      /\ chainLock' \in Writers \cup {NoWriter}
      /\ pc' \in [Writers -> {"idle", "waiting", "reading", "inserting", "open"}]
      /\ tail' \in [Writers -> Hashes]
  BY EndTransactionType DEF Undo, UndoRows, ChainTypeOK
<1>2. status' \in [Ids -> {"free", "inflight", "committed", "burned"}]
  BY DEF Undo, UndoRows, ChainTypeOK
<1>3. entry' \in [Ids -> Row \cup {NoRow}]
  BY DEF Undo, UndoRows, ChainTypeOK
<1>4. ASSUME NEW i \in Ids
      PROVE  /\ i < nextId' <=> status'[i] # "free"
             /\ status'[i] \in {"inflight", "committed"} => entry'[i] \in Row
  BY <1>1 DEF Undo, UndoRows, ChainTypeOK, InFlight
<1> QED
  BY <1>1, <1>2, <1>3, <1>4 DEF ChainTypeOK

LEMMA TypeInit == ChainInit => ChainTypeOK
<1> SUFFICES ASSUME ChainInit PROVE ChainTypeOK
  OBVIOUS
<1>1. GenesisPrevHash \in Hashes
  BY DEF GenesisPrevHash, Hashes
<1> QED
  BY <1>1, BoundsAssumption DEF ChainInit, ChainTypeOK, Ids

LEMMA TypeStep == ChainTypeOK /\ [ChainNext]_chainVars => ChainTypeOK'
<1> SUFFICES ASSUME ChainTypeOK, [ChainNext]_chainVars
             PROVE  ChainTypeOK'
  OBVIOUS
<1>1. ASSUME NEW w \in Writers, CallAppend(w) PROVE ChainTypeOK'
  BY <1>1 DEF CallAppend, ChainTypeOK
<1>2. ASSUME NEW w \in Writers, TakeChainLock(w) PROVE ChainTypeOK'
  BY <1>2 DEF TakeChainLock, ChainTypeOK
<1>3. ASSUME NEW w \in Writers, ReadTail(w) PROVE ChainTypeOK'
  <2>1. TailHash(Committed \cup InFlight(w)) \in Hashes
    BY TailHashType DEF Committed, InFlight
  <2> QED
    BY <1>3, <2>1 DEF ReadTail, ChainTypeOK
<1>4. ASSUME NEW w \in Writers, Insert(w) PROVE ChainTypeOK'
  <2>1. nextId \in Ids /\ nextId' = nextId + 1
    BY <1>4, BoundsAssumption DEF Insert, InsertRow, ChainTypeOK, Ids
  <2>2. PICK body \in Bodies :
          entry' = [entry EXCEPT ![nextId] =
                      [tx |-> w, prev |-> tail[w], body |-> body,
                       hash |-> RowHash(tail[w], body)]]
    BY <1>4 DEF Insert, InsertRow
  <2>3. tail[w] \in Hashes /\ RowHash(tail[w], body) \in Hashes
    BY DEF ChainTypeOK, RowHash, Hashes
  <2>4. entry' \in [Ids -> Row \cup {NoRow}] /\ entry'[nextId] \in Row
    BY <2>1, <2>2, <2>3 DEF ChainTypeOK, Row
  <2>5. status' \in [Ids -> {"free", "inflight", "committed", "burned"}]
    BY <1>4 DEF Insert, InsertRow, ChainTypeOK
  <2>6. ASSUME NEW i \in Ids
        PROVE  /\ i < nextId' <=> status'[i] # "free"
               /\ status'[i] \in {"inflight", "committed"} => entry'[i] \in Row
    <3>1. CASE i = nextId
      BY <3>1, <2>1, <2>4, <1>4 DEF Insert, InsertRow, ChainTypeOK, Ids
    <3>2. CASE i # nextId
      <4>1. status'[i] = status[i] /\ entry'[i] = entry[i]
        BY <3>2, <2>2, <1>4 DEF Insert, InsertRow, ChainTypeOK
      <4>2. i < nextId' <=> i < nextId
        BY <3>2, <2>1 DEF Ids
      <4> QED
        BY <4>1, <4>2 DEF ChainTypeOK
    <3> QED
      BY <3>1, <3>2
  <2>7. nextId' \in 1..(MaxId + 1)
    BY <2>1, BoundsAssumption DEF Ids
  <2>8. pc' \in [Writers -> {"idle", "waiting", "reading", "inserting", "open"}]
        /\ chainLock' = chainLock
    BY <1>4 DEF Insert, InsertRow, ChainTypeOK
  <2>9. tail' \in [Writers -> Hashes]
    BY <1>4 DEF Insert, InsertRow, ChainTypeOK, GenesisPrevHash, Hashes
  <2> QED
    BY <2>4, <2>5, <2>6, <2>7, <2>8, <2>9 DEF ChainTypeOK
<1>5. ASSUME NEW w \in Writers, Commit(w) PROVE ChainTypeOK'
  <2>1. /\ nextId' = nextId
        /\ nextId' \in 1..(MaxId + 1)
        /\ chainLock' \in Writers \cup {NoWriter}
        /\ pc' \in [Writers -> {"idle", "waiting", "reading", "inserting", "open"}]
        /\ tail' \in [Writers -> Hashes]
    BY <1>5, EndTransactionType DEF Commit, ChainTypeOK
  <2>2. status' \in [Ids -> {"free", "inflight", "committed", "burned"}]
    BY <1>5 DEF Commit, ChainTypeOK
  <2>3. entry' = entry
    BY <1>5 DEF Commit
  <2>4. ASSUME NEW i \in Ids
        PROVE  /\ i < nextId' <=> status'[i] # "free"
               /\ status'[i] \in {"inflight", "committed"} => entry'[i] \in Row
    BY <2>1, <2>3, <1>5 DEF Commit, ChainTypeOK, InFlight
  <2> QED
    BY <2>1, <2>2, <2>3, <2>4 DEF ChainTypeOK
<1>6. ASSUME NEW w \in Writers, Rollback(w) PROVE ChainTypeOK'
  BY <1>6, UndoType DEF Rollback
<1>7. ASSUME NEW w \in Writers, InsertFails(w) PROVE ChainTypeOK'
  BY <1>7, UndoType DEF InsertFails
<1>8. CASE UNCHANGED chainVars
  BY <1>8 DEF chainVars, ChainTypeOK
<1> QED
  BY <1>1, <1>2, <1>3, <1>4, <1>5, <1>6, <1>7, <1>8 DEF ChainNext, WriterStep

(* The variables of the chain always have their types: in particular a row *)
(* exists under an id exactly when the sequence handed the id out and no   *)
(* rollback took the row away.                                             *)
THEOREM ChainTypeCorrect == ChainSafety => []ChainTypeOK
<1> QED
  BY TypeInit, TypeStep, PTL DEF ChainSafety

-----------------------------------------------------------------------------
(* The inductive invariant.  The properties of AuditChain speak of the     *)
(* committed rows; a commit makes rows committed that were in flight, so   *)
(* the invariant says as much of those: they are above every committed     *)
(* row, correctly linked already, and all of one transaction, the lock's   *)
(* holder.                                                                 *)

Visible == {i \in Ids : status[i] \in {"inflight", "committed"}}

LockHeld ==
    \A w \in Writers : pc[w] \in {"reading", "inserting", "open"} => chainLock = w

CommittedBelow ==
    \A i, j \in Ids : status[i] = "inflight" /\ status[j] = "committed" => j < i

TailFresh ==
    \A w \in Writers :
        pc[w] = "inserting" => tail[w] = TailHash(Committed \cup InFlight(w))

LinkedAt(i) ==
    /\ entry[i].prev = TailHash({j \in Visible : j < i})
    /\ entry[i].hash = RowHash(entry[i].prev, entry[i].body)

Linked == \A i \in Visible : LinkedAt(i)

Grows == \A i \in Ids :
            status[i] = "inflight" => Log!Extends(entry[i].hash, TailHash(Committed))

IInv ==
    /\ ChainTypeOK
    /\ LockHeld
    /\ OneAppender
    /\ CommittedBelow
    /\ TailFresh
    /\ Linked
    /\ Grows

LEMMA InvInit == ChainInit => IInv
<1> SUFFICES ASSUME ChainInit PROVE IInv
  OBVIOUS
<1>1. \A i \in Ids : status[i] = "free"
  BY DEF ChainInit
<1>2. \A w \in Writers : pc[w] = "idle"
  BY DEF ChainInit
<1> QED
  BY <1>1, <1>2, TypeInit
     DEF IInv, LockHeld, OneAppender, InFlight, CommittedBelow, TailFresh, Linked, Visible, Grows

(* While w holds the lock, every row in flight is its own.                 *)
LEMMA HolderSeesAll ==
    ASSUME IInv, NEW w \in Writers, chainLock = w
    PROVE  /\ Visible = Committed \cup InFlight(w)
           /\ \A v \in Writers : v # w => InFlight(v) = {}
           /\ \A v \in Writers : pc[v] \in {"reading", "inserting", "open"} => v = w
<1>1. \A v \in Writers : v # w => InFlight(v) = {}
  BY DEF IInv, OneAppender
<1>2. \A i \in Ids : status[i] = "inflight" => entry[i].tx \in Writers
  BY DEF IInv, ChainTypeOK, Row
<1>3. \A i \in Ids : status[i] = "inflight" => i \in InFlight(w)
  BY <1>1, <1>2 DEF InFlight
<1>4. Visible = Committed \cup InFlight(w)
  BY <1>3 DEF Visible, Committed, InFlight
<1> QED
  BY <1>1, <1>4 DEF IInv, LockHeld

(* A step that touches no row keeps what is said of rows.                  *)
LEMMA RowsUntouched ==
    ASSUME IInv, UNCHANGED <<status, entry>>
    PROVE  /\ Committed' = Committed
           /\ \A w \in Writers : InFlight(w)' = InFlight(w)
           /\ TailHash(Committed)' = TailHash(Committed)
           /\ CommittedBelow' /\ Linked' /\ Grows'
<1>1. Committed' = Committed /\ Visible' = Visible
  BY DEF Committed, Visible
<1>2. \A w \in Writers : InFlight(w)' = InFlight(w)
  BY DEF InFlight
<1>3. TailHash(Committed)' = TailHash(Committed)
  BY <1>1 DEF TailHash
<1>4. CommittedBelow'
  BY DEF IInv, CommittedBelow
<1>5. Linked'
  BY <1>1 DEF IInv, Linked, LinkedAt, TailHash
<1>6. Grows'
  BY <1>1, <1>3 DEF IInv, Grows, Log!Extends
<1> QED
  BY <1>1, <1>2, <1>3, <1>4, <1>5, <1>6

LEMMA CallAppendInv ==
    ASSUME IInv, ChainTypeOK', NEW w \in Writers, CallAppend(w)
    PROVE  IInv'
<1>1. UNCHANGED <<status, entry, chainLock, tail>>
  BY DEF CallAppend
<1>2. \A v \in Writers : v # w => pc'[v] = pc[v]
  BY DEF CallAppend, IInv, ChainTypeOK
<1>3. pc'[w] = "waiting"
  BY DEF CallAppend, IInv, ChainTypeOK
<1>4. LockHeld'
  BY <1>1, <1>2, <1>3 DEF IInv, LockHeld
<1>5. OneAppender'
  BY <1>1, RowsUntouched DEF IInv, OneAppender
<1>6. TailFresh'
  <2> SUFFICES ASSUME NEW v \in Writers, pc'[v] = "inserting"
               PROVE  tail'[v] = TailHash(Committed \cup InFlight(v))'
    BY DEF TailFresh
  <2>1. tail[v] = TailHash(Committed \cup InFlight(v))
    BY <1>2, <1>3 DEF IInv, TailFresh
  <2> QED
    BY <2>1, <1>1, RowsUntouched DEF TailHash
<1> QED
  BY <1>1, <1>4, <1>5, <1>6, RowsUntouched DEF IInv

LEMMA TakeChainLockInv ==
    ASSUME IInv, ChainTypeOK', NEW w \in Writers, TakeChainLock(w)
    PROVE  IInv'
<1>1. UNCHANGED <<status, entry, tail>> /\ chainLock' = w /\ chainLock \in {NoWriter, w}
  BY DEF TakeChainLock
<1>2. \A v \in Writers : v # w => pc'[v] = pc[v]
  BY DEF TakeChainLock, IInv, ChainTypeOK
<1>3. pc'[w] = "reading"
  BY DEF TakeChainLock, IInv, ChainTypeOK
<1>4. LockHeld'
  BY <1>1, <1>2, <1>3, NoWriterAssumption DEF IInv, LockHeld
<1>5. OneAppender'
  BY <1>1, RowsUntouched, NoWriterAssumption DEF IInv, OneAppender
<1>6. TailFresh'
  <2> SUFFICES ASSUME NEW v \in Writers, pc'[v] = "inserting"
               PROVE  tail'[v] = TailHash(Committed \cup InFlight(v))'
    BY DEF TailFresh
  <2>1. tail[v] = TailHash(Committed \cup InFlight(v))
    BY <1>2, <1>3 DEF IInv, TailFresh
  <2> QED
    BY <2>1, <1>1, RowsUntouched DEF TailHash
<1> QED
  BY <1>1, <1>4, <1>5, <1>6, RowsUntouched DEF IInv

LEMMA ReadTailInv ==
    ASSUME IInv, ChainTypeOK', NEW w \in Writers, ReadTail(w)
    PROVE  IInv'
<1>1. UNCHANGED <<status, entry, chainLock>>
  BY DEF ReadTail
<1>2. \A v \in Writers : v # w => pc'[v] = pc[v] /\ tail'[v] = tail[v]
  BY DEF ReadTail, IInv, ChainTypeOK
<1>3. pc[w] = "reading" /\ pc'[w] = "inserting" /\ tail'[w] = TailHash(Committed \cup InFlight(w))
  BY DEF ReadTail, IInv, ChainTypeOK
<1>4. LockHeld'
  BY <1>1, <1>2, <1>3 DEF IInv, LockHeld
<1>5. OneAppender'
  BY <1>1, RowsUntouched DEF IInv, OneAppender
<1>6. TailFresh'
  <2> SUFFICES ASSUME NEW v \in Writers, pc'[v] = "inserting"
               PROVE  tail'[v] = TailHash(Committed \cup InFlight(v))'
    BY DEF TailFresh
  <2>1. tail'[v] = TailHash(Committed \cup InFlight(v))
    BY <1>2, <1>3 DEF IInv, TailFresh
  <2> QED
    BY <2>1, <1>1, RowsUntouched DEF TailHash
<1> QED
  BY <1>1, <1>4, <1>5, <1>6, RowsUntouched DEF IInv

LEMMA InsertInv ==
    ASSUME IInv, ChainTypeOK', NEW w \in Writers, Insert(w)
    PROVE  IInv'
<1> DEFINE n == nextId
<1>1. n \in Ids /\ status[n] = "free" /\ nextId' = n + 1
  BY BoundsAssumption DEF Insert, InsertRow, IInv, ChainTypeOK, Ids
<1>2. /\ chainLock = w /\ chainLock' = w
      /\ pc[w] = "inserting" /\ pc'[w] = "open"
      /\ \A v \in Writers : v # w => pc'[v] = pc[v]
  BY DEF Insert, InsertRow, IInv, ChainTypeOK, LockHeld
<1>3. /\ \A i \in Ids : i # n => status'[i] = status[i] /\ entry'[i] = entry[i]
      /\ status'[n] = "inflight"
      /\ entry'[n].tx = w /\ entry'[n].prev = tail[w]
      /\ entry'[n].hash = RowHash(entry'[n].prev, entry'[n].body)
  BY <1>1 DEF Insert, InsertRow, IInv, ChainTypeOK
<1>4. \A i \in Visible : i \in Ids /\ i < n
  BY DEF Visible, IInv, ChainTypeOK
<1>5. /\ Visible = Committed \cup InFlight(w)
      /\ \A v \in Writers : v # w => InFlight(v) = {}
      /\ \A v \in Writers : pc[v] \in {"reading", "inserting", "open"} => v = w
  BY <1>2, HolderSeesAll
<1>6. Committed' = Committed /\ Visible' = Visible \cup {n}
  BY <1>1, <1>3 DEF Committed, Visible
<1>7. \A v \in Writers : v # w => InFlight(v)' = {}
  BY <1>1, <1>3, <1>5 DEF InFlight
<1>8. tail[w] = TailHash(Visible)
  BY <1>2, <1>5 DEF IInv, TailFresh
<1>9. LockHeld'
  BY <1>2, <1>5 DEF LockHeld
<1>10. OneAppender'
  BY <1>2, <1>7 DEF OneAppender
<1>11. CommittedBelow'
  <2> SUFFICES ASSUME NEW i \in Ids, NEW j \in Ids,
                      status'[i] = "inflight", status'[j] = "committed"
               PROVE  j < i
    BY DEF CommittedBelow
  <2>1. j # n /\ status[j] = "committed" /\ j \in Visible
    BY <1>3 DEF Visible
  <2> QED
    BY <2>1, <1>3, <1>4 DEF IInv, CommittedBelow
<1>12. TailFresh'
  BY <1>2, <1>5 DEF TailFresh
<1>13. Linked'
  <2> SUFFICES ASSUME NEW i \in Visible' PROVE LinkedAt(i)'
    BY DEF Linked
  <2>1. CASE i = n
    <3>1. {j \in Visible' : j < i} = Visible
      BY <2>1, <1>1, <1>4, <1>6 DEF Ids
    <3>2. entry'[i].prev = TailHash(Visible)
      BY <2>1, <1>3, <1>8
    <3>3. entry'[i].prev = TailHash({j \in Visible : j < i})'
      <4>1. CASE Visible = {}
        BY <4>1, <3>1, <3>2 DEF TailHash, GenesisPrevHash
      <4>2. CASE Visible # {}
        <5>1. Greatest(Visible) \in Visible
          BY <4>2, GreatestId DEF Visible
        <5>2. entry'[Greatest(Visible)] = entry[Greatest(Visible)]
          BY <5>1, <1>3, <1>4, <1>1 DEF Ids
        <5> QED
          BY <4>2, <3>1, <3>2, <5>2 DEF TailHash
      <4> QED
        BY <4>1, <4>2
    <3> QED
      BY <2>1, <3>3, <1>3 DEF LinkedAt
  <2>2. CASE i # n
    <3>1. i \in Visible
      BY <2>2, <1>6
    <3>2. {j \in Visible' : j < i} = {j \in Visible : j < i}
      BY <3>1, <1>1, <1>4, <1>6 DEF Ids
    <3>3. entry'[i] = entry[i]
      BY <2>2, <3>1, <1>3, <1>4
    <3>4. LinkedAt(i)
      BY <3>1 DEF IInv, Linked
    <3> DEFINE B == {j \in Visible : j < i}
    <3>5. CASE B = {}
      BY <3>5, <3>2, <3>3, <3>4 DEF LinkedAt, TailHash, GenesisPrevHash
    <3>6. CASE B # {}
      <4>1. Greatest(B) \in B
        BY <3>6, GreatestId DEF Visible
      <4>2. entry'[Greatest(B)] = entry[Greatest(B)]
        BY <4>1, <1>3, <1>4, <1>1 DEF Ids
      <4> QED
        BY <3>6, <3>2, <3>3, <3>4, <4>2 DEF LinkedAt, TailHash
    <3> QED
      BY <3>5, <3>6
  <2> QED
    BY <2>1, <2>2
<1>14. Grows'
  <2>1. Committed \subseteq Visible
    BY DEF Committed, Visible
  <2>2. TailHash(Committed)' = TailHash(Committed)
    <3>1. CASE Committed = {}
      BY <3>1, <1>6 DEF TailHash, GenesisPrevHash
    <3>2. CASE Committed # {}
      <4>1. Greatest(Committed) \in Committed
        BY <3>2, GreatestId DEF Committed
      <4>2. entry'[Greatest(Committed)] = entry[Greatest(Committed)]
        BY <4>1, <2>1, <1>3, <1>4, <1>1 DEF Ids
      <4> QED
        BY <3>2, <1>6, <4>2 DEF TailHash
    <3> QED
      BY <3>1, <3>2
  <2>3. TailHash(Committed) \in Hashes /\ tail[w] \in Hashes
    BY TailHashType DEF Committed, IInv, ChainTypeOK
  <2>4. tail[w] = TailHash(Committed) \/ Log!Extends(tail[w], TailHash(Committed))
    <3>1. CASE InFlight(w) = {}
      BY <3>1, <1>5, <1>8
    <3>2. CASE InFlight(w) # {}
      <4>1. InFlight(w) \in SUBSET Ids /\ Committed \in SUBSET Ids
        BY DEF InFlight, Committed
      <4>2. \A i \in Committed, j \in InFlight(w) : i < j
        BY DEF InFlight, Committed, IInv, CommittedBelow
      <4>3. Greatest(Committed \cup InFlight(w)) = Greatest(InFlight(w))
        BY <3>2, <4>1, <4>2, GreatestOfUnion
      <4>4. Greatest(InFlight(w)) \in InFlight(w)
        BY <3>2, <4>1, GreatestId
      <4>5. Log!Extends(entry[Greatest(InFlight(w))].hash, TailHash(Committed))
        BY <4>4 DEF IInv, Grows, InFlight
      <4>6. tail[w] = entry[Greatest(InFlight(w))].hash
        BY <3>2, <1>5, <1>8, <4>3 DEF TailHash
      <4> QED
        BY <4>5, <4>6
    <3> QED
      BY <3>1, <3>2
  <2>5. PICK body \in Bodies : entry'[n].hash = Append(tail[w], body)
    BY <1>1 DEF Insert, InsertRow, RowHash, IInv, ChainTypeOK
  <2>6. Log!Extends(Append(tail[w], body), TailHash(Committed))
    BY <2>3, <2>4 DEF Log!Extends, Hashes
  <2>7. Log!Extends(entry'[n].hash, TailHash(Committed))
    BY <2>5, <2>6
  <2> SUFFICES ASSUME NEW i \in Ids, status'[i] = "inflight"
               PROVE  Log!Extends(entry[i].hash, TailHash(Committed))'
    BY DEF Grows
  <2>8. Log!Extends(entry'[i].hash, TailHash(Committed))
    <3>1. CASE i = n
      BY <3>1, <2>7
    <3>2. CASE i # n
      BY <3>2, <1>3 DEF IInv, Grows
    <3> QED
      BY <3>1, <3>2
  <2> QED
    BY <2>8, <2>2 DEF Log!Extends
<1> QED
  BY <1>9, <1>10, <1>11, <1>12, <1>13, <1>14 DEF IInv

(* A commit turns the rows in flight into committed ones and leaves none.  *)
LEMMA CommitEffect ==
    ASSUME IInv, ChainTypeOK', NEW w \in Writers, Commit(w)
    PROVE  /\ chainLock = w
           /\ Committed' = Visible /\ Visible' = Visible
           /\ entry' = entry
           /\ \A i \in Ids : status'[i] # "inflight"
<1>1. chainLock = w /\ entry' = entry
  BY DEF Commit, IInv, LockHeld
<1>2. Visible = Committed \cup InFlight(w)
  BY <1>1, HolderSeesAll
<1>3. \A i \in Ids : status'[i] = IF i \in InFlight(w) THEN "committed" ELSE status[i]
  BY DEF Commit
<1>4. \A i \in Ids : i \in Visible <=> status'[i] = "committed"
  BY <1>2, <1>3 DEF Committed, InFlight
<1>5. \A i \in Ids : status'[i] # "inflight"
  BY <1>2, <1>3 DEF Visible, Committed, InFlight
<1>6. Committed' = Visible /\ Visible' = Visible
  BY <1>4, <1>5 DEF Committed, Visible
<1> QED
  BY <1>1, <1>5, <1>6

LEMMA CommitInv ==
    ASSUME IInv, ChainTypeOK', NEW w \in Writers, Commit(w)
    PROVE  IInv'
<1>1. /\ chainLock = w
      /\ Committed' = Visible /\ Visible' = Visible
      /\ entry' = entry
      /\ \A i \in Ids : status'[i] # "inflight"
  BY CommitEffect
<1>2. \A v \in Writers : pc[v] \in {"reading", "inserting", "open"} => v = w
  BY <1>1, HolderSeesAll
<1>3. pc'[w] = "idle" /\ \A v \in Writers : v # w => pc'[v] = pc[v]
  BY DEF Commit, EndTransaction, IInv, ChainTypeOK
<1>4. LockHeld' /\ TailFresh'
  BY <1>2, <1>3 DEF LockHeld, TailFresh
<1>5. OneAppender'
  BY <1>1 DEF OneAppender, InFlight
<1>6. CommittedBelow' /\ Grows'
  BY <1>1 DEF CommittedBelow, Grows
<1>7. Linked'
  BY <1>1 DEF IInv, Linked, LinkedAt, TailHash
<1> QED
  BY <1>4, <1>5, <1>6, <1>7 DEF IInv

(* A rollback takes away the rows in flight, which are above all others.   *)
LEMMA UndoInv ==
    ASSUME IInv, ChainTypeOK', NEW w \in Writers, Undo(w)
    PROVE  IInv'
<1>1. /\ pc'[w] = "idle"
      /\ \A v \in Writers : v # w => pc'[v] = pc[v] /\ tail'[v] = tail[v]
      /\ chainLock' = IF chainLock = w THEN NoWriter ELSE chainLock
  BY DEF Undo, UndoRows, EndTransaction, IInv, ChainTypeOK
<1>2. CASE chainLock # w
  <2>1. InFlight(w) = {}
    BY <1>2 DEF IInv, OneAppender
  <2>2. UNCHANGED <<status, entry>>
    BY <2>1 DEF Undo, UndoRows, IInv, ChainTypeOK
  <2>3. LockHeld'
    BY <1>1, <1>2 DEF IInv, LockHeld
  <2>4. OneAppender'
    BY <1>1, <1>2, <2>2, RowsUntouched DEF IInv, OneAppender
  <2>5. TailFresh'
    <3> SUFFICES ASSUME NEW v \in Writers, pc'[v] = "inserting"
                 PROVE  tail'[v] = TailHash(Committed \cup InFlight(v))'
      BY DEF TailFresh
    <3>1. tail'[v] = TailHash(Committed \cup InFlight(v))
      BY <1>1 DEF IInv, TailFresh
    <3> QED
      BY <3>1, <2>2, RowsUntouched DEF TailHash
  <2> QED
    BY <2>2, <2>3, <2>4, <2>5, RowsUntouched DEF IInv
<1>3. CASE chainLock = w
  <2>1. /\ Visible = Committed \cup InFlight(w)
        /\ \A v \in Writers : pc[v] \in {"reading", "inserting", "open"} => v = w
    BY <1>3, HolderSeesAll
  <2>2. /\ \A i \in Ids : status'[i] = IF i \in InFlight(w) THEN "burned" ELSE status[i]
        /\ \A i \in Ids : i \notin InFlight(w) => entry'[i] = entry[i]
    BY DEF Undo, UndoRows
  <2>3. Committed' = Committed /\ Visible' = Committed
    BY <2>1, <2>2 DEF Committed, Visible, InFlight
  <2>4. \A i \in Ids : status'[i] # "inflight"
    BY <2>1, <2>2 DEF Visible, Committed, InFlight
  <2>5. \A i \in Committed : i \in Ids /\ i \in Visible /\ entry'[i] = entry[i]
    BY <2>1, <2>2 DEF Committed, InFlight
  <2>6. LockHeld' /\ TailFresh'
    BY <1>1, <2>1 DEF LockHeld, TailFresh
  <2>7. OneAppender'
    BY <2>4 DEF OneAppender, InFlight
  <2>8. CommittedBelow' /\ Grows'
    BY <2>4 DEF CommittedBelow, Grows
  <2>9. Linked'
    <3> SUFFICES ASSUME NEW i \in Committed PROVE LinkedAt(i)'
      BY <2>3 DEF Linked
    <3> DEFINE B == {j \in Visible : j < i}
    <3>1. {j \in Visible' : j < i} = B
      <4>1. \A j \in Visible : j < i => j \in Committed
        BY <2>5, BoundsAssumption DEF Visible, Committed, IInv, CommittedBelow, Ids
      <4> QED
        BY <4>1, <2>3, <2>5
    <3>2. B \subseteq Committed
      BY <3>1, <2>3
    <3>3. LinkedAt(i) /\ entry'[i] = entry[i]
      BY <2>5 DEF IInv, Linked
    <3>4. CASE B = {}
      BY <3>4, <3>1, <3>3 DEF LinkedAt, TailHash, GenesisPrevHash
    <3>5. CASE B # {}
      <4>1. Greatest(B) \in B
        BY <3>5, GreatestId DEF Visible
      <4>2. entry'[Greatest(B)] = entry[Greatest(B)]
        BY <4>1, <3>2, <2>5
      <4> QED
        BY <3>5, <3>1, <3>3, <4>2 DEF LinkedAt, TailHash
    <3> QED
      BY <3>4, <3>5
  <2> QED
    BY <2>6, <2>7, <2>8, <2>9 DEF IInv
<1> QED
  BY <1>2, <1>3

LEMMA InvStep == IInv /\ [ChainNext]_chainVars => IInv'
<1> SUFFICES ASSUME IInv, [ChainNext]_chainVars PROVE IInv'
  OBVIOUS
<1>1. ChainTypeOK'
  BY TypeStep DEF IInv
<1>2. CASE UNCHANGED chainVars
  <2>1. UNCHANGED <<status, entry, chainLock, pc, tail>>
    BY <1>2 DEF chainVars
  <2>2. LockHeld'
    BY <2>1 DEF IInv, LockHeld
  <2>3. OneAppender'
    BY <2>1, RowsUntouched DEF IInv, OneAppender
  <2>4. TailFresh'
    BY <2>1, RowsUntouched DEF IInv, TailFresh, TailHash
  <2> QED
    BY <1>1, <2>1, <2>2, <2>3, <2>4, RowsUntouched DEF IInv
<1>3. ASSUME NEW w \in Writers, WriterStep(w) PROVE IInv'
  <2>1. CASE CallAppend(w)
    BY <1>1, <2>1, CallAppendInv
  <2>2. CASE TakeChainLock(w)
    BY <1>1, <2>2, TakeChainLockInv
  <2>3. CASE ReadTail(w)
    BY <1>1, <2>3, ReadTailInv
  <2>4. CASE Insert(w)
    BY <1>1, <2>4, InsertInv
  <2>5. CASE Commit(w)
    BY <1>1, <2>5, CommitInv
  <2>6. CASE Rollback(w)
    BY <1>1, <2>6, UndoInv DEF Rollback
  <2>7. CASE InsertFails(w)
    BY <1>1, <2>7, UndoInv DEF InsertFails
  <2> QED
    BY <1>3, <2>1, <2>2, <2>3, <2>4, <2>5, <2>6, <2>7 DEF WriterStep
<1> QED
  BY <1>2, <1>3 DEF ChainNext

LEMMA Invariance == ChainSafety => []IInv
<1> QED
  BY InvInit, InvStep, PTL DEF ChainSafety

-----------------------------------------------------------------------------
(* The theorems.                                                           *)

LEMMA InvImpliesGapsAreBurned == IInv => GapsAreBurned
<1> SUFFICES ASSUME IInv, NEW j \in Committed, NEW i \in Ids, i < j
             PROVE  status[i] \in {"committed", "burned"}
  BY DEF GapsAreBurned
<1>1. j \in Ids /\ status[j] = "committed" /\ j < nextId
  BY DEF Committed, IInv, ChainTypeOK
<1>2. i < nextId
  BY <1>1, BoundsAssumption DEF Ids, IInv, ChainTypeOK
<1>3. status[i] # "free"
  BY <1>2 DEF IInv, ChainTypeOK
<1>4. status[i] # "inflight"
  BY <1>1, BoundsAssumption DEF IInv, CommittedBelow, Ids
<1> QED
  BY <1>3, <1>4 DEF IInv, ChainTypeOK

(* Rows commit in the order of their ids: what is missing below a          *)
(* committed row was rolled back and will never come.                      *)
THEOREM CommitsInOrder == ChainSafety => []GapsAreBurned
<1> QED
  BY Invariance, InvImpliesGapsAreBurned, PTL

LEMMA InvImpliesChainVerifies == IInv => ChainVerifies
<1> SUFFICES ASSUME IInv, NEW i \in Committed PROVE ~Diverges(i, Committed)
  BY DEF ChainVerifies, Divergences
<1>1. i \in Visible /\ \A j \in Visible : j < i => j \in Committed
  BY BoundsAssumption DEF Visible, Committed, IInv, CommittedBelow, Ids
<1>2. {j \in Committed : j < i} = {j \in Visible : j < i}
  BY <1>1 DEF Visible, Committed
<1>3. LinkedAt(i)
  BY <1>1 DEF IInv, Linked
<1> QED
  BY <1>2, <1>3 DEF LinkedAt, Diverges

(* verify_chain never finds fault with what append() wrote.                *)
THEOREM ChainAlwaysVerifies == ChainSafety => []ChainVerifies
<1> QED
  BY Invariance, InvImpliesChainVerifies, PTL

(* Only the chain lock's holder has rows in flight.                        *)
THEOREM AtMostOneAppender == ChainSafety => []OneAppender
<1>1. IInv => OneAppender
  BY DEF IInv
<1> QED
  BY <1>1, Invariance, PTL

LEMMA HeadStep ==
    ASSUME IInv, [ChainNext]_chainVars
    PROVE  [Log!Next]_(TailHash(Committed))
<1>1. IInv'
  BY InvStep
<1>2. ASSUME UNCHANGED <<status, entry>>
      PROVE  UNCHANGED TailHash(Committed)
  BY <1>2, RowsUntouched
<1>3. CASE UNCHANGED chainVars
  BY <1>2, <1>3 DEF chainVars
<1>4. ASSUME NEW w \in Writers, CallAppend(w) \/ TakeChainLock(w) \/ ReadTail(w)
      PROVE  UNCHANGED TailHash(Committed)
  BY <1>2, <1>4 DEF CallAppend, TakeChainLock, ReadTail
<1>5. ASSUME Committed' = Committed, \A i \in Committed : entry'[i] = entry[i]
      PROVE  UNCHANGED TailHash(Committed)
  <2>1. CASE Committed = {}
    BY <1>5, <2>1 DEF TailHash, GenesisPrevHash
  <2>2. CASE Committed # {}
    <3>1. Greatest(Committed) \in Committed
      BY <2>2, GreatestId DEF Committed
    <3> QED
      BY <1>5, <2>2, <3>1 DEF TailHash
  <2> QED
    BY <2>1, <2>2
<1>6. ASSUME NEW w \in Writers, Insert(w)
      PROVE  UNCHANGED TailHash(Committed)
  <2>1. nextId \in Ids /\ status[nextId] = "free"
    BY <1>6, BoundsAssumption DEF Insert, InsertRow, IInv, ChainTypeOK, Ids
  <2>2. Committed' = Committed /\ \A i \in Committed : entry'[i] = entry[i]
    BY <1>6, <2>1 DEF Insert, InsertRow, IInv, ChainTypeOK, Committed
  <2> QED
    BY <2>2, <1>5
<1>7. ASSUME NEW w \in Writers, Undo(w)
      PROVE  UNCHANGED TailHash(Committed)
  <2>1. Committed' = Committed /\ \A i \in Committed : entry'[i] = entry[i]
    BY <1>7 DEF Undo, UndoRows, InFlight, Committed
  <2> QED
    BY <2>1, <1>5
<1>8. ASSUME NEW w \in Writers, Commit(w)
      PROVE  [Log!Next]_(TailHash(Committed))
  <2>1. /\ chainLock = w
        /\ Committed' = Visible
        /\ entry' = entry
    BY <1>1, <1>8, CommitEffect DEF IInv
  <2>2. Visible = Committed \cup InFlight(w)
    BY <2>1, HolderSeesAll
  <2>3. CASE InFlight(w) = {}
    BY <2>1, <2>2, <2>3 DEF TailHash
  <2>4. CASE InFlight(w) # {}
    <3>1. InFlight(w) \in SUBSET Ids /\ Committed \in SUBSET Ids
      BY DEF InFlight, Committed
    <3>2. \A i \in Committed, j \in InFlight(w) : i < j
      BY DEF InFlight, Committed, IInv, CommittedBelow
    <3>3. Greatest(Visible) = Greatest(InFlight(w))
      BY <2>2, <2>4, <3>1, <3>2, GreatestOfUnion
    <3>4. Greatest(InFlight(w)) \in InFlight(w)
      BY <2>4, <3>1, GreatestId
    <3>5. TailHash(Committed)' = entry[Greatest(InFlight(w))].hash
      BY <2>1, <2>2, <2>4, <3>3 DEF TailHash
    <3>6. Log!Extends(entry[Greatest(InFlight(w))].hash, TailHash(Committed))
      BY <3>4 DEF IInv, Grows, InFlight
    <3>7. TailHash(Committed)' \in Seq(Bodies)
      BY <3>4, <3>5 DEF IInv, ChainTypeOK, InFlight, Row, Hashes
    <3> QED
      BY <3>5, <3>6, <3>7 DEF Log!Next
  <2> QED
    BY <2>3, <2>4
<1> QED
  BY <1>3, <1>4, <1>6, <1>7, <1>8 DEF ChainNext, WriterStep, Rollback, InsertFails

(* The chain implements the append-only log: its head hash only ever grows *)
(* at the end, whatever commits, rolls back or crashes.                    *)
THEOREM ChainImplementsLog == ChainSafety => AppendOnly
<1>1. ChainInit => Log!Init
  <2> SUFFICES ASSUME ChainInit PROVE TailHash(Committed) = <<>>
    BY DEF Log!Init
  <2>1. Committed = {}
    BY DEF ChainInit, Committed
  <2> QED
    BY <2>1 DEF TailHash, GenesisPrevHash
<1>2. IInv /\ [ChainNext]_chainVars => [Log!Next]_(TailHash(Committed))
  BY HeadStep
<1> QED
  BY <1>1, <1>2, Invariance, PTL DEF ChainSafety, AppendOnly, Log!Spec

-----------------------------------------------------------------------------
(* Anchoring: the inductive invariant.  What its properties say of an      *)
(* anchor once it is recorded must hold already of the run a replica is    *)
(* still working on, while the chain moves under it and the other replicas *)
(* try the lock.                                                           *)

Roots == UNION {[S -> Hashes] : S \in SUBSET Ids}

Anchor == [from : Ids, to : Ids, root : Roots]

\* What AnchorTypeOK leaves open.
JobTypeOK ==
    /\ anchors \in Seq(Anchor)
    /\ run \in [Replicas -> [from : Nat, to : Nat]]
    /\ root \in [Replicas -> Roots \cup {NoRoot}]
    /\ start \in [Replicas -> 0..(MaxId + 1)]
    /\ waiting \in [Replicas -> 0..MaxId]

\* An unbroken run of committed rows.
Unbroken(range) == range.from <= range.to /\ range.from..range.to \subseteq Committed

AnchorsUnbroken == \A k \in DOMAIN anchors : Unbroken(anchors[k])

AnchorsAscend == \A m, n \in DOMAIN anchors : m < n => anchors[m].to < anchors[n].from

NoneSkipped ==
    \A k \in DOMAIN anchors : \A i \in Committed : i <= anchors[k].to => i \in Witnessed

\* Every anchor ends below id b, every committed row below b is covered, and no
\* row can commit below b any more.
Owed(b) ==
    /\ \A k \in DOMAIN anchors : anchors[k].to < b
    /\ \A i \in Committed : i < b => i \in Witnessed
    /\ b \in Committed \/ b - 1 \in Committed

StartOwed == \A r \in Replicas : rpc[r] = "selecting" => Owed(start[r])

RunOwed ==
    \A r \in Replicas :
        rpc[r] \in {"building", "submitting", "recording"} =>
            Owed(run[r].from) /\ Unbroken(run[r])

RootBuilt ==
    \A r \in Replicas :
        /\ rpc[r] \in {"submitting", "recording"} => root[r] = RootOf(run[r])
        /\ rpc[r] = "recording" => root[r] \in accepted

AInv ==
    /\ IInv
    /\ AnchorTypeOK
    /\ JobTypeOK
    /\ AnchorsUnbroken
    /\ AnchorsAscend
    /\ NoneSkipped
    /\ RootsStand
    /\ StartOwed
    /\ RunOwed
    /\ RootBuilt

-----------------------------------------------------------------------------
(* Lemmas about what the job reads.                                        *)

LEMMA LeastId ==
    ASSUME NEW S \in SUBSET Ids, S # {}
    PROVE  /\ Least(S) \in S
           /\ \A j \in S : Least(S) <= j
<1> DEFINE Below == {pair \in Nat \X Nat : pair[1] < pair[2]}
<1>1. S \subseteq Nat
  BY BoundsAssumption DEF Ids
<1>2. Below = OpToRel(<, Nat)
  BY DEF OpToRel
<1>3. IsWellFoundedOn(Below, Nat)
  BY <1>2, NatLessThanWellFounded
<1>4. PICK i \in S : \A j \in S : ~(<<j, i>> \in Below)
  <2> HIDE DEF Below
  <2> QED
    BY <1>1, <1>3, WFMin
<1>5. ASSUME NEW j \in S, j < i PROVE FALSE
  <2>1. <<j, i>> \in Nat \X Nat /\ <<j, i>>[1] < <<j, i>>[2]
    BY <1>1, <1>5
  <2> QED
    BY <2>1, <1>4
<1>6. \A j \in S : i <= j
  BY <1>1, <1>5
<1> QED
  BY <1>6 DEF Least

(* A step of the chain keeps the committed rows as they are, and commits   *)
(* only rows above all of them.                                            *)
LEMMA CommitsAbove ==
    ASSUME IInv, [ChainNext]_chainVars
    PROVE  /\ Committed \subseteq Committed'
           /\ \A i \in Committed : entry'[i] = entry[i]
           /\ \A i \in Committed' : i \in Committed \/ \A j \in Committed : j < i
<1>1. ChainTypeOK'
  BY TypeStep DEF IInv
<1>2. ASSUME UNCHANGED <<status, entry>>
      PROVE  Committed' = Committed /\ entry' = entry
  BY <1>2 DEF Committed
<1>3. CASE UNCHANGED chainVars
  BY <1>2, <1>3 DEF chainVars
<1>4. ASSUME NEW w \in Writers, CallAppend(w) \/ TakeChainLock(w) \/ ReadTail(w)
      PROVE  Committed' = Committed /\ entry' = entry
  BY <1>2, <1>4 DEF CallAppend, TakeChainLock, ReadTail
<1>5. ASSUME NEW w \in Writers, Insert(w)
      PROVE  Committed' = Committed /\ \A i \in Committed : entry'[i] = entry[i]
  <2>1. nextId \in Ids /\ status[nextId] = "free"
    BY <1>5, BoundsAssumption DEF Insert, InsertRow, IInv, ChainTypeOK, Ids
  <2> QED
    BY <1>5, <2>1 DEF Insert, InsertRow, IInv, ChainTypeOK, Committed
<1>6. ASSUME NEW w \in Writers, Undo(w)
      PROVE  Committed' = Committed /\ \A i \in Committed : entry'[i] = entry[i]
  BY <1>6 DEF Undo, UndoRows, InFlight, Committed
<1>7. ASSUME NEW w \in Writers, Commit(w)
      PROVE  /\ Committed \subseteq Committed' /\ entry' = entry
             /\ \A i \in Committed' : i \in Committed \/ \A j \in Committed : j < i
  <2>1. Committed' = Visible /\ entry' = entry
    BY <1>1, <1>7, CommitEffect
  <2>2. \A i \in Visible : i \in Committed \/ \A j \in Committed : j < i
    BY DEF Visible, Committed, IInv, CommittedBelow
  <2>3. Committed \subseteq Visible
    BY DEF Visible, Committed
  <2> QED
    BY <2>1, <2>2, <2>3
<1> QED
  BY <1>3, <1>4, <1>5, <1>6, <1>7 DEF ChainNext, WriterStep, Rollback, InsertFails

LEMMA RootOfType ==
    ASSUME IInv, NEW range
    PROVE  RootOf(range) \in Roots
<1> DEFINE S == {j \in Committed : range.from <= j /\ j <= range.to}
<1>1. S \in SUBSET Ids
  BY DEF Committed
<1>2. \A i \in S : entry[i].hash \in Hashes
  BY DEF Committed, IInv, ChainTypeOK, Row
<1>3. RootOf(range) \in [S -> Hashes]
  BY <1>2 DEF RootOf
<1> QED
  BY <1>1, <1>3 DEF Roots

(* The run from a committed row is unbroken and starts there.              *)
LEMMA RunFromUnbroken ==
    ASSUME NEW first \in Committed
    PROVE  /\ RunFrom(first).from = first
           /\ RunFrom(first) \in [from : Nat, to : Nat]
           /\ Unbroken(RunFrom(first))
<1> DEFINE S == {i \in first..(first + MaxRows - 1) : first..i \subseteq Committed}
<1>1. first \in Ids /\ first \in Nat /\ Committed \subseteq Ids
  BY BoundsAssumption DEF Committed, Ids
<1>2. first..first = {first} /\ first \in first..(first + MaxRows - 1)
  BY <1>1, AnchoringAssumption
<1>3. first \in S
  BY <1>2
<1>4. \A i \in S : i \in Nat /\ first <= i /\ i \in first..i
  BY <1>1, AnchoringAssumption
<1>5. S \subseteq Ids
  BY <1>1, <1>4
<1>6. Greatest(S) \in S
  BY <1>3, <1>5, GreatestId
<1>7. RunFrom(first) = [from |-> first, to |-> Greatest(S)]
  BY DEF RunFrom
<1> HIDE DEF S
<1>8. Greatest(S) \in Nat /\ first <= Greatest(S)
  BY <1>4, <1>6
<1>9. first..Greatest(S) \subseteq Committed
  BY <1>6 DEF S
<1> QED
  BY <1>1, <1>7, <1>8, <1>9 DEF Unbroken
-----------------------------------------------------------------------------
(* The invariant holds at the start and every step keeps it.               *)

LEMMA AInvInit == Init => AInv
<1> SUFFICES ASSUME Init PROVE AInv
  OBVIOUS
<1>1. /\ IInv
      /\ anchors = <<>> /\ DOMAIN anchors = {}
      /\ \A r \in Replicas : rpc[r] = "idle" /\ run[r] = Nothing /\ start[r] = 0
  BY InvInit DEF Init
<1>2. AnchorTypeOK
  BY <1>1, BoundsAssumption, AnchoringAssumption DEF Init, AnchorTypeOK
<1>3. JobTypeOK
  BY <1>1, BoundsAssumption DEF Init, JobTypeOK, Nothing
<1>4. AnchorsUnbroken /\ AnchorsAscend /\ NoneSkipped /\ RootsStand
  BY <1>1 DEF AnchorsUnbroken, AnchorsAscend, NoneSkipped, RootsStand
<1>5. StartOwed /\ RunOwed /\ RootBuilt
  BY <1>1 DEF StartOwed, RunOwed, RootBuilt
<1> QED
  BY <1>1, <1>2, <1>3, <1>4, <1>5 DEF AInv

(* A step of the job that records nothing: the chain and the anchors stay. *)
LEMMA AnchorsStay ==
    ASSUME AInv, UNCHANGED <<chainVars, anchors>>, accepted \subseteq accepted'
    PROVE  /\ IInv'
           /\ Committed' = Committed /\ entry' = entry /\ Witnessed' = Witnessed
           /\ AnchorsUnbroken' /\ AnchorsAscend' /\ NoneSkipped' /\ RootsStand'
<1>1. IInv'
  BY InvStep DEF AInv
<1>2. Committed' = Committed /\ entry' = entry
  BY DEF chainVars, Committed
<1>3. Witnessed' = Witnessed
  BY <1>2 DEF Witnessed
<1>4. AnchorsUnbroken' /\ AnchorsAscend' /\ NoneSkipped'
  BY <1>2, <1>3 DEF AInv, AnchorsUnbroken, Unbroken, AnchorsAscend, NoneSkipped
<1>5. RootsStand'
  BY <1>2 DEF AInv, RootsStand, RootOf
<1> QED
  BY <1>1, <1>2, <1>3, <1>4, <1>5

(* A replica that is not idle holds the lock: there is one at most.        *)
LEMMA OneInJob ==
    ASSUME AInv, NEW r \in Replicas, rpc[r] # "idle"
    PROVE  \A s \in Replicas : s # r => rpc[s] = "idle"
BY DEF AInv, AnchorTypeOK

(* A replica that leaves the job leaves every replica idle: nothing is     *)
(* owed by any.                                                            *)
LEMMA AllIdle ==
    ASSUME AInv, NEW r \in Replicas, rpc[r] # "idle", LeaveJob(r), UNCHANGED age,
           anchors' \in Seq(Anchor), \A k \in DOMAIN anchors' : anchors'[k].from <= anchors'[k].to,
           waiting' \in [Replicas -> 0..MaxId], crashes' \in 0..MaxCrashes
    PROVE  AnchorTypeOK' /\ JobTypeOK' /\ StartOwed' /\ RunOwed' /\ RootBuilt'
<1>1. \A s \in Replicas : rpc'[s] = "idle"
  BY OneInJob DEF AInv, AnchorTypeOK, LeaveJob
<1>2. JobTypeOK'
  <2>1. Nothing \in [from : Nat, to : Nat] /\ 0 \in 0..(MaxId + 1)
    BY BoundsAssumption DEF Nothing
  <2> QED
    BY <2>1 DEF AInv, JobTypeOK, LeaveJob
<1>3. \A s \in Replicas : run'[s] = Nothing
  BY OneInJob DEF AInv, AnchorTypeOK, JobTypeOK, LeaveJob
<1>4. stampLock' = NoReplica /\ NoReplica \notin Replicas
  BY AnchoringAssumption DEF LeaveJob
<1>5. AnchorTypeOK'
  <2>1. age' \in [Ids -> 0..Grace]
    BY DEF AInv, AnchorTypeOK
  <2>2. \A k \in DOMAIN anchors' :
           anchors'[k].from \in Ids /\ anchors'[k].to \in Ids
    <3>1. \A k \in DOMAIN anchors' : anchors'[k] \in Anchor
      OBVIOUS
    <3> QED
      BY <3>1 DEF Anchor
  <2>3. rpc' \in [Replicas -> {"idle", "locked", "selecting", "building",
                               "submitting", "recording"}]
    BY DEF AInv, AnchorTypeOK, LeaveJob
  <2> QED
    BY <1>1, <1>2, <1>3, <1>4, <2>1, <2>2, <2>3 DEF AnchorTypeOK, JobTypeOK
<1>6. StartOwed' /\ RunOwed' /\ RootBuilt'
  BY <1>1 DEF StartOwed, RunOwed, RootBuilt
<1> QED
  BY <1>2, <1>5, <1>6

(* The replica leaves without recording an anchor.                         *)
LEMMA LeaveInv ==
    ASSUME AInv, NEW r \in Replicas, rpc[r] # "idle", LeaveJob(r),
           UNCHANGED <<chainVars, age, anchors>>, accepted \subseteq accepted',
           waiting' \in [Replicas -> 0..MaxId], crashes' \in 0..MaxCrashes
    PROVE  AInv'
<1>1. /\ anchors' \in Seq(Anchor)
      /\ \A k \in DOMAIN anchors' : anchors'[k].from <= anchors'[k].to
  BY DEF AInv, JobTypeOK, AnchorTypeOK
<1> QED
  BY <1>1, AllIdle, AnchorsStay DEF AInv

LEMMA TryStampLockInv ==
    ASSUME AInv, NEW r \in Replicas, TryStampLock(r)
    PROVE  AInv'
<1>1. UNCHANGED <<chainVars, age, anchors, accepted, start, run, root, waiting, crashes>>
  BY DEF TryStampLock
<1>2. CASE stampLock = NoReplica
  <2>1. \A s \in Replicas : rpc[s] = "idle"
    BY <1>2, AnchoringAssumption DEF AInv, AnchorTypeOK
  <2>2. stampLock' = r /\ rpc' = [rpc EXCEPT ![r] = "locked"]
    BY <1>2 DEF TryStampLock
  <2>3. /\ rpc' \in [Replicas -> {"idle", "locked"}]
        /\ rpc'[r] = "locked" /\ \A s \in Replicas : s # r => rpc'[s] = "idle"
    BY <2>1, <2>2 DEF AInv, AnchorTypeOK
  <2>4. AnchorTypeOK'
    BY <1>1, <2>1, <2>2, <2>3 DEF AInv, AnchorTypeOK
  <2>5. JobTypeOK'
    BY <1>1 DEF AInv, JobTypeOK
  <2>6. StartOwed' /\ RunOwed' /\ RootBuilt'
    BY <2>3 DEF StartOwed, RunOwed, RootBuilt
  <2> QED
    BY <1>1, <2>4, <2>5, <2>6, AnchorsStay DEF AInv
<1>3. CASE stampLock # NoReplica
  <2>1. UNCHANGED <<stampLock, rpc>>
    BY <1>3 DEF TryStampLock
  <2>2. AnchorTypeOK' /\ JobTypeOK'
    BY <1>1, <2>1 DEF AInv, AnchorTypeOK, JobTypeOK
  <2>3. Committed' = Committed /\ Witnessed' = Witnessed /\ entry' = entry
    BY <1>1, AnchorsStay
  <2>4. StartOwed' /\ RunOwed' /\ RootBuilt'
    BY <1>1, <2>1, <2>3
       DEF AInv, StartOwed, RunOwed, RootBuilt, Owed, Unbroken, RootOf
  <2> QED
    BY <1>1, <2>2, <2>4, AnchorsStay DEF AInv
<1> QED
  BY <1>2, <1>3

(* What _next_start returns is owed an anchor: it follows the newest       *)
(* anchor, or is the oldest committed row while there is none.             *)
LEMMA NextStartOwed ==
    ASSUME AInv, NextStart # 0
    PROVE  NextStart \in 1..(MaxId + 1) /\ Owed(NextStart)
<1>1. \A k \in DOMAIN anchors : anchors[k].to \in Ids /\ anchors[k].to \in Committed
  BY DEF AInv, AnchorTypeOK, AnchorsUnbroken, Unbroken, Ids
<1>2. CASE AnchoredTo # {}
  <2> DEFINE last == Greatest(AnchoredTo)
  <2>1. AnchoredTo \in SUBSET Ids /\ AnchoredTo \subseteq Committed
    BY <1>1 DEF AnchoredTo
  <2>2. last \in AnchoredTo /\ \A j \in AnchoredTo : j <= last
    BY <1>2, <2>1, GreatestId
  <2>3. PICK k \in DOMAIN anchors : last = anchors[k].to
    BY <2>2 DEF AnchoredTo
  <2>4. last \in Ids /\ last \in Committed /\ NextStart = last + 1
    BY <1>2, <2>1, <2>2 DEF NextStart
  <2> HIDE DEF last
  <2>5. \A m \in DOMAIN anchors : anchors[m].to < last + 1
    BY <1>1, <2>2, <2>4, BoundsAssumption DEF AnchoredTo, Ids
  <2>6. \A i \in Committed : i < last + 1 => i \in Witnessed
    BY <2>3, <2>4, BoundsAssumption DEF AInv, NoneSkipped, Committed, Ids
  <2>7. (last + 1) - 1 = last /\ last + 1 \in 1..(MaxId + 1)
    BY <2>4, BoundsAssumption DEF Ids
  <2> QED
    BY <2>4, <2>5, <2>6, <2>7 DEF Owed
<1>3. CASE AnchoredTo = {}
  <2>1. Committed # {} /\ NextStart = Least(Committed)
    BY <1>3 DEF NextStart
  <2>2. Committed \in SUBSET Ids /\ DOMAIN anchors = {}
    BY <1>3 DEF Committed, AnchoredTo
  <2>3. NextStart \in Committed /\ \A j \in Committed : NextStart <= j
    BY <2>1, <2>2, LeastId
  <2>4. \A j \in Committed : ~(j < NextStart)
    BY <2>2, <2>3, BoundsAssumption DEF Ids
  <2> QED
    BY <2>2, <2>3, <2>4, BoundsAssumption DEF Owed, Ids
<1> QED
  BY <1>2, <1>3

LEMMA ReadStartInv ==
    ASSUME AInv, NEW r \in Replicas, ReadStart(r)
    PROVE  AInv'
<1>1. UNCHANGED <<chainVars, age, anchors, accepted, waiting, crashes>> /\ rpc[r] = "locked"
  BY DEF ReadStart
<1>2. CASE NextStart = 0
  BY <1>1, <1>2, LeaveInv DEF ReadStart, AInv, AnchorTypeOK, JobTypeOK
<1>3. CASE NextStart # 0
  <2>1. /\ start' = [start EXCEPT ![r] = NextStart]
        /\ rpc' = [rpc EXCEPT ![r] = "selecting"]
        /\ UNCHANGED <<stampLock, run, root>>
    BY <1>3 DEF ReadStart
  <2>2. NextStart \in 0..(MaxId + 1) /\ Owed(NextStart)
    BY <1>3, NextStartOwed, BoundsAssumption
  <2>3. /\ rpc'[r] = "selecting" /\ start'[r] = NextStart
        /\ \A s \in Replicas : s # r => rpc'[s] = "idle" /\ rpc[s] = "idle"
    BY <1>1, <2>1, OneInJob DEF AInv, AnchorTypeOK, JobTypeOK
  <2>4. start' \in [Replicas -> 0..(MaxId + 1)]
    BY <2>1, <2>2 DEF AInv, JobTypeOK
  <2>5. AnchorTypeOK'
    <3>1. rpc' \in [Replicas -> {"idle", "locked", "selecting", "building",
                                 "submitting", "recording"}]
      BY <2>1 DEF AInv, AnchorTypeOK
    <3>2. \A s \in Replicas :
             /\ rpc'[s] # "idle" <=> rpc[s] # "idle"
             /\ rpc'[s] \in {"building", "submitting", "recording"}
                   <=> rpc[s] \in {"building", "submitting", "recording"}
      BY <1>1, <2>3
    <3> QED
      BY <1>1, <2>1, <2>4, <3>1, <3>2 DEF AInv, AnchorTypeOK
  <2>6. JobTypeOK'
    BY <1>1, <2>1, <2>4 DEF AInv, JobTypeOK
  <2>7. Committed' = Committed /\ Witnessed' = Witnessed
    BY <1>1, AnchorsStay
  <2>8. StartOwed'
    <3> SUFFICES ASSUME NEW s \in Replicas, rpc'[s] = "selecting"
                 PROVE  Owed(start[s])'
      BY DEF StartOwed
    <3>1. start'[s] = NextStart
      BY <2>3
    <3> QED
      BY <1>1, <2>2, <2>7, <3>1 DEF Owed
  <2>9. RunOwed' /\ RootBuilt'
    BY <2>3 DEF RunOwed, RootBuilt
  <2> QED
    BY <1>1, <2>5, <2>6, <2>8, <2>9, AnchorsStay DEF AInv
<1> QED
  BY <1>2, <1>3
LEMMA SelectRunInv ==
    ASSUME AInv, NEW r \in Replicas, SelectRun(r)
    PROVE  AInv'
<1> DEFINE candidates == {i \in Committed : i >= start[r]}
           first == Least(candidates)
<1>1. UNCHANGED <<chainVars, age, anchors, accepted, crashes>> /\ rpc[r] = "selecting"
  BY DEF SelectRun
<1>2. Owed(start[r]) /\ start[r] \in 0..(MaxId + 1)
  BY <1>1 DEF AInv, StartOwed, JobTypeOK
<1>3. candidates \in SUBSET Ids
  BY DEF Committed
<1>4. ASSUME candidates # {}
      PROVE  /\ first \in Ids /\ first \in Committed /\ start[r] <= first
             /\ \A i \in Committed : i < first => i < start[r]
  <2>1. first \in candidates /\ \A i \in candidates : first <= i
    BY <1>3, <1>4, LeastId
  <2> HIDE DEF first
  <2>2. first \in Ids /\ first \in Committed /\ start[r] <= first
    BY <1>2, <1>3, <2>1, BoundsAssumption DEF Ids
  <2>3. ASSUME NEW i \in Committed, i < first PROVE i < start[r]
    <3>1. i \notin candidates /\ i \in Nat /\ start[r] \in Nat
      BY <1>2, <2>1, <2>2, <2>3, BoundsAssumption DEF Committed, Ids
    <3> QED
      BY <3>1
  <2> QED
    BY <2>2, <2>3
<1>5. CASE candidates = {} \/ GapHolds(start[r], first)
  <2>1. /\ LeaveJob(r)
        /\ waiting' = [waiting EXCEPT ![r] = IF candidates = {} THEN 0 ELSE start[r]]
    BY <1>5 DEF SelectRun
  <2>2. (IF candidates = {} THEN 0 ELSE start[r]) \in 0..MaxId
    BY <1>2, <1>4, BoundsAssumption DEF Ids
  <2>3. waiting' \in [Replicas -> 0..MaxId]
    BY <2>1, <2>2 DEF AInv, JobTypeOK
  <2> QED
    BY <1>1, <2>1, <2>3, LeaveInv DEF AInv, AnchorTypeOK
<1>6. CASE ~(candidates = {} \/ GapHolds(start[r], first))
  <2>1. /\ run' = [run EXCEPT ![r] = RunFrom(first)]
        /\ rpc' = [rpc EXCEPT ![r] = "building"]
        /\ waiting' = [waiting EXCEPT ![r] = 0]
        /\ UNCHANGED <<stampLock, start, root>>
    BY <1>6 DEF SelectRun
  <2> HIDE DEF first
  <2>2. /\ first \in Ids /\ first \in Committed /\ start[r] <= first
        /\ \A i \in Committed : i < first => i < start[r]
    BY <1>4, <1>6
  <2>3. /\ RunFrom(first).from = first
        /\ RunFrom(first) \in [from : Nat, to : Nat]
        /\ Unbroken(RunFrom(first))
    BY <2>2, RunFromUnbroken
  <2>4. Owed(first)
    <3>1. ASSUME NEW k \in DOMAIN anchors PROVE anchors[k].to < first
      <4>1. anchors[k].to \in Nat /\ anchors[k].to < start[r]
        BY <1>2, BoundsAssumption DEF Owed, AInv, AnchorTypeOK, Ids
      <4> QED
        BY <4>1, <1>2, <2>2, BoundsAssumption DEF Ids
    <3>2. \A i \in Committed : i < first => i \in Witnessed
      BY <1>2, <2>2 DEF Owed
    <3> QED
      BY <2>2, <3>1, <3>2 DEF Owed
  <2>5. /\ rpc'[r] = "building" /\ run'[r] = RunFrom(first)
        /\ \A s \in Replicas :
              s # r => rpc'[s] = "idle" /\ rpc[s] = "idle" /\ run'[s] = run[s]
    BY <1>1, <2>1, OneInJob DEF AInv, AnchorTypeOK, JobTypeOK
  <2>6. JobTypeOK'
    <3>1. 0 \in 0..MaxId
      BY BoundsAssumption
    <3> QED
      BY <1>1, <2>1, <2>3, <3>1 DEF AInv, JobTypeOK
  <2>7. AnchorTypeOK'
    <3>1. rpc' \in [Replicas -> {"idle", "locked", "selecting", "building",
                                 "submitting", "recording"}]
      BY <2>1 DEF AInv, AnchorTypeOK
    <3>2. RunFrom(first) # Nothing
      BY <2>2, <2>3, BoundsAssumption DEF Nothing, Ids
    <3>3. \A s \in Replicas :
             /\ rpc'[s] # "idle" <=> rpc[s] # "idle"
             /\ rpc'[s] \in {"building", "submitting", "recording"} <=> run'[s] # Nothing
      BY <1>1, <2>5, <3>2 DEF AInv, AnchorTypeOK
    <3>4. \A s \in Replicas : waiting'[s] \in 0..MaxId /\ start'[s] \in 0..(MaxId + 1)
      BY <2>6 DEF JobTypeOK
    <3> QED
      BY <1>1, <2>1, <3>1, <3>3, <3>4 DEF AInv, AnchorTypeOK
  <2>8. Committed' = Committed /\ Witnessed' = Witnessed
    BY <1>1, AnchorsStay
  <2>9. RunOwed'
    <3> SUFFICES ASSUME NEW s \in Replicas,
                        rpc'[s] \in {"building", "submitting", "recording"}
                 PROVE  Owed(run[s].from)' /\ Unbroken(run[s])'
      BY DEF RunOwed
    <3>1. run'[s] = RunFrom(first)
      BY <2>5
    <3> QED
      BY <1>1, <2>3, <2>4, <2>8, <3>1 DEF Owed, Unbroken
  <2>10. StartOwed' /\ RootBuilt'
    BY <2>5 DEF StartOwed, RootBuilt
  <2> QED
    BY <1>1, <2>6, <2>7, <2>9, <2>10, AnchorsStay DEF AInv
<1> QED
  BY <1>5, <1>6

LEMMA BuildRootInv ==
    ASSUME AInv, NEW r \in Replicas, BuildRoot(r)
    PROVE  AInv'
<1>1. /\ UNCHANGED <<chainVars, age, anchors, accepted, stampLock, start, run, waiting, crashes>>
      /\ rpc[r] = "building" /\ rpc' = [rpc EXCEPT ![r] = "submitting"]
      /\ root' = [root EXCEPT ![r] = RootOf(run[r])]
  BY DEF BuildRoot
<1>2. /\ rpc'[r] = "submitting" /\ root'[r] = RootOf(run[r])
      /\ \A s \in Replicas : s # r => rpc'[s] = "idle" /\ rpc[s] = "idle"
  BY <1>1, OneInJob DEF AInv, AnchorTypeOK, JobTypeOK
<1>3. AnchorTypeOK' /\ JobTypeOK'
  <2>1. RootOf(run[r]) \in Roots
    BY RootOfType DEF AInv
  <2>2. JobTypeOK'
    BY <1>1, <2>1 DEF AInv, JobTypeOK
  <2>3. rpc' \in [Replicas -> {"idle", "locked", "selecting", "building",
                               "submitting", "recording"}]
    BY <1>1 DEF AInv, AnchorTypeOK
  <2>4. \A s \in Replicas :
           /\ rpc'[s] # "idle" <=> rpc[s] # "idle"
           /\ rpc'[s] \in {"building", "submitting", "recording"}
                 <=> rpc[s] \in {"building", "submitting", "recording"}
    BY <1>1, <1>2
  <2> QED
    BY <1>1, <2>2, <2>3, <2>4 DEF AInv, AnchorTypeOK
<1>4. Committed' = Committed /\ Witnessed' = Witnessed /\ entry' = entry
  BY <1>1, AnchorsStay
<1>5. StartOwed'
  BY <1>2 DEF StartOwed
<1>6. RunOwed'
  BY <1>1, <1>2, <1>4 DEF AInv, RunOwed, Owed, Unbroken
<1>7. RootBuilt'
  BY <1>1, <1>2, <1>4 DEF RootBuilt, RootOf
<1> QED
  BY <1>1, <1>3, <1>5, <1>6, <1>7, AnchorsStay DEF AInv

LEMMA AcceptInv ==
    ASSUME AInv, NEW r \in Replicas, Accept(r)
    PROVE  AInv'
<1>1. /\ UNCHANGED <<chainVars, age, anchors, stampLock, start, run, root, waiting, crashes>>
      /\ rpc[r] = "submitting" /\ rpc' = [rpc EXCEPT ![r] = "recording"]
      /\ accepted' = accepted \cup {root[r]}
  BY DEF Accept
<1>2. /\ rpc'[r] = "recording"
      /\ \A s \in Replicas : s # r => rpc'[s] = "idle" /\ rpc[s] = "idle"
  BY <1>1, OneInJob DEF AInv, AnchorTypeOK, JobTypeOK
<1>3. AnchorTypeOK' /\ JobTypeOK'
  <2>1. JobTypeOK'
    BY <1>1 DEF AInv, JobTypeOK
  <2>2. rpc' \in [Replicas -> {"idle", "locked", "selecting", "building",
                               "submitting", "recording"}]
    BY <1>1 DEF AInv, AnchorTypeOK
  <2>3. \A s \in Replicas :
           /\ rpc'[s] # "idle" <=> rpc[s] # "idle"
           /\ rpc'[s] \in {"building", "submitting", "recording"}
                 <=> rpc[s] \in {"building", "submitting", "recording"}
    BY <1>1, <1>2
  <2> QED
    BY <1>1, <2>1, <2>2, <2>3 DEF AInv, AnchorTypeOK
<1>4. Committed' = Committed /\ Witnessed' = Witnessed /\ entry' = entry
  BY <1>1, AnchorsStay
<1>5. StartOwed'
  BY <1>2 DEF StartOwed
<1>6. RunOwed'
  BY <1>1, <1>2, <1>4 DEF AInv, RunOwed, Owed, Unbroken
<1>7. RootBuilt'
  BY <1>1, <1>2, <1>4 DEF AInv, RootBuilt, RootOf
<1> QED
  BY <1>1, <1>3, <1>5, <1>6, <1>7, AnchorsStay DEF AInv
(* The recorded run starts above every anchor and leaves no row out.       *)
LEMMA RecordAnchorInv ==
    ASSUME AInv, NEW r \in Replicas, RecordAnchor(r)
    PROVE  AInv'
<1> DEFINE new == [from |-> run[r].from, to |-> run[r].to, root |-> root[r]]
           n == Len(anchors) + 1
<1>1. /\ UNCHANGED <<chainVars, age, accepted, waiting, crashes>>
      /\ rpc[r] = "recording" /\ LeaveJob(r) /\ anchors' = Append(anchors, new)
  BY DEF RecordAnchor
<1>2. /\ Owed(new.from) /\ Unbroken(new)
      /\ new.root = RootOf(new) /\ new.root \in accepted
  <2>1. Owed(run[r].from) /\ Unbroken(run[r])
    BY <1>1 DEF AInv, RunOwed
  <2>2. root[r] = RootOf(run[r]) /\ root[r] \in accepted
    BY <1>1 DEF AInv, RootBuilt
  <2>3. RootOf(new) = RootOf(run[r])
    BY DEF RootOf
  <2> QED
    BY <2>1, <2>2, <2>3 DEF Unbroken
<1>3. new \in Anchor
  <2>1. new.from \in Nat /\ new.to \in Nat
    BY DEF AInv, JobTypeOK
  <2>2. new.from \in new.from..new.to /\ new.to \in new.from..new.to
    BY <1>2, <2>1 DEF Unbroken
  <2>3. new.from \in Ids /\ new.to \in Ids
    BY <1>2, <2>2 DEF Unbroken, Committed
  <2>4. new.root \in Roots
    BY <1>2, RootOfType DEF AInv
  <2> QED
    BY <2>3, <2>4 DEF Anchor
<1> HIDE DEF new
<1>4. /\ anchors \in Seq(Anchor) /\ anchors' \in Seq(Anchor)
      /\ n \in Nat /\ DOMAIN anchors = 1..(n - 1) /\ DOMAIN anchors' = 1..n
      /\ anchors'[n] = new
      /\ \A k \in DOMAIN anchors : k \in DOMAIN anchors' /\ k < n /\ anchors'[k] = anchors[k]
      /\ \A k \in DOMAIN anchors' : k # n => k \in DOMAIN anchors
  BY <1>1, <1>3 DEF AInv, JobTypeOK
<1> HIDE DEF n
<1>5. Committed' = Committed /\ entry' = entry /\ IInv'
  BY <1>1, InvStep DEF AInv, chainVars, Committed
<1>6. AnchorTypeOK' /\ JobTypeOK' /\ StartOwed' /\ RunOwed' /\ RootBuilt'
  <2>1. \A k \in DOMAIN anchors' : anchors'[k].from <= anchors'[k].to
    BY <1>2, <1>4 DEF Unbroken, AInv, AnchorTypeOK
  <2> QED
    BY <1>1, <1>4, <2>1, AllIdle DEF AInv, AnchorTypeOK, JobTypeOK
<1>7. AnchorsUnbroken'
  BY <1>2, <1>4, <1>5 DEF AInv, AnchorsUnbroken, Unbroken
<1>8. AnchorsAscend'
  <2> SUFFICES ASSUME NEW m \in DOMAIN anchors', NEW k \in DOMAIN anchors', m < k
               PROVE  anchors'[m].to < anchors'[k].from
    BY DEF AnchorsAscend
  <2>1. m # n /\ m \in DOMAIN anchors
    BY <1>4
  <2>2. CASE k = n
    BY <1>2, <1>4, <2>1, <2>2 DEF Owed
  <2>3. CASE k # n
    BY <1>4, <2>1, <2>3 DEF AInv, AnchorsAscend
  <2> QED
    BY <2>2, <2>3
<1>9. NoneSkipped'
  <2>1. Witnessed \subseteq Witnessed'
    BY <1>4, <1>5 DEF Witnessed
  <2> SUFFICES ASSUME NEW k \in DOMAIN anchors', NEW i \in Committed, i <= anchors'[k].to
               PROVE  i \in Witnessed'
    BY <1>5 DEF NoneSkipped
  <2>2. CASE k = n
    <3>1. CASE i < new.from
      BY <1>2, <2>1, <3>1 DEF Owed
    <3>2. CASE ~(i < new.from)
      <4>1. i \in Nat /\ new.from \in Nat
        BY <1>3, BoundsAssumption DEF Committed, Ids, Anchor
      <4>2. new.from <= i /\ i <= new.to
        BY <1>4, <2>2, <3>2, <4>1
      <4> QED
        BY <1>4, <1>5, <4>2 DEF Witnessed, Covers
    <3> QED
      BY <3>1, <3>2
  <2>3. CASE k # n
    BY <1>4, <2>1, <2>3 DEF AInv, NoneSkipped
  <2> QED
    BY <2>2, <2>3
<1>10. RootsStand'
  <2> SUFFICES ASSUME NEW k \in DOMAIN anchors'
               PROVE  anchors'[k].root = RootOf(anchors[k])' /\ anchors'[k].root \in accepted'
    BY DEF RootsStand
  <2>1. CASE k = n
    BY <1>1, <1>2, <1>4, <1>5, <2>1 DEF RootOf
  <2>2. CASE k # n
    BY <1>1, <1>4, <1>5, <2>2 DEF AInv, RootsStand, RootOf
  <2> QED
    BY <2>1, <2>2
<1> QED
  BY <1>5, <1>6, <1>7, <1>8, <1>9, <1>10 DEF AInv

LEMMA CrashInv ==
    ASSUME AInv, NEW r \in Replicas, Crash(r)
    PROVE  AInv'
<1>1. 0 \in 0..MaxId
  BY BoundsAssumption
<1>2. waiting' \in [Replicas -> 0..MaxId]
  BY <1>1 DEF Crash, AInv, JobTypeOK
<1>3. crashes' \in 0..MaxCrashes
  BY AnchoringAssumption DEF Crash, AInv, AnchorTypeOK
<1> QED
  BY <1>2, <1>3, LeaveInv DEF Crash

(* The clock: no age of a row says anything of the invariant.              *)
LEMMA TickInv ==
    ASSUME AInv, Tick
    PROVE  AInv'
<1>1. UNCHANGED <<chainVars, anchors, accepted, stampLock, rpc, start, run, root, waiting, crashes>>
  BY DEF Tick
<1>2. age' \in [Ids -> 0..Grace]
  BY AnchoringAssumption DEF Tick, AInv, AnchorTypeOK
<1>3. AnchorTypeOK' /\ JobTypeOK'
  BY <1>1, <1>2 DEF AInv, AnchorTypeOK, JobTypeOK
<1>4. Committed' = Committed /\ Witnessed' = Witnessed /\ entry' = entry
  BY <1>1, AnchorsStay
<1>5. StartOwed' /\ RunOwed' /\ RootBuilt'
  BY <1>1, <1>4 DEF AInv, StartOwed, RunOwed, RootBuilt, Owed, Unbroken, RootOf
<1> QED
  BY <1>1, <1>3, <1>5, AnchorsStay DEF AInv
(* The chain moves: what it commits is above every row read so far.        *)
LEMMA ChainStepInv ==
    ASSUME AInv, ChainStep
    PROVE  AInv' /\ Witnessed' = Witnessed
<1>1. UNCHANGED <<anchors, accepted, stampLock, rpc, start, run, root, waiting, crashes>>
      /\ [ChainNext]_chainVars
  BY DEF ChainStep
<1>2. IInv'
  BY <1>1, InvStep DEF AInv
<1>3. /\ Committed \subseteq Committed'
      /\ \A i \in Committed : entry'[i] = entry[i]
      /\ \A i \in Committed' : i \in Committed \/ \A j \in Committed : j < i
  BY <1>1, CommitsAbove DEF AInv
<1>4. Committed \subseteq Nat /\ Committed' \subseteq Nat
  BY BoundsAssumption DEF Committed, Ids
<1>5. \A to \in Committed : \A i \in Committed' : i <= to => i \in Committed
  BY <1>3, <1>4
<1>6. \A k \in DOMAIN anchors : anchors[k].to \in Committed
  BY DEF AInv, AnchorTypeOK, AnchorsUnbroken, Unbroken, Ids
<1>7. Witnessed' = Witnessed
  BY <1>1, <1>3, <1>5, <1>6 DEF Witnessed, Covers
<1>8. ASSUME NEW range, range.to \in Committed
      PROVE  RootOf(range)' = RootOf(range)
  <2>1. {j \in Committed' : range.from <= j /\ j <= range.to}
          = {j \in Committed : range.from <= j /\ j <= range.to}
    BY <1>3, <1>5, <1>8
  <2> QED
    BY <1>3, <2>1 DEF RootOf
<1>9. ASSUME NEW b, b \in Nat, Owed(b)
      PROVE  Owed(b)'
  <2>1. b \in Committed' \/ b - 1 \in Committed'
    BY <1>3, <1>9 DEF Owed
  <2>2. ASSUME NEW i \in Committed', i < b PROVE i \in Committed
    <3>1. CASE b \in Committed
      BY <1>3, <1>4, <2>2, <3>1
    <3>2. CASE b - 1 \in Committed
      BY <1>3, <1>4, <1>9, <2>2, <3>2
    <3> QED
      BY <1>9, <3>1, <3>2 DEF Owed
  <2>3. \A i \in Committed' : i < b => i \in Witnessed'
    BY <1>7, <1>9, <2>2 DEF Owed
  <2>4. \A k \in DOMAIN anchors' : anchors'[k].to < b
    BY <1>1, <1>9 DEF Owed
  <2> QED
    BY <2>1, <2>3, <2>4 DEF Owed
<1>10. AnchorTypeOK' /\ JobTypeOK'
  <2>1. age' \in [Ids -> 0..Grace]
    BY AnchoringAssumption DEF ChainStep, AInv, AnchorTypeOK
  <2> QED
    BY <1>1, <2>1 DEF AInv, AnchorTypeOK, JobTypeOK
<1>11. AnchorsUnbroken' /\ AnchorsAscend'
  BY <1>1, <1>3 DEF AInv, AnchorsUnbroken, Unbroken, AnchorsAscend
<1>12. NoneSkipped'
  BY <1>1, <1>5, <1>6, <1>7 DEF AInv, NoneSkipped
<1>13. RootsStand'
  BY <1>1, <1>6, <1>8 DEF AInv, RootsStand
<1>14. StartOwed'
  <2> SUFFICES ASSUME NEW r \in Replicas, rpc[r] = "selecting"
               PROVE  Owed(start[r])'
    BY <1>1 DEF StartOwed
  <2>1. start[r] \in Nat /\ Owed(start[r])
    BY BoundsAssumption DEF AInv, JobTypeOK, StartOwed
  <2> QED
    BY <1>1, <1>9, <2>1
<1>15. ASSUME NEW r \in Replicas, rpc[r] \in {"building", "submitting", "recording"}
       PROVE  /\ run[r].from \in Nat /\ run[r].to \in Committed
              /\ Owed(run[r].from) /\ Unbroken(run[r])
  <2>1. Owed(run[r].from) /\ Unbroken(run[r])
    BY <1>15 DEF AInv, RunOwed
  <2>2. run[r].from \in Nat /\ run[r].to \in Nat
    BY DEF AInv, JobTypeOK
  <2>3. run[r].to \in run[r].from..run[r].to
    BY <2>1, <2>2 DEF Unbroken
  <2> QED
    BY <2>1, <2>2, <2>3 DEF Unbroken
<1>16. RunOwed'
  <2> SUFFICES ASSUME NEW r \in Replicas, rpc[r] \in {"building", "submitting", "recording"}
               PROVE  Owed(run[r].from)' /\ Unbroken(run[r])'
    BY <1>1 DEF RunOwed
  <2>1. Owed(run[r].from)'
    BY <1>1, <1>9, <1>15
  <2>2. Unbroken(run[r])'
    BY <1>1, <1>3, <1>15 DEF Unbroken
  <2> QED
    BY <2>1, <2>2
<1>17. RootBuilt'
  BY <1>1, <1>8, <1>15 DEF AInv, RootBuilt
<1> QED
  BY <1>2, <1>7, <1>10, <1>11, <1>12, <1>13, <1>14, <1>16, <1>17 DEF AInv

LEMMA AInvStep == AInv /\ [Next]_vars => AInv'
<1> SUFFICES ASSUME AInv, [Next]_vars PROVE AInv'
  OBVIOUS
<1>1. CASE UNCHANGED vars
  <2>1. UNCHANGED <<chainVars, age, anchors, accepted, stampLock, rpc, start, run, root,
                    waiting, crashes>>
    BY <1>1 DEF vars, anchorVars
  <2>2. AnchorTypeOK' /\ JobTypeOK'
    BY <2>1 DEF AInv, AnchorTypeOK, JobTypeOK
  <2>3. Committed' = Committed /\ Witnessed' = Witnessed /\ entry' = entry
    BY <2>1, AnchorsStay
  <2>4. StartOwed' /\ RunOwed' /\ RootBuilt'
    BY <2>1, <2>3 DEF AInv, StartOwed, RunOwed, RootBuilt, Owed, Unbroken, RootOf
  <2> QED
    BY <2>1, <2>2, <2>4, AnchorsStay DEF AInv
<1>2. CASE ChainStep
  BY <1>2, ChainStepInv
<1>3. CASE Tick
  BY <1>3, TickInv
<1>4. ASSUME NEW r \in Replicas, JobStep(r) PROVE AInv'
  <2>1. CASE TryStampLock(r)
    BY <2>1, TryStampLockInv
  <2>2. CASE ReadStart(r)
    BY <2>2, ReadStartInv
  <2>3. CASE SelectRun(r)
    BY <2>3, SelectRunInv
  <2>4. CASE BuildRoot(r)
    BY <2>4, BuildRootInv
  <2>5. CASE Accept(r)
    BY <2>5, AcceptInv
  <2>6. CASE Refuse(r)
    BY <2>6, LeaveInv DEF Refuse, AInv, AnchorTypeOK, JobTypeOK
  <2>7. CASE RecordAnchor(r)
    BY <2>7, RecordAnchorInv
  <2> QED
    BY <1>4, <2>1, <2>2, <2>3, <2>4, <2>5, <2>6, <2>7 DEF JobStep
<1>5. ASSUME NEW r \in Replicas, Crash(r) PROVE AInv'
  BY <1>5, CrashInv
<1> QED
  BY <1>1, <1>2, <1>3, <1>4, <1>5 DEF Next

LEMMA AInvariance == Safety => []AInv
<1> QED
  BY AInvInit, AInvStep, PTL DEF Safety

-----------------------------------------------------------------------------
(* The theorems.                                                           *)

(* The job's variables always have their types; in particular a replica    *)
(* that is in the job holds the stamp lock, and has a run from the moment  *)
(* it selected one until it leaves.                                        *)
THEOREM AnchorTypeCorrect == Safety => []AnchorTypeOK
<1>1. AInv => AnchorTypeOK
  BY DEF AInv
<1> QED
  BY <1>1, AInvariance, PTL

LEMMA AInvImpliesCoveredOnce == AInv => CoveredOnce
<1> SUFFICES ASSUME AInv, NEW i \in Committed, NEW k \in DOMAIN anchors, i <= anchors[k].to
             PROVE  \E m \in DOMAIN anchors :
                       /\ Covers(anchors[m], i)
                       /\ \A n \in DOMAIN anchors : Covers(anchors[n], i) => n = m
  BY DEF CoveredOnce
<1>1. PICK m \in DOMAIN anchors : Covers(anchors[m], i)
  BY DEF AInv, NoneSkipped, Witnessed
<1>2. ASSUME NEW n \in DOMAIN anchors, Covers(anchors[n], i), n # m PROVE FALSE
  <2>1. \A j \in DOMAIN anchors : j \in Nat /\ anchors[j].from \in Nat /\ anchors[j].to \in Nat
    <3>1. DOMAIN anchors \subseteq Nat
      BY DEF AInv, JobTypeOK
    <3> QED
      BY <3>1, BoundsAssumption DEF AInv, AnchorTypeOK, Ids
  <2>2. i \in Nat
    BY BoundsAssumption DEF Committed, Ids
  <2>3. m < n \/ n < m
    BY <1>2, <2>1
  <2>4. anchors[m].to < anchors[n].from \/ anchors[n].to < anchors[m].from
    BY <2>3 DEF AInv, AnchorsAscend
  <2> QED
    BY <1>1, <1>2, <2>1, <2>2, <2>4 DEF Covers
<1> QED
  BY <1>1, <1>2

(* Whatever crashes, is refused or runs beside it, the anchors cover every *)
(* committed row up to the newest one's end, each row once.                *)
THEOREM AnchorsCoverOnce == Safety => []CoveredOnce
<1> QED
  BY AInvariance, AInvImpliesCoveredOnce, PTL

(* An anchor's root stays the root of the rows it covers, and a calendar   *)
(* has accepted it.                                                        *)
THEOREM AnchoredRootsStand == Safety => []RootsStand
<1>1. AInv => RootsStand
  BY DEF AInv
<1> QED
  BY <1>1, AInvariance, PTL

LEMMA WitnessedIsPrefix == AInv => Witness!IsPrefixOf(Witnessed, Committed)
<1> SUFFICES ASSUME AInv, NEW i \in Witnessed, NEW j \in Committed, j < i
             PROVE  j \in Witnessed
  BY DEF Witness!IsPrefixOf, Witnessed
<1>1. PICK k \in DOMAIN anchors : Covers(anchors[k], i)
  BY DEF Witnessed
<1>2. j <= anchors[k].to
  BY <1>1, BoundsAssumption DEF Covers, Witnessed, Committed, Ids, AInv, AnchorTypeOK
<1> QED
  BY <1>2 DEF AInv, NoneSkipped

LEMMA WitnessStep ==
    ASSUME AInv, AInv', [Next]_vars
    PROVE  [Witness!Next]_<<Committed, Witnessed>>
<1>1. CASE ChainStep
  <2>1. Witnessed' = Witnessed
    BY <1>1, ChainStepInv
  <2>2. /\ Committed \subseteq Committed' /\ Committed' \subseteq Ids
        /\ \A i \in Committed' : i \in Committed \/ \A j \in Committed : j < i
    BY <1>1, CommitsAbove DEF ChainStep, AInv, Committed
  <2>3. Witnessed \subseteq Committed
    BY DEF Witnessed
  <2> QED
    BY <2>1, <2>2, <2>3 DEF Witness!Next, Witness!Append
<1>2. ASSUME NEW r \in Replicas, RecordAnchor(r)
      PROVE  [Witness!Next]_<<Committed, Witnessed>>
  <2>1. Committed' = Committed
    BY <1>2 DEF RecordAnchor, chainVars, Committed
  <2>2. PICK new : anchors' = Append(anchors, new)
    BY <1>2 DEF RecordAnchor
  <2>3. \A k \in DOMAIN anchors : k \in DOMAIN anchors' /\ anchors'[k] = anchors[k]
    BY <2>2 DEF AInv, JobTypeOK
  <2>4. Witnessed \subseteq Witnessed'
    BY <2>1, <2>3 DEF Witnessed
  <2>5. Witness!IsPrefixOf(Witnessed, Committed)'
    BY WitnessedIsPrefix, PTL
  <2> QED
    BY <2>1, <2>4, <2>5 DEF Witness!Next, Witness!Witness, Witness!IsPrefixOf
<1>3. ASSUME UNCHANGED <<chainVars, anchors>>
      PROVE  UNCHANGED <<Committed, Witnessed>>
  BY <1>3 DEF chainVars, Committed, Witnessed
<1>4. ASSUME NEW r \in Replicas, JobStep(r) \/ Crash(r), ~RecordAnchor(r)
      PROVE  UNCHANGED <<chainVars, anchors>>
  BY <1>4 DEF JobStep, TryStampLock, ReadStart, SelectRun, BuildRoot, Accept, Refuse, Crash
<1>5. CASE Tick
  BY <1>3, <1>5 DEF Tick
<1>6. CASE UNCHANGED vars
  BY <1>3, <1>6 DEF vars, anchorVars
<1> QED
  BY <1>1, <1>2, <1>3, <1>4, <1>5, <1>6 DEF Next

(* Anchoring implements the public witness: a commit is its Append, the    *)
(* recording of an anchor its Witness, and every other step leaves it as   *)
(* it is.                                                                  *)
THEOREM AnchoringImplementsWitness == Safety => WitnessesPrefix
<1>1. Init => Witness!Init
  BY DEF Init, ChainInit, Witness!Init, Committed, Witnessed
<1>2. AInv /\ AInv' /\ [Next]_vars => [Witness!Next]_<<Committed, Witnessed>>
  BY WitnessStep
<1> QED
  BY <1>1, <1>2, AInvariance, PTL DEF Safety, WitnessesPrefix, Witness!Spec
=============================================================================
