-------------------------- MODULE StageWriter_proofs --------------------------
(***************************************************************************)
(* Proofs about StageWriter, for any requests, keys, batches, bodies and   *)
(* bound on crashes.                                                       *)
(***************************************************************************)
EXTENDS StageWriter, TLAPS

-----------------------------------------------------------------------------
(* The parts of TypeOK.                                                    *)

Values ==
    /\ state \in [Batches -> States \cup {"none"}]
    /\ stageRows \subseteq Batches \X States
    /\ idemRow \in [Keys -> [fingerprint : {Fingerprint(q) : q \in Request} \cup {Nothing},
                             response : Response \cup {Nothing}]]
    /\ burned \in Nat /\ crashes \in 0..MaxCrashes

RequestValues ==
    /\ req \in [Requests -> Request \cup {Nothing}]
    /\ pc \in [Requests -> {"unsent", "begin", "open", "locked", "appending",
                            "finishing", "committing", "done"}]
    /\ seen \in [Requests -> States \cup {"none"}]
    /\ response \in [Requests -> Response \cup {Nothing}]
    /\ \A r \in Requests : pc[r] = "unsent" <=> req[r] = Nothing

KeysHeld == \A k \in Keys : \A r \in Requests : keyHolder[k] = r <=> r \in Open /\ req[r].key = k

RowsHeld ==
    \A b \in Batches : \A r \in Requests :
        rowHolder[b] = r <=> /\ r \in Open /\ pc[r] # "open"
                             /\ req[r].batch = b /\ req[r].stage # "CREATED"

ChainHeld == \A r \in Requests : chainHolder = r <=> drawn[r] # <<>>

-----------------------------------------------------------------------------
(* The inductive invariant.  What a commit makes visible must be right     *)
(* while the request is still at work: the batch is where the request      *)
(* found it, the rows it has appended are those of its stage, nobody else  *)
(* has inserted the row it inserted, and its key has no row yet.           *)

AuditRow == UNION {{AuditRows[s][i] : i \in DOMAIN AuditRows[s]} : s \in States}

Refusals == {"idempotency_conflict", "forbidden", "batch_code_taken", "batch_not_found",
             "stage_already_recorded", "invalid_transition"}

Outcomes == {"none", "created", "replayed", "crashed"} \cup Refusals

\* What TypeOK leaves open.
VarsOK ==
    /\ trail \in [Batches -> Seq(AuditRow)]
    /\ drawn \in [Requests -> Seq(AuditRow)]
    /\ outcome \in [Requests -> Outcomes]
    /\ keyHolder \in [Keys -> Requests \cup {NoRequest}]
    /\ rowHolder \in [Batches -> Requests \cup {NoRequest}]
    /\ chainHolder \in Requests \cup {NoRequest}

\* The rows a request has appended are the first ones of its stage: some while
\* it appends, all when it is about to commit, none otherwise.
Drawn ==
    \A r \in Requests :
        LET rows == AuditRows[req[r].stage]
        IN  CASE pc[r] = "appending" ->
                   /\ Len(drawn[r]) < Len(rows)
                   /\ \A i \in 1..Len(drawn[r]) : drawn[r][i] = rows[i]
              [] pc[r] \in {"finishing", "committing"} -> drawn[r] = rows
              [] OTHER -> drawn[r] = <<>>

\* A transition has read the state its batch still has.
SeenHolds ==
    \A r \in Requests :
        /\ pc[r] = "locked" => req[r].stage # "CREATED"
        /\ r \in Open /\ pc[r] # "open" /\ req[r].stage # "CREATED" =>
             seen[r] = state[req[r].batch] /\ seen[r] # "none"

\* Nor can the stage a request has inserted be recorded by another one first.
InsertHolds ==
    /\ \A r \in Inserted : IF req[r].stage = "CREATED" THEN state[req[r].batch] = "none"
                           ELSE Allowed(state[req[r].batch], req[r].stage)
    /\ \A r, o \in Inserted : r # o => ~SameRow(req[r], req[o])

KeyIsFree == \A r \in Open : idemRow[req[r].key] = NoRow

Answered ==
    \A r \in Requests :
        /\ outcome[r] # "none" <=> pc[r] = "done"
        /\ pc[r] = "committing" => response[r] = ResponseTo(req[r])

IInv ==
    /\ Values
    /\ RequestValues
    /\ KeysHeld
    /\ RowsHeld
    /\ ChainHeld
    /\ VarsOK
    /\ Drawn
    /\ SeenHolds
    /\ InsertHolds
    /\ KeyIsFree
    /\ Answered
    /\ TrailTellsLifecycle
    /\ OneWritePerKey

-----------------------------------------------------------------------------
(* The lifecycle: six stages in a row, each with the rows that record it.  *)

LEMMA Stages ==
    /\ Lifecycle[1] = "CREATED" /\ Lifecycle[2] = "HARVESTED"
    /\ Lifecycle[3] = "PROCESSED" /\ Lifecycle[4] = "LAB_VERIFIED"
    /\ Lifecycle[5] = "PACKAGED" /\ Lifecycle[6] = "DISTRIBUTED"
    /\ \A i, j \in 1..6 : Lifecycle[i] = Lifecycle[j] => i = j
    /\ "none" \notin States
<1>1. /\ Lifecycle[1] = "CREATED" /\ Lifecycle[2] = "HARVESTED"
      /\ Lifecycle[3] = "PROCESSED" /\ Lifecycle[4] = "LAB_VERIFIED"
      /\ Lifecycle[5] = "PACKAGED" /\ Lifecycle[6] = "DISTRIBUTED"
  BY DEF Lifecycle
<1>2. \A i \in 1..6 : i \in {1, 2, 3, 4, 5, 6}
  OBVIOUS
<1>3. \A i, j \in 1..6 : Lifecycle[i] = Lifecycle[j] => i = j
  BY <1>1, <1>2
<1>4. "none" \notin States
  BY <1>1, <1>2 DEF States
<1> QED
  BY <1>1, <1>3, <1>4

LEMMA ThroughStage ==
    /\ Through("none") = 0
    /\ \A i \in 1..6 : Through(Lifecycle[i]) = i
    /\ \A s \in States : Through(s) \in 1..6 /\ Lifecycle[Through(s)] = s
<1>1. Through("none") = 0
  BY DEF Through
<1>2. ASSUME NEW i \in 1..6 PROVE Through(Lifecycle[i]) = i
  <2>1. Lifecycle[i] # "none"
    BY Stages DEF States
  <2>2. \A j \in 1..6 : Lifecycle[j] = Lifecycle[i] <=> j = i
    BY Stages
  <2> QED
    BY <2>1, <2>2 DEF Through
<1>3. ASSUME NEW s \in States PROVE Through(s) \in 1..6 /\ Lifecycle[Through(s)] = s
  BY <1>2 DEF States
<1> QED
  BY <1>1, <1>2, <1>3

(* LEGAL moves a batch one stage on.                                       *)
LEMMA LegalMove ==
    ASSUME NEW s, NEW t, Allowed(s, t)
    PROVE  /\ s \in States /\ t \in States /\ s # "none" /\ s # "DISTRIBUTED"
           /\ t # "CREATED" /\ t = LEGAL[s]
           /\ Through(s) \in 1..5 /\ Through(t) = Through(s) + 1
<1>1. s \in States /\ s # "DISTRIBUTED" /\ t = LEGAL[s]
  BY DEF Allowed, LEGAL
<1>2. Through(s) \in 1..6 /\ Lifecycle[Through(s)] = s
  BY <1>1, ThroughStage
<1>3. Through(s) # 6 /\ Through(s) \in 1..5
  BY <1>1, <1>2, Stages
<1>4. Lifecycle[Through(s) + 1] \in States
  BY <1>3 DEF States
<1>5. \E u \in States : \E i \in 1..5 : Lifecycle[i] = s /\ Lifecycle[i + 1] = u
  BY <1>2, <1>3, <1>4
<1>6. t \in States /\ \E i \in 1..5 : Lifecycle[i] = s /\ Lifecycle[i + 1] = t
  BY <1>1, <1>5 DEF LEGAL
<1>7. PICK i \in 1..5 : Lifecycle[i] = s /\ Lifecycle[i + 1] = t
  BY <1>6
<1>8. Through(s) = i /\ Through(t) = i + 1
  BY <1>7, ThroughStage
<1>9. t # "CREATED"
  BY <1>7, Stages
<1> QED
  BY <1>1, <1>3, <1>6, <1>8, <1>9, Stages

(* The recursion that lists the rows has a solution: the seven sequences.  *)
LEMMA RowsThroughStage ==
    /\ RowsThrough[0] = <<>>
    /\ \A n \in 1..6 : RowsThrough[n] = RowsThrough[n - 1] \o AuditRows[Lifecycle[n]]
<1> DEFINE r1 == <<>> \o AuditRows[Lifecycle[1]]
           r2 == r1 \o AuditRows[Lifecycle[2]]
           r3 == r2 \o AuditRows[Lifecycle[3]]
           r4 == r3 \o AuditRows[Lifecycle[4]]
           r5 == r4 \o AuditRows[Lifecycle[5]]
           r6 == r5 \o AuditRows[Lifecycle[6]]
           sol == [n \in 0..6 |-> IF n = 0 THEN <<>> ELSE IF n = 1 THEN r1
                                  ELSE IF n = 2 THEN r2 ELSE IF n = 3 THEN r3
                                  ELSE IF n = 4 THEN r4 ELSE IF n = 5 THEN r5 ELSE r6]
           step(f) == [n \in 0..6 |-> IF n = 0 THEN <<>> ELSE f[n - 1] \o AuditRows[Lifecycle[n]]]
<1>1. sol = step(sol)
  <2>1. /\ sol[0] = <<>> /\ sol[1] = r1 /\ sol[2] = r2 /\ sol[3] = r3
        /\ sol[4] = r4 /\ sol[5] = r5 /\ sol[6] = r6
    <3> HIDE DEF r1, r2, r3, r4, r5, r6
    <3> QED
      OBVIOUS
  <2>2. /\ r1 = sol[0] \o AuditRows[Lifecycle[1]]
        /\ r2 = sol[1] \o AuditRows[Lifecycle[2]]
        /\ r3 = sol[2] \o AuditRows[Lifecycle[3]]
        /\ r4 = sol[3] \o AuditRows[Lifecycle[4]]
        /\ r5 = sol[4] \o AuditRows[Lifecycle[5]]
        /\ r6 = sol[5] \o AuditRows[Lifecycle[6]]
    BY <2>1
  <2>3. ASSUME NEW n \in 0..6
        PROVE  sol[n] = IF n = 0 THEN <<>> ELSE sol[n - 1] \o AuditRows[Lifecycle[n]]
    <3> HIDE DEF sol, r1, r2, r3, r4, r5, r6
    <3>1. n \in {0, 1, 2, 3, 4, 5, 6}
      OBVIOUS
    <3>2. CASE n = 0
      BY <2>1, <3>2
    <3>3. CASE n = 1
      <4>1. n - 1 = 0 /\ n # 0
        BY <3>3
      <4> QED
        BY <2>1, <2>2, <3>3, <4>1, Zenon
    <3>4. CASE n = 2
      <4>1. n - 1 = 1 /\ n # 0
        BY <3>4
      <4> QED
        BY <2>1, <2>2, <3>4, <4>1, Zenon
    <3>5. CASE n = 3
      <4>1. n - 1 = 2 /\ n # 0
        BY <3>5
      <4> QED
        BY <2>1, <2>2, <3>5, <4>1, Zenon
    <3>6. CASE n = 4
      <4>1. n - 1 = 3 /\ n # 0
        BY <3>6
      <4> QED
        BY <2>1, <2>2, <3>6, <4>1, Zenon
    <3>7. CASE n = 5
      <4>1. n - 1 = 4 /\ n # 0
        BY <3>7
      <4> QED
        BY <2>1, <2>2, <3>7, <4>1, Zenon
    <3>8. CASE n = 6
      <4>1. n - 1 = 5 /\ n # 0
        BY <3>8
      <4> QED
        BY <2>1, <2>2, <3>8, <4>1, Zenon
    <3> QED
      BY <3>1, <3>2, <3>3, <3>4, <3>5, <3>6, <3>7, <3>8
  <2>4. DOMAIN sol = 0..6
    OBVIOUS
  <2>5. sol = [n \in 0..6 |-> sol[n]]
    <3> QED
      OBVIOUS
  <2> HIDE DEF sol
  <2> QED
    BY <2>3, <2>5
<1> HIDE DEF sol
<1>2. RowsThrough = step(RowsThrough)
  BY <1>1, Zenon DEF RowsThrough
<1>3. ASSUME NEW n \in 0..6
      PROVE  RowsThrough[n] = IF n = 0 THEN <<>> ELSE RowsThrough[n - 1] \o AuditRows[Lifecycle[n]]
  <2>1. step(RowsThrough)[n] = IF n = 0 THEN <<>> ELSE RowsThrough[n - 1] \o AuditRows[Lifecycle[n]]
    OBVIOUS
  <2> HIDE DEF step
  <2> QED
    BY <1>2, <2>1, Zenon
<1>4. 0 \in 0..6 /\ \A n \in 1..6 : n \in 0..6 /\ n # 0
  OBVIOUS
<1> QED
  BY <1>3, <1>4
LEMMA RowsOfStage ==
    ASSUME NEW s \in States
    PROVE  /\ AuditRows[s] \in Seq(AuditRow)
           /\ \A i \in 1..Len(AuditRows[s]) : AuditRows[s][i] \in AuditRow
<1>1. AuditRows[s] = IF s = "CREATED"
                     THEN <<"batch.created", "batch.apiary_recorded", "batch.metadata_recorded">>
                     ELSE <<s>>
  BY DEF AuditRows
<1> DEFINE Names == {"batch.created", "batch.apiary_recorded", "batch.metadata_recorded"}
<1>2. AuditRows[s] \in Seq(Names \cup States)
  <2>1. CASE s = "CREATED"
    BY <1>1, <2>1
  <2>2. CASE s # "CREATED"
    BY <1>1, <2>2
  <2> QED
    BY <2>1, <2>2
<1>3. ASSUME NEW i \in DOMAIN AuditRows[s] PROVE AuditRows[s][i] \in AuditRow
  BY DEF AuditRow
<1>4. DOMAIN AuditRows[s] = 1..Len(AuditRows[s])
  BY <1>2
<1>5. AuditRows[s] \in Seq(AuditRow)
  BY <1>2, <1>3
<1> QED
  BY <1>2, <1>3, <1>4, <1>5

LEMMA LengthOfRows == \A s \in States : 0 < Len(AuditRows[s]) /\ Len(AuditRows[s]) <= 3
<1> SUFFICES ASSUME NEW s \in States PROVE 0 < Len(AuditRows[s]) /\ Len(AuditRows[s]) <= 3
  OBVIOUS
<1>1. CASE s = "CREATED"
  BY <1>1 DEF AuditRows
<1>2. CASE s # "CREATED"
  BY <1>2 DEF AuditRows
<1> QED
  BY <1>1, <1>2

(* Moving on by one stage adds the rows and the stage record of that stage *)
(* to those a batch has had so far.                                        *)
LEMMA MoveAddsRows ==
    ASSUME NEW s, NEW t, Allowed(s, t)
    PROVE  /\ RowsUpTo(t) = RowsUpTo(s) \o AuditRows[t]
           /\ StagesUpTo(t) = StagesUpTo(s) \cup {t}
<1>1. /\ s \in States /\ t \in States
      /\ Through(s) \in 1..5 /\ Through(t) = Through(s) + 1
  BY LegalMove
<1>2. Lifecycle[Through(t)] = t
  BY <1>1, ThroughStage
<1>3. RowsUpTo(t) = RowsUpTo(s) \o AuditRows[t]
  <2>1. Through(t) \in 1..6 /\ Through(t) - 1 = Through(s)
    BY <1>1
  <2> QED
    BY <1>2, <2>1, RowsThroughStage DEF RowsUpTo
<1>4. StagesUpTo(t) = StagesUpTo(s) \cup {t}
  <2>1. 2..Through(t) = (2..Through(s)) \cup {Through(t)}
    BY <1>1
  <2> QED
    BY <1>2, <2>1 DEF StagesUpTo
<1> QED
  BY <1>3, <1>4

LEMMA CreationAddsRows ==
    /\ RowsUpTo("none") = <<>>
    /\ RowsUpTo("CREATED") = RowsUpTo("none") \o AuditRows["CREATED"]
    /\ StagesUpTo("none") = {} /\ StagesUpTo("CREATED") = {}
<1>1. Through("none") = 0 /\ Through("CREATED") = 1
  BY ThroughStage, Stages
<1>2. RowsThrough[1] = RowsThrough[0] \o AuditRows["CREATED"] /\ RowsThrough[0] = <<>>
  <2>1. 1 \in 1..6 /\ 1 - 1 = 0
    OBVIOUS
  <2> QED
    BY <2>1, RowsThroughStage, Stages
<1>3. 2..0 = {} /\ 2..1 = {}
  OBVIOUS
<1> QED
  BY <1>1, <1>2, <1>3 DEF RowsUpTo, StagesUpTo

LEMMA RowsUpToType ==
    ASSUME NEW s \in States \cup {"none"}
    PROVE  RowsUpTo(s) \in Seq(AuditRow)
<1>1. ASSUME NEW n \in 1..6, RowsThrough[n - 1] \in Seq(AuditRow)
      PROVE  RowsThrough[n] \in Seq(AuditRow)
  <2>1. AuditRows[Lifecycle[n]] \in Seq(AuditRow)
    BY RowsOfStage DEF States
  <2>2. RowsThrough[n] = RowsThrough[n - 1] \o AuditRows[Lifecycle[n]]
    BY RowsThroughStage
  <2> QED
    BY <1>1, <2>1, <2>2
<1>2. RowsThrough[0] \in Seq(AuditRow)
  BY RowsThroughStage
<1>3. /\ RowsThrough[1] \in Seq(AuditRow) /\ RowsThrough[2] \in Seq(AuditRow)
      /\ RowsThrough[3] \in Seq(AuditRow) /\ RowsThrough[4] \in Seq(AuditRow)
      /\ RowsThrough[5] \in Seq(AuditRow) /\ RowsThrough[6] \in Seq(AuditRow)
  BY <1>1, <1>2
<1>4. Through(s) \in {0, 1, 2, 3, 4, 5, 6}
  BY ThroughStage
<1> QED
  BY <1>2, <1>3, <1>4 DEF RowsUpTo
-----------------------------------------------------------------------------
(* The invariant holds at the start.                                       *)

LEMMA NothingElse ==
    /\ Nothing \notin Request /\ Nothing \notin Response
    /\ \A q \in Request : Fingerprint(q) # Nothing
<1>1. ASSUME NEW q \in Request PROVE Fingerprint(q) # Nothing
  BY DEF Fingerprint, Nothing
<1>2. \A q \in Request : DOMAIN q = {"key", "batch", "stage", "detail"}
  BY DEF Request
<1>3. \A q \in Response : DOMAIN q = {"batch", "state"}
  BY DEF Response
<1>4. DOMAIN Nothing = {}
  BY DEF Nothing
<1> QED
  BY <1>1, <1>2, <1>3, <1>4

LEMMA IInvInit == Init => IInv
<1> SUFFICES ASSUME Init PROVE IInv
  OBVIOUS
<1>1. \A r \in Requests : /\ pc[r] = "unsent" /\ drawn[r] = <<>> /\ outcome[r] = "none"
                          /\ req[r] = Nothing /\ response[r] = Nothing
  BY DEF Init
<1>2. Open = {} /\ Inserted = {}
  BY <1>1 DEF Open, Inserted
<1>3. state \in [Batches -> States \cup {"none"}]
  BY StagesAssumption DEF Init
<1>4. ASSUME NEW b \in Batches PROVE {s \in States : <<b, s>> \in stageRows} = StagesUpTo(state[b])
  <2>1. StagesUpTo(state[b]) \subseteq States
    <3>1. state[b] = "none" \/ state[b] \in States
      BY <1>3
    <3>2. 2..Through(state[b]) \subseteq 1..6
      BY <3>1, ThroughStage
    <3> QED
      BY <3>2 DEF StagesUpTo, States
  <2>2. \A s : <<b, s>> \in stageRows <=> s \in StagesUpTo(state[b])
    BY DEF Init
  <2> QED
    BY <2>1, <2>2
<1>5. stageRows \subseteq Batches \X States
  <2>1. ASSUME NEW b \in Batches PROVE {b} \X StagesUpTo(state[b]) \subseteq Batches \X States
    <3>1. state[b] = "none" \/ state[b] \in States
      BY <1>3
    <3>2. 2..Through(state[b]) \subseteq 1..6
      BY <3>1, ThroughStage
    <3>3. StagesUpTo(state[b]) \subseteq States
      BY <3>2 DEF StagesUpTo, States
    <3> QED
      BY <3>3
  <2> QED
    BY <2>1 DEF Init
<1>6. Values
  BY <1>3, <1>5, CrashesAssumption DEF Init, Values, NoRow
<1>7. RequestValues
  BY <1>1 DEF Init, RequestValues
<1>8. KeysHeld /\ RowsHeld /\ ChainHeld
  BY <1>1, <1>2, NoRequestAssumption DEF Init, KeysHeld, RowsHeld, ChainHeld
<1>9. VarsOK
  <2>1. \A b \in Batches : RowsUpTo(state[b]) \in Seq(AuditRow)
    BY <1>3, RowsUpToType
  <2> QED
    BY <2>1 DEF Init, VarsOK, Outcomes
<1>10. Drawn /\ SeenHolds /\ InsertHolds /\ KeyIsFree /\ Answered
  BY <1>1, <1>2 DEF Drawn, SeenHolds, InsertHolds, KeyIsFree, Answered
<1>11. TrailTellsLifecycle
  <2>1. burned <= 3 * crashes
    BY DEF Init
  <2>2. \A b \in Batches : trail[b] = RowsUpTo(state[b])
    BY DEF Init
  <2> QED
    BY <1>4, <2>1, <2>2 DEF TrailTellsLifecycle, RefusalsBurnNothing
<1>12. OneWritePerKey
  <2>1. \A k \in Keys : idemRow[k] = NoRow /\ DidTheWork(k) = {}
    BY <1>1 DEF Init, DidTheWork
  <2> QED
    BY <1>1, <2>1 DEF OneWritePerKey
<1> QED
  BY <1>6, <1>7, <1>8, <1>9, <1>10, <1>11, <1>12 DEF IInv
-----------------------------------------------------------------------------
(* What the steps have in common.                                          *)

(* The committed rows are as they were.                                    *)
LEMMA StoryStays ==
    ASSUME IInv, UNCHANGED <<state, stageRows, trail>>, burned' <= 3 * crashes'
    PROVE  TrailTellsLifecycle'
BY DEF IInv, TrailTellsLifecycle, RefusalsBurnNothing

(* A request that was not finished, and is not now by doing the work,      *)
(* leaves the keys as they were.                                           *)
LEMMA KeysStay ==
    ASSUME IInv, NEW r \in Requests, outcome[r] = "none", UNCHANGED idemRow,
           \A o \in Requests : o # r =>
              outcome'[o] = outcome[o] /\ req'[o] = req[o] /\ response'[o] = response[o],
           outcome'[r] # "created",
           outcome'[r] = "replayed" =>
              \E o \in DidTheWork(req'[r].key) :
                 /\ req[o].stage = req'[r].stage /\ req[o].detail = req'[r].detail
                 /\ response[o] = response'[r]
    PROVE  OneWritePerKey'
<1>1. \A k : DidTheWork(k)' = DidTheWork(k)
  BY DEF DidTheWork
<1>2. \A k : r \notin DidTheWork(k)
  BY DEF DidTheWork
<1>3. ASSUME NEW k \in Keys
      PROVE  IF idemRow'[k] = NoRow THEN DidTheWork(k)' = {}
             ELSE \E o \in Requests :
                     /\ DidTheWork(k)' = {o}
                     /\ idemRow'[k] = [fingerprint |-> Fingerprint(req'[o]), response |-> response'[o]]
                     /\ response'[o] = ResponseTo(req'[o])
  <2>1. CASE idemRow[k] = NoRow
    BY <1>1, <2>1 DEF IInv, OneWritePerKey
  <2>2. CASE idemRow[k] # NoRow
    <3>1. PICK o \in Requests :
             /\ DidTheWork(k) = {o}
             /\ idemRow[k] = [fingerprint |-> Fingerprint(req[o]), response |-> response[o]]
             /\ response[o] = ResponseTo(req[o])
      BY <2>2 DEF IInv, OneWritePerKey
    <3>2. o # r
      BY <1>2, <3>1
    <3> QED
      BY <1>1, <2>2, <3>1, <3>2
  <2> QED
    BY <2>1, <2>2
<1>4. ASSUME NEW s \in Requests, outcome'[s] = "replayed"
      PROVE  \E o \in DidTheWork(req'[s].key) :
                /\ req'[o].stage = req'[s].stage /\ req'[o].detail = req'[s].detail
                /\ response'[o] = response'[s]
  <2>1. \A k : \A o \in DidTheWork(k) : o # r /\ o \in Requests
    BY <1>2 DEF DidTheWork
  <2>2. CASE s = r
    BY <1>4, <2>1, <2>2
  <2>3. CASE s # r
    <3>1. req'[s] = req[s] /\ outcome[s] = "replayed" /\ response'[s] = response[s]
      BY <1>4, <2>3
    <3>2. PICK o \in DidTheWork(req[s].key) :
             /\ req[o].stage = req[s].stage /\ req[o].detail = req[s].detail
             /\ response[o] = response[s]
      BY <3>1 DEF IInv, OneWritePerKey
    <3> QED
      BY <2>1, <3>1, <3>2
  <2> QED
    BY <2>2, <2>3
<1>5. ASSUME NEW s \in Requests, outcome'[s] = "replayed"
      PROVE  \E o \in DidTheWork(req[s].key)' :
                /\ req'[o].stage = req'[s].stage /\ req'[o].detail = req'[s].detail
                /\ response'[o] = response'[s]
  BY <1>1, <1>4, <1>5 DEF DidTheWork
<1> QED
  BY <1>3, <1>5 DEF OneWritePerKey

LEMMA SendInv ==
    ASSUME IInv, NEW r \in Requests, Send(r)
    PROVE  IInv'
<1>1. PICK q \in Request : req' = [req EXCEPT ![r] = q]
  BY DEF Send
<1>2. /\ pc[r] = "unsent" /\ pc' = [pc EXCEPT ![r] = "begin"]
      /\ UNCHANGED <<state, stageRows, trail, idemRow, burned, keyHolder, rowHolder, chainHolder,
                     seen, drawn, outcome, response, crashes>>
  BY DEF Send, tables, locks, answers
<1>3. /\ pc'[r] = "begin" /\ req'[r] = q
      /\ \A o \in Requests : o # r => pc'[o] = pc[o] /\ req'[o] = req[o]
  BY <1>1, <1>2 DEF IInv, RequestValues
<1>4. Open' = Open /\ Inserted' = Inserted /\ r \notin Open
  BY <1>2, <1>3 DEF Open, Inserted
<1>5. Values' /\ VarsOK' /\ ChainHeld'
  BY <1>2 DEF IInv, Values, VarsOK, ChainHeld
<1>6. RequestValues'
  <2>1. q # Nothing
    BY NothingElse
  <2> QED
    BY <1>1, <1>2, <1>3, <2>1 DEF IInv, RequestValues
<1>7. KeysHeld' /\ RowsHeld'
  BY <1>2, <1>3, <1>4 DEF IInv, KeysHeld, RowsHeld
<1>8. Drawn'
  BY <1>2, <1>3 DEF IInv, Drawn
<1>9. SeenHolds' /\ InsertHolds' /\ KeyIsFree' /\ Answered'
  <2>1. r \notin Inserted /\ Inserted \subseteq Requests /\ Open \subseteq Requests
    BY <1>4 DEF Open, Inserted
  <2>2. SeenHolds'
    BY <1>2, <1>3, <1>4 DEF IInv, SeenHolds
  <2>3. InsertHolds'
    BY <1>2, <1>3, <1>4, <2>1 DEF IInv, InsertHolds, SameRow
  <2>4. KeyIsFree' /\ Answered'
    BY <1>2, <1>3, <1>4, <2>1 DEF IInv, KeyIsFree, Answered
  <2> QED
    BY <2>2, <2>3, <2>4
<1>10. TrailTellsLifecycle'
  BY <1>2, StoryStays DEF IInv, TrailTellsLifecycle, RefusalsBurnNothing
<1>11. OneWritePerKey'
  BY <1>2, <1>3, KeysStay DEF IInv, Answered
<1> QED
  BY <1>5, <1>6, <1>7, <1>8, <1>9, <1>10, <1>11 DEF IInv
LEMMA OpenRequest ==
    /\ Inserted \subseteq Open /\ Open \subseteq Requests
    /\ \A r \in Requests :
          /\ r \in Open <=> pc[r] \in {"open", "locked", "appending", "finishing", "committing"}
          /\ r \in Inserted <=> pc[r] \in {"appending", "finishing", "committing"}
BY DEF Open, Inserted

(* The key has no row and no holder: nobody else is at work under it.      *)
LEMMA ReserveInv ==
    ASSUME IInv, NEW r \in Requests, Reserve(r)
    PROVE  IInv'
<1> DEFINE k == req[r].key
<1>1. /\ pc[r] = "begin" /\ pc' = [pc EXCEPT ![r] = "open"]
      /\ keyHolder[k] = NoRequest /\ idemRow[k] = NoRow
      /\ keyHolder' = [keyHolder EXCEPT ![k] = r]
      /\ UNCHANGED <<state, stageRows, trail, idemRow, burned, rowHolder, chainHolder, req,
                     seen, drawn, outcome, response, crashes>>
  BY DEF Reserve, tables, answers
<1>2. k \in Keys /\ req[r] \in Request
  BY <1>1 DEF IInv, RequestValues, Request
<1>3. /\ pc'[r] = "open" /\ \A o \in Requests : o # r => pc'[o] = pc[o]
      /\ keyHolder'[k] = r /\ \A j \in Keys : j # k => keyHolder'[j] = keyHolder[j]
  BY <1>1, <1>2 DEF IInv, RequestValues, VarsOK
<1>4. r \notin Open /\ Open' = Open \cup {r} /\ r \notin Inserted /\ Inserted' = Inserted
  BY <1>1, <1>3 DEF Open, Inserted
<1>5. Values' /\ ChainHeld' /\ RequestValues'
  BY <1>1, <1>3 DEF IInv, Values, ChainHeld, RequestValues
<1>6. VarsOK'
  BY <1>1 DEF IInv, VarsOK
<1>7. KeysHeld'
  <2> SUFFICES ASSUME NEW j \in Keys, NEW o \in Requests
               PROVE  keyHolder'[j] = o <=> o \in Open' /\ req[o].key = j
    BY <1>1 DEF KeysHeld
  <2>1. keyHolder[j] = o <=> o \in Open /\ req[o].key = j
    BY DEF IInv, KeysHeld
  <2> QED
    BY <1>1, <1>3, <1>4, <2>1, NoRequestAssumption
<1>8. RowsHeld'
  BY <1>1, <1>3, <1>4 DEF IInv, RowsHeld
<1>9. Drawn'
  BY <1>1, <1>3 DEF IInv, Drawn
<1>10. SeenHolds' /\ Answered'
  BY <1>1, <1>3, <1>4 DEF IInv, SeenHolds, Answered
<1>11. InsertHolds' /\ KeyIsFree'
  BY <1>1, <1>3, <1>4, OpenRequest DEF IInv, InsertHolds, KeyIsFree, SameRow
<1>12. TrailTellsLifecycle'
  BY <1>1, StoryStays DEF IInv, TrailTellsLifecycle, RefusalsBurnNothing
<1>13. OneWritePerKey'
  BY <1>1, KeysStay DEF IInv, Answered
<1> QED
  BY <1>5, <1>6, <1>7, <1>8, <1>9, <1>10, <1>11, <1>12, <1>13 DEF IInv

(* The replayed response is in the key's row, which the one request that   *)
(* did the work left there.                                                *)
LEMMA ReplayInv ==
    ASSUME IInv, NEW r \in Requests, Replay(r)
    PROVE  IInv'
<1> DEFINE k == req[r].key
<1>1. /\ pc[r] = "begin" /\ pc' = [pc EXCEPT ![r] = "done"]
      /\ idemRow[k] # NoRow /\ idemRow[k].fingerprint = Fingerprint(req[r])
      /\ outcome' = [outcome EXCEPT ![r] = "replayed"]
      /\ response' = [response EXCEPT ![r] = idemRow[k].response]
      /\ UNCHANGED <<state, stageRows, trail, idemRow, burned, keyHolder, rowHolder, chainHolder,
                     req, seen, drawn, crashes>>
  BY DEF Replay, Matches, tables, locks
<1>2. k \in Keys /\ req[r] \in Request
  BY <1>1 DEF IInv, RequestValues, Request
<1>3. idemRow[k].response \in Response \cup {Nothing}
  BY <1>2 DEF IInv, Values
<1>4. /\ pc'[r] = "done" /\ outcome'[r] = "replayed" /\ response'[r] = idemRow[k].response
      /\ \A o \in Requests : o # r => /\ pc'[o] = pc[o] /\ outcome'[o] = outcome[o]
                                      /\ response'[o] = response[o]
  BY <1>1 DEF IInv, RequestValues, VarsOK
<1>5. r \notin Open /\ Open' = Open /\ r \notin Inserted /\ Inserted' = Inserted
  BY <1>1, <1>4 DEF Open, Inserted
<1>6. Values' /\ ChainHeld' /\ RequestValues'
  BY <1>1, <1>3, <1>4 DEF IInv, Values, ChainHeld, RequestValues
<1>7. VarsOK'
  BY <1>1 DEF IInv, VarsOK, Outcomes
<1>8. KeysHeld' /\ RowsHeld'
  BY <1>1, <1>4, <1>5 DEF IInv, KeysHeld, RowsHeld
<1>9. Drawn'
  BY <1>1, <1>4 DEF IInv, Drawn
<1>10. SeenHolds' /\ Answered'
  BY <1>1, <1>4, <1>5 DEF IInv, SeenHolds, Answered
<1>11. InsertHolds' /\ KeyIsFree'
  BY <1>1, <1>4, <1>5, OpenRequest DEF IInv, InsertHolds, KeyIsFree, SameRow
<1>12. TrailTellsLifecycle'
  BY <1>1, StoryStays DEF IInv, TrailTellsLifecycle, RefusalsBurnNothing
<1>13. OneWritePerKey'
  <2>1. PICK o \in Requests :
           /\ DidTheWork(k) = {o}
           /\ idemRow[k] = [fingerprint |-> Fingerprint(req[o]), response |-> response[o]]
    BY <1>1, <1>2 DEF IInv, OneWritePerKey
  <2>2. outcome[o] = "created" /\ req[o] \in Request
    <3>1. outcome[o] = "created"
      BY <2>1 DEF DidTheWork
    <3>2. pc[o] = "done"
      BY <3>1 DEF IInv, Answered
    <3> QED
      BY <3>1, <3>2 DEF IInv, RequestValues
  <2>3. Fingerprint(req[o]) = Fingerprint(req[r])
    BY <1>1, <2>1
  <2>4. req[o].stage = req[r].stage /\ req[o].detail = req[r].detail
    BY <2>3 DEF Fingerprint
  <2>5. response'[r] = response[o]
    BY <1>4, <2>1
  <2>6. outcome[r] = "none"
    BY <1>1 DEF IInv, Answered
  <2> QED
    BY <1>1, <1>4, <2>1, <2>4, <2>5, <2>6, KeysStay
<1> QED
  BY <1>6, <1>7, <1>8, <1>9, <1>10, <1>11, <1>12, <1>13 DEF IInv
(* Nobody has inserted the same row: UNIQUE made the request wait for them. *)
LEMMA InsertBatchInv ==
    ASSUME IInv, NEW r \in Requests, InsertBatch(r)
    PROVE  IInv'
<1>1. /\ pc[r] = "open" /\ pc' = [pc EXCEPT ![r] = "appending"]
      /\ req[r].stage = "CREATED" /\ ~MustWait(r) /\ state[req[r].batch] = "none"
      /\ UNCHANGED <<state, stageRows, trail, idemRow, burned, keyHolder, rowHolder, chainHolder,
                     req, seen, drawn, outcome, response, crashes>>
  BY DEF InsertBatch, tables, locks, answers
<1>2. pc'[r] = "appending" /\ \A o \in Requests : o # r => pc'[o] = pc[o]
  BY <1>1 DEF IInv, RequestValues
<1>3. r \in Open /\ Open' = Open /\ r \notin Inserted /\ Inserted' = Inserted \cup {r}
  BY <1>1, <1>2 DEF Open, Inserted
<1>4. Values' /\ ChainHeld' /\ RequestValues' /\ VarsOK'
  BY <1>1, <1>2 DEF IInv, Values, ChainHeld, RequestValues, VarsOK
<1>5. KeysHeld' /\ RowsHeld'
  BY <1>1, <1>2, <1>3 DEF IInv, KeysHeld, RowsHeld
<1>6. Drawn'
  <2>1. "CREATED" \in States
    BY Stages DEF States
  <2>2. 0 < Len(AuditRows[req[r].stage])
    BY <1>1, <2>1, LengthOfRows, Zenon
  <2>3. drawn[r] = <<>>
    BY <1>1 DEF IInv, Drawn
  <2> QED
    BY <1>1, <1>2, <2>2, <2>3 DEF IInv, Drawn
<1>7. SeenHolds' /\ Answered'
  BY <1>1, <1>2, <1>3 DEF IInv, SeenHolds, Answered
<1>8. InsertHolds'
  BY <1>1, <1>3 DEF IInv, InsertHolds, SameRow, MustWait
<1>9. KeyIsFree'
  BY <1>1, <1>3 DEF IInv, KeyIsFree
<1>10. TrailTellsLifecycle'
  BY <1>1, StoryStays DEF IInv, TrailTellsLifecycle, RefusalsBurnNothing
<1>11. OneWritePerKey'
  BY <1>1, KeysStay DEF IInv, Answered
<1> QED
  BY <1>4, <1>5, <1>6, <1>7, <1>8, <1>9, <1>10, <1>11 DEF IInv

LEMMA LockBatchInv ==
    ASSUME IInv, NEW r \in Requests, LockBatch(r)
    PROVE  IInv'
<1> DEFINE b == req[r].batch
<1>1. /\ pc[r] = "open" /\ pc' = [pc EXCEPT ![r] = "locked"]
      /\ req[r].stage # "CREATED" /\ state[b] # "none" /\ rowHolder[b] = NoRequest
      /\ rowHolder' = [rowHolder EXCEPT ![b] = r] /\ seen' = [seen EXCEPT ![r] = state[b]]
      /\ UNCHANGED <<state, stageRows, trail, idemRow, burned, keyHolder, chainHolder,
                     req, drawn, outcome, response, crashes>>
  BY DEF LockBatch, tables, answers
<1>2. b \in Batches /\ req[r] \in Request
  BY <1>1 DEF IInv, RequestValues, Request
<1>3. /\ pc'[r] = "locked" /\ seen'[r] = state[b]
      /\ \A o \in Requests : o # r => pc'[o] = pc[o] /\ seen'[o] = seen[o]
      /\ rowHolder'[b] = r /\ \A c \in Batches : c # b => rowHolder'[c] = rowHolder[c]
  BY <1>1, <1>2 DEF IInv, RequestValues, VarsOK
<1>4. r \in Open /\ Open' = Open /\ r \notin Inserted /\ Inserted' = Inserted
  BY <1>1, <1>3 DEF Open, Inserted
<1>5. Values' /\ ChainHeld' /\ VarsOK'
  BY <1>1, <1>3 DEF IInv, Values, ChainHeld, VarsOK
<1>6. RequestValues'
  BY <1>1, <1>2, <1>3 DEF IInv, Values, RequestValues
<1>7. KeysHeld'
  BY <1>1, <1>3, <1>4 DEF IInv, KeysHeld
<1>8. RowsHeld'
  <2> SUFFICES ASSUME NEW c \in Batches, NEW o \in Requests
               PROVE  rowHolder'[c] = o <=> /\ o \in Open' /\ pc'[o] # "open"
                                            /\ req[o].batch = c /\ req[o].stage # "CREATED"
    BY <1>1 DEF RowsHeld
  <2>1. rowHolder[c] = o <=> /\ o \in Open /\ pc[o] # "open"
                             /\ req[o].batch = c /\ req[o].stage # "CREATED"
    BY DEF IInv, RowsHeld
  <2> QED
    BY <1>1, <1>3, <1>4, <2>1, NoRequestAssumption
<1>9. Drawn'
  BY <1>1, <1>3 DEF IInv, Drawn
<1>10. SeenHolds' /\ Answered'
  BY <1>1, <1>3, <1>4 DEF IInv, SeenHolds, Answered
<1>11. InsertHolds' /\ KeyIsFree'
  BY <1>1, <1>3, <1>4, OpenRequest DEF IInv, InsertHolds, KeyIsFree, SameRow
<1>12. TrailTellsLifecycle'
  BY <1>1, StoryStays DEF IInv, TrailTellsLifecycle, RefusalsBurnNothing
<1>13. OneWritePerKey'
  BY <1>1, KeysStay DEF IInv, Answered
<1> QED
  BY <1>5, <1>6, <1>7, <1>8, <1>9, <1>10, <1>11, <1>12, <1>13 DEF IInv

LEMMA InsertStageInv ==
    ASSUME IInv, NEW r \in Requests, InsertStage(r)
    PROVE  IInv'
<1>1. /\ pc[r] = "locked" /\ pc' = [pc EXCEPT ![r] = "appending"]
      /\ ~MustWait(r) /\ Allowed(seen[r], req[r].stage)
      /\ UNCHANGED <<state, stageRows, trail, idemRow, burned, keyHolder, rowHolder, chainHolder,
                     req, seen, drawn, outcome, response, crashes>>
  BY DEF InsertStage, tables, locks, answers
<1>2. pc'[r] = "appending" /\ \A o \in Requests : o # r => pc'[o] = pc[o]
  BY <1>1 DEF IInv, RequestValues
<1>3. r \in Open /\ Open' = Open /\ r \notin Inserted /\ Inserted' = Inserted \cup {r}
  BY <1>1, <1>2 DEF Open, Inserted
<1>4. req[r].stage # "CREATED" /\ seen[r] = state[req[r].batch]
  BY <1>1, <1>3 DEF IInv, SeenHolds
<1>5. Values' /\ ChainHeld' /\ RequestValues' /\ VarsOK'
  BY <1>1, <1>2 DEF IInv, Values, ChainHeld, RequestValues, VarsOK
<1>6. KeysHeld' /\ RowsHeld'
  BY <1>1, <1>2, <1>3 DEF IInv, KeysHeld, RowsHeld
<1>7. Drawn'
  <2>1. 0 < Len(AuditRows[req[r].stage])
    <3>1. req[r].stage \in States
      BY <1>1, LegalMove
    <3> QED
      BY <3>1, LengthOfRows, Zenon
  <2>2. drawn[r] = <<>>
    BY <1>1 DEF IInv, Drawn
  <2> QED
    BY <1>1, <1>2, <2>1, <2>2 DEF IInv, Drawn
<1>8. SeenHolds' /\ Answered'
  BY <1>1, <1>2, <1>3 DEF IInv, SeenHolds, Answered
<1>9. InsertHolds'
  BY <1>1, <1>3, <1>4 DEF IInv, InsertHolds, SameRow, MustWait
<1>10. KeyIsFree'
  BY <1>1, <1>3 DEF IInv, KeyIsFree
<1>11. TrailTellsLifecycle'
  BY <1>1, StoryStays DEF IInv, TrailTellsLifecycle, RefusalsBurnNothing
<1>12. OneWritePerKey'
  BY <1>1, KeysStay DEF IInv, Answered
<1> QED
  BY <1>5, <1>6, <1>7, <1>8, <1>9, <1>10, <1>11, <1>12 DEF IInv

(* One more of the rows of the stage, the last one or not.                 *)
LEMMA AppendRowInv ==
    ASSUME IInv, NEW r \in Requests, AppendRow(r)
    PROVE  IInv'
<1> DEFINE rows == AuditRows[req[r].stage]
           n == Len(drawn[r]) + 1
           next == IF Len(drawn'[r]) = Len(rows) THEN "finishing" ELSE pc[r]
<1>1. /\ pc[r] = "appending" /\ pc' = [pc EXCEPT ![r] = next]
      /\ chainHolder \in {NoRequest, r} /\ chainHolder' = r
      /\ drawn' = [drawn EXCEPT ![r] = Append(drawn[r], rows[n])]
      /\ UNCHANGED <<state, stageRows, trail, idemRow, burned, keyHolder, rowHolder,
                     req, seen, outcome, response, crashes>>
  BY DEF AppendRow, tables, answers
<1>2. /\ pc'[r] = next /\ drawn'[r] = Append(drawn[r], rows[n])
      /\ \A o \in Requests : o # r => pc'[o] = pc[o] /\ drawn'[o] = drawn[o]
  BY <1>1 DEF IInv, RequestValues, VarsOK
<1>3. next \in {"appending", "finishing"}
  BY <1>1
<1>4. r \in Open /\ Open' = Open /\ r \in Inserted /\ Inserted' = Inserted
  BY <1>1, <1>2, <1>3 DEF Open, Inserted
<1>5. req[r].stage \in States
  BY <1>1, StagesAssumption DEF IInv, RequestValues, Request
<1>6. /\ rows \in Seq(AuditRow) /\ drawn[r] \in Seq(AuditRow)
      /\ Len(drawn[r]) < Len(rows) /\ \A i \in 1..Len(drawn[r]) : drawn[r][i] = rows[i]
  <2>1. rows \in Seq(AuditRow)
    BY <1>5, RowsOfStage
  <2>2. Len(drawn[r]) < Len(rows) /\ \A i \in 1..Len(drawn[r]) : drawn[r][i] = rows[i]
    BY <1>1 DEF IInv, Drawn
  <2> QED
    BY <2>1, <2>2 DEF IInv, VarsOK
<1>7. /\ drawn'[r] \in Seq(AuditRow) /\ Len(drawn'[r]) = n /\ n <= Len(rows)
      /\ drawn'[r] # <<>> /\ \A i \in 1..n : drawn'[r][i] = rows[i]
  <2> HIDE DEF rows
  <2>1. n \in 1..Len(rows) /\ rows[n] \in AuditRow
    BY <1>6
  <2> QED
    BY <1>2, <1>6, <2>1
<1>8. Drawn'
  <2> SUFFICES ASSUME NEW o \in Requests
               PROVE  CASE pc'[o] = "appending" ->
                             /\ Len(drawn'[o]) < Len(AuditRows[req'[o].stage])
                             /\ \A i \in 1..Len(drawn'[o]) : drawn'[o][i] = AuditRows[req'[o].stage][i]
                        [] pc'[o] \in {"finishing", "committing"} ->
                             drawn'[o] = AuditRows[req'[o].stage]
                        [] OTHER -> drawn'[o] = <<>>
    BY DEF Drawn
  <2>1. CASE o # r
    BY <1>1, <1>2, <2>1 DEF IInv, Drawn
  <2>2. CASE o = r
    <3> HIDE DEF rows
    <3>1. CASE n = Len(rows)
      <4>1. next = "finishing"
        BY <1>7, <3>1
      <4>2. drawn'[r] = rows
        BY <1>6, <1>7, <3>1
      <4> QED
        BY <1>1, <1>2, <2>2, <4>1, <4>2 DEF rows
    <3>2. CASE n # Len(rows)
      <4>1. next = "appending" /\ n < Len(rows)
        BY <1>1, <1>6, <1>7, <3>2
      <4> QED
        BY <1>1, <1>2, <1>7, <2>2, <4>1 DEF rows
    <3> QED
      BY <3>1, <3>2
  <2> QED
    BY <2>1, <2>2
<1> HIDE DEF rows, n, next
<1>9. Values' /\ RequestValues'
  BY <1>1, <1>2, <1>3 DEF IInv, Values, RequestValues
<1>10. VarsOK'
  BY <1>1, <1>7 DEF IInv, VarsOK
<1>11. ChainHeld'
  BY <1>1, <1>2, <1>7, NoRequestAssumption DEF IInv, ChainHeld
<1>12. KeysHeld' /\ RowsHeld'
  BY <1>1, <1>2, <1>3, <1>4 DEF IInv, KeysHeld, RowsHeld
<1>13. SeenHolds' /\ Answered'
  BY <1>1, <1>2, <1>3, <1>4 DEF IInv, SeenHolds, Answered
<1>14. InsertHolds' /\ KeyIsFree'
  BY <1>1, <1>4 DEF IInv, InsertHolds, KeyIsFree, SameRow
<1>15. TrailTellsLifecycle'
  BY <1>1, StoryStays DEF IInv, TrailTellsLifecycle, RefusalsBurnNothing
<1>16. OneWritePerKey'
  BY <1>1, KeysStay DEF IInv, Answered
<1> QED
  BY <1>8, <1>9, <1>10, <1>11, <1>12, <1>13, <1>14, <1>15, <1>16 DEF IInv

LEMMA FinishInv ==
    ASSUME IInv, NEW r \in Requests, Finish(r)
    PROVE  IInv'
<1>1. /\ pc[r] = "finishing" /\ pc' = [pc EXCEPT ![r] = "committing"]
      /\ response' = [response EXCEPT ![r] = ResponseTo(req[r])]
      /\ UNCHANGED <<state, stageRows, trail, idemRow, burned, keyHolder, rowHolder, chainHolder,
                     req, seen, drawn, outcome, crashes>>
  BY DEF Finish, tables, locks
<1>2. /\ pc'[r] = "committing" /\ response'[r] = ResponseTo(req[r])
      /\ \A o \in Requests : o # r => pc'[o] = pc[o] /\ response'[o] = response[o]
  BY <1>1 DEF IInv, RequestValues
<1>3. r \in Open /\ Open' = Open /\ r \in Inserted /\ Inserted' = Inserted
  BY <1>1, <1>2 DEF Open, Inserted
<1>4. ResponseTo(req[r]) \in Response
  BY <1>1, StagesAssumption DEF IInv, RequestValues, Request, Response, ResponseTo
<1>5. Values' /\ ChainHeld' /\ RequestValues' /\ VarsOK'
  BY <1>1, <1>2, <1>4 DEF IInv, Values, ChainHeld, RequestValues, VarsOK
<1>6. KeysHeld' /\ RowsHeld'
  BY <1>1, <1>2, <1>3 DEF IInv, KeysHeld, RowsHeld
<1>7. Drawn'
  BY <1>1, <1>2 DEF IInv, Drawn
<1>8. SeenHolds' /\ Answered'
  BY <1>1, <1>2, <1>3 DEF IInv, SeenHolds, Answered
<1>9. InsertHolds' /\ KeyIsFree'
  BY <1>1, <1>3 DEF IInv, InsertHolds, KeyIsFree, SameRow
<1>10. TrailTellsLifecycle'
  BY <1>1, StoryStays DEF IInv, TrailTellsLifecycle, RefusalsBurnNothing
<1>11. OneWritePerKey'
  BY <1>1, <1>2, KeysStay DEF IInv, Answered
<1> QED
  BY <1>5, <1>6, <1>7, <1>8, <1>9, <1>10, <1>11 DEF IInv
-----------------------------------------------------------------------------
(* The steps that end a transaction.                                       *)

LEMMA ReleaseFrees ==
    ASSUME IInv, NEW r \in Requests, Release(r), UNCHANGED req,
           pc' = [pc EXCEPT ![r] = "done"], drawn' = [drawn EXCEPT ![r] = <<>>]
    PROVE  /\ keyHolder' \in [Keys -> Requests \cup {NoRequest}]
           /\ rowHolder' \in [Batches -> Requests \cup {NoRequest}]
           /\ chainHolder' \in Requests \cup {NoRequest}
           /\ KeysHeld' /\ RowsHeld' /\ ChainHeld'
           /\ pc'[r] = "done" /\ \A o \in Requests : o # r => pc'[o] = pc[o]
           /\ Open' = Open \ {r} /\ Inserted' = Inserted \ {r}
           /\ Drawn' /\ drawn' \in [Requests -> Seq(AuditRow)]
<1>1. pc'[r] = "done" /\ \A o \in Requests : o # r => pc'[o] = pc[o]
  BY DEF IInv, RequestValues
<1>2. drawn'[r] = <<>> /\ \A o \in Requests : o # r => drawn'[o] = drawn[o]
  BY DEF IInv, VarsOK
<1>3. Open' = Open \ {r} /\ Inserted' = Inserted \ {r}
  BY <1>1 DEF Open, Inserted
<1>4. /\ keyHolder' \in [Keys -> Requests \cup {NoRequest}]
      /\ rowHolder' \in [Batches -> Requests \cup {NoRequest}]
      /\ chainHolder' \in Requests \cup {NoRequest}
      /\ drawn' \in [Requests -> Seq(AuditRow)]
  BY DEF Release, IInv, VarsOK
<1>5. KeysHeld'
  <2> SUFFICES ASSUME NEW k \in Keys, NEW o \in Requests
               PROVE  keyHolder'[k] = o <=> o \in Open' /\ req[o].key = k
    BY DEF KeysHeld
  <2>1. keyHolder[k] = o <=> o \in Open /\ req[o].key = k
    BY DEF IInv, KeysHeld
  <2>2. keyHolder'[k] = IF keyHolder[k] = r THEN NoRequest ELSE keyHolder[k]
    BY DEF Release
  <2> QED
    BY <1>3, <2>1, <2>2, NoRequestAssumption
<1>6. RowsHeld'
  <2> SUFFICES ASSUME NEW b \in Batches, NEW o \in Requests
               PROVE  rowHolder'[b] = o <=> /\ o \in Open' /\ pc'[o] # "open"
                                            /\ req[o].batch = b /\ req[o].stage # "CREATED"
    BY DEF RowsHeld
  <2>1. rowHolder[b] = o <=> /\ o \in Open /\ pc[o] # "open"
                             /\ req[o].batch = b /\ req[o].stage # "CREATED"
    BY DEF IInv, RowsHeld
  <2>2. rowHolder'[b] = IF rowHolder[b] = r THEN NoRequest ELSE rowHolder[b]
    BY DEF Release
  <2> QED
    BY <1>1, <1>3, <2>1, <2>2, NoRequestAssumption
<1>7. ChainHeld'
  BY <1>2, NoRequestAssumption DEF Release, IInv, ChainHeld
<1>8. Drawn'
  BY <1>1, <1>2 DEF IInv, Drawn
<1> QED
  BY <1>1, <1>3, <1>4, <1>5, <1>6, <1>7, <1>8

LEMMA RollBackInv ==
    ASSUME IInv, NEW r \in Requests, pc[r] = "begin" \/ r \in Open,
           NEW code \in Refusals \cup {"crashed"}, RollBack(r, code),
           crashes' \in 0..MaxCrashes, burned' <= 3 * crashes'
    PROVE  IInv'
<1>1. /\ Release(r) /\ burned' = burned + Len(drawn[r])
      /\ pc' = [pc EXCEPT ![r] = "done"] /\ drawn' = [drawn EXCEPT ![r] = <<>>]
      /\ outcome' = [outcome EXCEPT ![r] = code] /\ response' = [response EXCEPT ![r] = Nothing]
      /\ UNCHANGED <<state, stageRows, trail, idemRow, req, seen>>
  BY DEF RollBack, tables
<1>2. /\ keyHolder' \in [Keys -> Requests \cup {NoRequest}]
      /\ rowHolder' \in [Batches -> Requests \cup {NoRequest}]
      /\ chainHolder' \in Requests \cup {NoRequest}
      /\ KeysHeld' /\ RowsHeld' /\ ChainHeld'
      /\ pc'[r] = "done" /\ \A o \in Requests : o # r => pc'[o] = pc[o]
      /\ Open' = Open \ {r} /\ Inserted' = Inserted \ {r}
      /\ Drawn' /\ drawn' \in [Requests -> Seq(AuditRow)]
  BY <1>1, ReleaseFrees
<1>3. /\ outcome'[r] = code /\ response'[r] = Nothing
      /\ \A o \in Requests : o # r => outcome'[o] = outcome[o] /\ response'[o] = response[o]
  BY <1>1 DEF IInv, VarsOK, RequestValues
<1>4. outcome[r] = "none" /\ pc[r] # "unsent" /\ code # "none" /\ code # "created" /\ code # "replayed"
  BY OpenRequest DEF IInv, Answered, Refusals
<1>5. Values'
  <2>1. burned' \in Nat
    BY <1>1 DEF IInv, Values, VarsOK
  <2> QED
    BY <1>1, <2>1 DEF IInv, Values
<1>6. RequestValues'
  BY <1>1, <1>2, <1>4 DEF IInv, RequestValues
<1>7. VarsOK'
  BY <1>1, <1>2 DEF IInv, VarsOK, Outcomes
<1>8. SeenHolds'
  BY <1>1, <1>2 DEF IInv, SeenHolds
<1>9. InsertHolds' /\ KeyIsFree'
  BY <1>1, <1>2 DEF IInv, InsertHolds, KeyIsFree, SameRow
<1>10. Answered'
  BY <1>1, <1>2, <1>3, <1>4 DEF IInv, Answered
<1>11. TrailTellsLifecycle'
  BY <1>1, StoryStays
<1>12. OneWritePerKey'
  BY <1>1, <1>3, <1>4, KeysStay
<1> QED
  BY <1>2, <1>5, <1>6, <1>7, <1>8, <1>9, <1>10, <1>11, <1>12 DEF IInv

(* Whoever is refused has appended nothing.                                *)
LEMMA RefuseInv ==
    ASSUME IInv, NEW r \in Requests, pc[r] \in {"begin", "open", "locked"},
           NEW code \in Refusals, Refuse(r, code)
    PROVE  IInv'
<1>1. drawn[r] = <<>> /\ burned' = burned + Len(drawn[r]) /\ crashes' = crashes
  BY DEF Refuse, RollBack, IInv, Drawn
<1>2. burned \in Nat /\ Len(<<>>) = 0
  BY DEF IInv, Values
<1>3. burned' = burned
  BY <1>1, <1>2
<1>4. burned' <= 3 * crashes' /\ crashes' \in 0..MaxCrashes
  BY <1>1, <1>3 DEF IInv, Values, TrailTellsLifecycle, RefusalsBurnNothing
<1>5. pc[r] = "begin" \/ r \in Open
  BY OpenRequest
<1> QED
  BY <1>4, <1>5, RollBackInv DEF Refuse

LEMMA CrashInv ==
    ASSUME IInv, NEW r \in Requests, Crash(r)
    PROVE  IInv'
<1>1. /\ r \in Open \/ pc[r] = "begin"
      /\ crashes < MaxCrashes
      /\ crashes' = crashes + 1 /\ RollBack(r, "crashed")
      /\ burned' = burned + Len(drawn[r])
  BY DEF Crash, RollBack
<1>2. Len(drawn[r]) \in Nat /\ Len(drawn[r]) <= 3
  <2>1. drawn[r] \in Seq(AuditRow)
    BY DEF IInv, VarsOK
  <2>2. CASE pc[r] \in {"appending", "finishing", "committing"}
    <3>1. req[r].stage \in States
      BY <2>2, StagesAssumption DEF IInv, RequestValues, Request
    <3>2. Len(AuditRows[req[r].stage]) <= 3 /\ Len(AuditRows[req[r].stage]) \in Nat
      BY <3>1, LengthOfRows, RowsOfStage
    <3>3. Len(drawn[r]) <= Len(AuditRows[req[r].stage])
      BY <2>1, <2>2, <3>2 DEF IInv, Drawn
    <3> QED
      BY <2>1, <3>2, <3>3
  <2>3. CASE pc[r] \notin {"appending", "finishing", "committing"}
    BY <2>3 DEF IInv, Drawn
  <2> QED
    BY <2>2, <2>3
<1>3. crashes' \in 0..MaxCrashes /\ burned' <= 3 * crashes'
  BY <1>1, <1>2, CrashesAssumption DEF Crash, IInv, Values, TrailTellsLifecycle, RefusalsBurnNothing
<1> QED
  BY <1>1, <1>3, RollBackInv DEF Crash

(* A commit writes what the invariant says is right to write, and no other *)
(* request was counting on what it changes.                                *)
LEMMA CommitEffect ==
    ASSUME IInv, NEW r \in Requests, Commit(r)
    PROVE  LET q == req[r]
           IN  /\ q \in Request /\ q.stage \in States
               /\ r \in Inserted /\ drawn[r] = AuditRows[q.stage]
               /\ \/ q.stage = "CREATED" /\ state[q.batch] = "none"
                  \/ q.stage # "CREATED" /\ Allowed(state[q.batch], q.stage)
               /\ state' = [state EXCEPT ![q.batch] = q.stage]
               /\ trail' = [trail EXCEPT ![q.batch] = trail[q.batch] \o AuditRows[q.stage]]
<1>1. pc[r] = "committing" /\ r \in Inserted
  BY OpenRequest DEF Commit
<1>2. req[r] \in Request /\ req[r].stage \in States
  BY <1>1, StagesAssumption DEF IInv, RequestValues, Request
<1>3. drawn[r] = AuditRows[req[r].stage]
  BY <1>1 DEF IInv, Drawn
<1>4. \/ req[r].stage = "CREATED" /\ state[req[r].batch] = "none"
      \/ req[r].stage # "CREATED" /\ Allowed(state[req[r].batch], req[r].stage)
  BY <1>1 DEF IInv, InsertHolds
<1> QED
  BY <1>1, <1>2, <1>3, <1>4 DEF Commit

LEMMA CommitInv ==
    ASSUME IInv, NEW r \in Requests, Commit(r)
    PROVE  IInv'
<1> DEFINE q == req[r]
           b == req[r].batch
           k == req[r].key
           row == [fingerprint |-> Fingerprint(q), response |-> response[r]]
<1>1. /\ pc[r] = "committing" /\ pc' = [pc EXCEPT ![r] = "done"]
      /\ stageRows' = IF q.stage = "CREATED" THEN stageRows ELSE stageRows \cup {<<b, q.stage>>}
      /\ idemRow' = [idemRow EXCEPT ![k] = row]
      /\ Release(r) /\ drawn' = [drawn EXCEPT ![r] = <<>>]
      /\ outcome' = [outcome EXCEPT ![r] = "created"]
      /\ UNCHANGED <<burned, req, seen, response, crashes>>
  BY DEF Commit
<1>2. /\ q \in Request /\ q.stage \in States /\ r \in Inserted /\ r \in Open
      /\ \/ q.stage = "CREATED" /\ state[b] = "none"
         \/ q.stage # "CREATED" /\ Allowed(state[b], q.stage)
      /\ state' = [state EXCEPT ![b] = q.stage]
      /\ trail' = [trail EXCEPT ![b] = trail[b] \o AuditRows[q.stage]]
  BY CommitEffect, OpenRequest
<1>3. b \in Batches /\ k \in Keys
  BY <1>2 DEF Request
<1>4. /\ keyHolder' \in [Keys -> Requests \cup {NoRequest}]
      /\ rowHolder' \in [Batches -> Requests \cup {NoRequest}]
      /\ chainHolder' \in Requests \cup {NoRequest}
      /\ KeysHeld' /\ RowsHeld' /\ ChainHeld'
      /\ pc'[r] = "done" /\ \A o \in Requests : o # r => pc'[o] = pc[o]
      /\ Open' = Open \ {r} /\ Inserted' = Inserted \ {r}
      /\ Drawn' /\ drawn' \in [Requests -> Seq(AuditRow)]
  BY <1>1, ReleaseFrees
<1>5. /\ state'[b] = q.stage /\ \A c \in Batches : c # b => state'[c] = state[c] /\ trail'[c] = trail[c]
      /\ trail'[b] = trail[b] \o AuditRows[q.stage]
      /\ idemRow'[k] = row /\ \A j \in Keys : j # k => idemRow'[j] = idemRow[j]
      /\ outcome'[r] = "created" /\ \A o \in Requests : o # r => outcome'[o] = outcome[o]
  BY <1>1, <1>2, <1>3 DEF IInv, Values, VarsOK
<1>6. response[r] = ResponseTo(q) /\ response[r] \in Response
  <2>1. response[r] = ResponseTo(q)
    BY <1>1 DEF IInv, Answered
  <2> QED
    BY <1>2, <2>1 DEF ResponseTo, Response, Request
\* No other request holds this key, nor the row of this batch.
<1>7. ASSUME NEW o \in Open, o # r PROVE req[o].key # k /\ req[o] \in Request /\ o \in Requests
  <2>1. o \in Requests /\ req[o] \in Request
    BY <1>7, OpenRequest DEF IInv, RequestValues
  <2>2. keyHolder[k] = r
    BY <1>2, <1>3 DEF IInv, KeysHeld
  <2>3. req[o].key = k => keyHolder[k] = o
    BY <1>3, <1>7, <2>1 DEF IInv, KeysHeld
  <2> QED
    BY <1>7, <2>1, <2>2, <2>3
<1>8. ASSUME NEW o \in Open, o # r, pc[o] # "open", o \in Inserted \/ req[o].stage # "CREATED"
      PROVE  req[o].batch # b /\ req[o].batch \in Batches
  <2>1. req[o].batch \in Batches /\ o \in Requests
    BY <1>7, <1>8 DEF Request
  <2>2. CASE req[o].stage = "CREATED"
    <3>1. o \in Inserted /\ state[req[o].batch] = "none" /\ ~SameRow(req[r], req[o])
      BY <1>2, <1>8, <2>2 DEF IInv, InsertHolds
    <3>2. q.stage # "CREATED" /\ req[o].batch = b => state[b] # "none"
      BY <1>2, LegalMove
    <3> QED
      BY <2>1, <2>2, <3>1, <3>2 DEF SameRow
  <2>3. CASE req[o].stage # "CREATED"
    <3>1. seen[o] = state[req[o].batch] /\ seen[o] # "none"
      BY <1>8, <2>1, <2>3 DEF IInv, SeenHolds
    <3>2. rowHolder[req[o].batch] = o
      BY <1>8, <2>1, <2>3 DEF IInv, RowsHeld
    <3>3. q.stage # "CREATED" => rowHolder[b] = r
      BY <1>1, <1>2, <1>3 DEF IInv, RowsHeld
    <3> QED
      BY <1>2, <1>8, <2>1, <3>1, <3>2, <3>3
  <2> QED
    BY <2>2, <2>3
<1> HIDE DEF row
<1>9. row # NoRow /\ row \in [fingerprint : {Fingerprint(x) : x \in Request} \cup {Nothing},
                               response : Response \cup {Nothing}]
  <2>1. row.fingerprint # NoRow.fingerprint
    BY <1>2, NothingElse DEF row, NoRow
  <2> QED
    BY <1>2, <1>6, <2>1 DEF row
<1>10. Values'
  <2>1. state' \in [Batches -> States \cup {"none"}]
    BY <1>2 DEF IInv, Values
  <2>2. stageRows' \subseteq Batches \X States
    BY <1>1, <1>2, <1>3 DEF IInv, Values
  <2> QED
    BY <1>1, <1>9, <2>1, <2>2 DEF IInv, Values
<1>11. RequestValues'
  BY <1>1, <1>4 DEF IInv, RequestValues
<1>12. VarsOK'
  <2>1. trail[b] \o AuditRows[q.stage] \in Seq(AuditRow)
    BY <1>2, <1>3, RowsOfStage DEF IInv, VarsOK
  <2>2. trail' \in [Batches -> Seq(AuditRow)]
    BY <1>2, <2>1 DEF IInv, VarsOK
  <2> QED
    BY <1>1, <1>4, <2>2 DEF IInv, VarsOK, Outcomes
<1>13. SeenHolds'
  <2> SUFFICES ASSUME NEW o \in Requests
               PROVE  /\ pc'[o] = "locked" => req[o].stage # "CREATED"
                      /\ o \in Open' /\ pc'[o] # "open" /\ req[o].stage # "CREATED" =>
                           seen[o] = state'[req[o].batch] /\ seen[o] # "none"
    BY <1>1 DEF SeenHolds
  <2>1. CASE o = r
    BY <1>4, <2>1
  <2>2. CASE o # r
    BY <1>4, <1>5, <1>8, <2>2 DEF IInv, SeenHolds
  <2> QED
    BY <2>1, <2>2
<1>14. InsertHolds'
  <2>1. ASSUME NEW o \in Inserted' PROVE state'[req[o].batch] = state[req[o].batch]
    <3>1. o \in Open /\ o # r /\ o \in Inserted /\ pc[o] # "open"
      BY <1>4, <2>1, OpenRequest
    <3> QED
      BY <1>5, <1>8, <3>1
  <2> QED
    BY <1>1, <1>4, <2>1 DEF IInv, InsertHolds, SameRow
<1>15. KeyIsFree'
  <2> SUFFICES ASSUME NEW o \in Open' PROVE idemRow'[req[o].key] = NoRow
    BY <1>1 DEF KeyIsFree
  <2>1. o \in Open /\ o # r
    BY <1>4
  <2>2. req[o].key \in Keys /\ req[o].key # k
    BY <1>7, <2>1 DEF Request
  <2> QED
    BY <1>5, <2>1, <2>2 DEF IInv, KeyIsFree
<1>16. Answered'
  BY <1>1, <1>4, <1>5 DEF IInv, Answered
<1>17. TrailTellsLifecycle'
  <2>1. RefusalsBurnNothing'
    BY <1>1 DEF IInv, TrailTellsLifecycle, RefusalsBurnNothing
  <2>2. ASSUME NEW c \in Batches
        PROVE  /\ trail'[c] = RowsUpTo(state'[c])
               /\ {s \in States : <<c, s>> \in stageRows'} = StagesUpTo(state'[c])
    <3>1. /\ trail[c] = RowsUpTo(state[c])
          /\ {s \in States : <<c, s>> \in stageRows} = StagesUpTo(state[c])
      BY DEF IInv, TrailTellsLifecycle
    <3>2. CASE c # b
      BY <1>1, <1>5, <3>1, <3>2
    <3>3. CASE c = b /\ q.stage = "CREATED"
      <4>1. state[b] = "none" /\ state'[c] = "CREATED"
        BY <1>2, <1>5, <3>3
      <4>2. trail'[c] = trail[c] \o AuditRows["CREATED"]
        BY <1>5, <3>3
      <4>3. trail[c] = RowsUpTo("none") /\ {s \in States : <<c, s>> \in stageRows} = StagesUpTo("none")
        BY <3>1, <3>3, <4>1
      <4>4. stageRows' = stageRows
        BY <1>1, <3>3
      <4>5. trail'[c] = RowsUpTo(state'[c])
        BY <4>1, <4>2, <4>3, CreationAddsRows
      <4>6. {s \in States : <<c, s>> \in stageRows'} = StagesUpTo(state'[c])
        BY <4>1, <4>3, <4>4, CreationAddsRows
      <4> QED
        BY <4>5, <4>6
    <3>4. CASE c = b /\ q.stage # "CREATED"
      <4>1. /\ RowsUpTo(q.stage) = RowsUpTo(state[b]) \o AuditRows[q.stage]
            /\ StagesUpTo(q.stage) = StagesUpTo(state[b]) \cup {q.stage}
        BY <1>2, <3>4, MoveAddsRows
      <4>2. {s \in States : <<b, s>> \in stageRows'} = {s \in States : <<b, s>> \in stageRows} \cup {q.stage}
        BY <1>1, <1>2, <3>4
      <4> QED
        BY <1>5, <3>1, <3>4, <4>1, <4>2
    <3> QED
      BY <3>2, <3>3, <3>4
  <2> QED
    BY <2>1, <2>2 DEF TrailTellsLifecycle
<1>18. OneWritePerKey'
  <2>1. idemRow[k] = NoRow /\ DidTheWork(k) = {}
    BY <1>2, <1>3 DEF IInv, KeyIsFree, OneWritePerKey
  <2>2. /\ DidTheWork(k)' = {r}
        /\ \A j \in Keys : j # k => DidTheWork(j)' = DidTheWork(j)
        /\ \A j \in Keys : DidTheWork(j) \subseteq DidTheWork(j)'
    BY <1>1, <1>5, <2>1 DEF DidTheWork
  <2>3. ASSUME NEW j \in Keys
        PROVE  IF idemRow'[j] = NoRow THEN DidTheWork(j)' = {}
               ELSE \E o \in Requests :
                       /\ DidTheWork(j)' = {o}
                       /\ idemRow'[j] = [fingerprint |-> Fingerprint(req[o]), response |-> response[o]]
                       /\ response[o] = ResponseTo(req[o])
    <3>1. CASE j = k
      <4>1. idemRow'[j] = row /\ row # NoRow /\ DidTheWork(j)' = {r}
        BY <1>1, <1>5, <1>9, <2>2, <3>1 DEF DidTheWork
      <4>2. row = [fingerprint |-> Fingerprint(req[r]), response |-> response[r]]
        BY DEF row
      <4> QED
        BY <1>6, <4>1, <4>2
    <3>2. CASE j # k
      BY <1>5, <2>2, <3>2 DEF IInv, OneWritePerKey
    <3> QED
      BY <3>1, <3>2
  <2>4. ASSUME NEW s \in Requests, outcome'[s] = "replayed"
        PROVE  \E o \in DidTheWork(req[s].key)' :
                  /\ req[o].stage = req[s].stage /\ req[o].detail = req[s].detail
                  /\ response[o] = response[s]
    <3>1. s # r /\ outcome[s] = "replayed"
      BY <1>5, <2>4
    <3>2. pc[s] = "done"
      BY <3>1 DEF IInv, Answered
    <3>3. req[s].key \in Keys
      BY <3>2 DEF IInv, RequestValues, Request
    <3>4. PICK o \in DidTheWork(req[s].key) :
             /\ req[o].stage = req[s].stage /\ req[o].detail = req[s].detail
             /\ response[o] = response[s]
      BY <3>1 DEF IInv, OneWritePerKey
    <3>5. o \in Requests /\ outcome'[o] = "created" /\ req[o].key = req[s].key
      BY <1>5, <3>4 DEF DidTheWork
    <3> QED
      BY <1>1, <3>4, <3>5 DEF DidTheWork
  <2> QED
    BY <1>1, <2>3, <2>4 DEF OneWritePerKey
<1> QED
  BY <1>4, <1>10, <1>11, <1>12, <1>13, <1>14, <1>15, <1>16, <1>17, <1>18 DEF IInv
LEMMA IInvStep == IInv /\ [Next]_vars => IInv'
<1> SUFFICES ASSUME IInv, [Next]_vars PROVE IInv'
  OBVIOUS
<1>1. CASE UNCHANGED vars
  <2>1. UNCHANGED <<state, stageRows, trail, idemRow, burned, keyHolder, rowHolder, chainHolder,
                    pc, req, seen, drawn, outcome, response, crashes>>
    BY <1>1 DEF vars, tables, locks, answers
  <2>2. Open' = Open /\ Inserted' = Inserted
    BY <2>1 DEF Open, Inserted
  <2>3. Values' /\ RequestValues' /\ KeysHeld' /\ RowsHeld' /\ ChainHeld' /\ VarsOK'
    BY <2>1, <2>2 DEF IInv, Values, RequestValues, KeysHeld, RowsHeld, ChainHeld, VarsOK
  <2>4. Drawn'
    BY <2>1 DEF IInv, Drawn
  <2>5. SeenHolds' /\ InsertHolds' /\ KeyIsFree' /\ Answered'
    BY <2>1, <2>2 DEF IInv, SeenHolds, InsertHolds, KeyIsFree, Answered, SameRow
  <2>6. TrailTellsLifecycle'
    BY <2>1 DEF IInv, TrailTellsLifecycle, RefusalsBurnNothing
  <2>7. OneWritePerKey'
    <3>1. \A k : DidTheWork(k)' = DidTheWork(k)
      BY <2>1 DEF DidTheWork
    <3> QED
      BY <2>1, <3>1 DEF IInv, OneWritePerKey, DidTheWork
  <2> QED
    BY <2>3, <2>4, <2>5, <2>6, <2>7 DEF IInv
<1>2. ASSUME NEW r \in Requests, Handle(r) PROVE IInv'
  <2>1. CASE Reserve(r)
    BY <2>1, ReserveInv
  <2>2. CASE Replay(r)
    BY <2>2, ReplayInv
  <2>3. CASE KeyConflict(r)
    BY <2>3, RefuseInv DEF KeyConflict, Refusals
  <2>4. CASE NotTheirs(r)
    BY <2>4, RefuseInv DEF NotTheirs, Refusals
  <2>5. CASE InsertBatch(r)
    BY <2>5, InsertBatchInv
  <2>6. CASE BatchCodeTaken(r)
    BY <2>6, RefuseInv DEF BatchCodeTaken, Refusals
  <2>7. CASE BatchNotFound(r)
    BY <2>7, RefuseInv DEF BatchNotFound, Refusals
  <2>8. CASE LockBatch(r)
    BY <2>8, LockBatchInv
  <2>9. CASE InsertStage(r)
    BY <2>9, InsertStageInv
  <2>10. CASE StageRefused(r)
    BY <2>10, RefuseInv DEF StageRefused, Refusals
  <2>11. CASE AppendRow(r)
    BY <2>11, AppendRowInv
  <2>12. CASE Finish(r)
    BY <2>12, FinishInv
  <2>13. CASE Commit(r)
    BY <2>13, CommitInv
  <2> QED
    BY <1>2, <2>1, <2>2, <2>3, <2>4, <2>5, <2>6, <2>7, <2>8, <2>9, <2>10, <2>11, <2>12, <2>13
       DEF Handle
<1> QED
  BY <1>1, <1>2, SendInv, CrashInv DEF Next

LEMMA Invariance == Safety => []IInv
<1> QED
  BY IInvInit, IInvStep, PTL DEF Safety

-----------------------------------------------------------------------------
(* The theorems.                                                           *)

(* The variables have their types, and a lock is held exactly by the open  *)
(* transactions that have taken it: none is leaked by a refusal, a crash   *)
(* or a commit.                                                            *)
THEOREM TypeCorrect == Safety => []TypeOK
<1>1. IInv => TypeOK
  <2> SUFFICES ASSUME IInv PROVE TypeOK
    OBVIOUS
  <2>1. \A b \in Batches :
           trail[b] \in Seq(UNION {{AuditRows[s][i] : i \in DOMAIN AuditRows[s]} : s \in States})
    BY DEF IInv, VarsOK, AuditRow
  <2> QED
    BY <2>1 DEF IInv, TypeOK, Values, RequestValues, KeysHeld, RowsHeld, ChainHeld
<1> QED
  BY <1>1, Invariance, PTL

(* The three tables that tell a batch's story agree, whatever races,       *)
(* crashes or is refused, and only a crash burns audit ids.                *)
THEOREM TrailIsTheLifecycle == Safety => []TrailTellsLifecycle
<1>1. IInv => TrailTellsLifecycle
  BY DEF IInv
<1> QED
  BY <1>1, Invariance, PTL

(* A key does its work at most once and answers for it ever after.         *)
THEOREM KeysWriteOnce == Safety => []OneWritePerKey
<1>1. IInv => OneWritePerKey
  BY DEF IInv
<1> QED
  BY <1>1, Invariance, PTL

(* A commit is the one step the lifecycle sees, and it is a move of it.    *)
LEMMA LifecycleStep ==
    ASSUME IInv, [Next]_vars
    PROVE  [Abstract!Next]_<<state, trail>>
<1> DEFINE follows == [s \in States \cup {"none"} |->
                         CASE s = "none" -> {"CREATED"}
                           [] s = "DISTRIBUTED" -> {}
                           [] OTHER -> {LEGAL[s]}]
<1>1. ASSUME NEW r \in Requests, Commit(r)
      PROVE  [Abstract!Next]_<<state, trail>>
  <2> DEFINE b == req[r].batch
             s == req[r].stage
  <2>1. /\ req[r] \in Request /\ s \in States
        /\ \/ s = "CREATED" /\ state[b] = "none"
           \/ s # "CREATED" /\ Allowed(state[b], s)
        /\ state' = [state EXCEPT ![b] = s]
        /\ trail' = [trail EXCEPT ![b] = trail[b] \o AuditRows[s]]
    BY <1>1, CommitEffect
  <2>2. b \in Batches
    BY <2>1 DEF Request
  <2>3. s \in follows[state[b]]
    <3>1. CASE state[b] = "none" /\ s = "CREATED"
      BY <3>1
    <3>2. CASE Allowed(state[b], s)
      <4>1. /\ state[b] \in States /\ state[b] # "none" /\ state[b] # "DISTRIBUTED"
            /\ s = LEGAL[state[b]]
        BY <3>2, LegalMove
      <4>2. follows[state[b]] = {LEGAL[state[b]]}
        BY <4>1
      <4> QED
        BY <4>1, <4>2
    <3> QED
      BY <2>1, <3>1, <3>2
  <2> QED
    BY <2>1, <2>2, <2>3 DEF Abstract!Next, Abstract!Move
<1>2. ASSUME UNCHANGED <<state, trail>>
      PROVE  [Abstract!Next]_<<state, trail>>
  BY <1>2
<1>3. ASSUME NEW r \in Requests, Handle(r), ~Commit(r)
      PROVE  UNCHANGED <<state, trail>>
  BY <1>3 DEF Handle, Reserve, Replay, KeyConflict, NotTheirs, InsertBatch, BatchCodeTaken,
              BatchNotFound, LockBatch, InsertStage, StageRefused, AppendRow, Finish, Refuse,
              RollBack, tables
<1>4. ASSUME NEW r \in Requests, Send(r) \/ Crash(r)
      PROVE  UNCHANGED <<state, trail>>
  BY <1>4 DEF Send, Crash, RollBack, tables
<1>5. CASE UNCHANGED vars
  BY <1>2, <1>5 DEF vars, tables
<1> QED
  BY <1>1, <1>2, <1>3, <1>4, <1>5 DEF Next

(* The handlers implement the lifecycle: a batch moves one stage at a      *)
(* time, each with its rows, and nothing else ever shows.                  *)
THEOREM WriterImplementsLifecycle == Safety => FollowsLifecycle
<1>1. Init => Abstract!Init
  <2> SUFFICES ASSUME Init PROVE Abstract!Init
    OBVIOUS
  <2>1. state = Begun /\ \A b \in Batches : state[b] \in States \cup {"none"}
    BY StagesAssumption DEF Init
  <2>2. trail = [b \in Batches |-> RowsUpTo(state[b])]
    BY DEF Init
  <2> QED
    BY <2>1, <2>2 DEF Abstract!Init
<1>2. IInv /\ [Next]_vars => [Abstract!Next]_<<state, trail>>
  BY LifecycleStep
<1> QED
  BY <1>1, <1>2, Invariance, PTL DEF Safety, FollowsLifecycle, Abstract!Spec
=============================================================================
