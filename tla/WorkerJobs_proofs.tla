--------------------------- MODULE WorkerJobs_proofs ---------------------------
(***************************************************************************)
(* Proofs about WorkerJobs, for any processes, jobs, anchors and limits.   *)
(***************************************************************************)
EXTENDS WorkerJobs, FiniteSetTheorems, TLAPS

-----------------------------------------------------------------------------
(* The parts of TypeOK.                                                    *)

Phases == {"idle", "start", "start write", "run", "stamping", "upgrading",
           "finish", "finish write", "alert"}

StatusValues ==
    /\ row \in [Jobs -> RowType \cup {Absent}]
    /\ read \in [Runs -> RowType \cup {Absent}]
    /\ outcome \in [Runs -> Outcomes]
    /\ owed \in [Jobs -> Int]

JobValues ==
    /\ at \in [Runs -> Phases]
    /\ todo \in [Runs -> SUBSET Anchors]
    /\ claimed \in [Runs -> Anchors \cup {NoAnchor}]
    /\ confirmed \in [Anchors -> Nat]
    /\ chainBroken \in BOOLEAN
    /\ faults \in 0..MaxFaults

ReadsHold == \A p \in Runs : Writing(p) /\ read[p] # Absent => read[p] = row[Job(p)]

ClaimsDiffer == \A p, q \in Runs : p # q => claimed[p] = NoAnchor \/ claimed[p] # claimed[q]

-----------------------------------------------------------------------------
(* The inductive invariant.  That a write turns a job red is decided by    *)
(* the row as the write read it, long before the commit: the invariant     *)
(* says why that row is still the one there is.                            *)

\* The row is read when its write begins, and forgotten when it ends.
ReadWhileWriting == \A p \in Runs : ~Writing(p) => read[p] = Absent

\* The row lock: one writer of a job has read a row, and all others none.
OneReader ==
    \A p, q \in Runs :
        p # q /\ Job(p) = Job(q) => read[p] = Absent \/ read[q] = Absent

\* The flag is what the row says.
FlagsRed == \A j \in Jobs : row[j] # Absent => row[j].alarmed = Red(j, row[j])

\* A claim is a lock on an anchor that no proof is committed for.
ClaimsPending == \A p \in Runs : claimed[p] # NoAnchor => confirmed[claimed[p]] = 0

IInv ==
    /\ StatusValues /\ JobValues
    /\ ReadsHold /\ ReadWhileWriting /\ OneReader
    /\ OneAlertPerTurn /\ FlagsRed
    /\ ClaimsDiffer /\ ClaimsPending /\ ConfirmedOnce

-----------------------------------------------------------------------------
(* Rows, outcomes and alerts.                                              *)

\* The workers that are about to tell of a job.
Alerting(j) == {w \in Workers : at[<<w, j>>] = "alert"}

(* A row is not the lack of one.                                           *)
LEMMA AbsentIsNoRow == Absent \notin RowType
<1>1. ASSUME Absent \in RowType PROVE FALSE
  <2>1. Absent.failures \in 0..FailureRuns
    BY <1>1 DEF RowType
  <2>2. DOMAIN Absent = {"absent"}
    BY DEF Absent
  <2>3. DOMAIN Absent = {"failures", "broken", "alarmed"}
    BY <1>1 DEF RowType
  <2> QED
    BY <2>2, <2>3
<1> QED
  BY <1>1

(* The smallest of the anchors that are left is one of them.               *)
LEMMA LeastAnchor ==
    ASSUME NEW S \in SUBSET Anchors, S # {}
    PROVE  Min(S) \in S
<1> DEFINE Below == {pair \in Nat \X Nat : pair[1] < pair[2]}
<1>1. S \subseteq Nat
  BY WorkerAssumption
<1>2. Below = OpToRel(<, Nat)
  BY DEF OpToRel
<1>3. IsWellFoundedOn(Below, Nat)
  BY <1>2, NatLessThanWellFounded
<1>4. PICK a \in S : \A b \in S : ~(<<b, a>> \in Below)
  <2> HIDE DEF Below
  <2> QED
    BY <1>1, <1>3, WFMin
<1>5. ASSUME NEW b \in S, b < a PROVE FALSE
  <2>1. <<b, a>> \in Nat \X Nat /\ <<b, a>>[1] < <<b, a>>[2]
    BY <1>1, <1>5
  <2> QED
    BY <2>1, <1>4
<1>6. \A b \in S : a =< b
  BY <1>1, <1>5
<1> QED
  BY <1>6 DEF Min

(* The failures that are counted are no more than those compared.          *)
LEMMA CountIsBounded ==
    ASSUME NEW n \in 0..FailureRuns
    PROVE  Min({FailureRuns, n + 1}) \in 0..FailureRuns
<1>1. FailureRuns \in Nat \ {0} /\ n + 1 \in Nat
  BY WorkerAssumption
<1>2. \E x \in {FailureRuns, n + 1} : \A y \in {FailureRuns, n + 1} : x =< y
  BY <1>1
<1>3. /\ Min({FailureRuns, n + 1}) \in {FailureRuns, n + 1}
      /\ \A y \in {FailureRuns, n + 1} : Min({FailureRuns, n + 1}) =< y
  BY <1>2 DEF Min
<1> QED
  BY <1>1, <1>3

(* What a run leaves in its row: a row, whose flag says whether it is red. *)
LEMMA FinishedRow ==
    ASSUME NEW j \in Jobs, NEW r \in RowType, NEW o \in Outcomes
    PROVE  /\ Finished(j, r, o) \in RowType
           /\ Finished(j, r, o).alarmed = Red(j, Finished(j, r, o))
<1> DEFINE failures == CASE o.ok = "yes" -> 0
                         [] o.ok = "no" -> Min({FailureRuns, r.failures + 1})
                         [] o.ok = "neutral" -> r.failures
           broken == IF o.detail = "none" THEN r.broken ELSE o.detail = "broken"
           next == [failures |-> failures, broken |-> broken, alarmed |-> FALSE]
<1>1. failures \in 0..FailureRuns
  <2>1. r.failures \in 0..FailureRuns /\ 0 \in 0..FailureRuns
    BY WorkerAssumption DEF RowType
  <2>2. o.ok \in {"yes", "no", "neutral"}
    BY DEF Outcomes
  <2>3. Min({FailureRuns, r.failures + 1}) \in 0..FailureRuns
    BY <2>1, CountIsBounded
  <2> QED
    BY <2>1, <2>2, <2>3
<1>2. broken \in BOOLEAN
  BY DEF RowType
<1>3. Finished(j, r, o) = [next EXCEPT !.alarmed = Red(j, next)]
  BY DEF Finished
<1> HIDE DEF failures, broken
<1>4. Red(j, next) \in BOOLEAN
  BY <1>2 DEF Red
<1>5. Finished(j, r, o) = [failures |-> failures, broken |-> broken, alarmed |-> Red(j, next)]
  BY <1>3
<1>6. Red(j, Finished(j, r, o)) = Red(j, next)
  BY <1>5 DEF Red
<1>7. Finished(j, r, o) \in RowType
  BY <1>1, <1>2, <1>4, <1>5 DEF RowType
<1> QED
  BY <1>5, <1>6, <1>7

(* So is the row a write would leave, if its run read the row there is.    *)
LEMMA WrittenRow ==
    ASSUME IInv, NEW p \in Runs, Writing(p)
    PROVE  /\ Base(p) \in RowType /\ Written(p) \in RowType
           /\ Written(p).alarmed = Red(Job(p), Written(p))
<1>1. Job(p) \in Jobs
  BY DEF Runs, Job
<1>2. Base(p) \in RowType /\ Base(p).alarmed = Red(Job(p), Base(p))
  <2>1. CASE read[p] = Absent
    BY <2>1, WorkerAssumption DEF Base, NewRow, RowType, Red
  <2>2. CASE read[p] # Absent
    BY <1>1, <2>2 DEF Base, IInv, StatusValues, ReadsHold, FlagsRed
  <2> QED
    BY <2>1, <2>2
<1>3. Finished(Job(p), Base(p), outcome[p]) \in RowType
  BY <1>1, <1>2, FinishedRow DEF IInv, StatusValues
<1> QED
  BY <1>1, <1>2, <1>3, FinishedRow DEF Written, IInv, StatusValues

-----------------------------------------------------------------------------
(* The parts of the invariant that a step of a run can disturb.            *)

(* Only finitely many workers can be about to tell.                        *)
LEMMA AlertingFinite ==
    ASSUME NEW j
    PROVE  IsFiniteSet(Alerting(j))
BY WorkerAssumption, FS_Subset DEF Alerting

(* A run that moves joins those that are about to tell, or leaves them.    *)
LEMMA AlertsMove ==
    ASSUME JobValues, NEW p \in Runs, NEW phase \in Phases, Go(p, phase), NEW j \in Jobs
    PROVE  Alerting(j)' = IF j # Job(p) THEN Alerting(j)
                          ELSE IF phase = "alert" THEN Alerting(j) \cup {Worker(p)}
                          ELSE Alerting(j) \ {Worker(p)}
<1>1. p = <<Worker(p), Job(p)>> /\ Worker(p) \in Workers /\ Job(p) \in Jobs
  BY DEF Runs, Worker, Job
<1>2. \A w \in Workers : at'[<<w, j>>] = IF <<w, j>> = p THEN phase ELSE at[<<w, j>>]
  BY DEF Go, JobValues, Runs
<1>3. \A w \in Workers : <<w, j>> = p <=> w = Worker(p) /\ j = Job(p)
  BY <1>1
<1> QED
  BY <1>1, <1>2, <1>3 DEF Alerting

(* The count of alerts after a run moved.                                  *)
LEMMA AlertsCount ==
    ASSUME JobValues, NEW p \in Runs, NEW phase \in Phases, Go(p, phase), NEW j \in Jobs
    PROVE  Cardinality(Alerting(j)') = Cardinality(Alerting(j))
             + (IF j = Job(p) /\ phase = "alert" /\ at[p] # "alert" THEN 1
                ELSE IF j = Job(p) /\ phase # "alert" /\ at[p] = "alert" THEN -1 ELSE 0)
<1>1. IsFiniteSet(Alerting(j)) /\ Cardinality(Alerting(j)) \in Nat
  BY AlertingFinite, FS_CardinalityType
<1>2. j = Job(p) => (Worker(p) \in Alerting(j) <=> at[p] = "alert")
  BY DEF Alerting, Runs, Worker, Job
<1>3. CASE j # Job(p)
  BY <1>1, <1>3, AlertsMove
<1>4. CASE j = Job(p) /\ phase = "alert"
  BY <1>1, <1>2, <1>4, AlertsMove, FS_AddElement
<1>5. CASE j = Job(p) /\ phase # "alert"
  BY <1>1, <1>2, <1>5, AlertsMove, FS_RemoveElement
<1> QED
  BY <1>3, <1>4, <1>5

(* What concerns the rows, after a step that neither reads nor writes one, *)
(* and tells nobody.                                                       *)
Loud == {"start write", "finish write", "alert"}
StatusInv ==
    StatusValues /\ ReadsHold /\ ReadWhileWriting /\ OneReader /\ OneAlertPerTurn /\ FlagsRed

LEMMA QuietMove ==
    ASSUME IInv, NEW p \in Runs, NEW phase \in Phases \ Loud, at[p] \notin Loud,
           Go(p, phase), UNCHANGED <<row, read, owed>>, outcome' \in [Runs -> Outcomes]
    PROVE  StatusInv' /\ at' \in [Runs -> Phases]
<1>1. at' \in [Runs -> Phases]
  BY DEF IInv, JobValues, Go
<1>2. StatusValues'
  BY DEF IInv, StatusValues, RowType, Absent
<1>3. \A q \in Runs : Writing(q)' <=> Writing(q)
  BY DEF IInv, JobValues, Go, Writing, Loud
<1>4. ReadsHold' /\ ReadWhileWriting'
  BY <1>3 DEF IInv, ReadsHold, ReadWhileWriting, Absent, Job
<1>5. OneReader' /\ FlagsRed'
  BY DEF IInv, OneReader, FlagsRed, Red, Absent, Job
<1>6. OneAlertPerTurn'
  <2>1. \A j \in Jobs : Cardinality(Alerting(j)') = Cardinality(Alerting(j)) + 0
    BY AlertsCount DEF IInv, Loud
  <2>2. \A j \in Jobs : Cardinality(Alerting(j)) \in Nat
    BY AlertingFinite, FS_CardinalityType
  <2>3. \A j \in Jobs : Cardinality(Alerting(j)') = Cardinality(Alerting(j))
    BY <2>1, <2>2
  <2> QED
    BY <2>3, Zenon DEF IInv, OneAlertPerTurn, Alerting
<1> QED
  BY <1>1, <1>2, <1>4, <1>5, <1>6 DEF StatusInv

(* What concerns the anchors, after a step that claims and confirms none.  *)
LEMMA ClaimsStay ==
    ASSUME IInv, claimed' \in [Runs -> Anchors \cup {NoAnchor}],
           \A p \in Runs : claimed'[p] \in {claimed[p], NoAnchor}, UNCHANGED confirmed
    PROVE  (ClaimsDiffer /\ ClaimsPending /\ ConfirmedOnce)'
<1>1. ClaimsDiffer'
  BY DEF IInv, ClaimsDiffer, NoAnchor
<1>2. ClaimsPending' /\ ConfirmedOnce'
  BY DEF IInv, ClaimsPending, ConfirmedOnce, NoAnchor
<1> QED
  BY <1>1, <1>2

-----------------------------------------------------------------------------
(* The steps of the jobs, which leave the rows alone.                      *)

(* A job's end, however it ends, lets go of its anchor.                    *)
LEMMA EndsInv ==
    ASSUME IInv, NEW p \in Runs, Working(p), NEW o \in Outcomes, Ends(p, o), UNCHANGED confirmed
    PROVE  IInv'
<1>1. outcome' \in [Runs -> Outcomes] /\ todo' \in [Runs -> SUBSET Anchors]
  BY DEF IInv, StatusValues, JobValues, Ends
<1>2. StatusInv' /\ at' \in [Runs -> Phases]
  <2>1. "finish" \in Phases \ Loud /\ at[p] \notin Loud
    BY DEF Working, Phases, Loud
  <2> QED
    BY <1>1, <2>1, QuietMove DEF Ends
<1>3. /\ claimed' \in [Runs -> Anchors \cup {NoAnchor}]
      /\ \A q \in Runs : claimed'[q] \in {claimed[q], NoAnchor}
  BY DEF IInv, JobValues, Ends
<1>4. (ClaimsDiffer /\ ClaimsPending /\ ConfirmedOnce)'
  BY <1>3, ClaimsStay
<1>5. JobValues'
  BY <1>1, <1>2, <1>3 DEF IInv, JobValues, Ends
<1> QED
  BY <1>2, <1>4, <1>5 DEF IInv, StatusInv

(* The outcomes the jobs come to are outcomes.                             *)
LEMMA JobOutcomes ==
    /\ \A ok \in {"yes", "no", "neutral"} : Said(ok) \in Outcomes
    /\ [ok |-> "no", detail |-> "broken"] \in Outcomes
    /\ [ok |-> "yes", detail |-> "intact"] \in Outcomes
    /\ NoOutcome \in Outcomes
BY DEF Said, Outcomes, NoOutcome

LEMMA EndingInv ==
    ASSUME IInv, NEW p \in Runs,
           Raises(p) \/ CheckIntegrity(p) \/ Stamped(p) \/ Upgraded(p)
    PROVE  IInv'
<1>1. CASE Raises(p)
  BY <1>1, EndsInv, JobOutcomes DEF Raises
<1>2. CASE CheckIntegrity(p)
  BY <1>2, EndsInv, JobOutcomes DEF CheckIntegrity, Working
<1>3. CASE Stamped(p)
  BY <1>3, EndsInv, JobOutcomes DEF Stamped, Working
<1>4. CASE Upgraded(p)
  BY <1>4, EndsInv, JobOutcomes DEF Upgraded, Working
<1> QED
  BY <1>1, <1>2, <1>3, <1>4

(* A run goes to a phase in which it has nothing to do with its row.       *)
LEMMA MovesInv ==
    ASSUME IInv, NEW p \in Runs, NEW phase \in Phases \ Loud, at[p] \notin Loud, Go(p, phase),
           UNCHANGED <<row, read, outcome, claimed, confirmed, chainBroken, owed, faults>>,
           todo' \in [Runs -> SUBSET Anchors]
    PROVE  IInv'
<1>1. StatusInv' /\ at' \in [Runs -> Phases]
  BY QuietMove DEF IInv, StatusValues
<1>2. (ClaimsDiffer /\ ClaimsPending /\ ConfirmedOnce)'
  BY ClaimsStay DEF IInv, JobValues
<1>3. JobValues'
  BY <1>1 DEF IInv, JobValues
<1> QED
  BY <1>1, <1>2, <1>3 DEF IInv, StatusInv

LEMMA MovingInv ==
    ASSUME IInv, NEW p \in Runs, Begin(p) \/ TryStamp(p) \/ ListPending(p)
    PROVE  IInv'
<1>1. {"start", "stamping", "upgrading"} \subseteq Phases \ Loud
      /\ "idle" \notin Loud /\ "run" \notin Loud
  BY DEF Phases, Loud
<1>2. todo \in [Runs -> SUBSET Anchors]
  BY DEF IInv, JobValues
<1>3. CASE Begin(p)
  BY <1>1, <1>2, <1>3, MovesInv DEF Begin
<1>4. CASE TryStamp(p) /\ Ends(p, Said("neutral"))
  BY <1>4, EndsInv, JobOutcomes DEF TryStamp, Working
<1>5. CASE TryStamp(p) /\ ~Ends(p, Said("neutral"))
  BY <1>1, <1>2, <1>5, MovesInv DEF TryStamp
<1>6. CASE ListPending(p)
  <2>1. todo' \in [Runs -> SUBSET Anchors]
    BY <1>2, <1>6 DEF ListPending
  <2> QED
    BY <1>1, <1>6, <2>1, MovesInv DEF ListPending
<1> QED
  BY <1>3, <1>4, <1>5, <1>6

(* A step within a run leaves what concerns the rows as it is.             *)
LEMMA StatusStays ==
    ASSUME IInv, UNCHANGED <<row, at, read, outcome, owed>>
    PROVE  StatusInv'
BY DEF IInv, StatusInv, StatusValues, ReadsHold, ReadWhileWriting, OneReader, OneAlertPerTurn,
       FlagsRed, RowType, Absent, Red, Writing, Job

(* An anchor is claimed if nobody has, and no proof is committed for it.   *)
LEMMA ClaimAnchorInv ==
    ASSUME IInv, NEW p \in Runs, ClaimAnchor(p)
    PROVE  IInv'
<1> DEFINE a == Min(todo[p])
<1>1. a \in Anchors /\ todo' \in [Runs -> SUBSET Anchors]
  BY LeastAnchor DEF ClaimAnchor, IInv, JobValues
<1>2. NoAnchor \notin Anchors
  BY WorkerAssumption DEF NoAnchor
<1>3. StatusInv'
  BY StatusStays DEF ClaimAnchor
<1>4. CASE UNCHANGED claimed
  <2>1. (ClaimsDiffer /\ ClaimsPending /\ ConfirmedOnce)'
    BY <1>4, ClaimsStay DEF IInv, JobValues, ClaimAnchor
  <2> QED
    BY <1>1, <1>3, <1>4, <2>1 DEF IInv, StatusInv, JobValues, ClaimAnchor
<1>5. CASE /\ StillPending(a) /\ \A q \in Runs : claimed[q] # a
           /\ claimed' = [claimed EXCEPT ![p] = a]
  <2>1. confirmed[a] = 0
    BY <1>1, <1>5 DEF StillPending, Verified, IInv, JobValues
  <2> HIDE DEF a
  <2>2. \A q \in Runs : claimed'[q] = IF q = p THEN a ELSE claimed[q]
    BY <1>5 DEF IInv, JobValues
  <2>3. ClaimsDiffer'
    BY <1>5, <2>2 DEF IInv, ClaimsDiffer, NoAnchor
  <2>4. ClaimsPending' /\ ConfirmedOnce'
    BY <2>1, <2>2 DEF IInv, ClaimsPending, ConfirmedOnce, ClaimAnchor, NoAnchor
  <2>5. JobValues'
    BY <1>1, <1>5 DEF IInv, JobValues, ClaimAnchor, NoAnchor
  <2> QED
    BY <1>3, <2>3, <2>4, <2>5 DEF IInv, StatusInv
<1> QED
  BY <1>4, <1>5 DEF ClaimAnchor

(* A proof is committed for the anchor that is claimed: its first.         *)
LEMMA UpgradeAnchorInv ==
    ASSUME IInv, NEW p \in Runs, UpgradeAnchor(p)
    PROVE  IInv'
<1>1. PICK attested \in BOOLEAN :
        confirmed' = [confirmed EXCEPT ![claimed[p]] = @ + (IF attested THEN 1 ELSE 0)]
  BY DEF UpgradeAnchor
<1>2. claimed[p] \in Anchors /\ confirmed[claimed[p]] = 0
  BY DEF UpgradeAnchor, IInv, JobValues, ClaimsPending
<1>3. confirmed' \in [Anchors -> Nat]
  BY <1>1, <1>2 DEF IInv, JobValues
<1>4. /\ \A a \in Anchors \ {claimed[p]} : confirmed'[a] = confirmed[a]
      /\ confirmed'[claimed[p]] \in {0, 1}
  <2>1. confirmed'[claimed[p]] = 0 + (IF attested THEN 1 ELSE 0)
    BY <1>1, <1>2 DEF IInv, JobValues
  <2> QED
    BY <1>1, <2>1 DEF IInv, JobValues
<1>5. \A q \in Runs : claimed'[q] = IF q = p THEN NoAnchor ELSE claimed[q]
  BY DEF UpgradeAnchor, IInv, JobValues
<1>6. ClaimsDiffer'
  BY <1>5 DEF IInv, ClaimsDiffer, NoAnchor
<1>7. ClaimsPending'
  <2> SUFFICES ASSUME NEW q \in Runs, claimed'[q] # NoAnchor
               PROVE  confirmed'[claimed'[q]] = 0
    BY DEF ClaimsPending, NoAnchor
  <2>1. q # p /\ claimed'[q] = claimed[q]
    BY <1>5
  <2>2. claimed[q] # claimed[p] /\ claimed[q] \in Anchors
    BY <2>1 DEF IInv, ClaimsDiffer, JobValues
  <2> QED
    BY <1>4, <2>1, <2>2 DEF IInv, ClaimsPending
<1>8. ConfirmedOnce'
  BY <1>2, <1>4 DEF IInv, ConfirmedOnce
<1>9. JobValues'
  BY <1>3 DEF UpgradeAnchor, IInv, JobValues, NoAnchor
<1>10. StatusInv'
  BY StatusStays DEF UpgradeAnchor
<1> QED
  BY <1>6, <1>7, <1>8, <1>9, <1>10 DEF IInv, StatusInv

-----------------------------------------------------------------------------
(* The status writes.                                                      *)

(* A run reads the row when nobody who has read it is still writing.       *)
LEMMA LockRowInv ==
    ASSUME IInv, NEW p \in Runs, LockRow(p)
    PROVE  IInv'
<1> DEFINE phase == IF at[p] = "start" THEN "start write" ELSE "finish write"
<1>1. /\ phase \in Phases /\ phase # "alert" /\ at[p] # "alert" /\ ~Writing(p)
      /\ Go(p, phase) /\ Job(p) \in Jobs
  BY DEF LockRow, Phases, Writing, Runs, Job
<1>2. \A q \in Runs : /\ Writing(q)' <=> q = p \/ Writing(q)
                      /\ read'[q] = IF q = p THEN row[Job(p)] ELSE read[q]
  BY DEF LockRow, Go, Writing, IInv, JobValues, StatusValues
<1>3. UNCHANGED <<row, outcome, todo, claimed, confirmed, chainBroken, owed, faults>>
  BY DEF LockRow
<1>4. StatusValues'
  BY <1>1, <1>3 DEF LockRow, IInv, StatusValues, RowType, Absent
<1>5. JobValues'
  BY <1>1, <1>3 DEF Go, IInv, JobValues
<1>6. ReadsHold' /\ ReadWhileWriting'
  BY <1>2, <1>3 DEF IInv, ReadsHold, ReadWhileWriting, Absent, Job
<1>7. OneReader'
  <2>1. row[Job(p)] # Absent => \A q \in Runs : Job(q) = Job(p) => read[q] = Absent
    BY DEF LockRow, RowFree, IInv, ReadWhileWriting
  <2> QED
    BY <1>2, <2>1 DEF IInv, OneReader, Absent, Job
<1>8. OneAlertPerTurn'
  <2>1. \A j \in Jobs : Cardinality(Alerting(j)') = Cardinality(Alerting(j)) + 0
    BY <1>1, AlertsCount DEF IInv
  <2>2. \A j \in Jobs : Cardinality(Alerting(j)) \in Nat
    BY AlertingFinite, FS_CardinalityType
  <2>3. \A j \in Jobs : Cardinality(Alerting(j)') = Cardinality(Alerting(j))
    BY <2>1, <2>2
  <2> QED
    BY <1>3, <2>3, Zenon DEF IInv, OneAlertPerTurn, Alerting
<1>9. FlagsRed'
  BY <1>3 DEF IInv, FlagsRed, Absent, Red
<1>10. (ClaimsDiffer /\ ClaimsPending /\ ConfirmedOnce)'
  BY <1>3, ClaimsStay DEF IInv, JobValues
<1> QED
  BY <1>4, <1>5, <1>6, <1>7, <1>8, <1>9, <1>10 DEF IInv

(* A write ends, with the row as it was or as the write would have it. The *)
(* latter only if the row is the one that was read, and then no other      *)
(* write has read it.                                                      *)
AllButAlerts ==
    /\ StatusValues /\ JobValues
    /\ ReadsHold /\ ReadWhileWriting /\ OneReader /\ FlagsRed
    /\ ClaimsDiffer /\ ClaimsPending /\ ConfirmedOnce

LEMMA LeaveWriteInv ==
    ASSUME IInv, NEW p \in Runs, Writing(p),
           NEW phase \in Phases \ {"start write", "finish write"}, LeaveWrite(p, phase),
           \/ UNCHANGED row
           \/ ~Collides(p) /\ row' = [row EXCEPT ![Job(p)] = Written(p)],
           owed' \in [Jobs -> Int], faults' \in 0..MaxFaults
    PROVE  AllButAlerts'
<1>1. Job(p) \in Jobs /\ Written(p) \in RowType /\ Written(p).alarmed = Red(Job(p), Written(p))
  BY WrittenRow DEF Runs, Job
<1>2. \A q \in Runs : /\ Writing(q)' <=> q # p /\ Writing(q)
                      /\ read'[q] = IF q = p THEN Absent ELSE read[q]
  BY DEF LeaveWrite, Go, Writing, IInv, JobValues, StatusValues
<1>3. StatusValues'
  <2>1. row' \in [Jobs -> RowType \cup {Absent}]
    BY <1>1 DEF IInv, StatusValues
  <2>2. read' \in [Runs -> RowType \cup {Absent}] /\ outcome' \in [Runs -> Outcomes]
    BY JobOutcomes DEF LeaveWrite, IInv, StatusValues
  <2> QED
    BY <2>1, <2>2 DEF StatusValues, RowType, Absent, Outcomes
<1>4. JobValues'
  BY DEF LeaveWrite, Go, IInv, JobValues
<1>5. ReadsHold'
  <2> SUFFICES ASSUME NEW q \in Runs, q # p, Writing(q), read[q] # Absent
               PROVE  read[q] = row'[Job(q)]
    BY <1>2 DEF ReadsHold, Absent, Job
  <2>1. read[q] = row[Job(q)] /\ Job(q) \in Jobs
    BY DEF IInv, ReadsHold, Runs, Job
  <2>2. Job(q) = Job(p) => UNCHANGED row
    BY <2>1 DEF IInv, OneReader, Collides
  <2> QED
    BY <1>1, <2>1, <2>2 DEF IInv, StatusValues
<1>6. ReadWhileWriting' /\ OneReader'
  BY <1>2 DEF IInv, ReadWhileWriting, OneReader, Absent, Job
<1>7. FlagsRed'
  <2>1. CASE UNCHANGED row
    BY <2>1 DEF IInv, FlagsRed, Absent, Red
  <2>2. CASE row' = [row EXCEPT ![Job(p)] = Written(p)]
    <3>1. \A j \in Jobs : row'[j] = IF j = Job(p) THEN Written(p) ELSE row[j]
      BY <2>2 DEF IInv, StatusValues
    <3> QED
      BY <1>1, <3>1 DEF IInv, FlagsRed, Absent, Red
  <2> QED
    BY <2>1, <2>2
<1>8. (ClaimsDiffer /\ ClaimsPending /\ ConfirmedOnce)'
  BY ClaimsStay DEF LeaveWrite, IInv, JobValues
<1> QED
  BY <1>3, <1>4, <1>5, <1>6, <1>7, <1>8 DEF AllButAlerts

(* Where a write goes when it tells nobody.                                *)
LEMMA AfterWrite ==
    ASSUME NEW p \in Runs, Writing(p)
    PROVE  /\ After(p) \in Phases \ {"start write", "finish write"} /\ After(p) # "alert"
           /\ "alert" \in Phases \ {"start write", "finish write"} /\ at[p] # "alert"
           /\ Job(p) \in Jobs
BY DEF After, Phases, Writing, Runs, Job

(* A commit turns the row red exactly if its run is to tell.               *)
LEMMA TurnsAsRead ==
    ASSUME IInv, NEW p \in Runs, Writing(p), ~Collides(p)
    PROVE  Turns(Job(p), Written(p)) <=> Alerts(p)
<1>1. CASE read[p] = Absent
  BY <1>1 DEF Collides, Turns, Alerts, Base, NewRow
<1>2. CASE read[p] # Absent
  BY <1>2 DEF IInv, ReadsHold, Turns, Alerts, Base
<1> QED
  BY <1>1, <1>2

LEMMA CommitWriteInv ==
    ASSUME IInv, NEW p \in Runs, CommitWrite(p)
    PROVE  IInv'
<1> DEFINE tells == ~Collides(p) /\ Alerts(p)
           phase == IF tells THEN "alert" ELSE After(p)
           turn == IF tells THEN 1 ELSE 0
<1>1. Writing(p) /\ faults' = faults /\ LeaveWrite(p, phase)
  BY DEF CommitWrite
<1>2. /\ phase \in Phases \ {"start write", "finish write"} /\ at[p] # "alert" /\ Job(p) \in Jobs
      /\ (phase = "alert" /\ turn = 1) \/ (phase # "alert" /\ turn = 0)
  <2>1. /\ After(p) \in Phases \ {"start write", "finish write"} /\ After(p) # "alert"
        /\ "alert" \in Phases \ {"start write", "finish write"} /\ at[p] # "alert"
        /\ Job(p) \in Jobs
    BY <1>1, AfterWrite
  <2> HIDE DEF tells
  <2> QED
    BY <2>1
<1>3. \/ UNCHANGED row
      \/ ~Collides(p) /\ row' = [row EXCEPT ![Job(p)] = Written(p)]
  BY DEF CommitWrite
<1>4. owed \in [Jobs -> Int]
  BY DEF IInv, StatusValues
<1>5. /\ owed' \in [Jobs -> Int]
      /\ \A j \in Jobs : owed'[j] = owed[j] + (IF j = Job(p) THEN turn ELSE 0)
  <2>1. CASE Collides(p)
    BY <1>4, <2>1 DEF CommitWrite
  <2>2. CASE ~Collides(p) /\ Alerts(p)
    <3>1. owed' = [owed EXCEPT ![Job(p)] = @ + 1]
      BY <1>1, <2>2, TurnsAsRead DEF CommitWrite
    <3>2. turn = 1 /\ Job(p) \in Jobs
      BY <1>2, <2>2
    <3> HIDE DEF turn
    <3> QED
      BY <1>4, <3>1, <3>2
  <2>3. CASE ~Collides(p) /\ ~Alerts(p)
    <3>1. owed' = [owed EXCEPT ![Job(p)] = @ + 0]
      BY <1>1, <2>3, TurnsAsRead DEF CommitWrite
    <3>2. turn = 0 /\ Job(p) \in Jobs
      BY <1>2, <2>3
    <3> HIDE DEF turn
    <3> QED
      BY <1>4, <3>1, <3>2
  <2> QED
    BY <2>1, <2>2, <2>3
<1>6. AllButAlerts'
  <2>1. owed' \in [Jobs -> Int]
    BY <1>5
  <2>2. faults' \in 0..MaxFaults
    BY <1>1 DEF IInv, JobValues
  <2> HIDE DEF phase
  <2> QED
    BY <1>1, <1>2, <1>3, <2>1, <2>2, LeaveWriteInv
<1>7. OneAlertPerTurn'
  <2> HIDE DEF phase
  <2>1. \A j \in Jobs : Cardinality(Alerting(j)')
                          = Cardinality(Alerting(j)) + (IF j = Job(p) THEN turn ELSE 0)
    <3>1. Go(p, phase) /\ phase \in Phases
      BY <1>1, <1>2 DEF LeaveWrite
    <3>2. turn = 0 \/ turn = 1
      BY <1>2
    <3> HIDE DEF turn
    <3>3. \A j \in Jobs : Cardinality(Alerting(j)')
                 = Cardinality(Alerting(j)) + (IF j = Job(p) /\ phase = "alert" THEN 1 ELSE 0)
      BY <1>2, <3>1, AlertsCount DEF IInv
    <3> QED
      BY <1>2, <3>2, <3>3
  <2>2. \A j \in Jobs : owed'[j] = owed[j] + (IF j = Job(p) THEN turn ELSE 0)
    BY <1>5
  <2>3. \A j \in Jobs : owed[j] = Cardinality(Alerting(j))
    BY Zenon DEF IInv, OneAlertPerTurn, Alerting
  <2>4. \A j \in Jobs : owed'[j] = Cardinality(Alerting(j)')
    BY <2>1, <2>2, <2>3
  <2> QED
    BY <2>4, Zenon DEF OneAlertPerTurn, Alerting
<1> QED
  BY <1>6, <1>7 DEF AllButAlerts, IInv

(* A write that fails tells nobody, whether or not it was committed.       *)
LEMMA WriteFailsInv ==
    ASSUME IInv, NEW p \in Runs, WriteFails(p)
    PROVE  IInv'
<1>1. Writing(p) /\ LeaveWrite(p, After(p)) /\ UNCHANGED owed
  BY DEF WriteFails
<1>2. After(p) \in Phases \ {"start write", "finish write"} /\ After(p) # "alert" /\ at[p] # "alert"
  BY <1>1, AfterWrite
<1>3. \/ UNCHANGED row
      \/ ~Collides(p) /\ row' = [row EXCEPT ![Job(p)] = Written(p)]
  BY DEF WriteFails
<1>4. owed' \in [Jobs -> Int] /\ faults' \in 0..MaxFaults
  BY WorkerAssumption DEF WriteFails, IInv, StatusValues, JobValues
<1>5. AllButAlerts'
  BY <1>1, <1>2, <1>3, <1>4, LeaveWriteInv
<1>6. OneAlertPerTurn'
  <2>1. Go(p, After(p)) /\ After(p) \in Phases
    BY <1>1, <1>2 DEF LeaveWrite
  <2>2. \A j \in Jobs : Cardinality(Alerting(j)') = Cardinality(Alerting(j)) + 0
    BY <1>2, <2>1, AlertsCount DEF IInv
  <2>3. \A j \in Jobs : Cardinality(Alerting(j)) \in Nat
    BY AlertingFinite, FS_CardinalityType
  <2>4. \A j \in Jobs : Cardinality(Alerting(j)') = Cardinality(Alerting(j))
    BY <2>2, <2>3
  <2> QED
    BY <1>1, <2>4, Zenon DEF IInv, OneAlertPerTurn, Alerting
<1> QED
  BY <1>5, <1>6 DEF AllButAlerts, IInv

(* The event is sent: one less is owed, and one less is about to be sent.  *)
LEMMA AlertInv ==
    ASSUME IInv, NEW p \in Runs, Alert(p)
    PROVE  IInv'
<1>1. /\ Go(p, "idle") /\ at[p] = "alert" /\ "idle" \in Phases /\ Job(p) \in Jobs
      /\ UNCHANGED <<row, read, outcome, todo, claimed, confirmed, chainBroken, faults>>
      /\ owed' = [owed EXCEPT ![Job(p)] = @ - 1]
  BY DEF Alert, Phases, Runs, Job
<1>2. owed \in [Jobs -> Int]
  BY DEF IInv, StatusValues
<1>3. /\ owed' \in [Jobs -> Int]
      /\ \A j \in Jobs : owed'[j] = owed[j] + (IF j = Job(p) THEN -1 ELSE 0)
  BY <1>1, <1>2
<1>4. StatusValues'
  BY <1>1, <1>3 DEF IInv, StatusValues, RowType, Absent, Outcomes
<1>5. JobValues'
  BY <1>1 DEF IInv, JobValues, Go
<1>6. \A q \in Runs : Writing(q)' <=> Writing(q)
  BY <1>1 DEF IInv, JobValues, Go, Writing
<1>7. ReadsHold' /\ ReadWhileWriting' /\ OneReader'
  BY <1>1, <1>6 DEF IInv, ReadsHold, ReadWhileWriting, OneReader, Absent, Job
<1>8. FlagsRed'
  BY <1>1 DEF IInv, FlagsRed, Red, Absent
<1>9. OneAlertPerTurn'
  <2>1. \A j \in Jobs : Cardinality(Alerting(j)')
                          = Cardinality(Alerting(j)) + (IF j = Job(p) THEN -1 ELSE 0)
    BY <1>1, AlertsCount DEF IInv
  <2>2. \A j \in Jobs : owed[j] = Cardinality(Alerting(j))
    BY Zenon DEF IInv, OneAlertPerTurn, Alerting
  <2>3. \A j \in Jobs : owed'[j] = Cardinality(Alerting(j)')
    BY <1>3, <2>1, <2>2
  <2> QED
    BY <2>3, Zenon DEF OneAlertPerTurn, Alerting
<1>10. (ClaimsDiffer /\ ClaimsPending /\ ConfirmedOnce)'
  BY <1>1, ClaimsStay DEF IInv, JobValues
<1> QED
  BY <1>4, <1>5, <1>7, <1>8, <1>9, <1>10 DEF IInv

(* A process that dies takes the alerts with it that it was about to send. *)
LEMMA CrashInv ==
    ASSUME IInv, NEW w \in Workers, Crash(w)
    PROVE  IInv'
<1>1. /\ at' = [p \in Runs |-> IF Worker(p) = w THEN "idle" ELSE at[p]]
      /\ read' = [p \in Runs |-> IF Worker(p) = w THEN Absent ELSE read[p]]
      /\ outcome' = [p \in Runs |-> IF Worker(p) = w THEN NoOutcome ELSE outcome[p]]
      /\ todo' = [p \in Runs |-> IF Worker(p) = w THEN {} ELSE todo[p]]
      /\ claimed' = [p \in Runs |-> IF Worker(p) = w THEN NoAnchor ELSE claimed[p]]
      /\ owed' = [j \in Jobs |-> owed[j] - (IF at[<<w, j>>] = "alert" THEN 1 ELSE 0)]
      /\ UNCHANGED <<row, confirmed, chainBroken>>
      /\ faults < MaxFaults /\ faults' = faults + 1
  BY DEF Crash
<1>2. owed' \in [Jobs -> Int]
  BY <1>1 DEF IInv, StatusValues
<1>3. StatusValues'
  <2>1. outcome' \in [Runs -> Outcomes] /\ read' \in [Runs -> RowType \cup {Absent}]
    BY <1>1, JobOutcomes DEF IInv, StatusValues
  <2> QED
    BY <1>1, <1>2, <2>1 DEF IInv, StatusValues, RowType, Absent, Outcomes
<1>4. JobValues'
  <2>1. at' \in [Runs -> Phases]
    BY <1>1 DEF IInv, JobValues, Phases
  <2>2. todo' \in [Runs -> SUBSET Anchors] /\ claimed' \in [Runs -> Anchors \cup {NoAnchor}]
    BY <1>1 DEF IInv, JobValues
  <2>3. faults' \in 0..MaxFaults
    BY <1>1, WorkerAssumption DEF IInv, JobValues
  <2> QED
    BY <1>1, <2>1, <2>2, <2>3 DEF IInv, JobValues, NoAnchor
<1>5. \A p \in Runs : /\ Writing(p)' <=> Worker(p) # w /\ Writing(p)
                      /\ read'[p] = IF Worker(p) = w THEN Absent ELSE read[p]
  BY <1>1 DEF Writing
<1>6. ReadsHold' /\ ReadWhileWriting' /\ OneReader'
  BY <1>1, <1>5 DEF IInv, ReadsHold, ReadWhileWriting, OneReader, Absent, Job
<1>7. FlagsRed'
  BY <1>1 DEF IInv, FlagsRed, Red, Absent
<1>8. OneAlertPerTurn'
  <2> SUFFICES ASSUME NEW j \in Jobs
               PROVE  owed'[j] = Cardinality(Alerting(j)')
    BY Zenon DEF OneAlertPerTurn, Alerting
  <2>1. owed[j] = Cardinality(Alerting(j))
    BY Zenon DEF IInv, OneAlertPerTurn, Alerting
  <2>2. Alerting(j)' = Alerting(j) \ {w}
    BY <1>1 DEF Alerting, Runs, Worker
  <2>3. w \in Alerting(j) <=> at[<<w, j>>] = "alert"
    BY DEF Alerting
  <2>4. IsFiniteSet(Alerting(j)) /\ Cardinality(Alerting(j)) \in Nat
    BY AlertingFinite, FS_CardinalityType
  <2>5. Cardinality(Alerting(j) \ {w}) = IF w \in Alerting(j) THEN Cardinality(Alerting(j)) - 1
                                          ELSE Cardinality(Alerting(j))
    BY <2>4, FS_RemoveElement
  <2> QED
    BY <1>1, <2>1, <2>2, <2>3, <2>4, <2>5
<1>9. (ClaimsDiffer /\ ClaimsPending /\ ConfirmedOnce)'
  <2>1. \A p \in Runs : claimed'[p] \in {claimed[p], NoAnchor}
    BY <1>1
  <2>2. claimed' \in [Runs -> Anchors \cup {NoAnchor}]
    BY <1>1 DEF IInv, JobValues
  <2> QED
    BY <1>1, <2>1, <2>2, ClaimsStay
<1> QED
  BY <1>3, <1>4, <1>6, <1>7, <1>8, <1>9 DEF IInv

-----------------------------------------------------------------------------
(* The theorems.                                                           *)

LEMMA IInvInit == Init => IInv
<1> SUFFICES ASSUME Init PROVE IInv
  OBVIOUS
<1>1. StatusValues
  BY JobOutcomes DEF Init, StatusValues
<1>2. JobValues
  <2>1. at \in [Runs -> Phases] /\ faults \in 0..MaxFaults
    BY WorkerAssumption DEF Init, Phases
  <2>2. todo \in [Runs -> SUBSET Anchors] /\ claimed \in [Runs -> Anchors \cup {NoAnchor}]
    BY DEF Init
  <2>3. confirmed \in [Anchors -> Nat] /\ chainBroken \in BOOLEAN
    BY DEF Init
  <2> QED
    BY <2>1, <2>2, <2>3 DEF JobValues
<1>3. ReadsHold /\ ReadWhileWriting /\ OneReader
  BY DEF Init, ReadsHold, ReadWhileWriting, OneReader
<1>4. OneAlertPerTurn
  <2> SUFFICES ASSUME NEW j \in Jobs
               PROVE  owed[j] = Cardinality(Alerting(j))
    BY Zenon DEF OneAlertPerTurn, Alerting
  <2>1. Alerting(j) = {}
    BY DEF Init, Alerting, Runs
  <2> QED
    BY <2>1, FS_EmptySet DEF Init
<1>5. FlagsRed
  BY DEF Init, FlagsRed
<1>6. ClaimsDiffer /\ ClaimsPending /\ ConfirmedOnce
  BY DEF Init, ClaimsDiffer, ClaimsPending, ConfirmedOnce
<1> QED
  BY <1>1, <1>2, <1>3, <1>4, <1>5, <1>6 DEF IInv

LEMMA IInvStep == IInv /\ [Next]_vars => IInv'
<1> SUFFICES ASSUME IInv, [Next]_vars PROVE IInv'
  OBVIOUS
<1>1. ASSUME NEW p \in Runs, Step(p) PROVE IInv'
  BY <1>1, MovingInv, EndingInv, LockRowInv, CommitWriteInv, AlertInv, ClaimAnchorInv,
     UpgradeAnchorInv DEF Step
<1>2. ASSUME NEW p \in Runs, WriteFails(p) PROVE IInv'
  BY <1>2, WriteFailsInv
<1>3. ASSUME NEW w \in Workers, Crash(w) PROVE IInv'
  BY <1>3, CrashInv
<1>4. CASE Tamper
  <2>1. UNCHANGED <<row, at, read, outcome, todo, claimed, confirmed, owed, faults>> /\ chainBroken'
    BY <1>4 DEF Tamper
  <2>2. StatusInv'
    BY <2>1, StatusStays
  <2>3. (ClaimsDiffer /\ ClaimsPending /\ ConfirmedOnce)' /\ JobValues'
    BY <1>4, ClaimsStay DEF Tamper, IInv, JobValues
  <2> QED
    BY <2>2, <2>3 DEF IInv, StatusInv
<1>5. CASE UNCHANGED vars
  <2>1. StatusInv'
    BY <1>5, StatusStays DEF vars
  <2>2. (ClaimsDiffer /\ ClaimsPending /\ ConfirmedOnce)' /\ JobValues'
    BY <1>5, ClaimsStay DEF vars, IInv, JobValues
  <2> QED
    BY <2>1, <2>2 DEF IInv, StatusInv
<1> QED
  BY <1>1, <1>2, <1>3, <1>4, <1>5 DEF Next

LEMMA Invariance == Safety => []IInv
BY IInvInit, IInvStep, PTL DEF Safety

(* Every variable has its type, no two runs hold a lock on one anchor, and *)
(* a status write that has read its row finds the same row there when it   *)
(* commits (worker_status.py, _write; anchoring.py, upgrade_anchor).       *)
THEOREM TypeCorrect == Safety => []TypeOK
<1>1. IInv => TypeOK
  BY DEF IInv, StatusValues, JobValues, ReadsHold, ClaimsDiffer, TypeOK, Phases
<1> QED
  BY <1>1, Invariance, PTL

(* For every turn of a job into red one event is sent or about to be sent, *)
(* or was lost with its process, and none is sent twice; the health        *)
(* endpoint reports a job exactly when its flag is up; and an anchor is    *)
(* confirmed once (worker_status.py, track; ops_health.py, failing;        *)
(* anchoring.py, upgrade_pending).                                         *)
THEOREM JobsAlertOnce == Safety => []JobsHold
<1>1. ASSUME IInv PROVE HealthAgrees
  <2>1. \A j \in Jobs : row[j] # Absent => row[j].alarmed = Red(j, row[j])
    BY <1>1 DEF IInv, FlagsRed
  <2>2. "chain_broken" \in Failing => row[INTEGRITY].alarmed
    BY <2>1 DEF Failing, Red
  <2>3. ASSUME ANCHOR_STAMP \in Jobs, row[ANCHOR_STAMP] # Absent
        PROVE  "anchor_failing" \in Failing <=> row[ANCHOR_STAMP].alarmed
    <3>1. ANCHOR_STAMP # INTEGRITY
      BY DEF ANCHOR_STAMP, INTEGRITY
    <3>2. row[ANCHOR_STAMP].alarmed <=> row[ANCHOR_STAMP].failures >= FailureRuns
      <4>1. row[ANCHOR_STAMP] \in RowType
        BY <1>1, <2>3 DEF IInv, StatusValues
      <4> QED
        BY <2>1, <2>3, <3>1, <4>1 DEF Red, RowType
    <3> QED
      BY <2>3, <3>2 DEF Failing
  <2> QED
    BY <2>1, <2>2, <2>3 DEF HealthAgrees
<1>2. IInv => JobsHold
  BY <1>1 DEF IInv, JobsHold
<1> QED
  BY <1>2, Invariance, PTL

=============================================================================
