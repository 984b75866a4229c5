----------------------------- MODULE WorkerJobs -----------------------------
(***************************************************************************)
(* The worker processes (app/worker.py): each ticks its jobs again and     *)
(* again, one run of a job at a time, and track()                          *)
(* (app/services/worker_status.py) records every run in the row of the job *)
(* and tells Sentry when the job turns red.  Of the jobs, the chain check  *)
(* and the upgrade of anchors (app/services/anchoring.py) are here with    *)
(* their steps, and the stamp job by its outcome: Anchoring has the rest.  *)
(* The other two are like a chain check that finds nothing.                *)
(*                                                                         *)
(* A status write locks the row, changes it and commits; where there is no *)
(* row yet it locks nothing, and of two INSERTs the second one fails.  A   *)
(* write that fails is logged, and the run goes on without it.             *)
(***************************************************************************)
EXTENDS Integers, FiniteSetsExt

CONSTANTS
    Workers,        \* the processes
    Jobs,           \* the jobs that are switched on
    Anchors,        \* the anchors there are, numbered in the order of anchored_at
    Unparseable,    \* those whose proof is not one
    FailureRuns,    \* ops_anchor_failure_runs
    MaxFaults       \* bound: crashes and status writes that fail

INTEGRITY == "audit_integrity"
ANCHOR_STAMP == "anchor_stamp"
ANCHOR_UPGRADE == "anchor_upgrade"

ASSUME WorkerAssumption ==
    /\ Jobs \subseteq {INTEGRITY, ANCHOR_STAMP, ANCHOR_UPGRADE}
    /\ IsFiniteSet(Workers)
    /\ Anchors \subseteq Nat /\ IsFiniteSet(Anchors)
    /\ Unparseable \subseteq Anchors
    /\ FailureRuns \in Nat \ {0} /\ MaxFaults \in Nat

Runs == Workers \X Jobs
Worker(p) == p[1]
Job(p) == p[2]

VARIABLES
    row,            \* of each job: its row of worker_status
    at,             \* of each run: how far it is
    read,           \*   the row as its open write read it
    outcome,        \*   what the job came to, once it has
    todo,           \*   the anchors it listed and has not tried yet
    claimed,        \*   the anchor whose upgrade lock it holds
    confirmed,      \* of each anchor: how often a proof was committed for it
    chainBroken,    \* what verify_chain would find
    owed,           \* of each job: turns into red, less the alerts that were
                    \*   sent and those a fault has taken
    faults

vars == <<row, at, read, outcome, todo, claimed, confirmed, chainBroken, owed, faults>>

Absent == [absent |-> TRUE]
NoAnchor == -1
NewRow == [failures |-> 0, broken |-> FALSE, alarmed |-> FALSE]

\* Outcome.ok, and what the chain check says in `detail`.
Outcomes == [ok : {"yes", "no", "neutral"}, detail : {"none", "intact", "broken"}]
NoOutcome == [ok |-> "neutral", detail |-> "none"]
Said(ok) == [ok |-> ok, detail |-> "none"]

Writing(p) == at[p] \in {"start write", "finish write"}

\* Variant: the row is read without FOR UPDATE.
RowUnlocked(j) == TRUE

RowFree(j) == \A p \in Runs : Job(p) = j /\ Writing(p) => read[p] = Absent

Verified == {a \in Anchors : confirmed[a] > 0}

-----------------------------------------------------------------------------
(* worker_status.py *)

\* When a job is red.  (failures is counted no further than it is compared.)
Red(j, r) ==
    \/ j = ANCHOR_STAMP /\ r.failures >= FailureRuns
    \/ j # ANCHOR_STAMP /\ r.failures >= 1
    \/ j = INTEGRITY /\ r.broken

\* _finish: the row after a run that came to o.
Finished(j, r, o) ==
    LET failures == CASE o.ok = "yes" -> 0
                      [] o.ok = "no" -> Min({FailureRuns, r.failures + 1})
                      [] o.ok = "neutral" -> r.failures
        broken == IF o.detail = "none" THEN r.broken ELSE o.detail = "broken"
        next == [failures |-> failures, broken |-> broken, alarmed |-> FALSE]
    IN  [next EXCEPT !.alarmed = Red(j, next)]

\* What the open write of run p would leave, and whether it is to be told.
Base(p) == IF read[p] = Absent THEN NewRow ELSE read[p]
Written(p) ==
    IF at[p] = "start write" THEN Base(p) ELSE Finished(Job(p), Base(p), outcome[p])
Alerts(p) == Written(p).alarmed /\ ~Base(p).alarmed

Go(p, phase) == at' = [at EXCEPT ![p] = phase]
After(p) == IF at[p] = "start write" THEN "run" ELSE "idle"

\* The scheduler: max_instances = 1, and missed ticks are one tick.
Begin(p) ==
    /\ at[p] = "idle"
    /\ Go(p, "start")
    /\ UNCHANGED <<row, read, outcome, todo, claimed, confirmed, chainBroken, owed, faults>>

LockRow(p) ==
    /\ at[p] \in {"start", "finish"}
    /\ row[Job(p)] # Absent => RowFree(Job(p))
    /\ Go(p, IF at[p] = "start" THEN "start write" ELSE "finish write")
    /\ read' = [read EXCEPT ![p] = row[Job(p)]]
    /\ UNCHANGED <<row, outcome, todo, claimed, confirmed, chainBroken, owed, faults>>

Collides(p) == read[p] = Absent /\ row[Job(p)] # Absent

\* Leaves the write, with the outcome forgotten once it is recorded.
LeaveWrite(p, phase) ==
    /\ Go(p, phase)
    /\ read' = [read EXCEPT ![p] = Absent]
    /\ outcome' = [outcome EXCEPT ![p] = NoOutcome]
    /\ UNCHANGED <<todo, claimed, confirmed, chainBroken>>

Turns(j, new) == new.alarmed /\ (row[j] = Absent \/ ~row[j].alarmed)

CommitWrite(p) ==
    /\ Writing(p)
    /\ IF Collides(p)
       THEN LeaveWrite(p, After(p)) /\ UNCHANGED <<row, owed>>
       ELSE /\ row' = [row EXCEPT ![Job(p)] = Written(p)]
            /\ owed' = [owed EXCEPT ![Job(p)] =
                 @ + (IF Turns(Job(p), Written(p)) THEN 1 ELSE 0)]
            /\ LeaveWrite(p, IF Alerts(p) THEN "alert" ELSE After(p))
    /\ UNCHANGED faults

\* _write catches the exception: the COMMIT failed, or its answer was lost.
WriteFails(p) ==
    /\ Writing(p)
    /\ faults < MaxFaults
    /\ faults' = faults + 1
    /\ \E committed \in BOOLEAN :
         /\ committed => ~Collides(p)
         /\ row' = IF committed THEN [row EXCEPT ![Job(p)] = Written(p)] ELSE row
    /\ LeaveWrite(p, After(p))
    /\ UNCHANGED owed

\* The event is sent when the status is committed.
Alert(p) ==
    /\ at[p] = "alert"
    /\ Go(p, "idle")
    /\ owed' = [owed EXCEPT ![Job(p)] = @ - 1]
    /\ UNCHANGED <<row, read, outcome, todo, claimed, confirmed, chainBroken, faults>>

-----------------------------------------------------------------------------
(* The jobs. *)

Working(p) == at[p] \in {"run", "stamping", "upgrading"}

Ends(p, o) ==
    /\ Go(p, "finish")
    /\ outcome' = [outcome EXCEPT ![p] = o]
    /\ todo' = [todo EXCEPT ![p] = {}]
    /\ claimed' = [claimed EXCEPT ![p] = NoAnchor]
    /\ UNCHANGED <<row, read, chainBroken, owed, faults>>

\* Variant: track() lets the exception through, to the scheduler.
RaisesPastTrack(p) ==
    /\ Working(p)
    /\ Go(p, "idle")
    /\ todo' = [todo EXCEPT ![p] = {}]
    /\ claimed' = [claimed EXCEPT ![p] = NoAnchor]
    /\ UNCHANGED <<row, read, outcome, confirmed, chainBroken, owed, faults>>

\* The database went away, say: the job's transaction is rolled back.
Raises(p) ==
    /\ Working(p)
    /\ Ends(p, Said("no"))
    /\ UNCHANGED confirmed

CheckIntegrity(p) ==
    /\ Job(p) = INTEGRITY /\ at[p] = "run"
    /\ Ends(p, IF chainBroken THEN [ok |-> "no", detail |-> "broken"]
                              ELSE [ok |-> "yes", detail |-> "intact"])
    /\ UNCHANGED confirmed

\* The stamp lock is held elsewhere, or taken.
TryStamp(p) ==
    /\ Job(p) = ANCHOR_STAMP /\ at[p] = "run"
    /\ IF \E q \in Runs : at[q] = "stamping"
       THEN Ends(p, Said("neutral"))
       ELSE Go(p, "stamping") /\ UNCHANGED <<row, read, outcome, todo, claimed, chainBroken, owed, faults>>
    /\ UNCHANGED confirmed

\* "anchored", "failed", or "idle" for one of many reasons.
Stamped(p) ==
    /\ at[p] = "stamping"
    /\ \E ok \in {"yes", "no", "neutral"} : Ends(p, Said(ok))
    /\ UNCHANGED confirmed

ListPending(p) ==
    /\ Job(p) = ANCHOR_UPGRADE /\ at[p] = "run"
    /\ Go(p, "upgrading")
    /\ todo' = [todo EXCEPT ![p] = Anchors \ Verified]
    /\ UNCHANGED <<row, read, outcome, claimed, confirmed, chainBroken, owed, faults>>

\* Variant: the anchor is not looked at again.
TrustsTheList(a) == TRUE

StillPending(a) == a \notin Verified

\* One transaction for each anchor: its lock, if nobody has it, and then the
\* anchor read again.
ClaimAnchor(p) ==
    /\ at[p] = "upgrading" /\ claimed[p] = NoAnchor /\ todo[p] # {}
    /\ LET a == Min(todo[p])
       IN  /\ todo' = [todo EXCEPT ![p] = @ \ {a}]
           /\ claimed' = IF StillPending(a) /\ \A q \in Runs : claimed[q] # a
                         THEN [claimed EXCEPT ![p] = a] ELSE claimed
    /\ UNCHANGED <<row, at, read, outcome, confirmed, chainBroken, owed, faults>>

\* upgrade_anchor: a calendar has the attestation, or not yet; a proof that
\* cannot be parsed stays as it is.
UpgradeAnchor(p) ==
    /\ claimed[p] # NoAnchor
    /\ \E attested \in BOOLEAN :
         /\ attested => claimed[p] \notin Unparseable
         /\ confirmed' = [confirmed EXCEPT ![claimed[p]] = @ + (IF attested THEN 1 ELSE 0)]
    /\ claimed' = [claimed EXCEPT ![p] = NoAnchor]
    /\ UNCHANGED <<row, at, read, outcome, todo, chainBroken, owed, faults>>

Upgraded(p) ==
    /\ at[p] = "upgrading" /\ claimed[p] = NoAnchor /\ todo[p] = {}
    /\ Ends(p, Said("yes"))
    /\ UNCHANGED confirmed

-----------------------------------------------------------------------------
\* A row of the audit log is changed behind the application's back.
Tamper ==
    /\ ~chainBroken
    /\ chainBroken' = TRUE
    /\ UNCHANGED <<row, at, read, outcome, todo, claimed, confirmed, owed, faults>>

\* A process dies with all its runs, and is started again.
Crash(w) ==
    LET mine == {p \in Runs : Worker(p) = w}
        Dropped(f, none) == [p \in Runs |-> IF p \in mine THEN none ELSE f[p]]
    IN  /\ \E p \in mine : at[p] # "idle"
        /\ faults < MaxFaults
        /\ faults' = faults + 1
        /\ at' = Dropped(at, "idle")
        /\ read' = Dropped(read, Absent)
        /\ outcome' = Dropped(outcome, NoOutcome)
        /\ todo' = Dropped(todo, {})
        /\ claimed' = Dropped(claimed, NoAnchor)
        /\ owed' = [j \in Jobs |-> owed[j] - (IF at[<<w, j>>] = "alert" THEN 1 ELSE 0)]
        /\ UNCHANGED <<row, confirmed, chainBroken>>

Step(p) ==
    \/ Begin(p) \/ LockRow(p) \/ CommitWrite(p) \/ Alert(p)
    \/ Raises(p) \/ CheckIntegrity(p)
    \/ TryStamp(p) \/ Stamped(p)
    \/ ListPending(p) \/ ClaimAnchor(p) \/ UpgradeAnchor(p) \/ Upgraded(p)

Init ==
    /\ row = [j \in Jobs |-> Absent]
    /\ at = [p \in Runs |-> "idle"]
    /\ read = [p \in Runs |-> Absent]
    /\ outcome = [p \in Runs |-> NoOutcome]
    /\ todo = [p \in Runs |-> {}]
    /\ claimed = [p \in Runs |-> NoAnchor]
    /\ confirmed = [a \in Anchors |-> 0]
    /\ chainBroken = FALSE
    /\ owed = [j \in Jobs |-> 0]
    /\ faults = 0

Next ==
    \/ \E p \in Runs : Step(p) \/ WriteFails(p)
    \/ \E w \in Workers : Crash(w)
    \/ Tamper

\* The scheduler of a worker ticks for ever, and its threads run.
Fairness == \A p \in Runs : WF_vars(Step(p))

Safety == Init /\ [][Next]_vars

Spec == Safety /\ Fairness

-----------------------------------------------------------------------------
(* ops_health.py *)

\* Of failing(), the checks that read a job's row.  (The others compare the
\* age of something with a limit.)
Failing ==
    {"chain_broken" : j \in {j \in Jobs : j = INTEGRITY /\ row[j] # Absent /\ row[j].broken}}
    \cup {"anchor_failing" : j \in {j \in Jobs : j = ANCHOR_STAMP /\ row[j] # Absent
                                               /\ row[j].failures >= FailureRuns}}

-----------------------------------------------------------------------------
(* Properties.                                                             *)

RowType == [failures : 0..FailureRuns, broken : BOOLEAN, alarmed : BOOLEAN]

TypeOK ==
    /\ row \in [Jobs -> RowType \cup {Absent}]
    /\ at \in [Runs -> {"idle", "start", "start write", "run", "stamping", "upgrading",
                        "finish", "finish write", "alert"}]
    /\ read \in [Runs -> RowType \cup {Absent}]
    /\ outcome \in [Runs -> Outcomes]
    /\ todo \in [Runs -> SUBSET Anchors]
    /\ claimed \in [Runs -> Anchors \cup {NoAnchor}]
    /\ faults \in 0..MaxFaults
    \* a row has one writer who has read it, and it is as they read it
    /\ \A p \in Runs : Writing(p) /\ read[p] # Absent => read[p] = row[Job(p)]
    /\ \A p, q \in Runs : p # q => claimed[p] = NoAnchor \/ claimed[p] # claimed[q]

\* "One Sentry event per transition into red ... a restarted worker included"
\* (app/services/worker_status.py:14-17), of two workers too: for every turn
\* somebody has sent it, or is about to, or a fault took that one; and nobody
\* sends another.
OneAlertPerTurn ==
    \A j \in Jobs : owed[j] = Cardinality({w \in Workers : at[<<w, j>>] = "alert"})

\* The flag is what the row says, whichever writers overlapped, and set for each
\* job the endpoint a monitor watches names: its event was sent, or is about to
\* be, or was lost to a fault (OneAlertPerTurn).
HealthAgrees ==
    /\ \A j \in Jobs : row[j] # Absent => row[j].alarmed = Red(j, row[j])
    /\ "chain_broken" \in Failing => row[INTEGRITY].alarmed
    /\ ANCHOR_STAMP \in Jobs /\ row[ANCHOR_STAMP] # Absent =>
         ("anchor_failing" \in Failing <=> row[ANCHOR_STAMP].alarmed)

\* An anchor is confirmed once, whichever replicas list it at the same moment.
ConfirmedOnce == \A a \in Anchors : confirmed[a] <= 1

JobsHold == OneAlertPerTurn /\ HealthAgrees /\ ConfirmedOnce

\* A chain that was tampered with turns the job red for good, though a check
\* that had looked before that may finish last, though checks may fail and
\* status writes may be lost.
TamperingAlarms ==
    INTEGRITY \in Jobs =>
        (chainBroken ~> [](row[INTEGRITY] # Absent /\ row[INTEGRITY].alarmed))
=============================================================================
