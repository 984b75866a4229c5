------------------------------- MODULE Anchoring -------------------------------
(***************************************************************************)
(* The anchoring worker's stamp job, app/services/anchoring.py, beside the *)
(* transactions of AuditChain: replicas of the worker take the rows no     *)
(* anchor covers yet, in one unbroken run of ids, submit the run's Merkle  *)
(* root to the calendars and record the anchor.                            *)
(*                                                                         *)
(* Each step is one statement or one network call of stamp_with_session;   *)
(* the chain moves in between.  A Merkle root is modelled as what it       *)
(* commits to: the row_hash of each row read, by id (module Merkle is      *)
(* about the tree).  The age of a row, the clock minus its created_at,     *)
(* stops counting at Grace, past which nothing tells ages apart.  Of the   *)
(* process's AnchorStatus only waiting_on_audit_id is kept: nothing in     *)
(* this job reads the rest.                                                *)
(***************************************************************************)
EXTENDS AuditChain

CONSTANTS
    Replicas,      \* worker processes that run the job
    NoReplica,     \* nobody holds the stamp lock
    MaxRows,       \* settings.anchor_max_rows
    Grace,         \* 2 * settings.anchor_interval_seconds, in ticks
    MaxCrashes     \* bound: crashes of worker processes

ASSUME AnchoringAssumption ==
    /\ MaxRows \in Nat \ {0}
    /\ Grace \in Nat
    /\ MaxCrashes \in Nat
    /\ NoReplica \notin Replicas

VARIABLES
    age,           \* of each row: ticks since its created_at, at most Grace
    anchors,       \* the merkle_anchor table, in the order of its ids
    accepted,      \* the roots a calendar has accepted (the calendars' state)
    stampLock,     \* who holds pg_try_advisory_xact_lock(_STAMP_LOCK_KEY)
    rpc,           \* where each replica is in the job
    start,         \* the first id the run owes an anchor
    run,           \* the ids of the run, first and last
    root,          \* the root built for them
    waiting,       \* each process's _status.waiting_on_audit_id, 0 for None
    crashes        \* crashes so far

anchorVars ==
    <<age, anchors, accepted, stampLock, rpc, start, run, root, waiting, crashes>>
vars == <<chainVars, anchorVars>>

Nothing == [from |-> 0, to |-> 0]
NoRoot == <<>>

-----------------------------------------------------------------------------
(* What the statements read.                                               *)

Least(S) == CHOOSE i \in S : \A j \in S : i <= j

AnchoredTo == {anchors[k].to : k \in DOMAIN anchors}

\* _next_start; 0 is None: no anchor and no audit row.
NextStart ==
    IF AnchoredTo # {} THEN Greatest(AnchoredTo) + 1
    ELSE IF Committed # {} THEN Least(Committed)
    ELSE 0

\* contiguous_run from id first: up to the row before the first gap, at most
\* MaxRows of them.
RunFrom(first) ==
    [from |-> first,
     to |-> Greatest({i \in first..(first + MaxRows - 1) : first..i \subseteq Committed})]

RootOf(range) ==
    [i \in {j \in Committed : range.from <= j /\ j <= range.to} |-> entry[i].hash]

\* Variant: a gap is waited for as long as it is there.
GapAlwaysHolds(owed, first) == first # owed

\* _resolve_gap_at_start: the id owed is missing, and the oldest row above it is
\* too young for the id to count as burned.
GapHolds(owed, first) == first # owed /\ age[first] < Grace

Covers(anchor, i) == anchor.from <= i /\ i <= anchor.to

Witnessed == {i \in Committed : \E k \in DOMAIN anchors : Covers(anchors[k], i)}

-----------------------------------------------------------------------------
Init ==
    /\ ChainInit
    /\ age = [i \in Ids |-> 0]
    /\ anchors = <<>>
    /\ accepted = {}
    /\ stampLock = NoReplica
    /\ rpc = [r \in Replicas |-> "idle"]
    /\ start = [r \in Replicas |-> 0]
    /\ run = [r \in Replicas |-> Nothing]
    /\ root = [r \in Replicas |-> NoRoot]
    /\ waiting = [r \in Replicas |-> 0]
    /\ crashes = 0

\* A step of the API's transactions.
ChainStep ==
    /\ ChainNext
    /\ age' = [i \in Ids |-> IF status'[i] \in {"inflight", "committed"} THEN age[i] ELSE 0]
    /\ UNCHANGED <<anchors, accepted, stampLock, rpc, start, run, root, waiting, crashes>>

Tick ==
    /\ age' = [i \in Ids |-> IF status[i] \in {"inflight", "committed"} /\ age[i] < Grace
                             THEN age[i] + 1 ELSE age[i]]
    /\ UNCHANGED <<chainVars, anchors, accepted, stampLock, rpc, start, run, root,
                   waiting, crashes>>

\* Variant: the lock belongs to the session, and the session is pooled.
LeaveHoldingLock(r) ==
    /\ UNCHANGED stampLock
    /\ rpc' = [rpc EXCEPT ![r] = "idle"]
    /\ start' = [start EXCEPT ![r] = 0]
    /\ run' = [run EXCEPT ![r] = Nothing]
    /\ root' = [root EXCEPT ![r] = NoRoot]

\* The tick's session closes: its transaction is over and the lock free.
LeaveJob(r) ==
    /\ stampLock' = NoReplica
    /\ rpc' = [rpc EXCEPT ![r] = "idle"]
    /\ start' = [start EXCEPT ![r] = 0]
    /\ run' = [run EXCEPT ![r] = Nothing]
    /\ root' = [root EXCEPT ![r] = NoRoot]

\* The job starts and tries the lock; held elsewhere, it skips this tick.
TryStampLock(r) ==
    /\ rpc[r] = "idle"
    /\ IF stampLock = NoReplica
       THEN stampLock' = r /\ rpc' = [rpc EXCEPT ![r] = "locked"]
       ELSE UNCHANGED <<stampLock, rpc>>
    /\ UNCHANGED <<chainVars, age, anchors, accepted, start, run, root, waiting, crashes>>

\* start = _next_start(db).
ReadStart(r) ==
    /\ rpc[r] = "locked"
    /\ IF NextStart = 0
       THEN LeaveJob(r)
       ELSE /\ start' = [start EXCEPT ![r] = NextStart]
            /\ rpc' = [rpc EXCEPT ![r] = "selecting"]
            /\ UNCHANGED <<stampLock, run, root>>
    /\ UNCHANGED <<chainVars, age, anchors, accepted, waiting, crashes>>

\* The candidates are selected and a gap at the start resolved: with no
\* candidate, or a gap above which the first row is still young, the job
\* leaves; else the run is the unbroken one from the first candidate.
SelectRun(r) ==
    /\ rpc[r] = "selecting"
    /\ LET candidates == {i \in Committed : i >= start[r]}
           first == Least(candidates)
       IN  IF candidates = {} \/ GapHolds(start[r], first)
           THEN /\ LeaveJob(r)
                /\ waiting' = [waiting EXCEPT ![r] =
                                 IF candidates = {} THEN 0 ELSE start[r]]
           ELSE /\ run' = [run EXCEPT ![r] = RunFrom(first)]
                /\ rpc' = [rpc EXCEPT ![r] = "building"]
                /\ waiting' = [waiting EXCEPT ![r] = 0]
                /\ UNCHANGED <<stampLock, start, root>>
    /\ UNCHANGED <<chainVars, age, anchors, accepted, crashes>>

\* Variant: the second read has no upper bound.
BuildRootOfAll(r) ==
    /\ rpc[r] = "building"
    /\ root' = [root EXCEPT ![r] = RootOf([from |-> run[r].from, to |-> MaxId])]
    /\ rpc' = [rpc EXCEPT ![r] = "submitting"]
    /\ UNCHANGED <<chainVars, age, anchors, accepted, stampLock, start, run, waiting, crashes>>

\* The rows of the run are read once more, for their hashes.
BuildRoot(r) ==
    /\ rpc[r] = "building"
    /\ root' = [root EXCEPT ![r] = RootOf(run[r])]
    /\ rpc' = [rpc EXCEPT ![r] = "submitting"]
    /\ UNCHANGED <<chainVars, age, anchors, accepted, stampLock, start, run, waiting, crashes>>

\* ots.stamp: at least one calendar accepts the root.
Accept(r) ==
    /\ rpc[r] = "submitting"
    /\ accepted' = accepted \cup {root[r]}
    /\ rpc' = [rpc EXCEPT ![r] = "recording"]
    /\ UNCHANGED <<chainVars, age, anchors, stampLock, start, run, root, waiting, crashes>>

\* CalendarUnavailable: no calendar does.
Refuse(r) ==
    /\ rpc[r] = "submitting"
    /\ LeaveJob(r)
    /\ UNCHANGED <<chainVars, age, anchors, accepted, waiting, crashes>>

\* Variant: the range is half open, to the first row of the next run.
RecordHalfOpen(r) ==
    /\ rpc[r] = "recording"
    /\ anchors' = Append(anchors, [from |-> run[r].from, to |-> run[r].to + 1, root |-> root[r]])
    /\ LeaveJob(r)
    /\ UNCHANGED <<chainVars, age, accepted, waiting, crashes>>

\* The anchor is inserted and run_stamp commits.
RecordAnchor(r) ==
    /\ rpc[r] = "recording"
    /\ anchors' = Append(anchors, [from |-> run[r].from, to |-> run[r].to, root |-> root[r]])
    /\ LeaveJob(r)
    /\ UNCHANGED <<chainVars, age, accepted, waiting, crashes>>

\* The worker process dies and is started again: its transaction is rolled
\* back, its locks are released, its module state is gone.
Crash(r) ==
    /\ crashes < MaxCrashes
    /\ crashes' = crashes + 1
    /\ rpc[r] # "idle"
    /\ LeaveJob(r)
    /\ waiting' = [waiting EXCEPT ![r] = 0]
    /\ UNCHANGED <<chainVars, age, anchors, accepted>>

JobStep(r) ==
    \/ TryStampLock(r)
    \/ ReadStart(r)
    \/ SelectRun(r)
    \/ BuildRoot(r)
    \/ Accept(r)
    \/ Refuse(r)
    \/ RecordAnchor(r)

Next ==
    \/ ChainStep
    \/ Tick
    \/ \E r \in Replicas : JobStep(r) \/ Crash(r)

Safety == Init /\ [][Next]_vars

\* Time passes; APScheduler starts the job again and again and each step of it
\* returns; a calendar that is asked again and again accepts in the end.
Fairness ==
    /\ WF_vars(Tick)
    /\ \A r \in Replicas : WF_vars(JobStep(r)) /\ SF_vars(Accept(r))

Spec == Safety /\ Fairness

-----------------------------------------------------------------------------
(* Properties.                                                             *)

\* Type invariant.
AnchorTypeOK ==
    /\ age \in [Ids -> 0..Grace]
    /\ \A k \in DOMAIN anchors :
          /\ anchors[k].from \in Ids /\ anchors[k].to \in Ids
          /\ anchors[k].from <= anchors[k].to
    /\ stampLock \in Replicas \cup {NoReplica}
    /\ rpc \in [Replicas -> {"idle", "locked", "selecting", "building",
                             "submitting", "recording"}]
    /\ \A r \in Replicas :
          /\ start[r] \in 0..(MaxId + 1)
          /\ rpc[r] # "idle" <=> stampLock = r
          /\ rpc[r] \in {"building", "submitting", "recording"} <=> run[r] # Nothing
          /\ waiting[r] \in 0..MaxId
    /\ crashes \in 0..MaxCrashes

\* Every committed row that is not above the newest anchor is covered, and by
\* one anchor alone: no run skips a row, in flight or committed, that a later
\* run would not come back to, and no two replicas anchor the same row.
CoveredOnce ==
    \A i \in Committed, k \in DOMAIN anchors :
        i <= anchors[k].to =>
            \E m \in DOMAIN anchors :
                /\ Covers(anchors[m], i)
                /\ \A n \in DOMAIN anchors : Covers(anchors[n], i) => n = m

\* An anchor's root is, now as when it was built, the one of exactly the rows
\* its range covers, what the public proof of each of them is checked with; and
\* it is one a calendar accepted, whatever crashes (anchoring.py:223-225).
RootsStand ==
    \A k \in DOMAIN anchors :
        anchors[k].root = RootOf(anchors[k]) /\ anchors[k].root \in accepted

\* Anchoring implements PublicWitness: the covered rows are always a prefix of
\* the committed ones.
Witness == INSTANCE PublicWitness WITH committed <- Committed, witnessed <- Witnessed
WitnessesPrefix == Witness!Spec

\* Every committed row is anchored in the end: a burned id, a calendar's
\* outage, a crash or another replica delays the witness and never stops it.
EventuallyWitnessed == \A i \in Ids : i \in Committed ~> i \in Witnessed
=============================================================================
