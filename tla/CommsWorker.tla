----------------------------- MODULE CommsWorker -----------------------------
(***************************************************************************)
(* Milestone notifications: app/services/comms_worker.py and dispatch() of *)
(* app/services/comms.py.  Replicas of the worker derive a notice for each *)
(* channel from the committed milestone rows of the audit log, claim them, *)
(* and send them through a provider that may refuse, or accept without its *)
(* answer arriving.                                                        *)
(*                                                                         *)
(* A notice is a row of `communications`, named by its UNIQUE              *)
(* (source_audit_id, channel).  The farmer of every milestone is one and   *)
(* the same, which leaves one consent for each channel.  Only whether a    *)
(* claim is older than comms_claim_timeout_seconds is kept of its time.    *)
(***************************************************************************)
EXTENDS Naturals, FiniteSets, FiniteSetsExt

CONSTANTS
    Replicas, NoNotice,
    Milestones,    \* the milestone rows of the audit log
    Channels,      \* a subset of "sms", "email"
    MaxAttempts,   \* comms_max_attempts
    BatchSize,     \* comms_batch_size
    MaxCrashes,    \* bound: ticks cut off by a crash or an exception
    MaxChanges     \* bound: how often the farmer changes a consent

ASSUME CountsAssumption ==
    /\ MaxAttempts \in Nat \ {0} /\ BatchSize \in Nat \ {0}
    /\ MaxCrashes \in Nat /\ MaxChanges \in Nat
ASSUME ChannelsAssumption == Channels \subseteq {"sms", "email"}

Notices == Milestones \X Channels

ASSUME NoNoticeAssumption == NoNotice \notin Notices

VARIABLES
    \* the database
    written,       \* the milestones whose audit row is committed
    old,           \* those past comms_lookback_hours
    consent,       \* of each channel: what has_consent answers
    status,        \* of each notice, "none" without a row
    attempts,      \* of each notice
    stale,         \* the notices whose claim is past the timeout
    onRecord,      \* of each notice: its "communication.sent" audit rows
    \* each replica of the worker
    pc,
    pending,       \* the milestones its enqueue found without a notice
    seen,          \* the channels whose consent its enqueue read as given
    ids,           \* the notices it claimed and has not come to
    current,       \* the notice whose row it has locked while it sends
    \* the provider and what went wrong
    delivered,     \* of each notice: messages the provider accepted
    unheard,       \* of each notice: acceptances that were never recorded
    crashes, changes

database == <<written, old, consent, status, attempts, stale, onRecord>>
world == <<delivered, unheard>>
vars == <<database, pc, pending, seen, ids, current, world, crashes, changes>>

Statuses == {"queued", "sending", "sent", "failed", "skipped"}
Settled == {"sent", "failed", "skipped"}

\* The rows some replica holds FOR UPDATE across its call to the provider.
Locked == {current[w] : w \in Replicas} \ {NoNotice}

Unnoticed == {m \in written \ old : \A c \in Channels : status[<<m, c>>] = "none"}

Init ==
    /\ written = {} /\ old = {}
    /\ consent \in [Channels -> BOOLEAN]
    /\ status = [n \in Notices |-> "none"]
    /\ attempts = [n \in Notices |-> 0]
    /\ stale = {}
    /\ onRecord = [n \in Notices |-> 0]
    /\ pc = [w \in Replicas |-> "idle"]
    /\ pending = [w \in Replicas |-> {}]
    /\ seen = [w \in Replicas |-> {}]
    /\ ids = [w \in Replicas |-> {}]
    /\ current = [w \in Replicas |-> NoNotice]
    /\ delivered = [n \in Notices |-> 0]
    /\ unheard = [n \in Notices |-> 0]
    /\ crashes = 0 /\ changes = 0

-----------------------------------------------------------------------------
(* The API, the farmer and time.                                           *)

\* A transition commits with its milestone row.
WriteMilestone(m) ==
    /\ m \notin written
    /\ written' = written \cup {m}
    /\ UNCHANGED <<old, consent, status, attempts, stale, onRecord, pc, pending, seen, ids,
                   current, world, crashes, changes>>

\* Once a milestone has its notices its age is of no account.
LeaveWindow(m) ==
    /\ m \in Unnoticed
    /\ old' = old \cup {m}
    /\ UNCHANGED <<written, consent, status, attempts, stale, onRecord, pc, pending, seen, ids,
                   current, world, crashes, changes>>

ChangeConsent(c) ==
    /\ changes < MaxChanges
    /\ consent' = [consent EXCEPT ![c] = ~@]
    /\ changes' = changes + 1
    /\ UNCHANGED <<written, old, status, attempts, stale, onRecord, pc, pending, seen, ids,
                   current, world, crashes>>

ClaimTimesOut(n) ==
    /\ status[n] = "sending" /\ n \notin stale
    /\ stale' = stale \cup {n}
    /\ UNCHANGED <<written, old, consent, status, attempts, onRecord, pc, pending, seen, ids,
                   current, world, crashes, changes>>

-----------------------------------------------------------------------------
(* enqueue().                                                              *)

\* The anti-join, and the end of enqueue() if it finds nothing.
FindPending(w) ==
    /\ pc[w] = "idle"
    /\ pending' = [pending EXCEPT ![w] = Unnoticed]
    /\ pc' = [pc EXCEPT ![w] = IF Unnoticed = {} THEN "claiming" ELSE "reading"]
    /\ UNCHANGED <<database, seen, ids, current, world, crashes, changes>>

\* has_consent, in SELECTs that end before the INSERT starts.
ReadConsents(w) ==
    /\ pc[w] = "reading"
    /\ seen' = [seen EXCEPT ![w] = {c \in Channels : consent[c]}]
    /\ pc' = [pc EXCEPT ![w] = "enqueueing"]
    /\ UNCHANGED <<database, pending, ids, current, world, crashes, changes>>

\* What _row() may write for a channel: whether the contact on file can be
\* used is up to the farmer's record.
RowStatus(w, c) ==
    IF c \notin seen[w] THEN {"skipped"}
    ELSE IF c = "sms" THEN {"queued", "failed"}
    ELSE {"queued", "failed", "skipped"}

\* Variant: an upsert in place of ON CONFLICT DO NOTHING.
Overwritten(w) == {n \in Notices : n[1] \in pending[w]}

\* The rows the INSERT is not turned down for.
Inserted(w) == {n \in Notices : n[1] \in pending[w] /\ status[n] = "none"}

\* The INSERT of both channels' rows and the commit.
InsertNotices(w) ==
    /\ pc[w] = "enqueueing"
    /\ \E row \in [Channels -> Statuses] :
         /\ \A c \in Channels : row[c] \in RowStatus(w, c)
         /\ status' = [n \in Notices |-> IF n \in Inserted(w) THEN row[n[2]] ELSE status[n]]
         /\ attempts' = [n \in Notices |->
              IF n \in Inserted(w) THEN IF row[n[2]] = "failed" THEN MaxAttempts ELSE 0
              ELSE attempts[n]]
    /\ pending' = [pending EXCEPT ![w] = {}]
    /\ seen' = [seen EXCEPT ![w] = {}]
    /\ pc' = [pc EXCEPT ![w] = "claiming"]
    /\ UNCHANGED <<written, old, consent, stale, onRecord, ids, current, world, crashes, changes>>

-----------------------------------------------------------------------------
(* claim().                                                                *)

Claimable ==
    {n \in Notices : /\ attempts[n] < MaxAttempts
                     /\ status[n] = "queued" \/ (status[n] = "sending" /\ n \in stale)}

\* FOR UPDATE SKIP LOCKED, marked `sending` and committed.
Claim(w) ==
    /\ pc[w] = "claiming"
    /\ \E S \in SUBSET (Claimable \ Locked) :
         /\ Cardinality(S) = Min({BatchSize, Cardinality(Claimable \ Locked)})
         /\ status' = [n \in Notices |-> IF n \in S THEN "sending" ELSE status[n]]
         /\ stale' = stale \ S
         /\ ids' = [ids EXCEPT ![w] = S]
    /\ pc' = [pc EXCEPT ![w] = "sending"]
    /\ UNCHANGED <<written, old, consent, attempts, onRecord, pending, seen, current, world,
                   crashes, changes>>

-----------------------------------------------------------------------------
(* run(): one transaction for each claimed notice.                         *)

\* Variant: the row is read without FOR UPDATE.
ReachesUnlocked(w, n) == pc[w] = "sending" /\ n \in ids[w]

\* Replica w gets the row lock of one of its notices.
Reaches(w, n) == pc[w] = "sending" /\ n \in ids[w] /\ n \notin Locked

\* Another replica has dealt with it meanwhile.
LostRace(w, n) ==
    /\ Reaches(w, n)
    /\ status[n] # "sending"
    /\ ids' = [ids EXCEPT ![w] = @ \ {n}]
    /\ UNCHANGED <<database, pc, pending, seen, current, world, crashes, changes>>

\* dispatch() finds no consent any more.
SkipNotice(w, n) ==
    /\ Reaches(w, n)
    /\ status[n] = "sending"
    /\ ~consent[n[2]]
    /\ status' = [status EXCEPT ![n] = "skipped"]
    /\ stale' = stale \ {n}
    /\ ids' = [ids EXCEPT ![w] = @ \ {n}]
    /\ UNCHANGED <<written, old, consent, attempts, onRecord, pc, pending, seen, current, world,
                   crashes, changes>>

CallProviderIf(w, n, ok) ==
    /\ Reaches(w, n)
    /\ ok
    /\ ids' = [ids EXCEPT ![w] = @ \ {n}]
    /\ current' = [current EXCEPT ![w] = n]
    /\ pc' = [pc EXCEPT ![w] = "calling"]
    /\ UNCHANGED <<database, pending, seen, world, crashes, changes>>

\* Variant: the row's status is not looked at again.
CallAnyway(w, n) == CallProviderIf(w, n, consent[n[2]])

\* Variant: the consent read when the notice was queued is good enough.
CallUnasked(w, n) == CallProviderIf(w, n, status[n] = "sending")

\* The message is on its way, and the row stays locked meanwhile.
CallProvider(w, n) == CallProviderIf(w, n, status[n] = "sending" /\ consent[n[2]])

Accept(w) ==
    /\ pc[w] = "calling"
    /\ delivered' = [delivered EXCEPT ![current[w]] = @ + 1]
    /\ pc' = [pc EXCEPT ![w] = "accepted"]
    /\ UNCHANGED <<database, pending, seen, ids, current, unheard, crashes, changes>>

\* The transaction of replica w's current notice ends, leaving `to`.
Conclude(w, to) ==
    /\ status' = [status EXCEPT ![current[w]] = to]
    /\ attempts' = [attempts EXCEPT ![current[w]] = @ + 1]
    /\ stale' = stale \ {current[w]}
    /\ current' = [current EXCEPT ![w] = NoNotice]
    /\ pc' = [pc EXCEPT ![w] = "sending"]
    /\ UNCHANGED <<written, old, consent, pending, seen, ids, crashes, changes>>

\* `sent` and the audit row, committed together.
RecordSent(w) ==
    /\ pc[w] = "accepted"
    /\ Conclude(w, "sent")
    /\ onRecord' = [onRecord EXCEPT ![current[w]] = @ + 1]
    /\ UNCHANGED world

\* Variant: a failed notice always goes back into the queue.
AlwaysRetry(n) == "queued"

\* A failure is final at the last attempt.
AfterFailure(n) == IF attempts[n] + 1 < MaxAttempts THEN "queued" ELSE "failed"

Fail(w) ==
    /\ pc[w] = "calling"
    /\ Conclude(w, AfterFailure(current[w]))
    /\ UNCHANGED <<onRecord, world>>

\* The provider took the message, and its answer came too late.
FailThoughAccepted(w) ==
    /\ pc[w] = "calling"
    /\ delivered' = [delivered EXCEPT ![current[w]] = @ + 1]
    /\ unheard' = [unheard EXCEPT ![current[w]] = @ + 1]
    /\ Conclude(w, AfterFailure(current[w]))
    /\ UNCHANGED onRecord

EndTick(w) ==
    /\ pc[w] = "sending"
    /\ ids[w] = {}
    /\ pc' = [pc EXCEPT ![w] = "idle"]
    /\ UNCHANGED <<database, pending, seen, ids, current, world, crashes, changes>>

\* The process dies, or an error ends the tick: its transaction rolls back,
\* and what it claimed stays `sending`.
Crash(w) ==
    /\ pc[w] # "idle"
    /\ crashes < MaxCrashes
    /\ crashes' = crashes + 1
    /\ unheard' = IF pc[w] = "accepted" THEN [unheard EXCEPT ![current[w]] = @ + 1]
                                        ELSE unheard
    /\ pc' = [pc EXCEPT ![w] = "idle"]
    /\ pending' = [pending EXCEPT ![w] = {}]
    /\ seen' = [seen EXCEPT ![w] = {}]
    /\ ids' = [ids EXCEPT ![w] = {}]
    /\ current' = [current EXCEPT ![w] = NoNotice]
    /\ UNCHANGED <<database, delivered, changes>>

-----------------------------------------------------------------------------
Tick(w) ==
    \/ FindPending(w)
    \/ ReadConsents(w)
    \/ InsertNotices(w)
    \/ Claim(w)
    \/ \E n \in Notices : LostRace(w, n) \/ SkipNotice(w, n) \/ CallProvider(w, n)
    \/ Accept(w) \/ RecordSent(w) \/ Fail(w) \/ FailThoughAccepted(w)
    \/ EndTick(w)

Next ==
    \/ \E m \in Milestones : WriteMilestone(m) \/ LeaveWindow(m)
    \/ \E c \in Channels : ChangeConsent(c)
    \/ \E n \in Notices : ClaimTimesOut(n)
    \/ \E w \in Replicas : Tick(w) \/ Crash(w)

\* The scheduler starts tick after tick, every provider call has a timeout, and
\* claims grow old.  Nothing is assumed of what the provider answers.
Fairness ==
    /\ \A w \in Replicas : WF_vars(Tick(w))
    /\ \A n \in Notices : WF_vars(ClaimTimesOut(n))

Safety == Init /\ [][Next]_vars
Spec == Safety /\ Fairness

-----------------------------------------------------------------------------
(* Properties.                                                             *)

\* Type invariant.  Two replicas never send one notice at the same time.
TypeOK ==
    /\ old \subseteq written /\ written \subseteq Milestones
    /\ consent \in [Channels -> BOOLEAN]
    /\ status \in [Notices -> Statuses \cup {"none"}]
    /\ attempts \in [Notices -> 0..MaxAttempts]
    /\ stale \subseteq {n \in Notices : status[n] = "sending"}
    /\ pc \in [Replicas -> {"idle", "reading", "enqueueing", "claiming", "sending",
                            "calling", "accepted"}]
    /\ pending \in [Replicas -> SUBSET Milestones]
    /\ seen \in [Replicas -> SUBSET Channels]
    /\ ids \in [Replicas -> SUBSET Notices]
    /\ current \in [Replicas -> Notices \cup {NoNotice}]
    /\ \A w \in Replicas : current[w] # NoNotice <=> pc[w] \in {"calling", "accepted"}
    /\ \A w, v \in Replicas : w # v /\ current[w] = current[v] => current[w] = NoNotice

\* However replicas, claims that time out and crashes interleave, a message
\* reaches the farmer more than once only if the acceptance of another one was
\* lost: the duplicates are the price app/services/comms_worker.py:29-33 names
\* and no others, and they end with comms_max_attempts, save for those whose
\* count a crash rolled back with their transaction ("within a bounded number
\* of attempts", app/services/sms.py:8-10).  A notice marked `sent` has been
\* delivered and has one communication.sent row in the audit log, and no other
\* notice has any.
DuplicatesAreExplained ==
    \A n \in Notices :
        LET sent == IF status[n] = "sent" THEN 1 ELSE 0
        IN  /\ onRecord[n] = sent
            /\ delivered[n] = unheard[n] + sent
                    + Cardinality({w \in Replicas : current[w] = n /\ pc[w] = "accepted"})
            /\ delivered[n] <= MaxAttempts + crashes

\* How many messages of n are out, or may be any moment.
WithProvider(n) == \E w \in Replicas : current[w] = n /\ pc[w] = "calling"
Outgoing(n) == delivered[n] + IF WithProvider(n) THEN 1 ELSE 0

\* A notice that is sent, given up or skipped stays so: a replica whose claim
\* was taken over never reopens it or writes over another's outcome.  And no
\* further message sets out for it, nor on a channel from the moment its consent
\* is withdrawn, though the notice was queued under the consent that was, even
\* after it ended, though it is claimed, or tried again after a failure or a
\* crash; what may still arrive was with the provider by then ("Consent is
\* checked again at send time, because a farmer may withdraw in between",
\* app/services/comms_worker.py:26-28).
SettledOrWithdrawnIsOver ==
    [][\A n \in Notices :
        /\ status[n] \in Settled => status'[n] = status[n]
        /\ status[n] \in Settled \/ ~consent[n[2]] => Outgoing(n)' <= Outgoing(n)]_vars

\* A milestone inside the window gets its notices, and every notice is settled
\* in the end, whatever the provider answers and whichever replica dies.
EveryNoticeSettles ==
    /\ \A m \in Milestones : m \in written ~> m \notin Unnoticed
    /\ \A n \in Notices : status[n] = "queued" ~> status[n] \in Settled
=============================================================================
