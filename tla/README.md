# Apichain backend: formal verification

TLA+ models of the Apichain backend, checked with TLC, and proofs about them checked with
TLAPS. The models are translated from the Python source; paths below are relative to the
repository.

The backend records the life of a honey batch, from hive to retailer, so that a consumer
who scans a jar can tell whether what they are shown is what was recorded. It does so in
layers: a batch moves through a fixed lifecycle; every change appends to a hash-chained
audit log in the same transaction; a worker anchors the log to a public witness
(OpenTimestamps, Bitcoin); and a public endpoint compares stage tables, log and anchors.
What makes it hard is that all of this happens in concurrent PostgreSQL transactions at
READ COMMITTED, next to worker replicas, network calls that fail or whose answers are
lost, and clients that retry.

1. [The system](#1-the-system)
2. [The plan](#2-the-plan)
3. [The modules](#3-the-modules)
4. [The runs](#4-the-runs)
5. [The proofs](#5-the-proofs)
6. [What the checks found](#6-what-the-checks-found)
7. [What is not modelled](#7-what-is-not-modelled)

To run: `tlc -config X.cfg M` for a module `M` and its configuration, `tlapm M.tla` for a
module of proofs. `PROJECT.json` lists the runs, the source lines of every definition, the
hazards with the properties that watch over them, and for each property a plausible bug
(a *variant* in the module) that the property catches.

## 1. The system

Two kinds of process share one PostgreSQL database: API processes (FastAPI, `app/main.py`)
and worker processes (APScheduler, `app/worker.py`). Every request and every job runs in
sessions of its own with `autoflush=False` and the default isolation. Nothing is shared
between processes except the database; several API and worker processes may run at once.

| Component (source) | State | Operations | Interacts with |
|---|---|---|---|
| **Audit log** (`services/audit_log.py`) | `audit_log`, the id sequence, one advisory lock | `append`, `verify_chain` | every handler appends inside its own transaction |
| **Batch writes** (`routers/batches.py`, `services/stage_writer.py`, `transitions.py`) | `honey_batches.state`, seven stage tables, `codex_conformance` | `create_batch`, five transitions | idempotency keys, audit log |
| **Idempotency keys** (`services/idempotency.py`) | `idempotency_keys` | `begin`, `finish`, `completed` | all write handlers that take the header |
| **Anchoring** (`services/anchoring.py`, `ots.py`) | `merkle_anchor`, an in-process `AnchorStatus`, advisory locks | `run_stamp`, `run_upgrade`, `backlog` | reads the audit log; calls calendars |
| **Consumer verification** (`services/verification.py`, `anchor_proof.py`, `merkle.py`) | none | `verify_batch`, `entries_for_subject`, offline `verify_anchor` | reads everything above |
| **Notifications** (`services/comms_worker.py`, `comms.py`) | `communications` | `enqueue`, `claim`, `dispatch` | reads the audit log and consents; calls SMS and mail providers; appends |
| **Sign-in** (`routers/auth.py`, `services/refresh_tokens.py`) | `refresh_tokens` | login, rotate, revoke, change password | rate limits, audit log |
| **Users** (`services/users.py`, `routers/users.py`, `bootstrap.py`) | `users` | create, deactivate, reset password, bootstrap the root | refresh tokens, audit log |
| **Rate limits** (`services/rate_limit.py`) | `rate_limit_events`, an advisory lock for each key | `take`, `ensure_allowed`, `record`, `clear`, `prune` | transactions of its own, next to the request's |
| **Verification codes** (`routers/verifications.py`) | `verification_codes` | send, confirm | dispatches inline; consent; audit log |
| **Consent** (`services/consent.py`, `routers/farmers.py`) | `consent_records`, append-only | grant, withdraw, latest | read by documents, codes, notifications |
| **Documents** (`routers/documents.py`) | `documents`, an object store | upload, list, signed URL | scanner, store, consent |
| **Enrolment and apiaries** (`routers/farmers.py`, `routers/apiaries.py`) | `users`, `farmers`, `apiary_locations` | enrol, create an apiary | idempotency keys, consent, a geocoder, audit log |
| **Worker and job status** (`worker.py`, `services/worker_status.py`, `ops_health.py`) | `worker_status` | the schedule, start, finish, alert, health | runs the jobs of the audit log, anchoring and notifications |

### What is hard in each, and what makes it correct

**Audit log.** Appenders race for the tail; ids come from a sequence that no rollback gives
back; commits need not follow id order unless something makes them. Correct means that the
chain verifies at every moment from every id, that no committed row is missing from the
hash at its head, and that whoever waits for the lock gets it.

**Batch writes and keys.** A retry may overtake its original; two actors may advance one
batch; anything that fails after `append` burns an id, and everything before it must fail
cleanly. Correct means that the state, the stage rows and the audit rows of a batch tell
one story, that a key does its work once and replays that answer, and that handlers do not
deadlock on keys, batch rows and the chain lock.

**Anchoring.** It must never skip a row, although ids have gaps, and it decides with a
clock whether a gap is a row still to come; replicas, calendar outages and crashes come in
between. Correct means that the covered rows are always the oldest committed rows, each
covered once by a root that stays the root of its range, and that in the end all are.

**Consumer verification.** It reads six tables in separate statements while others write,
and gives a meaning to three comparisons. Correct means that honest data matches, that every
proof verifies however the log was cut, and that an edit shows in one of the three ways.

**Notifications.** Claims time out while a slow replica still holds them; providers accept
messages whose answer is lost. Correct means no duplicate that a lost acceptance does not
explain, an audit row for exactly the messages marked sent, bounded attempts, outcomes that
are final, and that each notice is settled.

**Accounts.** A phone whose answer was lost presents a spent token; an admin resets an account
while its owner signs in; two admins deactivate each other. Row locks, the foreign key of a
token and PostgreSQL's re-check of a row it waited for decide what happens. Correct means one
good successor of a token, no session that survives a reset, no renewal by an inactive
account, always an admin, and no lasting use of a password somebody else chose.

**Limits and codes.** The limits commit apart from the request, their clocks are read before
they wait for a lock, and failures are counted after the attempt. Correct means limits that
hold exactly for attempts and up to the open requests for failures, one good code, counted
guesses, and an announced wait that is long enough.

**Farmers.** The upload goes through a scanner and a store that can fail or not answer; a
withdrawal of consent meets an officer's grant; an apiary's transaction is in two parts with
a call between them. Correct means one profile with its consent for a phone, documents within
the quota that are scanned and stored, one apiary for a key, and that only a grant under
way can override the farmer's own withdrawal.

**Worker.** Several workers write one status row for each job, and any of them may die or fail
to write. Correct means one alert for each turn into red, a flag that is set for every job the
health endpoint names, one confirmation of an anchor, and that a broken chain ends in an alarm
that stays.

## 2. The plan

Order: what the public promise of the system rests on first.

| # | Module | Status | Abstract specification | Theorems |
|---|---|---|---|---|
| 1 | `AuditChain` | done | `AppendOnlyLog`, done | proved, with the refinement |
| 2 | `Anchoring` (extends 1) | done | `PublicWitness`, done | proved, with the refinement |
| 3 | `StageWriter` | done | `BatchLifecycle`, done | proved, with the refinement |
| 4 | `CommsWorker` | done | | proved |
| 5 | `Merkle`, `Codex`, `Verification` | done | | proved, with the completeness and soundness of the tree |
| 6 | `Accounts` | done | | proved |
| 7 | `RateLimits`, `VerificationCodes` (extends it) | done | | proved |
| 8 | `Farmers` | done | | proved |
| 9 | `WorkerJobs` | done | | proved |

Proved means: every safety property of the component's run, and its type, for every value of
the constants; section 5 says from what, and what of it stays with the model checker.

Left: a clock in `WorkerJobs` for the health checks that compare an age with a limit.

## 3. The modules

One module for each component. Common conventions: an action is one SQL statement or one
network call when another actor can tell, or a whole handler when none can; a transaction's
uncommitted writes are visible to itself alone, but its locks and the unique keys it has
inserted make others wait; ending a transaction releases its locks; a crash rolls back. The
constant `Max...` parameters are bounds, each named as such where it is declared. A
definition commented "Variant" is a plausible bug, and not part of the specification.

### AuditChain, AppendOnlyLog

`append()` is four steps: the call (`CallAppend`), the advisory lock (`TakeChainLock`), the
SELECT of the tail (`ReadTail`: committed rows and the transaction's own), the INSERT
(`Insert`, which draws an id). A transaction may append several times and then `Commit`s or
`Rollback`s, which stands for every error, cancelled wait and crash. The hash of a row is
modelled as the sequence of all bodies it commits to, that is, as an injective function of
the previous hash and the row. `verify_chain` is the state function `Divergences`.

`AppendOnlyLog` is the promise: a sequence that only grows at its end. `AppendOnly` says
that the head hash of the chain behaves so.

### Anchoring, PublicWitness, Anchoring_proofs

The proofs about `AuditChain` are in `Anchoring_proofs` as well, ahead of those about the module
that extends it.

`Anchoring` extends `AuditChain`: the same transactions go on while replicas run
`stamp_with_session` statement by statement (`TryStampLock`, `ReadStart`, `SelectRun`,
`BuildRoot`, `Accept` or `Refuse`, `RecordAnchor`), each with a process-local
`waiting_on_audit_id`, and may `Crash` anywhere. The age of a row counts ticks up to `Grace`,
which is what `_resolve_gap_at_start` compares. A root is what it commits to. The exclusion
constraint on the ranges of `merkle_anchor` is not modelled, and `CoveredOnce` holds without
it: it is a backstop, as its comment says.

`PublicWitness` is the promise: what is witnessed is always a prefix of what is committed, and
each committed row is witnessed in the end. The upgrade of an anchor is in `WorkerJobs`.

### StageWriter, BatchLifecycle, StageWriter_proofs

A request is `Send`, `Reserve` (the INSERT of its key, which waits for a concurrent holder),
`Replay` or `KeyConflict`, then for a creation `InsertBatch` or `BatchCodeTaken`, for a
transition `LockBatch` (FOR UPDATE), `BatchNotFound`, `InsertStage` or `StageRefused`, and
for both `AppendRow`, `Finish` and `Commit`. `NotTheirs` is the refusal of a caller who may
not act for the farmer, wherever the code asks. One `append` is one step, which `AuditChain`
justifies: its rows commit in the order of their ids, so a batch's rows form a sequence.

`BatchLifecycle` is the promise: batches are created once and advance one stage at a time,
each stage with its rows. The table of stages that may follow is a constant, which
`StageWriter` fills with `LEGAL`.

### CommsWorker, CommsWorker_proofs

A tick of a replica: `FindPending` (the anti-join of `enqueue`), `ReadConsents` (the consent
each new row starts from, which may be old by the time the row is there), `InsertNotices` (on
conflict do nothing), `Claim` (queued rows and stale claims, SKIP LOCKED), then for each notice
`LostRace` (it is no longer `sending`), `SkipNotice` (consent withdrawn) or `CallProvider`
under the row's lock, and `Accept`, `RecordSent`, `Fail`, or `FailThoughAccepted` (the answer
was lost). `ClaimTimesOut` is time passing; `ChangeConsent`, `WriteMilestone` and
`LeaveWindow` (the lookback) are the surroundings. `delivered` counts what the provider
accepted and `unheard` the acceptances that were never recorded: both are the farmer's view.

### Merkle, Codex, Verification, Verification_proofs

`Merkle` is `services/merkle.py` as operators: levels, promotion of an odd node, inclusion
proofs and their check. Where the code loops there is a recursive function: `Levels` of
`_next_level`, `Places` of the index that `inclusion_proof` carries from level to level, `Climb`
of the hash that `verify_inclusion` carries along a path. A hash is the term it is applied to.
`Codex` is
`services/codex_scoring.py`: the two frozen rule sets, the check of one parameter in
hundredths of its unit, and the verdict. `MCVerification` assumes, and TLC evaluates, that
the verdict of panels at, just above and just below each limit, whole and with nothing else
measured, is what a reference reading of the standard gives.

`Verification` follows one answer of `verify_batch`: `ReadEntries` (`entries_for_subject`),
`ReadRows` (the audit rows), `ReadConformance`, and one `ReadBlock` for each stage table,
with `Transition`, `OtherRow`, `Anchor`, `Upgrade` and `MoveDefault` (a release makes the
other rule set the default) in between. A transition (`Chained`: an `append` for each of its
actions), an append and an anchoring run are one step each: `StageWriter`, `AuditChain` and
`Anchoring` model how they come about. Edits of the database change a stage row, the
conformance row, or an audit row with none, one or all of the hashes that follow from it.
`Match` and `Conformance` are the answer; `Proven` is the offline check of
`scripts/verify_anchor.py`. The lifecycle is a constant: `Commits` says what actions each
commit appends, and `BlockOrder` in which order the stage tables are read.

### Accounts, Accounts_proofs

`Present` and `PresentExpired`, `Login`, `Logout`, `ChangePassword`, `Deactivate`,
`ResetPassword`, `ResetRoot`, `CreateUser` and `Bootstrap` are the first statements of the
requests. What follows is shared: `LockAdmin` (one row of `lock_active_admins` at a time),
`Target` (`_user_or_404` FOR UPDATE and the rules), `CountOthers`, `SweepRow` and `SweepDone`
(the UPDATE of `_revoke_all_for_user`, row by row over the tokens committed when it started),
`Retire` (the grace path), `Issue` (the INSERT of a token and the key-share lock its foreign
key takes on the user), `UpdateUser` (the flush) and `Commit`. `PathOf` is the decision of
`rotate` once it holds the row. `DeadlockVictim` is PostgreSQL ending a circle of waits.
Committed rows change at `Commit`; until then a change shows to others as a lock.

### RateLimits, VerificationCodes, VerificationCodes_proofs

A request is `Begin`, then one `LetThrough` or `TooMany` for each limit in the order its route
asks (`Checks`), the attempt, and perhaps `WrongPassword` with one `CountFailure` for each
limit in `Failures`. Each call is one step, since each is a transaction under an advisory
lock, but it uses the clock as it was when the call began, as `take` and `ensure_allowed` do;
`record` reads it under the lock. `Prune` is the hourly job. What is kept of a limit's rows is
how many there are at each time; `Count` is their total over the window. A limit may be 0, which
switches its route off.

`VerificationCodes` goes on where a limited send was let through: `LockFarmer`, `Supersede`,
`Dispatch` (accepted or not, heard or not) and `CommitSend`, which is also where a failed
code is retired. A confirmation is `Confirm` (the clock is read, the SELECT picks its row),
`ConfirmRefused`, `WrongCode`, or `RightCode`, `MarkContact` and `CommitConfirm`. The two take
the farmer's row and the code's row in opposite orders, which `Deadlock` resolves.

### Farmers, Farmers_proofs

One farmer, known by one phone. `BeginEnrol`, `InsertFarmer`, `CommitEnrol`; `BeginChoice`
(the look at the farmer's own latest choice), `InsertChoice` (which draws the id), and
`CommitChoice`, for consent; `BeginUpload` (the farmer's row lock, size, type, quota,
duplicates, consent), `Scan`, `Put`, `CommitUpload`; `Locate` (the first transaction of an
apiary and the geocoder), `InsertApiary`, `CommitApiary`. A consent row remembers in `saw`
what its officer had seen. The store keeps what it was given even if its answer is lost.

### WorkerJobs, WorkerJobs_proofs

`Begin` is a tick of the scheduler; `LockRow` and `CommitWrite` are the two status writes of
`track` (the row is there and is locked, or is not and may collide), `WriteFails` the
exception that is logged and passed over, `Alert` the event that is sent after the commit.
In between come `CheckIntegrity`; `TryStamp` and `Stamped`; `ListPending`, `ClaimAnchor`,
`UpgradeAnchor` and `Upgraded`; or `Raises`. `Tamper` and `Crash` are the surroundings. `Red`
is what turns a job red and `Failing` the part of `ops_health.failing` that reads these rows.

## 4. The runs

| Run | Instance | Distinct states | What it shows |
|---|---|---|---|
| `audit_chain` | 3 transactions, 2 bodies, 4 ids, 2 appends each | 130,768 | the chain verifies from every id to every id; ids missing below a committed row are burned; the log of what rows say only grows; whoever waits for the lock ends |
| `anchoring` | 2 transactions, 3 ids, 2 replicas, runs of at most 2, 1 crash | 206,224 | covered once, roots stand and were accepted, always a prefix, every committed row in the end |
| `stage_writer` | 3 requests, 2 keys, 1 batch there and 1 to be, creation and one transition, 1 crash | 164,899 | state, stage rows and trail agree and refusals burn no id; a key works once and replays that answer; every request is answered; the handlers implement the lifecycle |
| `comms_worker` | 2 replicas, 2 channels, 2 attempts, 1 crash, 1 change of consent | 354,820 | duplicates are explained and bounded, sent is on record, outcomes are final, after a withdrawal nothing more sets out, every notice is settled |
| `verification` | 2 commits (3 rows), 1 row of another subject, 2 edits, 1 move of the default | 1,810,386 | honest blocks match, proofs verify, the three ways show every edit, the verdict is the one anchored |
| `accounts` | 3 requests of any kind, 2 admins (one perhaps the root), 1 session, 1 free row, 3 times | 1,216,014 | one good successor, a reset ends every session, an inactive account renews none, an admin remains, admin changes queue, somebody else's password must be changed |
| `verification_codes` | 2 clients that send request after request, 4 times, 1 crash | 940,952 | limits hold exactly or up to the open requests, one good code, guesses and sends are counted, the announced wait is enough |
| `farmers` | 3 requests of any kind, 2 keys, 4 files, quota 2, 1 crash | 368,819 | one profile with its consent for a phone, documents within the quota, scanned and stored, one apiary for a key, only a grant under way overrides a withdrawal |
| `worker_jobs` | 2 workers, 3 anchors (one unparseable), red after 3 failures, 3 faults | 32,464 | one alert for each turn into red, a job the health endpoint names has its flag set, an anchor is confirmed once, a broken chain ends in an alarm that stays |
| `stage_writer_replay`, `verification_race`, `accounts_race` | | | disagreements, section 6 |

**Why the bounds are enough.** Two transactions that append twice and a third that waits
show every order of lock, insert, commit and rollback of a single lock; three ids have room
for a gap at the start, in the middle and at the end of a run. Two replicas and runs of two
rows give runs that are cut by a gap, by their limit and by the end of the log. Three
requests give an original, its retry and a rival; two keys and two batches give every pairing
of equal and different ones; a creation has no row to lock, a transition can follow it, be
repeated or be too early, and the other four transitions go the same way through the same
function. Two edits are what it takes to make a stage row and an audit row agree; a log of
four rows has anchors of every size from one to four, odd ones included, in every position.

In `accounts` three requests are an admin's change, a refresh and whatever comes between
them; three times are inside the reuse window, after it and after the token has expired. In
`verification_codes` the limits are one to three events in windows of two or three ticks, so a
window fills, is refused, empties and fills again within the four times. In `farmers` the four
files are two that fit (together they are over the quota), one the scanner rejects and one
of no accepted type. In `worker_jobs` three faults are a crash of each worker and a lost write.
Where routes or jobs share no row (sign-in and codes, the jobs), a behaviour has clients or
workers of one kind: any interleaving of the two is one of each.

**Symmetry** is used in three runs that check safety only (`accounts`, `verification_codes`,
`farmers`), over requests, clients and keys, which the specifications treat alike. Deadlock is
checked where something must always be able to happen (log, anchoring, notifications, worker)
and not where the instance ends (all requests answered, the answer given); in
`verification_codes` it says nothing, since the hourly job can always run.

**Fairness.** `AuditChain`: PostgreSQL grants an advisory lock to its waiters in turn (strong
fairness of `TakeChainLock`), and a handler that is not waiting runs on (weak fairness); no
request has to come, and a handler may roll back at any time. `StageWriter`: strong fairness
of each request's handler, for the same two reasons; nothing makes a client send. `Anchoring`:
APScheduler starts the job again and again, every step of it has a timeout, and a calendar
that is asked infinitely often accepts (`SF` of `Accept`); without the last the property is
false, and the code can do nothing about it. `CommsWorker`: ticks go on and claims grow old;
nothing is assumed of the provider, since `comms_max_attempts` gives up on it. `WorkerJobs`: the scheduler of each worker ticks for
ever and its threads run (weak fairness of each worker's steps); nothing is assumed of what a
job comes to. In none of them is a crash fair. `Accounts` states weak fairness of a handler,
and its runs check safety only.

**Mutants.** For each property of each run, `PROJECT.json` names a variant of a definition
under which the run finds the property violated: the lock is not taken, the range is
half-open, a key is only looked up, an append precedes the check, the verdict is worked out
anew, an odd node gets a sibling, the rule counts nobody, a limit is off by one, a row is read
without FOR UPDATE, the list is trusted after it was made, and so on.

One experiment with no row of its own: `stage_writer.py` says that UNIQUE(batch_id) of the
stage tables backs up the lock of the batch's row. In the model, leaving out FOR UPDATE alone
violates nothing, and leaving out both violates `TrailTellsLifecycle`: the claim is right.

## 5. The proofs

Each component has its theorems in a module of its own, `<Component>_proofs`. They hold for
any sets of processes, rows and values and any limits, under the named assumptions of the
component's module, which TLC evaluates on every run. `AuditChain` and `Anchoring` share one.

All follow one scheme. A property speaks of committed rows, but whether it holds is decided
earlier, while a transaction that has read something has not committed yet. The inductive
invariant of a module (`IInv`; `AInv` for anchoring) therefore adds to the property what each
transaction under way may rely on, and who is kept out until it ends. There is one lemma for
each action, one step in it for each conjunct the action can disturb, and the theorems follow
from the initial states, the steps and the conclusions. Every inductive invariant was first
checked by TLC as an invariant of the run's instance (in every state of section 4's table).

### The audit chain

| Theorem | Statement |
|---|---|
| `ChainTypeCorrect` | `ChainSafety => []ChainTypeOK` |
| `CommitsInOrder` | `ChainSafety => []GapsAreBurned` |
| `ChainAlwaysVerifies` | `ChainSafety => []ChainVerifies` |
| `AtMostOneAppender` | `ChainSafety => []OneAppender` |
| `ChainImplementsLog` | `ChainSafety => AppendOnly`, the refinement of `AppendOnlyLog` |

Assumed: the bounds are natural numbers and `NoWriter` is no transaction.

The argument. `ChainVerifies` speaks of committed rows, but a row's link is made when it is
inserted, from a tail read earlier and from rows that may be rolled back. The inductive
invariant `IInv` therefore speaks of the *visible* rows, committed or in flight:

- `LockHeld`: a transaction that reads, inserts or has inserted holds the chain lock;
- `OneAppender`: rows in flight are the lock holder's, so at most one transaction has any;
- `CommittedBelow`: rows in flight lie above every committed row;
- `TailFresh`: a transaction about to insert has read the hash of the newest visible row,
  and it is still that;
- `Linked`: each visible row's `prev` is the hash of the visible row below it, and its hash
  is that of its link and its body;
- `Grows`: the hash of a visible row extends that of each one below.

Without `OneAppender` a rollback could remove a row another one links to; without
`CommittedBelow` a commit could put a row below one that was read as the tail. Both follow
from the lock's being held from before the id is drawn to the end of the transaction.
There is one lemma for each action, one step in it for each conjunct the action can disturb.
The refinement needs `Grows`: the only step that changes the log is a commit, and it
makes visible rows, whose hashes extend the old head, the head. The finite-set facts
(`GreatestExists` and its corollaries) rest on the library's well-founded ordering of
subsets.

A consequence worth knowing: the comments of `anchoring.py:100-102` and
`comms_worker.py:14-16` allow for rows that commit out of the order of their ids. By
`CommitsInOrder` that never happens, so the grace period of anchoring never waits for a
row that could still come; it is a defence in depth, and a gap below a committed row is
always burned.

### Anchoring

| Theorem | Statement |
|---|---|
| `AnchorTypeCorrect` | `Safety => []AnchorTypeOK` |
| `AnchorsCoverOnce` | `Safety => []CoveredOnce` |
| `AnchoredRootsStand` | `Safety => []RootsStand` |
| `AnchoringImplementsWitness` | `Safety => WitnessesPrefix`, the refinement of `PublicWitness` |

Assumed: `MaxRows` is positive, `Grace` and `MaxCrashes` are natural numbers, `NoReplica` is no
replica.

`AInv` contains the chain's invariant, and the proof cites the chain's lemmas: `CommitsAbove`
is `CommitsInOrder` put as a fact about one step, that a step of the chain keeps what is
committed and commits only above it. The decisive notion is `Owed(b)`: every anchor ends below
`b`, every committed row below `b` is covered, and no row can commit below `b` any more. It
holds of the id a replica has resolved to start from (`StartOwed`) and of the run it is working
on (`RunOwed`), because the stamp lock keeps other replicas away and the chain commits in
order. `RootBuilt` says that the root a replica submits is that of its run and, once it
records it, one the calendar has accepted. The age of a row occurs in the
invariant with its type only: the safety of anchoring does not rest on the clock.

### Consumer verification

| Theorem | Statement |
|---|---|
| `EveryProofVerifies` | for leaves of any number, `InclusionProof(leaves, i)` leads from leaf `i` to `BuildRoot(leaves)` |
| `OnlyLeavesVerify` | whatever the path, a leaf hash that verifies against the root of a tree of leaf hashes is one of its leaves |
| `TypeCorrect` | `Spec => []TypeOK` |
| `HonestAnswersMatch` | `Spec => []HonestBlocksMatch` |
| `ReturnedProofsVerify` | `Spec => []ProofsVerify` |
| `NoEditIsUnseen` | `Spec => []ThreeWaysShowEveryEdit` |
| `ConformanceAsAnchored` | `Spec => []ConformanceIsWitnessed` |

Assumed: the blocks are read in some order, each once, the laboratory's is one of them and
none is called `created` or `other` (`BlocksAssumption`; `verification.py:64-84`); an action is in
one place of the lifecycle (`CommitsAssumption`: the stage tables are unique by batch); `NoValue`
is no value and no rule set; there is a panel for each value; the bounds are natural numbers.
Hashes are terms, so that equal hashes have equal inputs: this, and nothing else, stands for the
collision resistance of sha256 and keccak256.

The tree. `Levels`, `Places`, `InclusionProof` and `Climb` are recursive functions. That such a
function exists and has its equation (`LevelsExist`, `PlacesExist`, `PathsExist`,
`ClimbExists`), and whatever holds at every level, is proved by a least counterexample
(`LeastNumber`). For completeness, one level is `StepLeadsUp`: the step that `inclusion_proof`
takes leads from a node to the node above it, wherever it stands and whether it is paired or
promoted; `ProofLeadsUp` carries it through the levels, and `LevelsShrink` and `TopIsRoot` say
that the last level is the root alone. Soundness goes down instead: an inner node of the tree has
both children in the tree (`ChildrenOfTree`), a leaf hash is no inner node, so a path that ends
at the root has come from inside the tree all along, and what it started from is a leaf
(`LeafOfTree`). This is where the prefix bytes 0x00 and 0x01 of `merkle.py` are needed.

The invariant. Edits can change everything except the witness, so `IInv` says what the witness
and the rows it does not cover yet still know:

- `UncoveredMeant`: a row no anchor covers says what was recorded (`truth`, and `judged` for the
  laboratory), and its hash commits to that;
- `WitnessMeant`: each witnessed root is that of a tree whose leaves are hashes of such rows;
- `RecordedOnce`: a block is recorded by one commit, and the log has one row of it from then on;
- `Untouched` and `RootsBuilt`: while nobody has edited anything, the stage rows and the log say
  what was recorded, and the anchors' roots are those of their ranges;
- `Snapshot`: what an answer that nothing disturbed has read is as the data are.

`WitnessMeant` mentions neither the log nor the anchors: an edit cannot touch it, and what was
recorded stays recorded (`TruthStays`), so a root goes on meaning what it meant
(`MeantLeavesStay`). The three ways then follow: a proof that leads to a witnessed root shows, by
`OnlyLeavesVerify`, that the row's hash is one that commits to what was recorded
(`ProvenIsMeant`); a chain that verifies shows that the row as it stands has that hash; hashes
are injective, so the row's payload is what was recorded; and a match shows the stage row to say
what the payload says (`InvImpliesThreeWays`). That `HonestBlocksMatch` needs `quiet` is not an artefact of the proof: section 6.

`MeantLeaves` has a quantifier over all sequences of leaves; TLC checked `IInv` with the leaves
read off the root instead, which as a term has them in it.

### Batch writes and idempotency keys

| Theorem | Statement |
|---|---|
| `TypeCorrect` | `Safety => []TypeOK` |
| `TrailIsTheLifecycle` | `Safety => []TrailTellsLifecycle` |
| `KeysWriteOnce` | `Safety => []OneWritePerKey` |
| `WriterImplementsLifecycle` | `Safety => FollowsLifecycle`, the refinement of `BatchLifecycle` |

Assumed: `NoRequest` is no request, the bound on crashes is a natural number, and a batch is
begun in a state of the lifecycle or not at all.

What a commit makes visible has to be right while the request is at work: `SeenHolds` (a
transition has read the state its batch still has: the row lock), `InsertHolds` (nobody else
has inserted the stage or the batch it has inserted: the unique indexes), `Drawn` (the rows it
has appended are the first ones of its stage: the order of the handler), `KeyIsFree` (its key
has no row yet: the unique key it holds) and `Answered` (what it is about to save is the
answer to its request). The refinement maps a commit to the one step of the lifecycle and
everything else to a stutter.

### Notifications

| Theorem | Statement |
|---|---|
| `TypeCorrect` | `Safety => []TypeOK` |
| `DuplicatesExplained` | `Safety => []DuplicatesAreExplained` |
| `NothingMoreSetsOut` | `Safety => SettledOrWithdrawnIsOver` |

Assumed: `MaxAttempts` and `BatchSize` are positive, the other bounds natural numbers, the
channels among SMS and mail, and `NoNotice` is no notice.

The bound on the number of messages does not follow from the attempts on a row: a crash between
the provider's acceptance and the commit leaves a message that no attempt counts.
`CountsHold` keeps the accounts: what was delivered is what was never recorded, plus one if
the row is `sent`, plus one if a replica has an answer it has not recorded; and it is at most
the attempts and the crashes so far, plus that same one. It needs `HeldIsSending` (the row a
replica holds is `sending`, whoever claims it again, skips or gives up), `OpenHasAttempts` and
`OneSender`, which is the row lock. That no proof step looks at `stale` beyond its type shows
that the claim timeout matters to progress and not to the count.

### Accounts

| Theorem | Statement |
|---|---|
| `TypeCorrect` | `Safety => []TypeOK` |
| `OneSuccessor` | `Safety => []OneLiveSuccessor` |
| `AdminRemains` | `Safety => []AnAdminRemains` |
| `PasswordMustChange` | `Safety => []OthersPasswordMustChange` |
| `SessionsEnd` | `Safety => SessionsEndWithTheAccount` |

Assumed: there are at least two users (the model begins with two admins), the reuse window is
shorter than a token's lifetime, and the bounds are natural numbers.

Every step is by one request and leaves the others where they are, so the invariant is in three
parts: what the rows say (`RowsHold`), that locks exclude each other (`LocksApart`), and what
each request relies on (`AtWork`). The third is what the locks are for: a refresh holds its
token's row, and whatever successor it will retire (`TokenFits`); who is about to commit on an
account holds that account's row in the mode its statement takes (`UserFits`); every token a
reset has not revoked yet is in its list or already spent (`SweepFits`); and what a request
decided from an earlier read is still so (`SeenFits`): the account of a refresh is active, the
password flag of a reset is unchanged, and for an admin that is deactivated there is another
active admin whose row is locked with it. That a step of one request does not disturb another's
facts (`OthersKeep`) is proved once, from how tokens and users can change at all (`TokensMove`,
`UsersMove`) and from the locks. Deadlocks do not occur in the invariant: PostgreSQL may cancel
any transaction at any time and nothing of this is lost.

### Rate limits and verification codes

| Theorem | Statement |
|---|---|
| `TypeCorrect` | `Safety => []TypeOK` |
| `LimitsAreKept` | `Safety => []LimitsHold` |
| `CodesAreKept` | `Safety => []CodesHold`: one good code, guesses counted, sends limited |
| `WaitsSuffice` | `Safety => []WaitIsEnough` |

Assumed: the clients are finitely many and there is one; the limits and windows of `RateLimits`
are natural numbers; the limits on codes are positive and the cooldown is no longer than the
window (`verification_codes.py:31-35`); the bounds are natural numbers. `Safety` lets every client
use every route; the run of section 4 gives each behaviour clients of one kind only.

A count is the sum of a recursive function over times. The one fact needed of such sums,
`TotalsCompare` (rows that are no more, but for one at one time, have a total that is no more,
but for that one), is reached by a least counterexample. From it follow what happens to a count
as its window moves and as an event is added (`CountsCompare`), and the limits: who is let
through by an older clock was below the limit then and the window has only moved on
(`LetThroughHolds`), and who counts a failure was one of those in flight (`CountedHolds`, for
which `RouteFits` says that what is left to count was asked for, once each).

Of the codes, `CodeFits` is what the row locks preserve. A send has read, when it took the
farmer's row, that it may send by the clock of that moment (`MaySend`); no other send commits
until it does, so the cooldown and every window still have room for its code when it commits,
however much later that is (`NewCodeKeepsWindows`). From its UPDATE on, the code it holds is the
only active one. A confirmation holds a code that is active, and who holds both rows is alone
with the codes (`AloneWithCodes`). `MessagesHaveRows` keeps the account of what providers have
accepted: a row, a send on its way, or a transaction that died.

### Farmers

| Theorem | Statement |
|---|---|
| `TypeCorrect` | `Spec => []TypeOK` |
| `FarmerRowsHold` | `Spec => []RowsHold`: profile and consent, documents and quota, apiaries and keys |
| `WithdrawalStands` | `Spec => []OwnChoiceStands` |

Assumed: files have positive sizes, the quota, the largest file and the bound on crashes are
natural numbers, and what is accepted or infected is a file.

What a request has looked up must still be so when it commits, or somebody must have been kept
out: the quota and the absence of a duplicate hold from the first look to the commit of an
upload (`UploadFits`: the farmer's row lock is held through the scan and the store), a key that
is held has no response (`KeyFits`), and nobody enrols while another one has the phone
(`EnrolFits`). `GrantFits` is what makes a withdrawal stand: an officer's grant under way has
seen no choice of the farmer's, or a grant. That what is held is the sum of the documents'
sizes is a recursive function on their sequence; the one fact about it the proof needs (a new
document adds its size) is reached by a least counterexample.

### Worker jobs

| Theorem | Statement |
|---|---|
| `TypeCorrect` | `Safety => []TypeOK` |
| `JobsAlertOnce` | `Safety => []JobsHold`: one alert for a turn into red, the flag is what its row says, an anchor is confirmed once |

Assumed: the limit of failures is positive, the bound on faults a natural number, the anchors are
finitely many numbers, some of them unparseable, and the workers are finitely many.

That a write turns a job red is decided by the row as the write read it. `OneReader` (the row
lock) and `ReadWhileWriting` say why that row is still the one there is, `FlagsRed` that the
flag is what the row says, and `ClaimsPending` that an anchor under claim has no proof yet.

### What stays with the model checker

- Liveness, which needs fairness and `ENABLED`: appenders finish (`AppendersFinish`),
  rows are witnessed in the end (`EventuallyWitnessed`), requests end (`RequestsEnd`), notices
  are settled (`EveryNoticeSettles`), a broken chain ends in an alarm that stays
  (`TamperingAlarms`).
- What `Codex` finds of a panel: `OneMeasurementDecides` compares it with a reference reading of
  the standard on panels around each limit. The theorems about `Verification` hold for whatever
  verdict a panel gets, as long as the same panel and rule set get the same one.
- The runs that show a disagreement (section 6): a theorem cannot.

## 6. What the checks found

- **A recorded stage can be shown as a mismatch** (`verification_race`). `verify_batch` reads
  the audit rows and then each stage row in statements that each see what is committed when
  they start. A transition that commits in between is seen in the stage table and not in the
  log, and the block is answered `match = false`, which the module's docstring reserves for
  altered data. The next answer is right.
- **A key's fingerprint has no path** (`stage_writer_replay`). `record_stage` fingerprints
  the body alone, so a transition of a second batch with an equal body under the same key is
  answered with the first batch's response and not done. `record_farmer_consent` is alike.
- **A password change can leave another device signed in** (`accounts_race`). The revocation
  (`refresh_tokens.py:138-142`) is an UPDATE of the tokens that were committed when it began,
  and the user's row is not locked first. A refresh under way on another device commits a
  successor it does not see, while `auth.py:234-236` says that every other device is signed
  out. A reset by an admin locks the row and has no such gap (`SessionsEndWithTheAccount`).

Each is a run whose property the code violates, with the lines quoted in `PROJECT.json`.

Observations met while modelling, with no run of their own:

- The docstring of `verification.py` has both comparisons, (1) against (2) and (2) against (3),
  made by the server; `verify_batch` takes an anchor's status from its range of ids and
  compares nothing with the root. `ThreeWaysShowEveryEdit` shows what the three ways give
  together with the offline check.
- Comments in `anchoring.py` and `ots.py` say that the next run after a crash anchors the same
  range; rows that committed in between make it longer. No row loses by it.
- Three admin changes at once can still deadlock, despite `users.py:39-40`. The SELECT of
  `lock_active_admins` lists the admins who were active when it started. A change that waited for
  an admin until they were deactivated keeps that row and goes on to the next admin; a third
  change, begun in between, locks that next admin and then wants the deactivated one as its
  target. PostgreSQL cancels one of the two. `AdminChangesQueue` shows that this is the only
  circle, and that without the order of ids there would be others.
- A send and a confirmation of a code take two rows in opposite orders and can deadlock, too.
- A withdrawal of consent after `dispatch` has read it, with the provider's call under way, does
  not stop that one message; `SettledOrWithdrawnIsOver` is about everything queued or retried.
- A retry in the reuse window may revoke a successor that the first device is about to use
  (`refresh_tokens.py:85-87`); what is left is one good token.
- Failures beyond their limit, which overlapping requests can reach, outlast the wait that is
  announced; the limits on attempts do not have this.
- A crash after the provider has accepted a code takes the send's count back with it.
- "Reversible only by the data subject" (`farmers.py:197`) is decided when the officer's
  request looks: a withdrawal that commits after that is overridden. `OwnChoiceStands` says that
  nothing else overrides one. Likewise the consent to upload is asked for once, before the scan.
- "A refused or replayed request never reaches the third party" (`apiaries.py:59-61`) fails for
  two requests with one key that overlap, of which both look the place up.
- `enroll_farmer` looks for the phone number and not for the e-mail address, whose UNIQUE
  constraint then answers.
- "A second one is harmless for the status rows" (`worker.py:9-10`): a replica that does not get
  the stamp lock still writes its own, older, in-process anchoring status over the row.

## 7. What is not modelled

- **Clocks of the worker**: the checks of `ops_health` that compare an age with a limit
  (`worker_down`, `anchor_lag`, `upgrade_stale`, `comms_backlog`) and `waiting_since`; each is one
  comparison, made anew at every call.
- **One hazard of `PROJECT.json` has no property**, and a note: a worker that is down longer than
  the notification lookback never notifies of what it missed.
- **Ids in `Verification` have no gaps.** A proof numbers the rows it finds in the order of their
  ids, so only the order matters there; `AuditChain` and `Anchoring` have the gaps.
- **Rounding of a wait**: the clock of `RateLimits` has whole ticks, on which the `math.ceil` of the
  announced wait changes nothing; on others it only makes the wait longer.
- **Data**: passwords, JWTs, how the key of a limit is derived, canonical JSON, keccak and sha256
  (injective terms), measurements other than those scored, templates, recipients, proofs of
  OpenTimestamps beyond accepted and confirmed.
- **Edits**: an edit before a row is anchored is anchored as edited, which no scheme of this
  kind can see, so edits of audit rows start with covered ones; deletions of audit rows and
  edits while an answer is being read are left out.
- **Redaction** (`FIELD_POLICY`): it decides what is published, and the comparison is made
  before it.
- **Per-request and stateless code**: middleware, schemas, configuration, logging, search,
  geocoding, phone formats, signed URLs, read-only routes.
- **Migrations and scripts** that are run by hand (`backfill_localities` among them; the creation
  and recovery of the root admin are in `Accounts`); the constraints they create are part of
  the modules of their tables.
