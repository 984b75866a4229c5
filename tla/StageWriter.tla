----------------------------- MODULE StageWriter -----------------------------
(***************************************************************************)
(* The write handlers of a batch: create_batch (app/routers/batches.py)    *)
(* and the five transitions, which all run record_stage                    *)
(* (app/services/stage_writer.py), under the idempotency keys of           *)
(* app/services/idempotency.py.                                            *)
(*                                                                         *)
(* Every request is one transaction, and requests run concurrently.  A     *)
(* request's uncommitted writes are seen by itself alone, but they make    *)
(* others wait: an INSERT of the same unique key waits for the transaction *)
(* that inserted it to end, SELECT FOR UPDATE waits for the row's lock and *)
(* append() for the chain lock.  A client that lost a reply, or retries,   *)
(* is a further request with the same contents.                            *)
(*                                                                         *)
(* One append() is one step here; AuditChain models what it does, and      *)
(* proves that rows commit in the order of their ids, which is why a       *)
(* batch's audit rows are kept as a sequence.  A batch is named by what    *)
(* identifies it: the batch_code of a creation, the batch_id in the path   *)
(* of a transition.  A Key stands for an Idempotency-Key with the id of    *)
(* the actor who sent it.                                                  *)
(***************************************************************************)
EXTENDS Naturals, Sequences

CONSTANTS
    Requests,      \* the requests the server ever gets (bound)
    NoRequest,     \* nobody holds a lock
    Keys, Batches,
    Details,       \* what the rest of a request body can say
    Endpoints,     \* the stages the requests are for (bound)
    Begun,         \* of each batch: where it is at first (bound)
    MaxCrashes     \* bound: requests cut off by a crash or a lost connection

ASSUME NoRequestAssumption == NoRequest \notin Requests
ASSUME CrashesAssumption == MaxCrashes \in Nat

VARIABLES
    \* committed
    state,         \* of each batch: honey_batches.state, "none" without a row
    stageRows,     \* the <<batch, stage>> that have a row in a stage table
    trail,         \* of each batch: its audit rows, in the order of their ids
    idemRow,       \* of each key: its idempotency_keys row
    burned,        \* how many audit ids were drawn and rolled back
    \* held by open transactions
    keyHolder,     \* of each key: who inserted its row and has not committed
    rowHolder,     \* of each batch: who holds the lock of its row
    chainHolder,   \* who holds the audit chain lock
    \* of each request
    pc, req,
    seen,          \* the state of its batch, as SELECT FOR UPDATE read it
    drawn,         \* the audit rows it has appended and not committed
    outcome,       \* "created", "replayed", an error code, or "crashed"
    response,      \* the body of its 2xx response
    crashes

tables == <<state, stageRows, trail, idemRow>>
locks == <<keyHolder, rowHolder, chainHolder>>
answers == <<outcome, response>>
vars == <<tables, burned, locks, pc, req, seen, drawn, answers, crashes>>

Lifecycle ==
    <<"CREATED", "HARVESTED", "PROCESSED", "LAB_VERIFIED", "PACKAGED", "DISTRIBUTED">>

States == {Lifecycle[i] : i \in 1..6}

ASSUME StagesAssumption ==
    Endpoints \subseteq States /\ Begun \in [Batches -> States \cup {"none"}]

\* The one state each state may become; DISTRIBUTED is terminal.
LEGAL == [s \in States \ {"DISTRIBUTED"} |->
            CHOOSE t \in States : \E i \in 1..5 : Lifecycle[i] = s /\ Lifecycle[i+1] = t]

\* assert_transition lets the request through.
Allowed(current, target) == current \in DOMAIN LEGAL /\ LEGAL[current] = target

\* The audit rows that record a stage, in the order they are appended.
AuditRows == [s \in States |->
    IF s = "CREATED"
    THEN <<"batch.created", "batch.apiary_recorded", "batch.metadata_recorded">>
    ELSE <<s>>]

\* How many stages a batch in state s has been through, and all their rows.
Through(s) == IF s = "none" THEN 0 ELSE CHOOSE i \in 1..6 : Lifecycle[i] = s

RowsThrough[n \in 0..6] ==
    IF n = 0 THEN <<>> ELSE RowsThrough[n - 1] \o AuditRows[Lifecycle[n]]

RowsUpTo(s) == RowsThrough[Through(s)]

\* CREATED needs no stage record.
StagesUpTo(s) == {Lifecycle[i] : i \in 2..Through(s)}

Request == [key : Keys, batch : Batches, stage : Endpoints, detail : Details]

\* A 201 names the batch and the state it is now in.
Response == [batch : Batches, state : States]
ResponseTo(q) == [batch |-> q.batch, state |-> q.stage]
Nothing == <<>>

\* The body is fingerprinted, and only it.  Bodies of different endpoints have
\* different fields; the batch is in the body of a creation and in the path of
\* a transition.
Fingerprint(q) ==
    IF q.stage = "CREATED" THEN <<q.stage, q.detail, q.batch>> ELSE <<q.stage, q.detail>>

\* The key has no row.
NoRow == [fingerprint |-> Nothing, response |-> Nothing]

\* Requests that have inserted the row of their stage and not committed.
Inserted == {r \in Requests : pc[r] \in {"appending", "finishing", "committing"}}

Open == {r \in Requests : pc[r] \in {"open", "locked"}} \cup Inserted

SameRow(q1, q2) == q1.batch = q2.batch /\ q1.stage = q2.stage

\* An INSERT of request r's stage row has to wait for a transaction that has
\* inserted the same one: UNIQUE(batch_id) of the stage table, UNIQUE(batch_code).
MustWait(r) == \E o \in Inserted \ {r} : SameRow(req[o], req[r])

-----------------------------------------------------------------------------
Init ==
    /\ state = Begun
    /\ stageRows = UNION {{b} \X StagesUpTo(state[b]) : b \in Batches}
    /\ trail = [b \in Batches |-> RowsUpTo(state[b])]
    /\ idemRow = [k \in Keys |-> NoRow]
    /\ burned = 0
    /\ keyHolder = [k \in Keys |-> NoRequest]
    /\ rowHolder = [b \in Batches |-> NoRequest]
    /\ chainHolder = NoRequest
    /\ pc = [r \in Requests |-> "unsent"]
    /\ req = [r \in Requests |-> Nothing]
    /\ seen = [r \in Requests |-> "none"]
    /\ drawn = [r \in Requests |-> <<>>]
    /\ outcome = [r \in Requests |-> "none"]
    /\ response = [r \in Requests |-> Nothing]
    /\ crashes = 0

Send(r) ==
    /\ pc[r] = "unsent"
    /\ \E q \in Request : req' = [req EXCEPT ![r] = q]
    /\ pc' = [pc EXCEPT ![r] = "begin"]
    /\ UNCHANGED <<tables, burned, locks, seen, drawn, answers, crashes>>

\* Variant: a request that is refused leaves its transaction open.
KeepLocks(r) == UNCHANGED locks

\* A transaction ends and everything it holds is free.
Release(r) ==
    /\ keyHolder' = [k \in Keys |-> IF keyHolder[k] = r THEN NoRequest ELSE keyHolder[k]]
    /\ rowHolder' = [b \in Batches |-> IF rowHolder[b] = r THEN NoRequest ELSE rowHolder[b]]
    /\ chainHolder' = IF chainHolder = r THEN NoRequest ELSE chainHolder

\* Variant: the audit rows are written in a transaction of their own.
RollBackAllButAudit(r, code) ==
    /\ Release(r)
    /\ trail' = [trail EXCEPT ![req[r].batch] = @ \o drawn[r]]
    /\ drawn' = [drawn EXCEPT ![r] = <<>>]
    /\ pc' = [pc EXCEPT ![r] = "done"]
    /\ outcome' = [outcome EXCEPT ![r] = code]
    /\ response' = [response EXCEPT ![r] = Nothing]
    /\ UNCHANGED <<state, stageRows, idemRow, burned, req, seen>>

\* A transaction is rolled back: its rows are gone, the ids they drew are too.
RollBack(r, code) ==
    /\ Release(r)
    /\ burned' = burned + Len(drawn[r])
    /\ drawn' = [drawn EXCEPT ![r] = <<>>]
    /\ pc' = [pc EXCEPT ![r] = "done"]
    /\ outcome' = [outcome EXCEPT ![r] = code]
    /\ response' = [response EXCEPT ![r] = Nothing]
    /\ UNCHANGED <<tables, req, seen>>

Refuse(r, code) == RollBack(r, code) /\ UNCHANGED crashes

-----------------------------------------------------------------------------
(* idempotency.begin: INSERT ... ON CONFLICT DO NOTHING, which waits for   *)
(* whoever holds the key, then looks at what the holder left.              *)

\* Variant: begin() only looks, and finish() writes the row.
LookOnly(r) ==
    /\ pc[r] = "begin"
    /\ idemRow[req[r].key] = NoRow
    /\ pc' = [pc EXCEPT ![r] = "open"]
    /\ UNCHANGED <<tables, burned, locks, req, seen, drawn, answers, crashes>>

Reserve(r) ==
    LET k == req[r].key
    IN  /\ pc[r] = "begin"
        /\ keyHolder[k] = NoRequest
        /\ idemRow[k] = NoRow
        /\ keyHolder' = [keyHolder EXCEPT ![k] = r]
        /\ pc' = [pc EXCEPT ![r] = "open"]
        /\ UNCHANGED <<tables, burned, rowHolder, chainHolder, req, seen, drawn,
                       answers, crashes>>

\* The committed row is of a request like this one, and complete.
Matches(r) ==
    LET row == idemRow[req[r].key]
    IN  row.fingerprint = Fingerprint(req[r]) /\ row.response # Nothing

Replay(r) ==
    /\ pc[r] = "begin"
    /\ idemRow[req[r].key] # NoRow
    /\ Matches(r)
    /\ pc' = [pc EXCEPT ![r] = "done"]
    /\ outcome' = [outcome EXCEPT ![r] = "replayed"]
    /\ response' = [response EXCEPT ![r] = idemRow[req[r].key].response]
    /\ UNCHANGED <<tables, burned, locks, req, seen, drawn, crashes>>

KeyConflict(r) ==
    /\ pc[r] = "begin"
    /\ idemRow[req[r].key] # NoRow
    /\ ~Matches(r)
    /\ Refuse(r, "idempotency_conflict")

-----------------------------------------------------------------------------
(* create_batch after begin().                                             *)

\* The farmer or the apiary is missing or is not the actor's to act for; or,
\* of a transition, the batch is another farmer's.
NotTheirs(r) ==
    /\ pc[r] = "locked" \/ (pc[r] = "open" /\ req[r].stage = "CREATED")
    /\ Refuse(r, "forbidden")

\* The batch and its two pre-images are inserted.
InsertBatch(r) ==
    /\ pc[r] = "open"
    /\ req[r].stage = "CREATED"
    /\ ~MustWait(r)
    /\ state[req[r].batch] = "none"
    /\ pc' = [pc EXCEPT ![r] = "appending"]
    /\ UNCHANGED <<tables, burned, locks, req, seen, drawn, answers, crashes>>

BatchCodeTaken(r) ==
    /\ pc[r] = "open"
    /\ req[r].stage = "CREATED"
    /\ state[req[r].batch] # "none"
    /\ Refuse(r, "batch_code_taken")

-----------------------------------------------------------------------------
(* record_stage after begin().                                             *)

\* The batch's row is not there, or not committed yet, which looks the same.
BatchNotFound(r) ==
    /\ pc[r] = "open"
    /\ req[r].stage # "CREATED"
    /\ state[req[r].batch] = "none"
    /\ Refuse(r, "batch_not_found")

\* SELECT ... FOR UPDATE reads the row as it is once the lock is granted.
LockBatch(r) ==
    LET b == req[r].batch
    IN  /\ pc[r] = "open"
        /\ req[r].stage # "CREATED"
        /\ state[b] # "none"
        /\ rowHolder[b] = NoRequest
        /\ rowHolder' = [rowHolder EXCEPT ![b] = r]
        /\ seen' = [seen EXCEPT ![r] = state[b]]
        /\ pc' = [pc EXCEPT ![r] = "locked"]
        /\ UNCHANGED <<tables, burned, keyHolder, chainHolder, req, drawn, answers, crashes>>

\* Variant: append() comes before the check.
AppendFirst(r) ==
    /\ pc[r] = "locked"
    /\ chainHolder = NoRequest
    /\ chainHolder' = r
    /\ drawn' = [drawn EXCEPT ![r] = AuditRows[req[r].stage]]
    /\ UNCHANGED <<tables, burned, keyHolder, rowHolder, pc, req, seen, answers, crashes>>

\* The transition is legal; the stage row is inserted and the state assigned.
InsertStage(r) ==
    LET q == req[r]
    IN  /\ pc[r] = "locked"
        /\ ~MustWait(r)
        /\ Allowed(seen[r], q.stage) /\ <<q.batch, q.stage>> \notin stageRows
        /\ pc' = [pc EXCEPT ![r] = "appending"]
        /\ UNCHANGED <<tables, burned, locks, req, seen, drawn, answers, crashes>>

\* assert_transition raises, or the INSERT violates the stage table's UNIQUE.
StageRefused(r) ==
    LET q == req[r]
    IN  /\ pc[r] = "locked"
        /\ ~MustWait(r)
        /\ ~Allowed(seen[r], q.stage) \/ <<q.batch, q.stage>> \in stageRows
        /\ Refuse(r, IF Allowed(seen[r], q.stage) THEN "stage_already_recorded"
                                                  ELSE "invalid_transition")

-----------------------------------------------------------------------------
(* The end of both: the appends, finish() and the commit.                  *)

\* One append(): it waits for the chain lock, takes it and draws an id.
AppendRow(r) ==
    LET rows == AuditRows[req[r].stage]
    IN  /\ pc[r] = "appending"
        /\ chainHolder \in {NoRequest, r}
        /\ chainHolder' = r
        /\ drawn' = [drawn EXCEPT ![r] = Append(@, rows[Len(@) + 1])]
        /\ pc' = [pc EXCEPT ![r] = IF Len(drawn'[r]) = Len(rows) THEN "finishing" ELSE @]
        /\ UNCHANGED <<tables, burned, keyHolder, rowHolder, req, seen, answers, crashes>>

\* finish() fills in the response of the reservation.
Finish(r) ==
    /\ pc[r] = "finishing"
    /\ response' = [response EXCEPT ![r] = ResponseTo(req[r])]
    /\ pc' = [pc EXCEPT ![r] = "committing"]
    /\ UNCHANGED <<tables, burned, locks, req, seen, drawn, outcome, crashes>>

\* The request's writes are seen by everybody from now on, all at once.
Commit(r) ==
    LET q == req[r]
    IN  /\ pc[r] = "committing"
        /\ state' = [state EXCEPT ![q.batch] = q.stage]
        /\ stageRows' = IF q.stage = "CREATED" THEN stageRows
                        ELSE stageRows \cup {<<q.batch, q.stage>>}
        /\ trail' = [trail EXCEPT ![q.batch] = @ \o drawn[r]]
        /\ idemRow' = [idemRow EXCEPT ![q.key] =
                         [fingerprint |-> Fingerprint(q), response |-> response[r]]]
        /\ Release(r)
        /\ drawn' = [drawn EXCEPT ![r] = <<>>]
        /\ pc' = [pc EXCEPT ![r] = "done"]
        /\ outcome' = [outcome EXCEPT ![r] = "created"]
        /\ UNCHANGED <<burned, req, seen, response, crashes>>

\* The process dies, or the connection to the database drops.
Crash(r) ==
    /\ r \in Open \/ pc[r] = "begin"
    /\ crashes < MaxCrashes
    /\ crashes' = crashes + 1
    /\ RollBack(r, "crashed")

-----------------------------------------------------------------------------
Handle(r) ==
    \/ Reserve(r)
    \/ Replay(r)
    \/ KeyConflict(r)
    \/ NotTheirs(r)
    \/ InsertBatch(r)
    \/ BatchCodeTaken(r)
    \/ BatchNotFound(r)
    \/ LockBatch(r)
    \/ InsertStage(r)
    \/ StageRefused(r)
    \/ AppendRow(r)
    \/ Finish(r)
    \/ Commit(r)

Next == \E r \in Requests : Send(r) \/ Handle(r) \/ Crash(r)

\* A handler that has what it waits for runs on, and PostgreSQL grants a lock
\* to its waiters in turn.  Nothing says that a request is ever sent.
Fairness == \A r \in Requests : SF_vars(Handle(r))

Safety == Init /\ [][Next]_vars
Spec == Safety /\ Fairness

-----------------------------------------------------------------------------
(* Properties.                                                             *)

\* Type invariant.  A lock is held by a request whose transaction is open, and
\* every open transaction holds its key, its batch's row and, once it has
\* appended, the chain.
TypeOK ==
    /\ state \in [Batches -> States \cup {"none"}]
    /\ stageRows \subseteq Batches \X States
    /\ \A b \in Batches : trail[b] \in Seq(UNION {{AuditRows[s][i] : i \in DOMAIN AuditRows[s]} : s \in States})
    /\ idemRow \in [Keys -> [fingerprint : {Fingerprint(q) : q \in Request} \cup {Nothing},
                             response : Response \cup {Nothing}]]
    /\ burned \in Nat /\ crashes \in 0..MaxCrashes
    /\ req \in [Requests -> Request \cup {Nothing}]
    /\ pc \in [Requests -> {"unsent", "begin", "open", "locked", "appending",
                            "finishing", "committing", "done"}]
    /\ seen \in [Requests -> States \cup {"none"}]
    /\ response \in [Requests -> Response \cup {Nothing}]
    /\ \A r \in Requests : pc[r] = "unsent" <=> req[r] = Nothing
    /\ \A k \in Keys : \A r \in Requests :
         keyHolder[k] = r <=> r \in Open /\ req[r].key = k
    /\ \A b \in Batches : \A r \in Requests :
         rowHolder[b] = r <=> /\ r \in Open /\ pc[r] # "open"
                              /\ req[r].batch = b /\ req[r].stage # "CREATED"
    /\ \A r \in Requests : chainHolder = r <=> drawn[r] # <<>>

\* Whatever a request is refused for, and whenever, it has drawn no audit id:
\* only a crash burns one, and then no more than the request had to append
\* ("nothing fallible below this line", app/services/stage_writer.py:14).
RefusalsBurnNothing == burned <= 3 * crashes

\* A batch's state, its stage rows and its audit rows tell one story: the rows
\* of each stage up to its state, every one once, in the order of the lifecycle.
\* They are three tables, written by requests that race for the same batch; and
\* the ids of the trail have no hole that a refusal left.
TrailTellsLifecycle ==
    /\ RefusalsBurnNothing
    /\ \A b \in Batches :
         /\ trail[b] = RowsUpTo(state[b])
         /\ {s \in States : <<b, s>> \in stageRows} = StagesUpTo(state[b])

\* The requests that did the work under key k.
DidTheWork(k) == {r \in Requests : outcome[r] = "created" /\ req[r].key = k}

\* Concurrent requests under one key do the work at most once, a key row is
\* there exactly when they did, and it holds the answer they gave: no committed
\* reservation is without its response (app/services/idempotency.py:12-25,
\* "A committed row always has both", app/models/auth.py:47-49).  A replayed
\* answer is the one the request got that did the work, sent under the same key
\* with the same body to the same endpoint.
OneWritePerKey ==
    /\ \A k \in Keys :
         IF idemRow[k] = NoRow THEN DidTheWork(k) = {}
         ELSE \E r \in Requests :
                 /\ DidTheWork(k) = {r}
                 /\ idemRow[k] = [fingerprint |-> Fingerprint(req[r]), response |-> response[r]]
                 /\ response[r] = ResponseTo(req[r])
    /\ \A r \in Requests : outcome[r] = "replayed" =>
         \E o \in DidTheWork(req[r].key) :
            /\ req[o].stage = req[r].stage /\ req[o].detail = req[r].detail
            /\ response[o] = response[r]

\* The handlers implement the lifecycle: each commit moves one batch one stage
\* on and adds that stage's rows, and nothing else ever shows.
Abstract == INSTANCE BatchLifecycle WITH
    stage <- state, told <- trail, Rows <- AuditRows,
    Past <- [s \in States \cup {"none"} |-> RowsUpTo(s)],
    Follows <- [s \in States \cup {"none"} |->
                  CASE s = "none" -> {"CREATED"}
                    [] s = "DISTRIBUTED" -> {}
                    [] OTHER -> {LEGAL[s]}]
FollowsLifecycle == Abstract!Spec

\* Every request is answered: requests wait for keys, batch rows and the chain
\* lock in that order, so never for each other ("never the reverse, which could
\* deadlock", app/services/stage_writer.py:32-33).
RequestsEnd == \A r \in Requests : pc[r] = "begin" ~> pc[r] = "done"

\* A replay answers for the batch the request names ("a matching request that
\* already completed replays the stored response", app/services/idempotency.py:3-5;
\* "Same key, same action", :73).
ReplayIsForTheSameBatch ==
    \A r \in Requests : outcome[r] = "replayed" => response[r].batch = req[r].batch
=============================================================================
