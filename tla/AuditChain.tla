------------------------------ MODULE AuditChain ------------------------------
(***************************************************************************)
(* The audit log's hash chain, app/services/audit_log.py: transactions of  *)
(* the API append rows under one transaction-scoped advisory lock.         *)
(*                                                                         *)
(* PostgreSQL runs the transactions READ COMMITTED: a statement sees the   *)
(* rows committed when it starts and the transaction's own.  A row's id    *)
(* comes from a sequence, which no rollback gives back.                    *)
(*                                                                         *)
(* A body stands for every hashed column of a row except prev_hash (actor, *)
(* subject, action, payload, its hash, created_at, ip, user agent).        *)
(* keccak256(prev_hash o body) is modelled as the sequence <prev_hash>     *)
(* with the body appended: equal hashes have equal inputs, and nothing     *)
(* else about keccak is used.                                              *)
(***************************************************************************)
EXTENDS Naturals, Sequences, FiniteSets

CONSTANTS
    Writers,       \* the transactions that can be open at once
    NoWriter,      \* nobody holds the chain lock
    Bodies,        \* what a row can say
    MaxId,         \* bound: the last id the sequence hands out
    MaxAppends     \* bound: appends of one transaction (create_batch makes 3)

ASSUME BoundsAssumption == MaxId \in Nat /\ MaxAppends \in Nat
ASSUME NoWriterAssumption == NoWriter \notin Writers

VARIABLES
    nextId,        \* the id sequence's next value
    status,        \* of each id: never handed out, in flight, committed, burned
    entry,         \* of each id: the row there, and the transaction that wrote it
    chainLock,     \* who holds pg_advisory_xact_lock(_CHAIN_LOCK_KEY)
    pc,            \* where each transaction is
    tail           \* the row_hash append() read as the chain's tail

chainVars == <<nextId, status, entry, chainLock, pc, tail>>

Ids == 1..MaxId

GenesisPrevHash == <<>>

Hashes == Seq(Bodies)

Row == [tx : Writers, prev : Hashes, body : Bodies, hash : Hashes]

\* There is no row under an id not handed out yet, or burned.
NoRow == <<>>

-----------------------------------------------------------------------------
(* What a statement reads.                                                 *)

Committed == {i \in Ids : status[i] = "committed"}

\* The uncommitted rows of transaction w.
InFlight(w) == {i \in Ids : status[i] = "inflight" /\ entry[i].tx = w}

Greatest(S) == CHOOSE i \in S : \A j \in S : j <= i

\* The row_hash of the row with the greatest id of S, None as the genesis hash.
TailHash(S) == IF S = {} THEN GenesisPrevHash ELSE entry[Greatest(S)].hash

RowHash(prev, body) == Append(prev, body)

\* One iteration of verify_chain's loop finds row i wrong.  `before` are the
\* rows it compares the row's prev_hash with: those below it.
Diverges(i, before) ==
    \/ entry[i].prev # TailHash({j \in before : j < i})
    \/ entry[i].hash # RowHash(entry[i].prev, entry[i].body)

\* verify_chain(from_id, to_id): the ids at which the walk would stop.  The
\* code returns the least one; it returns ok when there is none.
Divergences(from, to) ==
    {i \in Committed : from <= i /\ i <= to /\ Diverges(i, Committed)}

-----------------------------------------------------------------------------
ChainInit ==
    /\ nextId = 1
    /\ status = [i \in Ids |-> "free"]
    /\ entry = [i \in Ids |-> NoRow]
    /\ chainLock = NoWriter
    /\ pc = [w \in Writers |-> "idle"]
    /\ tail = [w \in Writers |-> GenesisPrevHash]

\* A handler calls append(), first or again in its transaction: the statement
\* that asks for the chain lock is sent.
CallAppend(w) ==
    /\ pc[w] \in {"idle", "open"}
    /\ Cardinality(InFlight(w)) < MaxAppends
    /\ pc' = [pc EXCEPT ![w] = "waiting"]
    /\ UNCHANGED <<nextId, status, entry, chainLock, tail>>

\* Variant: append() takes no lock.
TakeNoLock(w) ==
    /\ pc[w] = "waiting"
    /\ pc' = [pc EXCEPT ![w] = "reading"]
    /\ UNCHANGED <<nextId, status, entry, chainLock, tail>>

\* pg_advisory_xact_lock returns: nobody, or this transaction, held the lock.
TakeChainLock(w) ==
    /\ pc[w] = "waiting"
    /\ chainLock \in {NoWriter, w}
    /\ chainLock' = w
    /\ pc' = [pc EXCEPT ![w] = "reading"]
    /\ UNCHANGED <<nextId, status, entry, tail>>

\* Variant: the tail is sought among the committed rows only.
ReadCommittedTail(w) ==
    /\ pc[w] = "reading"
    /\ tail' = [tail EXCEPT ![w] = TailHash(Committed)]
    /\ pc' = [pc EXCEPT ![w] = "inserting"]
    /\ UNCHANGED <<nextId, status, entry, chainLock>>

\* The SELECT of the tail's row_hash: the committed rows and our own.
ReadTail(w) ==
    /\ pc[w] = "reading"
    /\ tail' = [tail EXCEPT ![w] = TailHash(Committed \cup InFlight(w))]
    /\ pc' = [pc EXCEPT ![w] = "inserting"]
    /\ UNCHANGED <<nextId, status, entry, chainLock>>

\* The row's hash is computed and the INSERT flushed, which takes an id.
InsertRow(w) ==
    /\ pc[w] = "inserting"
    /\ nextId <= MaxId
    /\ \E body \in Bodies :
         entry' = [entry EXCEPT ![nextId] =
                     [tx |-> w, prev |-> tail[w], body |-> body,
                      hash |-> RowHash(tail[w], body)]]
    /\ status' = [status EXCEPT ![nextId] = "inflight"]
    /\ nextId' = nextId + 1
    /\ pc' = [pc EXCEPT ![w] = "open"]
    /\ tail' = [tail EXCEPT ![w] = GenesisPrevHash]

\* Variant: the lock spans the append, not the transaction.
InsertAndUnlock(w) == InsertRow(w) /\ chainLock' = NoWriter

Insert(w) == InsertRow(w) /\ UNCHANGED chainLock

\* Variant: a session-level lock, which outlives the transaction.
EndKeepingLock(w) ==
    /\ pc' = [pc EXCEPT ![w] = "idle"]
    /\ tail' = [tail EXCEPT ![w] = GenesisPrevHash]
    /\ UNCHANGED chainLock

\* Either way a transaction ends, the chain lock it holds is released.
EndTransaction(w) ==
    /\ chainLock' = IF chainLock = w THEN NoWriter ELSE chainLock
    /\ pc' = [pc EXCEPT ![w] = "idle"]
    /\ tail' = [tail EXCEPT ![w] = GenesisPrevHash]

\* The handler commits: the rows and the domain writes they record, at once.
Commit(w) ==
    /\ pc[w] = "open"
    /\ status' = [i \in Ids |-> IF i \in InFlight(w) THEN "committed" ELSE status[i]]
    /\ EndTransaction(w)
    /\ UNCHANGED <<nextId, entry>>

\* The database undoes the transaction.
UndoRows(w) ==
    /\ status' = [i \in Ids |-> IF i \in InFlight(w) THEN "burned" ELSE status[i]]
    /\ entry' = [i \in Ids |-> IF i \in InFlight(w) THEN NoRow ELSE entry[i]]
    /\ EndTransaction(w)

\* Variant: the ids are given back, as if max(id) + 1 were the next id.
UndoAndReuse(w) == UndoRows(w) /\ nextId' = nextId - Cardinality(InFlight(w))

\* The ids the transaction drew stay taken.
Undo(w) == UndoRows(w) /\ UNCHANGED nextId

\* An error in the handler, a failed statement, a cancelled wait for the lock,
\* or a crash that drops the connection.
Rollback(w) == pc[w] # "idle" /\ Undo(w)

\* The sequence is exhausted: the INSERT fails and the request with it.
InsertFails(w) ==
    /\ pc[w] = "inserting"
    /\ nextId > MaxId
    /\ Undo(w)

WriterStep(w) ==
    \/ CallAppend(w)
    \/ TakeChainLock(w)
    \/ ReadTail(w)
    \/ Insert(w)
    \/ Commit(w)
    \/ Rollback(w)
    \/ InsertFails(w)

ChainNext == \E w \in Writers : WriterStep(w)

\* PostgreSQL queues the waiters of an advisory lock and grants it in turn,
\* and a request handler that holds the lock runs on to its commit.
ChainFairness ==
    \A w \in Writers :
        /\ SF_chainVars(TakeChainLock(w))
        /\ WF_chainVars(ReadTail(w))
        /\ WF_chainVars(Insert(w))
        /\ WF_chainVars(Commit(w))
        /\ WF_chainVars(InsertFails(w))

ChainSafety == ChainInit /\ [][ChainNext]_chainVars
ChainSpec == ChainSafety /\ ChainFairness

-----------------------------------------------------------------------------
(* Properties.                                                             *)

\* Type invariant.  The sequence has handed out the ids below nextId, and there
\* is a row under each of those that was not rolled back.
ChainTypeOK ==
    /\ nextId \in 1..(MaxId + 1)
    /\ status \in [Ids -> {"free", "inflight", "committed", "burned"}]
    /\ entry \in [Ids -> Row \cup {NoRow}]
    /\ \A i \in Ids : /\ i < nextId <=> status[i] # "free"
                      /\ status[i] \in {"inflight", "committed"} => entry[i] \in Row
    /\ chainLock \in Writers \cup {NoWriter}
    /\ pc \in [Writers -> {"idle", "waiting", "reading", "inserting", "open"}]
    /\ tail \in [Writers -> Hashes]

\* verify_chain finds no divergence, on any range, whatever transactions are
\* in flight: appenders that race never fork the chain or leave a link to a
\* row that was rolled back.
ChainVerifies == \A from, to \in Ids : Divergences(from, to) = {}

\* An id missing below a committed row belongs to a transaction that rolled
\* back: rows commit in the order of their ids.  The comment of
\* app/services/anchoring.py:100-102 allows for the opposite ("id 102 can be
\* committed while 101 is still in flight"); the chain lock, which append()
\* holds from before the id is drawn until the transaction ends, rules it out.
GapsAreBurned ==
    \A j \in Committed : \A i \in Ids : i < j => status[i] \in {"committed", "burned"}

\* Rows are written only by the holder of the chain lock, so at most one
\* transaction at a time has rows that may still commit.
OneAppender == \A w \in Writers : InFlight(w) # {} => chainLock = w

\* The chain's head hash behaves as an append-only log: the chain implements
\* AppendOnlyLog.
Log == INSTANCE AppendOnlyLog WITH log <- TailHash(Committed)
AppendOnly == Log!Spec

\* A request that waits for the chain lock ends: it is never starved by the
\* other requests and never waits for one that waits for it.
AppendersFinish == \A w \in Writers : pc[w] = "waiting" ~> pc[w] = "idle"
=============================================================================
