----------------------------- MODULE Verification -----------------------------
(***************************************************************************)
(* What a consumer who scans a jar is told of one batch: verify_batch of   *)
(* app/services/verification.py and entries_for_subject of                 *)
(* app/services/anchor_proof.py, next to the transitions that go on        *)
(* writing, the anchoring that goes on covering rows, and edits made to    *)
(* the database behind the program's back, which is what the three-way     *)
(* match is there to show.                                                 *)
(*                                                                         *)
(* A transition commits its stage rows and audit rows together             *)
(* (StageWriter), the ids of the committed rows are those of a chain       *)
(* (AuditChain) and anchors cover them in turn (Anchoring), so here a      *)
(* transition is one step, the log is a sequence and an anchor covers the  *)
(* rows since the last one.  verify_batch runs in a READ COMMITTED         *)
(* transaction: each of its SELECTs sees what is committed when it starts. *)
(***************************************************************************)
EXTENDS Naturals, FiniteSets, Merkle, Codex

CONSTANTS
    BlockOrder,  \* the blocks of the answer, one per stage table, as they are read
    Commits,     \* the lifecycle: of each commit, the actions it appends (bound)
    Values,      \* what a stage row can say
    Panels,      \* of each value: the measurements it stands for in a lab result
    NoValue,     \* no row
    MaxOthers,   \* bound: audit rows of other subjects
    MaxEdits     \* bound: edits behind the program's back

Blocks == ToSet(BlockOrder)

\* Every action but the batch's creation has a stage table.
Actions == Blocks \cup {"created", "other"}

\* STAGE_MODELS has a key once, and the laboratory's is one of them.
ASSUME BlocksAssumption ==
    /\ BlockOrder \in Seq(Blocks) /\ "lab" \in Blocks
    /\ \A j, k \in DOMAIN BlockOrder : BlockOrder[j] = BlockOrder[k] => j = k
    /\ "created" \notin Blocks /\ "other" \notin Blocks

\* A stage is recorded once: its table is unique by batch (StageWriter).
ASSUME CommitsAssumption ==
    /\ Commits \in Seq(Seq(Blocks \cup {"created"}))
    /\ \A c, d \in DOMAIN Commits :
         \A i \in DOMAIN Commits[c], j \in DOMAIN Commits[d] :
             Commits[c][i] = Commits[d][j] => c = d /\ i = j

ASSUME NoValueAssumption == NoValue \notin Values /\ NoValue \notin DOMAIN RULES
ASSUME PanelsAssumption == Values = DOMAIN Panels
ASSUME BoundsAssumption == MaxOthers \in Nat /\ MaxEdits \in Nat

VARIABLES
    reached,     \* how many of Commits are committed
    stageRow,    \* of each block: what its stage row says
    conformance, \* codex_conformance: the rule set the lab result was scored by
    default,     \* DEFAULT_RULE_SET of the release that is running
    log,         \* the audit log, in id order
    anchors,     \* the merkle_anchor rows, in order
    witness,     \* the roots that are publicly witnessed, and stay so
    truth,       \* of each block: what was recorded
    judged,      \* the verdict that was recorded
    edits,
    \* verify_batch
    pc,
    entries,     \* what entries_for_subject returned, by id
    recorded,    \* the batch's audit rows by id, as the second SELECT found them
    scored,      \* the codex_conformance row, as the third SELECT found it
    read,        \* the stage rows read so far, in the order of the blocks
    quiet        \* nothing has changed since verify_batch began

tables == <<stageRow, conformance, log, anchors>>
data == <<reached, tables, default, witness, truth, judged, edits>>
answer == <<entries, recorded, scored, read>>
vars == <<data, pc, answer, quiet>>

-----------------------------------------------------------------------------
(* Payloads, hashes and the chain.                                         *)

\* The payload of an action; that of a lab result embeds its verdict, under the
\* rule set it names.
Payload(action, v, version) ==
    IF action = "lab" THEN <<v, version, Verdict(Panels[v], version)>> ELSE <<v>>

Digest(payload) == <<"digest", payload>>

\* Variant: the link does not commit to the payload.
RowHashOfAction(prev, action, payloadHash, payload) == <<prev, action>>

RowHash(prev, action, payloadHash, payload) == <<prev, action, payloadHash, payload>>

Genesis == <<>>
PrevHash(rows, i) == IF i = 1 THEN Genesis ELSE rows[i - 1].rowHash

Row(prev, action, payload) ==
    [action |-> action, payload |-> payload, payloadHash |-> Digest(payload), prev |-> prev,
     rowHash |-> RowHash(prev, action, Digest(payload), payload)]

\* append(): a row at the end of the log.
Appended(rows, action, payload) ==
    Append(rows, Row(PrevHash(rows, Len(rows) + 1), action, payload))

\* append() for each of the actions in turn.
Chained(rows, actions, payloads) ==
    LET after[k \in 0..Len(actions)] ==
            IF k = 0 THEN rows ELSE Appended(after[k - 1], actions[k], payloads[k])
    IN  after[Len(actions)]

\* verify_chain over the whole log.
ChainOK ==
    \A i \in DOMAIN log :
        LET row == log[i]
        IN  /\ row.prev = PrevHash(log, i)
            /\ row.payloadHash = Digest(row.payload)
            /\ row.rowHash = RowHash(row.prev, row.action, row.payloadHash, row.payload)

-----------------------------------------------------------------------------
Init ==
    /\ reached = 0
    /\ stageRow = [b \in Blocks |-> NoValue]
    /\ conformance = NoValue /\ default = DEFAULT_RULE_SET
    /\ log = <<>> /\ anchors = <<>> /\ witness = {}
    /\ truth = [b \in Blocks |-> NoValue] /\ judged = NoValue
    /\ edits = 0
    /\ pc = "idle"
    /\ entries = <<>> /\ recorded = <<>> /\ scored = NoValue /\ read = <<>>
    /\ quiet = TRUE

\* The data changes, before verify_batch begins or while it runs.  What comes
\* after its answer does not change it, and is left out.
Disturbs == pc # "done" /\ quiet' = (pc = "idle") /\ UNCHANGED <<pc, answer>>

\* create_batch or record_stage commits its stage rows and audit rows.
Transition ==
    /\ reached < Len(Commits)
    /\ reached' = reached + 1
    /\ \E v \in Values :
         LET actions == Commits[reached + 1]
             write(b, old) == IF b \in ToSet(actions) THEN v ELSE old
         IN  /\ stageRow' = [b \in Blocks |-> write(b, stageRow[b])]
             /\ truth' = [b \in Blocks |-> write(b, truth[b])]
             /\ IF "lab" \in ToSet(actions)
                THEN conformance' = default /\ judged' = Verdict(Panels[v], default)
                ELSE UNCHANGED <<conformance, judged>>
             /\ log' = Chained(log, actions,
                               [k \in DOMAIN actions |-> Payload(actions[k], v, default)])
    /\ UNCHANGED <<default, anchors, witness, edits>>
    /\ Disturbs

\* A release moves the default to the other rule set (bound: once).
MoveDefault ==
    /\ default = DEFAULT_RULE_SET
    /\ default' \in DOMAIN RULES \ {default}
    /\ UNCHANGED <<reached, tables, witness, truth, judged, edits>>
    /\ Disturbs

\* Another subject's row.
OtherRow ==
    /\ Cardinality({i \in DOMAIN log : log[i].action = "other"}) < MaxOthers
    /\ log' = Appended(log, "other", <<>>)
    /\ UNCHANGED <<reached, stageRow, conformance, default, anchors, witness, truth, judged, edits>>
    /\ Disturbs

\* The leaves of the rows from `from` to `to`.
LeavesFor(from, to) == [i \in 1..(to - from + 1) |-> LeafHash(log[from + i - 1].rowHash)]

\* Variant: the new range takes in the last row of the old one.
LastCovered == IF anchors = <<>> THEN 1 ELSE Last(anchors).to

FirstUncovered == IF anchors = <<>> THEN 1 ELSE Last(anchors).to + 1

\* The worker anchors what no anchor covers, and the calendar takes the root.
Anchor ==
    /\ FirstUncovered <= Len(log)
    /\ LET root == BuildRoot(LeavesFor(FirstUncovered, Len(log)))
       IN  /\ anchors' = Append(anchors, [from |-> FirstUncovered, to |-> Len(log),
                                          root |-> root, verified |-> FALSE])
           /\ witness' = witness \cup {root}
    /\ UNCHANGED <<reached, stageRow, conformance, default, log, truth, judged, edits>>
    /\ Disturbs

\* The upgrade job finds the Bitcoin attestation.
Upgrade ==
    /\ \E i \in DOMAIN anchors :
         /\ ~anchors[i].verified
         /\ anchors' = [anchors EXCEPT ![i].verified = TRUE]
    /\ UNCHANGED <<reached, stageRow, conformance, default, log, witness, truth, judged, edits>>
    /\ Disturbs

-----------------------------------------------------------------------------
(* Edits of the database.                                                  *)

EditStageRow ==
    /\ \E b \in Blocks : \E v \in Values \cup {NoValue} :
         /\ stageRow[b] \notin {v, NoValue}
         /\ stageRow' = [stageRow EXCEPT ![b] = v]
    /\ UNCHANGED <<conformance, log>>

EditConformance ==
    /\ conformance # NoValue
    /\ conformance' \in (DOMAIN RULES \cup {NoValue}) \ {conformance}
    /\ UNCHANGED <<stageRow, log>>

\* The rule set an audit row names, if it is a lab result's.
VersionOf(row) == IF row.action = "lab" THEN row.payload[2] ELSE NoValue

\* An audit row is made to say v: its payload alone, its payload and its
\* payload_hash, or those and every link of the chain from there on.  An anchor
\* covers it already: what is changed before, the anchor takes as it finds it.
EditLog ==
    /\ \E i \in DOMAIN log : \E v \in Values :
         LET row == log[i]
             said == Payload(row.action, v, VersionOf(row))
             actions == [k \in DOMAIN log |-> log[k].action]
             payloads == [k \in DOMAIN log |-> IF k = i THEN said ELSE log[k].payload]
         IN  /\ row.action \in Blocks /\ i < FirstUncovered
             /\ row.payload # said
             /\ \/ log' = [log EXCEPT ![i].payload = said]
                \/ log' = [log EXCEPT ![i].payload = said, ![i].payloadHash = Digest(said)]
                \/ log' = Chained(<<>>, actions, payloads)
    /\ UNCHANGED <<stageRow, conformance>>

\* An edit is made before verify_batch begins: the questions about edited data
\* are asked of answers nothing disturbed.
Edit ==
    /\ pc = "idle" /\ edits < MaxEdits
    /\ edits' = edits + 1
    /\ EditStageRow \/ EditConformance \/ EditLog
    /\ UNCHANGED <<reached, default, anchors, witness, truth, judged>>
    /\ Disturbs

-----------------------------------------------------------------------------
(* verify_batch.                                                           *)

\* The anchor whose range has row i, 0 if there is none.
Covering(i) ==
    IF \E k \in DOMAIN anchors : anchors[k].from <= i /\ i <= anchors[k].to
    THEN CHOOSE k \in DOMAIN anchors : anchors[k].from <= i /\ i <= anchors[k].to
    ELSE 0

ProofEntry(i) ==
    LET k == Covering(i)
    IN  [action |-> log[i].action, rowHash |-> log[i].rowHash,
         status |-> IF k = 0 THEN "pending"
                    ELSE IF anchors[k].verified THEN "confirmed" ELSE "anchored",
         root |-> IF k = 0 THEN Genesis ELSE anchors[k].root,
         path |-> IF k = 0 THEN <<>>
                  ELSE InclusionProof(LeavesFor(anchors[k].from, anchors[k].to),
                                      i - anchors[k].from + 1)]

\* The ids of the batch's audit rows.
OwnIds == {i \in DOMAIN log : log[i].action # "other"}

\* entries_for_subject.  Its SELECTs are one step: an anchor that is added
\* between them only makes an entry anchored that would have been pending.
ReadEntries ==
    /\ pc = "idle" /\ reached > 0
    /\ entries' = [i \in OwnIds |-> ProofEntry(i)]
    /\ pc' = "rows"
    /\ UNCHANGED <<data, recorded, scored, read, quiet>>

\* The SELECT of the batch's audit rows.
ReadRows ==
    /\ pc = "rows"
    /\ recorded' = [i \in OwnIds |-> log[i]]
    /\ pc' = "conformance"
    /\ UNCHANGED <<data, entries, scored, read, quiet>>

\* The SELECT of the codex_conformance row, which the lab transition writes.
ReadConformance ==
    /\ pc = "conformance"
    /\ scored' = conformance
    /\ pc' = "blocks"
    /\ UNCHANGED <<data, entries, recorded, read, quiet>>

\* The SELECT of the next block's stage row, until there is none left.
ReadBlock ==
    /\ pc = "blocks"
    /\ read' = Append(read, stageRow[BlockOrder[Len(read) + 1]])
    /\ pc' = IF Len(read') = Len(BlockOrder) THEN "done" ELSE "blocks"
    /\ UNCHANGED <<data, entries, recorded, scored, quiet>>

Next == Transition \/ MoveDefault \/ OtherRow \/ Anchor \/ Upgrade \/ Edit
        \/ ReadEntries \/ ReadRows \/ ReadConformance \/ ReadBlock

Spec == Init /\ [][Next]_vars

-----------------------------------------------------------------------------
(* The answer.                                                             *)

Shown(b) == read[CHOOSE k \in DOMAIN BlockOrder : BlockOrder[k] = b]
AuditRowsOf(b) == {i \in DOMAIN recorded : recorded[i].action = b}

\* Variant: the lab result is scored by the rule set that is the default now.
RecomputedByDefault(b) == Digest(Payload(b, Shown(b), default))

\* _lab_payload: scored by the rule set the conformance row names.
Recomputed(b) == Digest(Payload(b, Shown(b), scored))

\* The block is None: the batch has not got that far.
NotReached(b) == Shown(b) = NoValue /\ AuditRowsOf(b) = {}

\* The lab block is not recomputed without the row that names its rule set.
Match(b) ==
    /\ Shown(b) # NoValue
    /\ b = "lab" => scored # NoValue
    /\ \E i \in DOMAIN recorded :
         AuditRowsOf(b) = {i} /\ Recomputed(b) = recorded[i].payloadHash

\* Variant: the verdict is worked out from the rows as they are now.
RescoredConformance ==
    IF NoValue \in {Shown("lab"), scored} THEN NoValue ELSE Verdict(Panels[Shown("lab")], scored)

\* _witnessed_conformance: the one row of the lab result is taken at its word if
\* its payload is what its payload_hash is of.
Conformance ==
    IF \E i \in DOMAIN recorded :
           AuditRowsOf("lab") = {i} /\ Digest(recorded[i].payload) = recorded[i].payloadHash
    THEN recorded[CHOOSE i \in DOMAIN recorded : AuditRowsOf("lab") = {i}].payload[3]
    ELSE NoValue

\* The entry of block b's audit row, checked offline: its proof leads to its
\* root and the root is witnessed.
Proven(b) ==
    \E i \in DOMAIN entries :
        LET e == entries[i]
        IN  /\ e.action = b /\ e.status # "pending"
            /\ VerifyInclusion(LeafHash(e.rowHash), e.path, e.root)
            /\ e.root \in witness

Answered == pc = "done"

-----------------------------------------------------------------------------
(* Properties.                                                             *)

\* Type invariant.  Anchors cover the log from its start, each going on where
\* the one before it ended.
TypeOK ==
    /\ reached \in 0..Len(Commits)
    /\ stageRow \in [Blocks -> Values \cup {NoValue}]
    /\ truth \in [Blocks -> Values \cup {NoValue}]
    /\ \A k \in DOMAIN anchors :
         /\ anchors[k].from = IF k = 1 THEN 1 ELSE anchors[k - 1].to + 1
         /\ anchors[k].from <= anchors[k].to /\ anchors[k].to <= Len(log)
         /\ anchors[k].root \in witness
    /\ conformance \in DOMAIN RULES \cup {NoValue} /\ default \in DOMAIN RULES
    /\ judged \in {"PASS", "FAIL", "INCOMPLETE", NoValue}
    /\ edits \in 0..MaxEdits /\ quiet \in BOOLEAN
    /\ pc \in {"idle", "rows", "conformance", "blocks", "done"}
    /\ scored \in DOMAIN RULES \cup {NoValue}
    /\ Len(read) <= Len(BlockOrder)
    /\ DOMAIN entries \subseteq DOMAIN log /\ DOMAIN recorded \subseteq DOMAIN log

\* An answer that nothing disturbed, about data nobody edited, has a match for
\* every stage that was recorded and None for every other one.
HonestBlocksMatch ==
    Answered /\ quiet /\ edits = 0 =>
        \A b \in Blocks : IF truth[b] = NoValue THEN NotReached(b)
                          ELSE Match(b) /\ Shown(b) = truth[b]

\* However the log is cut into anchors, and while they are added, the proof of
\* every entry an anchor covers leads from its row to the anchor's root.
ProofsVerify ==
    edits = 0 => \A i \in DOMAIN entries :
        entries[i].status # "pending" =>
            VerifyInclusion(LeafHash(entries[i].rowHash), entries[i].path, entries[i].root)

\* A block that matches, with a chain that verifies and a proof that leads to a
\* witnessed root, shows what was recorded, whatever was edited: the three ways
\* of app/services/verification.py:3-16 together leave no edit unseen.
ThreeWaysShowEveryEdit ==
    Answered /\ quiet /\ ChainOK =>
        \A b \in Blocks : Match(b) /\ Proven(b) => Shown(b) = truth[b]

\* With the chain and the proof intact, the verdict shown is the one anchored,
\* also next to a lab result that was edited later ("the verdict as anchored,
\* not as re-derivable from the lab row now", app/services/verification.py:244-247).
ConformanceIsWitnessed ==
    Answered /\ quiet /\ ChainOK /\ Proven("lab") /\ Conformance # NoValue => Conformance = judged

\* Nobody edited anything: no block is reported as a mismatch ("A block is
\* `None` only when neither exists, i.e. the batch has honestly not got that
\* far", app/services/verification.py:23-24; a mismatch "catches a DB edit after
\* the fact", :12).
NoFalseAlarm ==
    Answered /\ edits = 0 => \A b \in Blocks : NotReached(b) \/ Match(b)
=============================================================================
