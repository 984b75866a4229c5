-------------------------- MODULE CommsWorker_proofs --------------------------
(***************************************************************************)
(* Proofs about CommsWorker, for any replicas, milestones, channels and    *)
(* limits.                                                                 *)
(***************************************************************************)
EXTENDS CommsWorker, FiniteSetTheorems, TLAPS

-----------------------------------------------------------------------------
(* The parts of TypeOK.                                                    *)

Phases == {"idle", "reading", "enqueueing", "claiming", "sending", "calling", "accepted"}

DatabaseValues ==
    /\ old \subseteq written /\ written \subseteq Milestones
    /\ consent \in [Channels -> BOOLEAN]
    /\ status \in [Notices -> Statuses \cup {"none"}]
    /\ attempts \in [Notices -> 0..MaxAttempts]
    /\ stale \subseteq {n \in Notices : status[n] = "sending"}

ReplicaValues ==
    /\ pc \in [Replicas -> Phases]
    /\ pending \in [Replicas -> SUBSET Milestones]
    /\ seen \in [Replicas -> SUBSET Channels]
    /\ ids \in [Replicas -> SUBSET Notices]
    /\ current \in [Replicas -> Notices \cup {NoNotice}]

\* A replica holds a row's lock for as long as it talks to the provider.
HoldsWhileCalling == \A w \in Replicas : current[w] # NoNotice <=> pc[w] \in {"calling", "accepted"}

OneSender == \A w, v \in Replicas : w # v /\ current[w] = current[v] => current[w] = NoNotice

-----------------------------------------------------------------------------
(* The inductive invariant.  How often a message went out is bounded by    *)
(* the attempts on its row, which a crash does not count: the invariant    *)
(* says what is owed to crashes and what is under way.                     *)

CountValues ==
    /\ onRecord \in [Notices -> Nat]
    /\ delivered \in [Notices -> Nat] /\ unheard \in [Notices -> Nat]
    /\ crashes \in Nat

\* What a replica sends is `sending`, whoever else claims, skips or fails.
HeldIsSending == \A w \in Replicas : current[w] # NoNotice => status[current[w]] = "sending"

\* A notice that may still be sent has an attempt left.
OpenHasAttempts ==
    \A n \in Notices : status[n] \in {"queued", "sending"} => attempts[n] < MaxAttempts

\* What has no row was never sent.
UnwrittenIsUnsent == \A n \in Notices : status[n] = "none" => delivered[n] = 0

\* A replica has the provider's word for n and has not recorded it.
Answered(n) == \E w \in Replicas : current[w] = n /\ pc[w] = "accepted"

One(p) == IF p THEN 1 ELSE 0

CountsHold ==
    \A n \in Notices :
        /\ onRecord[n] = One(status[n] = "sent")
        /\ delivered[n] = unheard[n] + One(status[n] = "sent") + One(Answered(n))
        /\ delivered[n] =< attempts[n] + crashes + One(Answered(n))

Values == DatabaseValues /\ ReplicaValues /\ CountValues

IInv ==
    /\ Values
    /\ HoldsWhileCalling /\ OneSender
    /\ HeldIsSending /\ OpenHasAttempts /\ UnwrittenIsUnsent
    /\ CountsHold

-----------------------------------------------------------------------------
(* Locks, rows and claims.                                                 *)

(* Nobody sends a notice whose row is not locked.                          *)
LEMMA FreeRow ==
    ASSUME NEW n \in Notices, n \notin Locked
    PROVE  \A w \in Replicas : current[w] # n
BY NoNoticeAssumption DEF Locked

(* A notice's channel is one of the channels.                              *)
LEMMA ChannelOfNotice == \A n \in Notices : n[1] \in Milestones /\ n[2] \in Channels
BY DEF Notices

(* What enqueue() writes is no claim and no success.                       *)
LEMMA RowStatusValues ==
    \A w \in Replicas : \A c \in Channels : RowStatus(w, c) \subseteq {"queued", "failed", "skipped"}
BY DEF RowStatus

(* The status a failure leaves, and whether an attempt is left with it.    *)
LEMMA FailureStatus ==
    ASSUME NEW n \in Notices, attempts[n] \in 0..MaxAttempts, attempts[n] < MaxAttempts
    PROVE  /\ AfterFailure(n) \in {"queued", "failed"}
           /\ attempts[n] + 1 \in 0..MaxAttempts
           /\ AfterFailure(n) = "queued" => attempts[n] + 1 < MaxAttempts
BY CountsAssumption DEF AfterFailure

(* A replica in a call holds the row of a notice that is `sending` and has *)
(* an attempt left.                                                        *)
LEMMA CallingRow ==
    ASSUME IInv, NEW w \in Replicas, pc[w] \in {"calling", "accepted"}
    PROVE  /\ current[w] \in Notices
           /\ status[current[w]] = "sending"
           /\ attempts[current[w]] \in 0..MaxAttempts
           /\ attempts[current[w]] < MaxAttempts
           /\ \A v \in Replicas : v # w => current[v] # current[w]
<1>1. current[w] # NoNotice
  BY DEF IInv, HoldsWhileCalling
<1>2. current[w] \in Notices
  BY <1>1 DEF IInv, Values, ReplicaValues
<1>3. status[current[w]] = "sending"
  BY <1>1 DEF IInv, HeldIsSending
<1>4. attempts[current[w]] < MaxAttempts
  BY <1>2, <1>3 DEF IInv, OpenHasAttempts
<1>5. attempts[current[w]] \in 0..MaxAttempts
  BY <1>2 DEF IInv, Values, DatabaseValues
<1>6. \A v \in Replicas : v # w => current[v] # current[w]
  BY <1>1 DEF IInv, OneSender
<1> QED
  BY <1>2, <1>3, <1>4, <1>5, <1>6

(* The initial states.                                                     *)
LEMMA InitEstablishes == Init => IInv
<1> SUFFICES ASSUME Init PROVE IInv
  OBVIOUS
<1>1. DatabaseValues
  BY CountsAssumption DEF Init, DatabaseValues, Statuses
<1>2. ReplicaValues /\ CountValues
  BY CountsAssumption DEF Init, ReplicaValues, CountValues, Phases
<1>3. HoldsWhileCalling /\ OneSender /\ HeldIsSending
  BY DEF Init, HoldsWhileCalling, OneSender, HeldIsSending
<1>4. OpenHasAttempts /\ UnwrittenIsUnsent
  BY DEF Init, OpenHasAttempts, UnwrittenIsUnsent
<1>5. CountsHold
  BY DEF Init, CountsHold, Answered, One
<1> QED
  BY <1>1, <1>2, <1>3, <1>4, <1>5 DEF IInv, Values

-----------------------------------------------------------------------------
(* Types.                                                                  *)

(* Claims, failures and inserts leave values of the right type.            *)
LEMMA ValuesKept == IInv /\ [Next]_vars => Values'
<1> SUFFICES ASSUME IInv, [Next]_vars PROVE Values'
  OBVIOUS
<1> USE DEF IInv, Values
<1>1. ASSUME NEW m \in Milestones, WriteMilestone(m) PROVE Values'
  BY <1>1 DEF WriteMilestone, DatabaseValues, ReplicaValues, CountValues, world
<1>2. ASSUME NEW m \in Milestones, LeaveWindow(m) PROVE Values'
  BY <1>2 DEF LeaveWindow, Unnoticed, DatabaseValues, ReplicaValues, CountValues, world
<1>3. ASSUME NEW c \in Channels, ChangeConsent(c) PROVE Values'
  BY <1>3 DEF ChangeConsent, DatabaseValues, ReplicaValues, CountValues, world
<1>4. ASSUME NEW n \in Notices, ClaimTimesOut(n) PROVE Values'
  BY <1>4 DEF ClaimTimesOut, DatabaseValues, ReplicaValues, CountValues, world
<1>5. ASSUME NEW w \in Replicas, FindPending(w) PROVE Values'
  <2>1. Unnoticed \subseteq Milestones
    BY DEF Unnoticed, DatabaseValues
  <2>2. ReplicaValues'
    BY <1>5, <2>1 DEF FindPending, ReplicaValues, Phases
  <2> QED
    BY <1>5, <2>2 DEF FindPending, DatabaseValues, CountValues, database, world
<1>5a. ASSUME NEW w \in Replicas, ReadConsents(w) PROVE Values'
  <2>1. ReplicaValues'
    BY <1>5a DEF ReadConsents, ReplicaValues, Phases
  <2> QED
    BY <1>5a, <2>1 DEF ReadConsents, DatabaseValues, CountValues, database, world
<1>6. ASSUME NEW w \in Replicas, InsertNotices(w) PROVE Values'
  <2>1. PICK row \in [Channels -> Statuses] :
          /\ \A c \in Channels : row[c] \in RowStatus(w, c)
          /\ status' = [n \in Notices |-> IF n \in Inserted(w) THEN row[n[2]] ELSE status[n]]
          /\ attempts' = [n \in Notices |->
                IF n \in Inserted(w) THEN IF row[n[2]] = "failed" THEN MaxAttempts ELSE 0
                ELSE attempts[n]]
    BY <1>6 DEF InsertNotices
  <2>2. status' \in [Notices -> Statuses \cup {"none"}]
    BY <2>1, ChannelOfNotice DEF DatabaseValues
  <2>3. attempts' \in [Notices -> 0..MaxAttempts]
    BY <2>1, CountsAssumption DEF DatabaseValues
  <2>4. \A n \in Notices : status[n] = "sending" => status'[n] = "sending"
    BY <2>1 DEF Inserted
  <2>5. DatabaseValues'
    BY <1>6, <2>2, <2>3, <2>4 DEF InsertNotices, DatabaseValues
  <2>6. ReplicaValues'
    BY <1>6 DEF InsertNotices, ReplicaValues, Phases
  <2> QED
    BY <1>6, <2>5, <2>6 DEF InsertNotices, CountValues, world
<1>7. ASSUME NEW w \in Replicas, Claim(w) PROVE Values'
  <2>1. PICK S \in SUBSET (Claimable \ Locked) :
          /\ status' = [n \in Notices |-> IF n \in S THEN "sending" ELSE status[n]]
          /\ stale' = stale \ S
          /\ ids' = [ids EXCEPT ![w] = S]
    BY <1>7 DEF Claim
  <2>2. S \subseteq Notices
    BY DEF Claimable
  <2>3. DatabaseValues'
    BY <1>7, <2>1 DEF Claim, DatabaseValues, Statuses
  <2>4. ReplicaValues'
    BY <1>7, <2>1, <2>2 DEF Claim, ReplicaValues, Phases
  <2> QED
    BY <1>7, <2>3, <2>4 DEF Claim, CountValues, world
<1>8. ASSUME NEW w \in Replicas, NEW n \in Notices, LostRace(w, n) PROVE Values'
  BY <1>8 DEF LostRace, DatabaseValues, ReplicaValues, CountValues, database, world
<1>9. ASSUME NEW w \in Replicas, NEW n \in Notices, SkipNotice(w, n) PROVE Values'
  <2>1. DatabaseValues'
    BY <1>9 DEF SkipNotice, DatabaseValues, Statuses
  <2> QED
    BY <1>9, <2>1 DEF SkipNotice, ReplicaValues, CountValues, world
<1>10. ASSUME NEW w \in Replicas, NEW n \in Notices, CallProvider(w, n) PROVE Values'
  BY <1>10 DEF CallProvider, CallProviderIf, DatabaseValues, ReplicaValues, CountValues,
               Phases, database, world
<1>11. ASSUME NEW w \in Replicas, Accept(w) PROVE Values'
  <2>1. current[w] \in Notices
    BY <1>11, CallingRow DEF Accept
  <2>2. CountValues'
    BY <1>11, <2>1 DEF Accept, CountValues, database
  <2> QED
    BY <1>11, <2>2 DEF Accept, DatabaseValues, ReplicaValues, Phases, database
<1>12. ASSUME NEW w \in Replicas, pc[w] \in {"calling", "accepted"},
              NEW to \in {"sent", "queued", "failed"}, Conclude(w, to)
       PROVE  DatabaseValues' /\ ReplicaValues'
  <2>1. current[w] \in Notices /\ attempts[current[w]] + 1 \in 0..MaxAttempts
    BY <1>12, CallingRow, CountsAssumption
  <2>2. DatabaseValues'
    BY <1>12, <2>1 DEF Conclude, DatabaseValues, Statuses
  <2>3. ReplicaValues'
    BY <1>12 DEF Conclude, ReplicaValues, Phases
  <2> QED
    BY <2>2, <2>3
<1>13. ASSUME NEW w \in Replicas, RecordSent(w) PROVE Values'
  <2>1. DatabaseValues' /\ ReplicaValues'
    BY <1>12, <1>13 DEF RecordSent
  <2>2. current[w] \in Notices
    BY <1>13, CallingRow DEF RecordSent
  <2>3. CountValues'
    BY <1>13, <2>2 DEF RecordSent, Conclude, CountValues, world
  <2> QED
    BY <2>1, <2>3
<1>14. ASSUME NEW w \in Replicas, pc[w] = "calling"
       PROVE  current[w] \in Notices /\ AfterFailure(current[w]) \in {"queued", "failed"}
  BY <1>14, CallingRow, FailureStatus
<1>15. ASSUME NEW w \in Replicas, Fail(w) PROVE Values'
  <2>1. DatabaseValues' /\ ReplicaValues'
    BY <1>12, <1>14, <1>15 DEF Fail
  <2> QED
    BY <1>15, <2>1 DEF Fail, Conclude, CountValues, world
<1>16. ASSUME NEW w \in Replicas, FailThoughAccepted(w) PROVE Values'
  <2>1. DatabaseValues' /\ ReplicaValues'
    BY <1>12, <1>14, <1>16 DEF FailThoughAccepted
  <2>2. CountValues'
    BY <1>14, <1>16 DEF FailThoughAccepted, Conclude, CountValues
  <2> QED
    BY <2>1, <2>2
<1>17. ASSUME NEW w \in Replicas, EndTick(w) PROVE Values'
  BY <1>17 DEF EndTick, DatabaseValues, ReplicaValues, CountValues, Phases, database, world
<1>18. ASSUME NEW w \in Replicas, Crash(w) PROVE Values'
  <2>1. CountValues'
    <3>1. pc[w] = "accepted" => current[w] \in Notices
      BY CallingRow
    <3> QED
      BY <1>18, <3>1 DEF Crash, CountValues, database
  <2>2. ReplicaValues'
    BY <1>18 DEF Crash, ReplicaValues, Phases
  <2> QED
    BY <1>18, <2>1, <2>2 DEF Crash, DatabaseValues, database
<1>19. ASSUME UNCHANGED vars PROVE Values'
  BY <1>19 DEF vars, DatabaseValues, ReplicaValues, CountValues, database, world
<1> HIDE DEF IInv, Values
<1> QED
  BY <1>1, <1>2, <1>3, <1>4, <1>5, <1>5a, <1>6, <1>7, <1>8, <1>9, <1>10, <1>11, <1>13,
     <1>15, <1>16, <1>17, <1>18, <1>19 DEF Next, Tick

-----------------------------------------------------------------------------
(* Locks.                                                                  *)

Senders == HoldsWhileCalling /\ OneSender

(* A notice is locked by the one replica that sends it: only CallProvider  *)
(* takes a lock, of a row nobody holds, and the end of the call frees it.  *)
LEMMA SendersKept == IInv /\ [Next]_vars => Senders'
<1> SUFFICES ASSUME IInv, [Next]_vars PROVE Senders'
  OBVIOUS
<1>0. ReplicaValues /\ HoldsWhileCalling /\ OneSender
  BY DEF IInv, Values
<1> USE <1>0 DEF Senders, HoldsWhileCalling, OneSender, ReplicaValues
<1>1. ASSUME NEW m \in Milestones, WriteMilestone(m) \/ LeaveWindow(m) PROVE Senders'
  BY <1>1 DEF WriteMilestone, LeaveWindow
<1>2. ASSUME NEW c \in Channels, ChangeConsent(c) PROVE Senders'
  BY <1>2 DEF ChangeConsent
<1>3. ASSUME NEW n \in Notices, ClaimTimesOut(n) PROVE Senders'
  BY <1>3 DEF ClaimTimesOut
<1>4. ASSUME NEW w \in Replicas, FindPending(w) \/ ReadConsents(w) PROVE Senders'
  BY <1>4 DEF FindPending, ReadConsents
<1>5. ASSUME NEW w \in Replicas, InsertNotices(w) PROVE Senders'
  BY <1>5 DEF InsertNotices
<1>6. ASSUME NEW w \in Replicas, Claim(w) PROVE Senders'
  BY <1>6 DEF Claim
<1>7. ASSUME NEW w \in Replicas, NEW n \in Notices, LostRace(w, n) \/ SkipNotice(w, n)
      PROVE  Senders'
  BY <1>7 DEF LostRace, SkipNotice
<1>8. ASSUME NEW w \in Replicas, NEW n \in Notices, CallProvider(w, n) PROVE Senders'
  <2>1. \A v \in Replicas : current[v] # n
    BY <1>8, FreeRow DEF CallProvider, CallProviderIf, Reaches
  <2>2. n # NoNotice
    BY NoNoticeAssumption
  <2>3. /\ current' = [current EXCEPT ![w] = n]
        /\ pc' = [pc EXCEPT ![w] = "calling"]
    BY <1>8 DEF CallProvider, CallProviderIf
  <2> QED
    BY <2>1, <2>2, <2>3
<1>9. ASSUME NEW w \in Replicas, Accept(w) PROVE Senders'
  BY <1>9 DEF Accept
<1>10. ASSUME NEW w \in Replicas, RecordSent(w) \/ Fail(w) \/ FailThoughAccepted(w)
       PROVE  Senders'
  <2>1. current' = [current EXCEPT ![w] = NoNotice] /\ pc' = [pc EXCEPT ![w] = "sending"]
    BY <1>10 DEF RecordSent, Fail, FailThoughAccepted, Conclude
  <2> QED
    BY <2>1
<1>11. ASSUME NEW w \in Replicas, EndTick(w) PROVE Senders'
  BY <1>11 DEF EndTick
<1>12. ASSUME NEW w \in Replicas, Crash(w) PROVE Senders'
  BY <1>12 DEF Crash
<1>13. ASSUME UNCHANGED vars PROVE Senders'
  BY <1>13 DEF vars
<1> QED
  BY <1>1, <1>2, <1>3, <1>4, <1>5, <1>6, <1>7, <1>8, <1>9, <1>10, <1>11, <1>12, <1>13
     DEF Next, Tick

-----------------------------------------------------------------------------
(* What a step does to the rows.  The locks are what makes it so: a claim  *)
(* and a skip meet only rows nobody sends, an insert only rows there are   *)
(* not.                                                                    *)

\* The step leaves the row of n alone.
RowKept(n) == status'[n] = status[n] /\ attempts'[n] = attempts[n]

\* The step ends the call of the replica that holds n.
CallEnds(n) ==
    \E w \in Replicas :
        /\ current[w] = n /\ pc[w] \in {"calling", "accepted"}
        /\ status'[n] \in {"sent", "queued", "failed"}
        /\ status'[n] = "queued" => attempts[n] + 1 < MaxAttempts
        /\ attempts'[n] = attempts[n] + 1
        /\ current'[w] = NoNotice
        /\ status'[n] = "sent" <=> RecordSent(w)

\* The step writes the row of n without a message being sent.
RowWritten(n) ==
    \/ /\ status[n] = "none"
       /\ \/ status'[n] = "queued" /\ attempts'[n] = 0
          \/ status'[n] \in {"failed", "skipped"}
    \/ /\ status[n] \in {"queued", "sending"} /\ \A w \in Replicas : current[w] # n
       /\ status'[n] \in {"sending", "skipped"} /\ attempts'[n] = attempts[n]

RowsFollow == \A n \in Notices : RowKept(n) \/ RowWritten(n) \/ CallEnds(n)

(* A step that leaves the table alone leaves every row alone.              *)
LEMMA TableKept ==
    ASSUME UNCHANGED <<status, attempts>>
    PROVE  RowsFollow
BY DEF RowsFollow, RowKept

(* The end of a call changes the row that is locked and no other.          *)
LEMMA ConcludeFollows ==
    ASSUME IInv, NEW w \in Replicas, pc[w] \in {"calling", "accepted"},
           NEW to \in {"sent", "queued", "failed"}, Conclude(w, to),
           to = "sent" <=> RecordSent(w),
           to = "queued" => attempts[current[w]] + 1 < MaxAttempts
    PROVE  RowsFollow
<1>1. current[w] \in Notices
  BY CallingRow
<1>2. /\ status \in [Notices -> Statuses \cup {"none"}]
      /\ attempts \in [Notices -> 0..MaxAttempts]
      /\ current \in [Replicas -> Notices \cup {NoNotice}]
  BY DEF IInv, Values, DatabaseValues, ReplicaValues
<1>3. /\ status' = [status EXCEPT ![current[w]] = to]
      /\ attempts' = [attempts EXCEPT ![current[w]] = @ + 1]
      /\ current' = [current EXCEPT ![w] = NoNotice]
  BY DEF Conclude
<1>4. CallEnds(current[w])
  BY <1>1, <1>2, <1>3 DEF CallEnds
<1>5. ASSUME NEW n \in Notices, n # current[w] PROVE RowKept(n)
  BY <1>2, <1>3, <1>5 DEF RowKept
<1> QED
  BY <1>4, <1>5 DEF RowsFollow

(* So each step leaves a row alone, writes one that nobody sends, or ends  *)
(* its call.                                                               *)
LEMMA StepsFollowRows == IInv /\ [Next]_vars => RowsFollow
<1> SUFFICES ASSUME IInv, [Next]_vars PROVE RowsFollow
  OBVIOUS
<1>0. /\ status \in [Notices -> Statuses \cup {"none"}]
      /\ attempts \in [Notices -> 0..MaxAttempts]
  BY DEF IInv, Values, DatabaseValues
<1>1. ASSUME NEW m \in Milestones, WriteMilestone(m) \/ LeaveWindow(m) PROVE RowsFollow
  BY <1>1, TableKept DEF WriteMilestone, LeaveWindow
<1>2. ASSUME NEW c \in Channels, ChangeConsent(c) PROVE RowsFollow
  BY <1>2, TableKept DEF ChangeConsent
<1>3. ASSUME NEW n \in Notices, ClaimTimesOut(n) PROVE RowsFollow
  BY <1>3, TableKept DEF ClaimTimesOut
<1>4. ASSUME NEW w \in Replicas, FindPending(w) \/ ReadConsents(w) PROVE RowsFollow
  BY <1>4, TableKept DEF FindPending, ReadConsents, database
<1>5. ASSUME NEW w \in Replicas, InsertNotices(w) PROVE RowsFollow
  <2>1. PICK row \in [Channels -> Statuses] :
          /\ \A c \in Channels : row[c] \in RowStatus(w, c)
          /\ status' = [n \in Notices |-> IF n \in Inserted(w) THEN row[n[2]] ELSE status[n]]
          /\ attempts' = [n \in Notices |->
                IF n \in Inserted(w) THEN IF row[n[2]] = "failed" THEN MaxAttempts ELSE 0
                ELSE attempts[n]]
    BY <1>5 DEF InsertNotices
  <2>2. ASSUME NEW n \in Notices, n \in Inserted(w) PROVE RowWritten(n)
    <3>1. status[n] = "none"
      BY <2>2 DEF Inserted
    <3>2. row[n[2]] \in {"queued", "failed", "skipped"}
      BY <2>1, ChannelOfNotice, RowStatusValues
    <3>3. status'[n] = row[n[2]] /\ (row[n[2]] # "failed" => attempts'[n] = 0)
      BY <2>1, <2>2
    <3> QED
      BY <3>1, <3>2, <3>3 DEF RowWritten
  <2>3. ASSUME NEW n \in Notices, n \notin Inserted(w) PROVE RowKept(n)
    BY <2>1, <2>3 DEF RowKept
  <2> QED
    BY <2>2, <2>3 DEF RowsFollow
<1>6. ASSUME NEW w \in Replicas, Claim(w) PROVE RowsFollow
  <2>1. PICK S \in SUBSET (Claimable \ Locked) :
          status' = [n \in Notices |-> IF n \in S THEN "sending" ELSE status[n]]
    BY <1>6 DEF Claim
  <2>2. attempts' = attempts
    BY <1>6 DEF Claim
  <2>3. ASSUME NEW n \in Notices, n \in S PROVE RowWritten(n)
    <3>1. status[n] \in {"queued", "sending"} /\ n \notin Locked
      BY <2>3 DEF Claimable
    <3>2. \A v \in Replicas : current[v] # n
      BY <3>1, FreeRow
    <3> QED
      BY <2>1, <2>2, <2>3, <3>1, <3>2 DEF RowWritten
  <2>4. ASSUME NEW n \in Notices, n \notin S PROVE RowKept(n)
    BY <2>1, <2>2, <2>4 DEF RowKept
  <2> QED
    BY <2>3, <2>4 DEF RowsFollow
<1>7. ASSUME NEW w \in Replicas, NEW n \in Notices, LostRace(w, n) PROVE RowsFollow
  BY <1>7, TableKept DEF LostRace, database
<1>8. ASSUME NEW w \in Replicas, NEW n \in Notices, SkipNotice(w, n) PROVE RowsFollow
  <2>1. status[n] = "sending" /\ \A v \in Replicas : current[v] # n
    BY <1>8, FreeRow DEF SkipNotice, Reaches
  <2>2. status' = [status EXCEPT ![n] = "skipped"] /\ attempts' = attempts
    BY <1>8 DEF SkipNotice
  <2>3. RowWritten(n)
    BY <1>0, <2>1, <2>2 DEF RowWritten
  <2>4. ASSUME NEW k \in Notices, k # n PROVE RowKept(k)
    BY <1>0, <2>2, <2>4 DEF RowKept
  <2> QED
    BY <2>3, <2>4 DEF RowsFollow
<1>9. ASSUME NEW w \in Replicas, NEW n \in Notices, CallProvider(w, n) PROVE RowsFollow
  BY <1>9, TableKept DEF CallProvider, CallProviderIf, database
<1>10. ASSUME NEW w \in Replicas, Accept(w) PROVE RowsFollow
  BY <1>10, TableKept DEF Accept, database
<1>11. ASSUME NEW w \in Replicas, RecordSent(w) PROVE RowsFollow
  <2>1. pc[w] = "accepted" /\ Conclude(w, "sent")
    BY <1>11 DEF RecordSent
  <2> QED
    BY <1>11, <2>1, ConcludeFollows
<1>12. ASSUME NEW w \in Replicas, Fail(w) \/ FailThoughAccepted(w) PROVE RowsFollow
  <2>1. pc[w] = "calling" /\ Conclude(w, AfterFailure(current[w]))
    BY <1>12 DEF Fail, FailThoughAccepted
  <2>2. ~RecordSent(w)
    BY <2>1 DEF RecordSent
  <2>3. /\ AfterFailure(current[w]) \in {"queued", "failed"}
        /\ AfterFailure(current[w]) = "queued" => attempts[current[w]] + 1 < MaxAttempts
    BY <2>1, CallingRow, FailureStatus
  <2> QED
    BY <2>1, <2>2, <2>3, ConcludeFollows
<1>13. ASSUME NEW w \in Replicas, EndTick(w) \/ Crash(w) PROVE RowsFollow
  BY <1>13, TableKept DEF EndTick, Crash, database
<1>14. ASSUME UNCHANGED vars PROVE RowsFollow
  BY <1>14, TableKept DEF vars, database
<1> QED
  BY <1>1, <1>2, <1>3, <1>4, <1>5, <1>6, <1>7, <1>8, <1>9, <1>10, <1>11, <1>12, <1>13, <1>14
     DEF Next, Tick

-----------------------------------------------------------------------------
(* Messages.                                                               *)

\* No call ends or is answered, and one that begins has a lock and a consent.
Quiet ==
    /\ UNCHANGED <<onRecord, delivered, unheard, crashes>>
    /\ \A w \in Replicas :
         /\ pc[w] \in {"calling", "accepted"} => current'[w] = current[w] /\ pc'[w] = pc[w]
         /\ pc'[w] = "accepted" => pc[w] = "accepted"
         /\ pc'[w] = "calling" => \/ pc[w] = "calling"
                                  \/ status[current'[w]] = "sending" /\ consent[current'[w][2]]
         /\ \/ current'[w] = current[w]
            \/ status[current'[w]] = "sending" /\ UNCHANGED status

\* A replica's call comes to its end, recorded, failed or cut off.
End(w) == RecordSent(w) \/ Fail(w) \/ FailThoughAccepted(w)

(* Every step is quiet, an answer, an end or a crash.                      *)
LEMMA StepKinds ==
    IInv /\ [Next]_vars => \/ Quiet
                           \/ \E w \in Replicas : Accept(w) \/ End(w) \/ Crash(w)
<1> SUFFICES ASSUME IInv, [Next]_vars,
                    \A w \in Replicas : ~(Accept(w) \/ End(w) \/ Crash(w))
             PROVE  Quiet
  OBVIOUS
<1>0. ReplicaValues
  BY DEF IInv, Values
<1> USE <1>0 DEF Quiet, ReplicaValues, world
<1>1. ASSUME NEW m \in Milestones, WriteMilestone(m) \/ LeaveWindow(m) PROVE Quiet
  BY <1>1 DEF WriteMilestone, LeaveWindow
<1>2. ASSUME NEW c \in Channels, ChangeConsent(c) PROVE Quiet
  BY <1>2 DEF ChangeConsent
<1>3. ASSUME NEW n \in Notices, ClaimTimesOut(n) PROVE Quiet
  BY <1>3 DEF ClaimTimesOut
<1>4. ASSUME NEW w \in Replicas, FindPending(w) \/ ReadConsents(w) PROVE Quiet
  BY <1>4 DEF FindPending, ReadConsents, database
<1>5. ASSUME NEW w \in Replicas, InsertNotices(w) PROVE Quiet
  BY <1>5 DEF InsertNotices
<1>6. ASSUME NEW w \in Replicas, Claim(w) PROVE Quiet
  BY <1>6 DEF Claim
<1>7. ASSUME NEW w \in Replicas, NEW n \in Notices, LostRace(w, n) \/ SkipNotice(w, n)
      PROVE  Quiet
  BY <1>7 DEF LostRace, SkipNotice, database
<1>8. ASSUME NEW w \in Replicas, NEW n \in Notices, CallProvider(w, n) PROVE Quiet
  BY <1>8 DEF CallProvider, CallProviderIf, Reaches, database
<1>9. ASSUME NEW w \in Replicas, EndTick(w) PROVE Quiet
  BY <1>9 DEF EndTick, database
<1>10. ASSUME UNCHANGED vars PROVE Quiet
  BY <1>10 DEF vars, database
<1> QED
  BY <1>1, <1>2, <1>3, <1>4, <1>5, <1>6, <1>7, <1>8, <1>9, <1>10 DEF Next, Tick, End

(* A notice that is locked by one replica is answered by no other.         *)
LEMMA AnsweredByHolder ==
    ASSUME IInv, NEW w \in Replicas, pc[w] \in {"calling", "accepted"}
    PROVE  /\ Answered(current[w]) <=> pc[w] = "accepted"
           /\ current[w] \in Notices
BY CallingRow DEF Answered

(* The row a replica sends stays `sending` until its call ends, and no     *)
(* other row is touched by a call.                                         *)
LEMMA RowsKept ==
    IInv /\ [Next]_vars => HeldIsSending' /\ OpenHasAttempts' /\ UnwrittenIsUnsent'
<1> SUFFICES ASSUME IInv, [Next]_vars
             PROVE  HeldIsSending' /\ OpenHasAttempts' /\ UnwrittenIsUnsent'
  OBVIOUS
<1>0. /\ ReplicaValues /\ CountValues /\ HoldsWhileCalling /\ OneSender
      /\ HeldIsSending /\ OpenHasAttempts /\ UnwrittenIsUnsent
      /\ ReplicaValues' /\ HoldsWhileCalling'
  BY ValuesKept, SendersKept DEF IInv, Values, Senders
<1>1. RowsFollow
  BY StepsFollowRows
<1>2. OpenHasAttempts'
  <2> SUFFICES ASSUME NEW n \in Notices, status'[n] \in {"queued", "sending"}
               PROVE  attempts'[n] < MaxAttempts
    BY DEF OpenHasAttempts
  <2>1. CASE RowKept(n)
    BY <1>0, <2>1 DEF RowKept, OpenHasAttempts
  <2>2. CASE RowWritten(n)
    BY <1>0, <2>2, CountsAssumption DEF RowWritten, OpenHasAttempts
  <2>3. CASE CallEnds(n)
    BY <2>3 DEF CallEnds
  <2> QED
    BY <1>1, <2>1, <2>2, <2>3 DEF RowsFollow
<1>3. ASSUME NEW n \in Notices, status'[n] = "none"
      PROVE  status[n] = "none"
  BY <1>1, <1>3 DEF RowsFollow, RowKept, RowWritten, CallEnds
<1>4. ASSUME NEW n \in Notices, delivered'[n] # delivered[n] PROVE status[n] = "sending"
  <2>1. PICK w \in Replicas : Accept(w) \/ End(w) \/ Crash(w)
    BY <1>4, StepKinds DEF Quiet
  <2>2. /\ pc[w] = "calling"
        /\ delivered' = [delivered EXCEPT ![current[w]] = @ + 1]
    BY <1>4, <2>1 DEF Accept, End, RecordSent, Fail, FailThoughAccepted, Crash, world
  <2> QED
    BY <1>0, <1>4, <2>2, CallingRow DEF CountValues
<1>5. UnwrittenIsUnsent'
  BY <1>0, <1>3, <1>4 DEF UnwrittenIsUnsent
<1>6. ASSUME NEW w \in Replicas, current'[w] # NoNotice,
             ~(current'[w] = current[w])
      PROVE  status[current'[w]] = "sending" /\ UNCHANGED status
  <2>1. ASSUME NEW v \in Replicas, Accept(v) \/ End(v) \/ Crash(v) PROVE FALSE
    BY <1>0, <1>6, <2>1
       DEF Accept, End, RecordSent, Fail, FailThoughAccepted, Conclude, Crash, ReplicaValues
  <2> QED
    BY <1>6, <2>1, StepKinds DEF Quiet
<1>7. ASSUME NEW w \in Replicas, current'[w] # NoNotice, current'[w] = current[w]
      PROVE  status'[current[w]] = "sending"
  <2>1. current[w] \in Notices /\ status[current[w]] = "sending"
    BY <1>0, <1>7 DEF ReplicaValues, HeldIsSending
  <2>2. ~CallEnds(current[w])
    BY <1>0, <1>7 DEF CallEnds, OneSender
  <2>3. ~RowWritten(current[w])
    BY <2>1 DEF RowWritten
  <2> QED
    BY <1>1, <2>1, <2>2, <2>3 DEF RowsFollow, RowKept
<1>8. HeldIsSending'
  BY <1>6, <1>7 DEF HeldIsSending
<1> QED
  BY <1>2, <1>5, <1>8

(* What was delivered, recorded and lost adds up after every step.         *)
LEMMA CountsKept == IInv /\ [Next]_vars => CountsHold'
<1> SUFFICES ASSUME IInv, [Next]_vars, NEW n \in Notices
             PROVE  /\ onRecord'[n] = One(status'[n] = "sent")
                    /\ delivered'[n] = unheard'[n] + One(status'[n] = "sent") + One(Answered(n)')
                    /\ delivered'[n] =< attempts'[n] + crashes' + One(Answered(n)')
  BY DEF CountsHold
<1>0. /\ DatabaseValues /\ ReplicaValues /\ CountValues /\ HoldsWhileCalling /\ OneSender
      /\ HeldIsSending /\ UnwrittenIsUnsent /\ CountsHold
      /\ attempts'[n] \in Nat
  BY ValuesKept, CountsAssumption DEF IInv, Values, DatabaseValues
<1>1. RowKept(n) \/ RowWritten(n) \/ CallEnds(n)
  BY StepsFollowRows DEF RowsFollow
<1>2. /\ onRecord[n] = One(status[n] = "sent")
      /\ delivered[n] = unheard[n] + One(status[n] = "sent") + One(Answered(n))
      /\ delivered[n] =< attempts[n] + crashes + One(Answered(n))
      /\ onRecord[n] \in Nat /\ delivered[n] \in Nat /\ unheard[n] \in Nat
      /\ attempts[n] \in Nat /\ crashes \in Nat
      /\ status[n] = "none" => delivered[n] = 0
  BY <1>0, CountsAssumption DEF CountsHold, CountValues, DatabaseValues, UnwrittenIsUnsent
<1>3. CASE Quiet
  <2>1. Answered(n)' <=> Answered(n)
    <3>1. ASSUME NEW w \in Replicas
          PROVE  current'[w] = n /\ pc'[w] = "accepted" <=> current[w] = n /\ pc[w] = "accepted"
      BY <1>3 DEF Quiet
    <3> QED
      BY <3>1 DEF Answered
  <2>2. ~CallEnds(n)
    BY <1>3, NoNoticeAssumption DEF Quiet, CallEnds
  <2>3. /\ status'[n] = "sent" <=> status[n] = "sent"
        /\ attempts'[n] = attempts[n] \/ status[n] = "none"
    BY <1>1, <2>2 DEF RowKept, RowWritten
  <2>4. onRecord'[n] = onRecord[n] /\ delivered'[n] = delivered[n] /\ unheard'[n] = unheard[n]
        /\ crashes' = crashes
    BY <1>3 DEF Quiet
  <2> QED
    BY <1>0, <1>2, <2>1, <2>3, <2>4 DEF One
<1>4. ASSUME NEW w \in Replicas, Accept(w) \/ End(w) \/ Crash(w), current[w] # n
      PROVE  /\ onRecord'[n] = onRecord[n] /\ delivered'[n] = delivered[n]
             /\ unheard'[n] = unheard[n]
             /\ status'[n] = status[n] /\ attempts'[n] = attempts[n]
             /\ crashes' \in {crashes, crashes + 1}
             /\ Answered(n)' <=> Answered(n)
  <2>1. /\ \A v \in Replicas : v # w => current'[v] = current[v] /\ pc'[v] = pc[v]
        /\ current'[w] \in {current[w], NoNotice}
    BY <1>0, <1>4 DEF ReplicaValues, Accept, End, RecordSent, Fail, FailThoughAccepted,
                      Conclude, Crash
  <2>2. Answered(n)' <=> Answered(n)
    BY <1>4, <2>1, NoNoticeAssumption DEF Answered
  <2>3. /\ onRecord'[n] = onRecord[n] /\ delivered'[n] = delivered[n]
        /\ unheard'[n] = unheard[n]
        /\ status'[n] = status[n] /\ attempts'[n] = attempts[n]
        /\ crashes' \in {crashes, crashes + 1}
    BY <1>0, <1>4 DEF DatabaseValues, CountValues, Accept, End, RecordSent, Fail,
                      FailThoughAccepted, Conclude, Crash, database, world
  <2> QED
    BY <2>2, <2>3
<1>5. ASSUME NEW w \in Replicas, Accept(w) \/ End(w) \/ Crash(w), current[w] # n
      PROVE  /\ onRecord'[n] = One(status'[n] = "sent")
             /\ delivered'[n] = unheard'[n] + One(status'[n] = "sent") + One(Answered(n)')
             /\ delivered'[n] =< attempts'[n] + crashes' + One(Answered(n)')
  BY <1>2, <1>4, <1>5 DEF One
<1>6. ASSUME NEW w \in Replicas, current[w] = n
      PROVE  /\ pc[w] \in {"calling", "accepted"} /\ status[n] = "sending"
             /\ Answered(n) <=> pc[w] = "accepted"
             /\ \A v \in Replicas : v # w => current[v] # n
  <2>1. pc[w] \in {"calling", "accepted"}
    BY <1>0, <1>6, NoNoticeAssumption DEF HoldsWhileCalling
  <2> QED
    BY <1>6, <2>1, CallingRow, AnsweredByHolder
<1>7. ASSUME NEW w \in Replicas, Accept(w), current[w] = n
      PROVE  /\ onRecord'[n] = One(status'[n] = "sent")
             /\ delivered'[n] = unheard'[n] + One(status'[n] = "sent") + One(Answered(n)')
             /\ delivered'[n] =< attempts'[n] + crashes' + One(Answered(n)')
  <2>1. /\ delivered'[n] = delivered[n] + 1 /\ UNCHANGED <<onRecord, unheard, status, attempts, crashes>>
        /\ pc[w] = "calling" /\ pc'[w] = "accepted" /\ current' = current
    BY <1>0, <1>7 DEF Accept, database, CountValues, ReplicaValues
  <2>2. ~Answered(n) /\ Answered(n)'
    BY <1>6, <1>7, <2>1 DEF Answered
  <2> QED
    BY <1>2, <2>1, <2>2 DEF One
<1>8. ASSUME NEW w \in Replicas, End(w) \/ Crash(w), current[w] = n
      PROVE  ~Answered(n)'
  <2>1. /\ current'[w] = NoNotice
        /\ \A v \in Replicas : v # w => current'[v] = current[v]
    BY <1>0, <1>8 DEF End, RecordSent, Fail, FailThoughAccepted, Conclude, Crash, ReplicaValues
  <2> QED
    BY <1>6, <1>8, <2>1, NoNoticeAssumption DEF Answered
<1>9. ASSUME NEW w \in Replicas, End(w), current[w] = n
      PROVE  /\ onRecord'[n] = One(status'[n] = "sent")
             /\ delivered'[n] = unheard'[n] + One(status'[n] = "sent") + One(Answered(n)')
             /\ delivered'[n] =< attempts'[n] + crashes' + One(Answered(n)')
  <2>1. attempts'[n] = attempts[n] + 1 /\ crashes' = crashes
    BY <1>0, <1>9 DEF End, RecordSent, Fail, FailThoughAccepted, Conclude, DatabaseValues
  <2>2. CASE RecordSent(w)
    <3>1. /\ pc[w] = "accepted" /\ status'[n] = "sent" /\ onRecord'[n] = onRecord[n] + 1
          /\ delivered' = delivered /\ unheard' = unheard
      BY <1>0, <1>9, <2>2 DEF RecordSent, Conclude, DatabaseValues, CountValues, world
    <3> QED
      BY <1>2, <1>6, <1>8, <1>9, <2>1, <3>1 DEF One
  <2>3. CASE Fail(w) \/ FailThoughAccepted(w)
    <3>1. /\ pc[w] = "calling" /\ onRecord' = onRecord
          /\ \/ delivered' = delivered /\ unheard' = unheard
             \/ delivered'[n] = delivered[n] + 1 /\ unheard'[n] = unheard[n] + 1
      BY <1>0, <1>9, <2>3 DEF Fail, FailThoughAccepted, CountValues, world
    <3>2. status'[n] # "sent"
      <4>1. status'[n] = AfterFailure(n)
        BY <1>0, <1>9, <2>3 DEF Fail, FailThoughAccepted, Conclude, DatabaseValues
      <4> QED
        BY <4>1 DEF AfterFailure
    <3> QED
      BY <1>2, <1>6, <1>8, <1>9, <2>1, <3>1, <3>2 DEF One
  <2> QED
    BY <1>9, <2>2, <2>3 DEF End
<1>10. ASSUME NEW w \in Replicas, Crash(w), current[w] = n
       PROVE  /\ onRecord'[n] = One(status'[n] = "sent")
              /\ delivered'[n] = unheard'[n] + One(status'[n] = "sent") + One(Answered(n)')
              /\ delivered'[n] =< attempts'[n] + crashes' + One(Answered(n)')
  <2>1. /\ UNCHANGED <<status, attempts, onRecord, delivered>> /\ crashes' = crashes + 1
        /\ unheard'[n] = unheard[n] + One(pc[w] = "accepted")
    BY <1>0, <1>10 DEF Crash, database, CountValues, One
  <2> QED
    BY <1>2, <1>6, <1>8, <1>10, <2>1 DEF One
<1> QED
  BY <1>3, <1>5, <1>7, <1>9, <1>10, StepKinds

-----------------------------------------------------------------------------
(* The theorems.                                                           *)

(* Every step keeps the invariant.                                         *)
LEMMA StepKeeps == IInv /\ [Next]_vars => IInv'
BY ValuesKept, SendersKept, RowsKept, CountsKept DEF IInv, Values, Senders

(* The invariant holds throughout.                                         *)
LEMMA Invariant == Safety => []IInv
BY InitEstablishes, StepKeeps, PTL DEF Safety

(* Two replicas never send one notice at the same time, whatever was       *)
(* claimed, however often claims time out and ticks die, and a count of    *)
(* attempts never exceeds comms_max_attempts.                              *)
THEOREM TypeCorrect == Safety => []TypeOK
<1>1. IInv => TypeOK
  BY DEF IInv, Values, DatabaseValues, ReplicaValues, Phases, HoldsWhileCalling,
         OneSender, TypeOK
<1> QED
  BY <1>1, Invariant, PTL

(* The replicas that have an answer they have not recorded are none or one.*)
LEMMA AnswersCounted ==
    ASSUME IInv, NEW n \in Notices
    PROVE  Cardinality({w \in Replicas : current[w] = n /\ pc[w] = "accepted"}) = One(Answered(n))
<1> DEFINE Holders == {w \in Replicas : current[w] = n /\ pc[w] = "accepted"}
<1>1. CASE ~Answered(n)
  <2>1. Holders = {}
    BY <1>1 DEF Answered
  <2> QED
    BY <1>1, <2>1, FS_EmptySet DEF One
<1>2. CASE Answered(n)
  <2>1. PICK w \in Replicas : current[w] = n /\ pc[w] = "accepted"
    BY <1>2 DEF Answered
  <2>2. Holders = {w}
    BY <2>1, CallingRow
  <2> QED
    BY <1>2, <2>2, FS_Singleton DEF One
<1> QED
  BY <1>1, <1>2

(* A message reaches the farmer twice only if an acceptance was lost, at   *)
(* most comms_max_attempts times and once more for every crash; and a      *)
(* notice is `sent` when one of them is known to have arrived, with one    *)
(* row in the audit log.                                                   *)
THEOREM DuplicatesExplained == Safety => []DuplicatesAreExplained
<1>1. ASSUME IInv PROVE DuplicatesAreExplained
  <2> SUFFICES ASSUME NEW n \in Notices
      PROVE  /\ onRecord[n] = One(status[n] = "sent")
             /\ delivered[n] = unheard[n] + One(status[n] = "sent")
                  + Cardinality({w \in Replicas : current[w] = n /\ pc[w] = "accepted"})
             /\ delivered[n] =< MaxAttempts + crashes
    BY DEF DuplicatesAreExplained, One
  <2>1. /\ onRecord[n] = One(status[n] = "sent")
        /\ delivered[n] = unheard[n] + One(status[n] = "sent") + One(Answered(n))
        /\ delivered[n] =< attempts[n] + crashes + One(Answered(n))
    BY <1>1 DEF IInv, CountsHold
  <2>2. /\ attempts[n] \in 0..MaxAttempts /\ MaxAttempts \in Nat
        /\ delivered[n] \in Nat /\ crashes \in Nat
    BY <1>1, CountsAssumption DEF IInv, Values, DatabaseValues, CountValues
  <2>3. Answered(n) => attempts[n] < MaxAttempts
    BY <1>1, CallingRow DEF Answered
  <2>4. delivered[n] =< MaxAttempts + crashes
    BY <2>1, <2>2, <2>3 DEF One
  <2> QED
    BY <1>1, <2>1, <2>4, AnswersCounted
<1> QED
  BY <1>1, Invariant, PTL

(* A notice that is sent, given up or skipped stays so: who holds its row  *)
(* sees a notice that is `sending`, and who claims it one that is open. A  *)
(* call begins only for a row that is `sending` and with the consent that  *)
(* dispatch() has just read, and one that was under way becomes at most    *)
(* the one message it is already counted as.                               *)
THEOREM NothingMoreSetsOut == Safety => SettledOrWithdrawnIsOver
<1>0. ASSUME IInv, [Next]_vars, NEW n \in Notices, status[n] \in Settled
      PROVE  status'[n] = status[n]
  <2>1. RowKept(n) \/ RowWritten(n) \/ CallEnds(n)
    BY <1>0, StepsFollowRows DEF RowsFollow
  <2>2. ~RowWritten(n)
    BY <1>0 DEF RowWritten, Settled
  <2>3. ~CallEnds(n)
    BY <1>0, CallingRow DEF CallEnds, Settled
  <2> QED
    BY <2>1, <2>2, <2>3 DEF RowKept
<1>1. ASSUME IInv, [Next]_vars, NEW n \in Notices, status[n] \in Settled \/ ~consent[n[2]]
      PROVE  Outgoing(n)' <= Outgoing(n)
  <2>0. /\ ReplicaValues /\ CountValues /\ delivered[n] \in Nat
    BY <1>1 DEF IInv, Values, CountValues
  <2>1. CASE Quiet
    <3>1. delivered'[n] = delivered[n]
      BY <2>1 DEF Quiet
    <3>2. ASSUME NEW w \in Replicas, current'[w] = n, pc'[w] = "calling"
          PROVE  current[w] = n /\ pc[w] = "calling"
      BY <1>1, <2>1, <3>2 DEF Quiet, Settled
    <3>3. WithProvider(n)' => WithProvider(n)
      BY <3>2 DEF WithProvider
    <3> QED
      BY <2>0, <3>1, <3>3 DEF Outgoing
  <2>2. ASSUME NEW w \in Replicas, Accept(w) \/ End(w) \/ Crash(w)
        PROVE  Outgoing(n)' <= Outgoing(n)
    <3>1. /\ pc'[w] # "calling"
          /\ \A v \in Replicas : v # w => current'[v] = current[v] /\ pc'[v] = pc[v]
      BY <2>0, <2>2 DEF ReplicaValues, Accept, End, RecordSent, Fail, FailThoughAccepted,
                        Conclude, Crash
    <3>2. WithProvider(n)' => \E v \in Replicas \ {w} : current[v] = n /\ pc[v] = "calling"
      BY <3>1 DEF WithProvider
    <3>3. \/ delivered'[n] = delivered[n]
          \/ delivered'[n] = delivered[n] + 1 /\ current[w] = n /\ pc[w] = "calling"
      BY <2>0, <2>2 DEF CountValues, Accept, End, RecordSent, Fail, FailThoughAccepted,
                        Crash, world
    <3>4. CASE delivered'[n] = delivered[n]
      BY <2>0, <3>2, <3>4 DEF Outgoing, WithProvider
    <3>5. CASE delivered'[n] = delivered[n] + 1 /\ current[w] = n /\ pc[w] = "calling"
      <4>1. ~WithProvider(n)' /\ WithProvider(n)
        BY <1>1, <3>2, <3>5, CallingRow DEF WithProvider
      <4> QED
        BY <2>0, <3>5, <4>1 DEF Outgoing
    <3> QED
      BY <3>3, <3>4, <3>5
  <2> QED
    BY <1>1, <2>1, <2>2, StepKinds
<1>2. IInv /\ [Next]_vars =>
        [\A n \in Notices :
            /\ status[n] \in Settled => status'[n] = status[n]
            /\ status[n] \in Settled \/ ~consent[n[2]] => Outgoing(n)' <= Outgoing(n)]_vars
  BY <1>0, <1>1
<1> QED
  BY <1>2, Invariant, PTL DEF Safety, SettledOrWithdrawnIsOver
===============================================================================
