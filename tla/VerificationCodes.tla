-------------------------- MODULE VerificationCodes --------------------------
(***************************************************************************)
(* Contact verification: send_verification_code and                        *)
(* confirm_verification_code (app/routers/verifications.py) for one farmer *)
(* and one channel, behind the address limit of RateLimits.                *)
(*                                                                         *)
(* A send locks the farmer's row, and so its sends come one by one; it     *)
(* then updates the active code and calls the provider before it commits.  *)
(* A confirmation locks the active code first and the farmer's row after   *)
(* that: of a send and a confirmation that wait for each other PostgreSQL  *)
(* cancels one.  What a transaction has not committed only shows as a lock *)
(* to others, so a code is written here when its transaction commits.      *)
(***************************************************************************)
EXTENDS RateLimits

CONSTANTS
    CodeTTL, Cooldown, SendWindow, SendsPerWindow, MaxAttempts,
    MaxCrashes      \* bound: transactions that are cut off

ASSUME CodesAssumption ==
    /\ {CodeTTL, Cooldown, SendWindow, SendsPerWindow, MaxAttempts} \subseteq Nat \ {0}
    /\ Cooldown <= SendWindow
    /\ MaxCrashes \in Nat

VARIABLES
    codes,        \* the rows of verification_codes, in the order of their ids
    mine,         \* of each client: the code it works on, 0 for none
    verified,     \* "farmer.contact_verified" rows of the audit log
    wrong,        \* of each code: how many wrong guesses were answered
    messages,     \* codes a provider has accepted to send
    crashes

codeVars == <<codes, mine, verified, wrong, messages, crashes>>
vars == <<limitVars, codeVars>>

Ids == DOMAIN codes
Active == {k \in Ids : codes[k].status = "active"}

\* The transactions that hold the farmer's row, and those that hold a code's.
HoldsFarmer(c) ==
    phase[c] \in {"superseding", "sending", "accepted", "failed send", "confirming"}
HoldsCode(c) == phase[c] \in {"sending", "accepted", "failed send", "right", "confirming"}
\* Variant: the row is read without FOR UPDATE.
FarmerUnlocked == TRUE
FarmerFree == \A c \in Clients : ~HoldsFarmer(c)
CodeFree(k) == \A c \in Clients : HoldsCode(c) => mine[c] # k

Drop(c) == EndRequest(c) /\ mine' = [mine EXCEPT ![c] = 0]
To(c, p, k) ==
    /\ phase' = [phase EXCEPT ![c] = p]
    /\ mine' = [mine EXCEPT ![c] = k]
    /\ UNCHANGED <<op, left>>

-----------------------------------------------------------------------------
(* POST /farmers/{id}/verifications *)

\* retry_after: 0 where a send is allowed.
RetryAfter(at) ==
    LET recent == {k \in Ids : codes[k].created + SendWindow > at}
        cool == IF recent # {} /\ at < codes[Max(recent)].created + Cooldown
                THEN {codes[Max(recent)].created + Cooldown - at} ELSE {}
        full == IF Cardinality(recent) >= SendsPerWindow
                THEN {codes[Max(Ids) - SendsPerWindow + 1].created + SendWindow - at} ELSE {}
    IN  IF cool \cup full = {} THEN 0 ELSE Max({1} \cup cool \cup full)

\* The row lock, then the clock, then the rows inside the window.
LockFarmer(c) ==
    /\ phase[c] = "attempt" /\ op[c] = "send"
    /\ FarmerFree
    /\ RetryAfter(clock) = 0
    /\ To(c, "superseding", 0)
    /\ now' = [now EXCEPT ![c] = clock]
    /\ UNCHANGED <<clock, events, codes, verified, wrong, messages, crashes>>

\* Not the actor's farmer, no consent, no recipient; or sent too often.
SendRefused(c) ==
    /\ phase[c] = "attempt" /\ op[c] = "send"
    /\ FarmerFree
    /\ Drop(c)
    /\ UNCHANGED <<clock, events, codes, verified, wrong, messages, crashes>>

\* The UPDATE of the active code, if there is one, and the INSERT of the next.
Supersede(c) ==
    /\ phase[c] = "superseding"
    /\ \A k \in Active : CodeFree(k)
    /\ To(c, "sending", IF Active = {} THEN 0 ELSE Max(Active))
    /\ UNCHANGED <<clock, events, now, codes, verified, wrong, messages, crashes>>

\* dispatch(): the message is accepted; or it is not, or consent is gone, or
\* the answer of a provider that did accept it never came.
Dispatch(c) ==
    /\ phase[c] = "sending"
    /\ \E accepted, heard \in BOOLEAN :
         /\ To(c, IF accepted /\ heard THEN "accepted" ELSE "failed send", mine[c])
         /\ messages' = messages + (IF accepted THEN 1 ELSE 0)
    /\ UNCHANGED <<clock, events, now, codes, verified, wrong, crashes>>

\* The commit: a code nobody received is retired in the same transaction.
CommitSend(c) ==
    /\ phase[c] \in {"accepted", "failed send"}
    /\ codes' = Append(
         [k \in Ids |-> IF k = mine[c] THEN [codes[k] EXCEPT !.status = "superseded"]
                                       ELSE codes[k]],
         [created |-> now[c], attempts |-> 0,
          status |-> IF phase[c] = "accepted" THEN "active" ELSE "superseded"])
    /\ wrong' = Append(wrong, 0)
    /\ Drop(c)
    /\ UNCHANGED <<clock, events, verified, messages, crashes>>

-----------------------------------------------------------------------------
(* POST /farmers/{id}/verifications/confirm *)

\* The clock is read, and the SELECT finds the newest active code and goes on
\* to wait for its row.
Confirm(c) ==
    /\ phase[c] = "idle"
    /\ Active # {}
    /\ op' = [op EXCEPT ![c] = "confirm"]
    /\ phase' = [phase EXCEPT ![c] = "waiting"]
    /\ now' = [now EXCEPT ![c] = clock]
    /\ mine' = [mine EXCEPT ![c] = Max(Active)]
    /\ UNCHANGED <<clock, events, left, codes, verified, wrong, messages, crashes>>

\* Variant: the SELECT takes no lock.
GetsRowUnlocked(c) == phase[c] = "waiting"

GetsRow(c) == phase[c] = "waiting" /\ CodeFree(mine[c])

\* The row is looked at again once it is locked.
Usable(c) ==
    /\ mine[c] \in Active
    /\ now[c] < codes[mine[c]].created + CodeTTL
    /\ codes[mine[c]].attempts < MaxAttempts

\* No active code, or too many guesses.  (Where there is none to wait for the
\* answer is the same, and changes nothing.)
ConfirmRefused(c) ==
    /\ GetsRow(c) /\ ~Usable(c)
    /\ Drop(c)
    /\ UNCHANGED <<clock, events, codes, verified, wrong, messages, crashes>>

\* The guess is counted, committed and then refused.
WrongCode(c) ==
    /\ GetsRow(c) /\ Usable(c)
    /\ codes' = [codes EXCEPT ![mine[c]].attempts = @ + 1]
    /\ wrong' = [wrong EXCEPT ![mine[c]] = @ + 1]
    /\ Drop(c)
    /\ UNCHANGED <<clock, events, verified, messages, crashes>>

RightCode(c) ==
    /\ GetsRow(c) /\ Usable(c)
    /\ To(c, "right", mine[c])
    /\ UNCHANGED <<clock, events, now, codes, verified, wrong, messages, crashes>>

\* The flush writes the farmer's row, and waits for a send that holds it.
MarkContact(c) ==
    /\ phase[c] = "right"
    /\ FarmerFree
    /\ To(c, "confirming", mine[c])
    /\ UNCHANGED <<clock, events, now, codes, verified, wrong, messages, crashes>>

CommitConfirm(c) ==
    /\ phase[c] = "confirming"
    /\ codes' = [codes EXCEPT ![mine[c]].status = "consumed"]
    /\ verified' = verified + 1
    /\ Drop(c)
    /\ UNCHANGED <<clock, events, wrong, messages, crashes>>

-----------------------------------------------------------------------------
InTransaction(c) == HoldsFarmer(c) \/ HoldsCode(c) \/ phase[c] = "waiting"

\* The process or its connection dies.
Crash(c) ==
    /\ InTransaction(c)
    /\ crashes < MaxCrashes
    /\ crashes' = crashes + 1
    /\ Drop(c)
    /\ UNCHANGED <<clock, events, codes, verified, wrong, messages>>

\* A send that holds the farmer and a confirmation that holds the code.
Deadlock(s, d) ==
    /\ phase[s] = "superseding" /\ phase[d] = "right"
    /\ mine[d] \in Active

DeadlockVictim(c) ==
    /\ \E d \in Clients : Deadlock(c, d) \/ Deadlock(d, c)
    /\ Drop(c)
    /\ UNCHANGED <<clock, events, codes, verified, wrong, messages, crashes>>

Handle(c) ==
    \/ LockFarmer(c) \/ SendRefused(c) \/ Supersede(c) \/ Dispatch(c) \/ CommitSend(c)
    \/ ConfirmRefused(c) \/ WrongCode(c) \/ RightCode(c)
    \/ MarkContact(c) \/ CommitConfirm(c)
    \/ DeadlockVictim(c)

Init ==
    /\ LimitInit
    /\ codes = <<>> /\ wrong = <<>>
    /\ mine = [c \in Clients |-> 0]
    /\ verified = 0 /\ messages = 0 /\ crashes = 0

Next ==
    \/ /\ \/ Pass \/ Prune
          \/ \E c \in Clients : Limited(c) \/ \E o \in DOMAIN Checks : Begin(c, o)
       /\ UNCHANGED codeVars
    \/ \E c \in Clients : Confirm(c) \/ Handle(c) \/ Crash(c)

Safety == Init /\ [][Next]_vars

-----------------------------------------------------------------------------
(* Properties.                                                             *)

CodeTypeOK ==
    /\ codes \in Seq([created : Times, attempts : 0..MaxAttempts,
                      status : {"active", "superseded", "consumed"}])
    /\ Len(wrong) = Len(codes)
    /\ crashes \in 0..MaxCrashes
    \* row locks exclude each other
    /\ \A c, d \in Clients : c # d =>
         /\ ~(HoldsFarmer(c) /\ HoldsFarmer(d))
         /\ HoldsCode(c) /\ HoldsCode(d) => mine[c] = 0 \/ mine[c] # mine[d]

TypeOK == LimitTypeOK /\ CodeTypeOK

\* One code is good at a time, and it is the newest of those that were sent:
\* sends and confirmations that overlap, fail or die leave no second one.  And
\* a code verifies a contact once: each consumed row has its audit row.
OneGoodCode ==
    /\ \A k \in Active : \A m \in Ids : m > k => codes[m].status = "superseded"
    /\ Cardinality({k \in Ids : codes[k].status = "consumed"}) = verified

\* Every wrong guess that was answered is on record, and they end at
\* MAX_ATTEMPTS ("an uncounted wrong guess is an unlimited one",
\* app/routers/verifications.py:242-243).
GuessesAreCounted == \A k \in Ids : wrong[k] = codes[k].attempts /\ wrong[k] <= MaxAttempts

\* Whatever the provider does, sends keep the cooldown and the limit of a
\* window, and every message has a row that counts it ("Failed sends count
\* too", app/services/verification_codes.py:11-14), save one that is on its
\* way and those whose transaction died with the process.
SendsAreLimited ==
    /\ \A k \in Ids : k + 1 \in Ids => codes[k + 1].created >= codes[k].created + Cooldown
    /\ \A t \in Times :
         Cardinality({k \in Ids : codes[k].created \in t..(t + SendWindow - 1)}) <= SendsPerWindow
    /\ messages <= Len(codes) + crashes
         + Cardinality({c \in Clients : phase[c] \in {"accepted", "failed send"}})

CodesHold == OneGoodCode /\ GuessesAreCounted /\ SendsAreLimited

\* A client that comes back after the wait it was told, and no other before it,
\* is let through, by the limit of the address as by that of the farmer.
WaitIsEnough ==
    /\ LimitWaitIsEnough
    /\ RetryAfter(clock) # 0 => RetryAfter(clock + RetryAfter(clock)) = 0
=============================================================================
