----------------------------- MODULE RateLimits -----------------------------
(***************************************************************************)
(* The sliding-window limits of app/services/rate_limit.py, and how the    *)
(* routes use them: sign-in (app/routers/auth.py) takes one attempt of its *)
(* address, asks whether the pair and the identifier are below their       *)
(* limits of failures, and counts a failure once the password was wrong;   *)
(* the password change asks and counts in the same way; the sending of a   *)
(* code and the upload of a document only take.                            *)
(*                                                                         *)
(* Every call is a transaction of its own under the advisory lock of its   *)
(* key, and one step here.  take() and ensure_allowed() read the clock     *)
(* before they wait for the lock.  One key stands for each limit: one      *)
(* address, one account.  VerificationCodes goes on where a limited send   *)
(* has been let through.                                                   *)
(***************************************************************************)
EXTENDS Integers, Sequences, FiniteSets

CONSTANTS
    Clients,      \* those who have a request open at a time
    MaxEvents,    \* of each limit: max_events
    WindowOf,     \* of each limit: its window, in ticks
    MaxClock      \* bound: how long a run lasts

\* LIMITS, by their scopes
Limits == {"login.ip_attempts", "login.pair_failures", "login.identifier_failures",
           "password.failures", "verification.ip_sends", "upload.ip"}

ASSUME LimitsAssumption ==
    /\ IsFiniteSet(Clients) /\ Clients # {}
    /\ MaxEvents \in [Limits -> Nat]      \* 0: the route is switched off
    /\ WindowOf \in [Limits -> Nat]
    /\ MaxClock \in Nat

\* Limits on attempts; the others are limits on failures.
Taken == {"login.ip_attempts", "verification.ip_sends", "upload.ip"}

\* What a route asks before it starts, and what it counts when it fails.
Checks ==
    [login |-> <<"login.ip_attempts", "login.pair_failures", "login.identifier_failures">>,
     password |-> <<"password.failures">>,
     send |-> <<"verification.ip_sends">>,
     upload |-> <<"upload.ip">>]
Failures ==
    [login |-> <<"login.pair_failures", "login.identifier_failures">>,
     password |-> <<"password.failures">>]

VARIABLES
    clock,
    events,       \* of each limit, how many rows of rate_limit_events at each time
    phase, op,    \* of each client: where its request is, and of which route
    left,         \* the limits it has still to ask, or to count
    now           \* the clock, as its present call read it

client == <<phase, op, left, now>>
limitVars == <<clock, events, client>>

Times == 0..MaxClock

Max(S) == CHOOSE x \in S : \A y \in S : x >= y
Min(S) == CHOOSE x \in S : \A y \in S : x =< y

\* The rows of a window that ends at time `at`.
InWindow(l, at) == {t \in Times : t + WindowOf[l] > at}

\* _window_rows deletes what has left the window, and counts what has not.
Swept(l, at) == [t \in Times |-> IF t \in InWindow(l, at) THEN events[l][t] ELSE 0]

Total(rows) ==
    LET upTo[t \in Times] == rows[t] + (IF t = 0 THEN 0 ELSE upTo[t - 1])
    IN  upTo[MaxClock]

Count(l, at) == Total(Swept(l, at))

\* Variant: `>` in place of `>=`.
OverFull(l, at) == Count(l, at) > MaxEvents[l]

Full(l, at) == Count(l, at) >= MaxEvents[l]

\* When the oldest row of the window was counted; `at` where there is none.
Oldest(l, at) ==
    LET held == {t \in InWindow(l, at) : events[l][t] > 0}
    IN  IF held = {} THEN at ELSE Min(held)

\* Variant: the wait ends with the second before the oldest row leaves.
WaitRoundedDown(l, at) == Max({1, Oldest(l, at) + WindowOf[l] - at - 1})

\* The wait that a refusal at time `at` announces.
Wait(l, at) == Max({1, Oldest(l, at) + WindowOf[l] - at})

-----------------------------------------------------------------------------
LimitInit ==
    /\ clock = 0
    /\ events = [l \in Limits |-> [t \in Times |-> 0]]
    /\ phase = [c \in Clients |-> "idle"]
    /\ op = [c \in Clients |-> "none"]
    /\ left = [c \in Clients |-> <<>>]
    /\ now = [c \in Clients |-> 0]

\* A request ends, and its client may send another.
EndRequest(c) ==
    /\ phase' = [phase EXCEPT ![c] = "idle"]
    /\ op' = [op EXCEPT ![c] = "none"]
    /\ left' = [left EXCEPT ![c] = <<>>]
    /\ now' = [now EXCEPT ![c] = 0]

\* Client c is in phase p; its next call, if it has one, reads the clock.
Proceed(c, p, rest) ==
    /\ phase' = [phase EXCEPT ![c] = p]
    /\ left' = [left EXCEPT ![c] = rest]
    /\ now' = [now EXCEPT ![c] = IF rest = <<>> THEN 0 ELSE clock]
    /\ UNCHANGED op

Begin(c, o) ==
    /\ phase[c] = "idle"
    /\ op' = [op EXCEPT ![c] = o]
    /\ phase' = [phase EXCEPT ![c] = "asking"]
    /\ left' = [left EXCEPT ![c] = Checks[o]]
    /\ now' = [now EXCEPT ![c] = clock]
    /\ UNCHANGED <<clock, events>>

\* 429
TooMany(c) ==
    LET l == Head(left[c])
    IN  /\ phase[c] = "asking"
        /\ Full(l, now[c])
        /\ events' = [events EXCEPT ![l] = Swept(l, now[c])]
        /\ EndRequest(c)
        /\ UNCHANGED clock

\* take() counts the attempt; ensure_allowed() counts nothing.
LetThrough(c) ==
    LET l == Head(left[c])
        at == now[c]
    IN  /\ phase[c] = "asking"
        /\ ~Full(l, at)
        /\ events' = [events EXCEPT ![l] =
             [Swept(l, at) EXCEPT ![at] = @ + (IF l \in Taken THEN 1 ELSE 0)]]
        /\ Proceed(c, IF Tail(left[c]) = <<>> THEN "attempt" ELSE "asking", Tail(left[c]))
        /\ UNCHANGED clock

\* record(): the clock is read under the lock.
CountFailure(c) ==
    LET l == Head(left[c])
    IN  /\ phase[c] = "failed"
        /\ events' = [events EXCEPT ![l][clock] = @ + 1]
        /\ IF Tail(left[c]) = <<>> THEN EndRequest(c)
                                   ELSE Proceed(c, "failed", Tail(left[c]))
        /\ UNCHANGED clock

\* verify_password says no.
WrongPassword(c) ==
    /\ phase[c] = "attempt" /\ op[c] \in DOMAIN Failures
    /\ Proceed(c, "failed", Failures[op[c]])
    /\ UNCHANGED <<clock, events>>

\* clear(): a sign-in forgets the failures of its pair, not of the identifier.
SignedIn(c) ==
    /\ phase[c] = "attempt" /\ op[c] = "login"
    /\ events' = [events EXCEPT !["login.pair_failures"] = [t \in Times |-> 0]]
    /\ EndRequest(c)
    /\ UNCHANGED clock

\* A route that counts nothing more: the rest of it is in other modules.
Answered(c) ==
    /\ phase[c] = "attempt" /\ op[c] \in {"password", "upload"}
    /\ EndRequest(c)
    /\ UNCHANGED <<clock, events>>

\* The worker's hourly prune() goes by the longest window of all.
Prune ==
    LET cutoff == Max({WindowOf[l] : l \in Limits})
    IN  /\ events' = [l \in Limits |->
              [t \in Times |-> IF t + cutoff <= clock THEN 0 ELSE events[l][t]]]
        /\ UNCHANGED <<clock, client>>

Pass ==
    /\ clock < MaxClock
    /\ clock' = clock + 1
    /\ UNCHANGED <<events, client>>

Limited(c) ==
    \/ TooMany(c)
    \/ LetThrough(c)
    \/ CountFailure(c)
    \/ WrongPassword(c)
    \/ SignedIn(c)
    \/ Answered(c)

-----------------------------------------------------------------------------
(* Properties.                                                             *)

LimitTypeOK ==
    /\ clock \in Times
    /\ events \in [Limits -> [Times -> Nat]]
    /\ op \in [Clients -> DOMAIN Checks \cup {"none", "confirm"}]
    /\ now \in [Clients -> 0..clock]
    /\ \A c \in Clients :
         /\ phase[c] = "idle" <=> op[c] = "none"
         /\ phase[c] \in {"asking", "failed"} => left[c] # <<>>
         /\ \A i \in DOMAIN left[c] : left[c][i] \in Limits
         \* nothing is counted for a time that has not come
         /\ \A l \in Limits, t \in Times : t > clock => events[l][t] = 0

\* Clients who were let through by a limit of failures and have neither
\* counted their failure nor ended.
InFlight(l) ==
    {c \in Clients :
        /\ op[c] \in DOMAIN Failures
        /\ \E i \in DOMAIN Failures[op[c]] : Failures[op[c]][i] = l
        /\ \/ phase[c] = "attempt"
           \/ phase[c] = "asking" /\ \A i \in DOMAIN left[c] : left[c][i] # l
           \/ phase[c] = "failed" /\ \E i \in DOMAIN left[c] : left[c][i] = l}

\* Attempts never exceed their limit in any window, however requests overlap
\* and however long they wait for the lock with the clock they have read.
\* Failures, which are checked in one transaction and counted in another, can:
\* by the other requests that were open at that moment, and by no more.
LimitsHold ==
    \A l \in Limits :
        IF l \in Taken THEN Count(l, clock) <= MaxEvents[l]
        ELSE Count(l, clock) + Cardinality(InFlight(l))
                <= MaxEvents[l] + Cardinality(Clients) - 1

\* A request of attempts that comes back after the announced wait is let
\* through if no other came in between.  (Failures beyond the limit outlast it,
\* and no wait ends the limit of a route that is switched off.)
LimitWaitIsEnough ==
    \A l \in Taken :
        Full(l, clock) /\ MaxEvents[l] > 0 => ~Full(l, clock + Wait(l, clock))
=============================================================================
