----------------------- MODULE VerificationCodes_proofs -----------------------
(***************************************************************************)
(* Proofs about RateLimits and VerificationCodes, for any clients, limits, *)
(* windows and bounds.                                                     *)
(***************************************************************************)
EXTENDS VerificationCodes, FiniteSetTheorems, WellFoundedInduction, TLAPS

-----------------------------------------------------------------------------
(* The parts of TypeOK.                                                    *)

Phases == {"idle", "asking", "attempt", "failed", "superseding", "sending", "accepted",
           "failed send", "waiting", "right", "confirming"}

Rows == [Times -> Nat]

LimitValues ==
    /\ clock \in Times
    /\ events \in [Limits -> Rows]
    /\ \A l \in Limits : \A t \in Times : t > clock => events[l][t] = 0

Code == [created : Times, attempts : 0..MaxAttempts, status : {"active", "superseded", "consumed"}]

CodeValues ==
    /\ codes \in Seq(Code)
    /\ wrong \in Seq(Nat) /\ Len(wrong) = Len(codes)
    /\ verified \in Nat /\ messages \in Nat /\ crashes \in 0..MaxCrashes

ClientValues ==
    /\ phase \in [Clients -> Phases]
    /\ op \in [Clients -> DOMAIN Checks \cup {"none", "confirm"}]
    /\ left \in [Clients -> Seq(Limits)]
    /\ now \in [Clients -> Times] /\ mine \in [Clients -> Nat]

\* Two clients hold neither the farmer's row both nor one code's.
Apart(c, d) ==
    /\ ~(HoldsFarmer(c) /\ HoldsFarmer(d))
    /\ HoldsCode(c) /\ HoldsCode(d) => mine[c] = 0 \/ mine[c] # mine[d]

LocksApart == \A c, d \in Clients : c # d => Apart(c, d)

-----------------------------------------------------------------------------
(* The inductive invariant.  A send decides by a clock and by rows it read *)
(* long before it commits, and a confirmation commits to a code it found   *)
(* some time ago: the invariant says what of that the row locks preserve.  *)

\* The phases of a send that holds the farmer's row; the code in the last three.
SendPhases == {"superseding", "sending", "accepted", "failed send"}
ConfirmPhases == {"waiting", "right", "confirming"}

\* Where a request of each route can be, and what is left for it to count.
RouteFits(c) ==
    /\ phase[c] = "idle" <=> op[c] = "none"
    /\ phase[c] \in {"asking", "attempt"} => op[c] \in DOMAIN Checks
    /\ phase[c] \in {"asking", "failed"} => left[c] # <<>>
    /\ phase[c] = "failed" =>
         /\ op[c] \in DOMAIN Failures
         /\ \A i \in DOMAIN left[c] :
              /\ \E j \in DOMAIN Failures[op[c]] : Failures[op[c]][j] = left[c][i]
              /\ \A j \in DOMAIN left[c] : i # j => left[c][i] # left[c][j]
    /\ phase[c] \in SendPhases => op[c] = "send"
    /\ phase[c] \in ConfirmPhases => op[c] = "confirm"
    /\ now[c] <= clock

\* The codes of a window that ends at time `at`.
Recent(at) == {k \in Ids : codes[k].created + SendWindow > at}

\* What retry_after is 0 for.
MaySend(at) ==
    /\ Len(codes) # 0 => codes[Len(codes)].created + Cooldown <= at
    /\ Cardinality(Recent(at)) < SendsPerWindow

\* What was found when the lock was taken is so until it is let go.
CodeFits(c) ==
    /\ phase[c] \in SendPhases => MaySend(now[c])
    /\ phase[c] \in SendPhases \ {"superseding"} => Active = {mine[c]} \ {0}
    /\ phase[c] \in {"right", "confirming"} => mine[c] \in Active

CreatedInOrder ==
    \A k \in Ids : /\ codes[k].created <= clock
                   /\ \A j \in Ids : j <= k => codes[j].created <= codes[k].created

LimitPart == LimitValues /\ LimitsHold

CodePart == CodeValues /\ CreatedInOrder /\ CodesHold

ClientPart == ClientValues /\ LocksApart /\ \A c \in Clients : RouteFits(c) /\ CodeFits(c)

IInv == LimitPart /\ CodePart /\ ClientPart

-----------------------------------------------------------------------------
(* Sums over times.                                                        *)

(* A set of numbers that is not empty has a least one.                     *)
LEMMA LeastNumber ==
    ASSUME NEW S \in SUBSET Nat, S # {}
    PROVE  \E n \in S : \A m \in S : n <= m
<1> DEFINE Below == {pair \in Nat \X Nat : pair[1] < pair[2]}
<1>1. Below = OpToRel(<, Nat)
  BY DEF OpToRel
<1>2. IsWellFoundedOn(Below, Nat)
  BY <1>1, NatLessThanWellFounded
<1>3. PICK n \in S : \A m \in S : ~(<<m, n>> \in Below)
  <2> HIDE DEF Below
  <2> QED
    BY <1>2, WFMin
<1>4. ASSUME NEW m \in S, m < n PROVE FALSE
  <2>1. <<m, n>> \in Nat \X Nat /\ <<m, n>>[1] < <<m, n>>[2]
    BY <1>4
  <2> QED
    BY <2>1, <1>3
<1> QED
  BY <1>4

\* Of the first times, the sums up to each.
IsSum(sum, n, rows) == sum = [t \in 0..n |-> rows[t] + (IF t = 0 THEN 0 ELSE sum[t - 1])]

(* There are such sums.                                                    *)
LEMMA SumExists ==
    ASSUME NEW rows \in Rows, NEW n \in Times
    PROVE  \E sum \in [0..n -> Nat] : IsSum(sum, n, rows)
<1> DEFINE Has(k) == \E sum \in [0..k -> Nat] : IsSum(sum, k, rows)
           lacking == {k \in Times : ~Has(k)}
<1> SUFFICES ASSUME lacking # {} PROVE FALSE
  OBVIOUS
<1>1. PICK k \in lacking : \A m \in lacking : k <= m
  <2>1. lacking \in SUBSET Nat
    BY DEF Times
  <2> HIDE DEF lacking
  <2> QED
    BY <2>1, LeastNumber
<1>2. k \in Nat /\ k \in Times /\ k <= MaxClock /\ rows[k] \in Nat
  BY LimitsAssumption DEF Times, Rows
<1>3. CASE k = 0
  <2> DEFINE sum == [t \in 0..0 |-> rows[0]]
  <2>1. sum \in [0..0 -> Nat] /\ IsSum(sum, 0, rows)
    BY <1>2, <1>3 DEF IsSum
  <2> QED
    BY <1>1, <1>3, <2>1
<1>4. CASE k # 0
  <2>1. k - 1 \in Times /\ k - 1 \notin lacking
    <3> HIDE DEF Has
    <3>1. k - 1 \in Nat /\ ~(k <= k - 1)
      BY <1>2, <1>4
    <3>2. k - 1 \in Times
      BY <1>2, <3>1, LimitsAssumption DEF Times
    <3> QED
      BY <1>1, <3>1, <3>2
  <2>2. PICK part \in [0..(k - 1) -> Nat] : IsSum(part, k - 1, rows)
    BY <2>1
  <2> DEFINE sum == [t \in 0..k |-> IF t = k THEN rows[k] + part[k - 1] ELSE part[t]]
  <2>3. sum \in [0..k -> Nat]
    BY <1>2, <1>4, <2>2
  <2>4. \A t \in 0..k : sum[t] = rows[t] + (IF t = 0 THEN 0 ELSE sum[t - 1])
    <3> SUFFICES ASSUME NEW t \in 0..k
                 PROVE  sum[t] = rows[t] + (IF t = 0 THEN 0 ELSE sum[t - 1])
      OBVIOUS
    <3>1. CASE t = k
      BY <1>2, <1>4, <3>1
    <3>2. CASE t # k
      <4>1. part[t] = rows[t] + (IF t = 0 THEN 0 ELSE part[t - 1])
        BY <1>2, <2>2, <3>2 DEF IsSum
      <4> QED
        BY <1>2, <3>2, <4>1
    <3> QED
      BY <3>1, <3>2
  <2>5. IsSum(sum, k, rows)
    BY <2>4 DEF IsSum
  <2> QED
    BY <1>1, <2>3, <2>5
<1> QED
  BY <1>3, <1>4

(* The total of some rows is such a sum, up to the last time.              *)
LEMMA TotalIsSum ==
    ASSUME NEW rows \in Rows
    PROVE  \E sum : /\ Total(rows) = sum[MaxClock]
                    /\ \A t \in Times : sum[t] = rows[t] + (IF t = 0 THEN 0 ELSE sum[t - 1])
                    /\ \A t \in Times : sum[t] \in Nat
<1> DEFINE chosen == CHOOSE sum : IsSum(sum, MaxClock, rows)
<1>1. MaxClock \in Times /\ Times = 0..MaxClock
  BY LimitsAssumption DEF Times
<1>2. IsSum(chosen, MaxClock, rows)
  BY <1>1, SumExists
<1>3. Total(rows) = chosen[MaxClock]
  BY <1>1, Zenon DEF Total, IsSum, Times
<1> HIDE DEF chosen
<1>4. \A t \in Times : chosen[t] = rows[t] + (IF t = 0 THEN 0 ELSE chosen[t - 1])
  BY <1>1, <1>2 DEF IsSum
<1>5. \A t \in Times : chosen[t] \in Nat
  <2> DEFINE odd == {t \in Times : chosen[t] \notin Nat}
  <2> SUFFICES ASSUME odd # {} PROVE FALSE
    OBVIOUS
  <2>1. PICK t \in odd : \A m \in odd : t <= m
    <3>1. odd \in SUBSET Nat
      BY DEF Times
    <3> HIDE DEF odd
    <3> QED
      BY <3>1, LeastNumber
  <2>2. t \in Times /\ t \in Nat /\ rows[t] \in Nat
    BY DEF Times, Rows
  <2>3. t # 0 => t - 1 \in Times /\ ~(t <= t - 1)
    BY <2>2, LimitsAssumption DEF Times
  <2>4. t # 0 => chosen[t - 1] \in Nat
    BY <2>1, <2>3
  <2> QED
    BY <1>4, <2>1, <2>2, <2>4
<1> QED
  BY <1>3, <1>4, <1>5

(* Rows that differ at one time only differ by as much in total.           *)
LEMMA TotalsCompare ==
    ASSUME NEW less \in Rows, NEW more \in Rows, NEW k \in Times, NEW d \in Int,
           \A t \in Times : less[t] <= more[t] + (IF t = k THEN d ELSE 0)
    PROVE  /\ Total(less) \in Nat /\ Total(more) \in Nat
           /\ Total(less) <= Total(more) + d
<1>1. PICK low : /\ Total(less) = low[MaxClock]
                 /\ \A t \in Times : low[t] = less[t] + (IF t = 0 THEN 0 ELSE low[t - 1])
                 /\ \A t \in Times : low[t] \in Nat
  BY TotalIsSum
<1>2. PICK high : /\ Total(more) = high[MaxClock]
                  /\ \A t \in Times : high[t] = more[t] + (IF t = 0 THEN 0 ELSE high[t - 1])
                  /\ \A t \in Times : high[t] \in Nat
  BY TotalIsSum
<1>3. MaxClock \in Times /\ k \in Nat /\ k <= MaxClock /\ MaxClock \in Nat
  BY LimitsAssumption DEF Times
<1> DEFINE odd == {t \in Times : ~(low[t] <= high[t] + (IF k <= t THEN d ELSE 0))}
<1>4. odd = {}
  <2> SUFFICES ASSUME odd # {} PROVE FALSE
    OBVIOUS
  <2>1. PICK t \in odd : \A m \in odd : t <= m
    <3>1. odd \in SUBSET Nat
      BY DEF Times
    <3> HIDE DEF odd
    <3> QED
      BY <3>1, LeastNumber
  <2>2. t \in Times /\ t \in Nat /\ less[t] \in Nat /\ more[t] \in Nat
    BY DEF Times, Rows
  <2>3. t # 0 => t - 1 \in Times /\ t - 1 \in Nat /\ ~(t <= t - 1)
    BY <2>2, LimitsAssumption DEF Times
  <2>4. t # 0 => low[t - 1] <= high[t - 1] + (IF k <= t - 1 THEN d ELSE 0)
    BY <2>1, <2>3
  <2>5. less[t] <= more[t] + (IF t = k THEN d ELSE 0)
    BY <2>2
  <2>6. low[t] <= high[t] + (IF k <= t THEN d ELSE 0)
    <3>1. CASE t = 0
      BY <1>1, <1>2, <1>3, <2>2, <2>5, <3>1
    <3>2. CASE t # 0
      <4>1. /\ low[t] = less[t] + low[t - 1] /\ high[t] = more[t] + high[t - 1]
            /\ low[t - 1] \in Nat /\ high[t - 1] \in Nat
        BY <1>1, <1>2, <2>2, <2>3, <3>2
      <4> QED
        BY <1>3, <2>2, <2>3, <2>4, <2>5, <3>2, <4>1
    <3> QED
      BY <3>1, <3>2
  <2> QED
    BY <2>1, <2>6
<1>5. low[MaxClock] <= high[MaxClock] + d
  BY <1>3, <1>4
<1> QED
  BY <1>1, <1>2, <1>3, <1>5

(* Where nothing was counted the total is 0.                               *)
LEMMA TotalOfNothing ==
    ASSUME NEW rows \in Rows, \A t \in Times : rows[t] = 0
    PROVE  Total(rows) = 0
<1>1. PICK sum : /\ Total(rows) = sum[MaxClock]
                 /\ \A t \in Times : sum[t] = rows[t] + (IF t = 0 THEN 0 ELSE sum[t - 1])
                 /\ \A t \in Times : sum[t] \in Nat
  BY TotalIsSum
<1> DEFINE odd == {t \in Times : sum[t] # 0}
<1>2. odd = {}
  <2> SUFFICES ASSUME odd # {} PROVE FALSE
    OBVIOUS
  <2>1. PICK t \in odd : \A m \in odd : t <= m
    <3>1. odd \in SUBSET Nat
      BY DEF Times
    <3> HIDE DEF odd
    <3> QED
      BY <3>1, LeastNumber
  <2>2. t # 0 => t - 1 \in Times /\ t - 1 \in Nat /\ ~(t <= t - 1)
    BY LimitsAssumption DEF Times
  <2>3. t # 0 => sum[t - 1] = 0
    BY <2>1, <2>2
  <2> QED
    BY <1>1, <2>1, <2>3
<1> QED
  BY <1>1, <1>2, LimitsAssumption DEF Times

-----------------------------------------------------------------------------
(* What a limit counts.                                                    *)

\* The count of a limit at a time, for any rows.
CountOf(rows, l, at) == Total([t \in Times |-> IF t \in InWindow(l, at) THEN rows[t] ELSE 0])

(* Rows leave the window as time passes, and an event counts for one.      *)
LEMMA CountsCompare ==
    ASSUME NEW l \in Limits, NEW rows \in Rows, NEW more \in Rows,
           NEW at \in Nat, NEW later \in Nat, at <= later, NEW k \in Times, NEW d \in {0, 1},
           \A t \in Times : more[t] <= rows[t] + (IF t = k THEN d ELSE 0)
    PROVE  /\ CountOf(more, l, later) \in Nat /\ CountOf(rows, l, at) \in Nat
           /\ CountOf(more, l, later) <= CountOf(rows, l, at) + d
<1> DEFINE old == [t \in Times |-> IF t \in InWindow(l, at) THEN rows[t] ELSE 0]
           new == [t \in Times |-> IF t \in InWindow(l, later) THEN more[t] ELSE 0]
<1>1. old \in Rows /\ new \in Rows
  BY DEF Rows
<1>2. WindowOf[l] \in Nat /\ Times \subseteq Nat
  BY LimitsAssumption DEF Times
<1>3. \A t \in Times : new[t] <= old[t] + (IF t = k THEN d ELSE 0)
  <2> SUFFICES ASSUME NEW t \in Times PROVE new[t] <= old[t] + (IF t = k THEN d ELSE 0)
    OBVIOUS
  <2>1. rows[t] \in Nat /\ more[t] \in Nat /\ more[t] <= rows[t] + (IF t = k THEN d ELSE 0)
    BY DEF Rows
  <2>2. t + WindowOf[l] > later => t + WindowOf[l] > at
    BY <1>2
  <2>3. CASE t \in InWindow(l, later)
    BY <2>1, <2>2, <2>3 DEF InWindow
  <2>4. CASE t \notin InWindow(l, later)
    BY <2>1, <2>4
  <2> QED
    BY <2>3, <2>4
<1> HIDE DEF old, new
<1>4. Total(new) \in Nat /\ Total(old) \in Nat /\ Total(new) <= Total(old) + d
  BY <1>1, <1>3, TotalsCompare
<1> QED
  BY <1>4 DEF CountOf, old, new

(* A count in the model is one of these, and a number.                     *)
LEMMA CountIsOf ==
    ASSUME LimitValues, NEW l \in Limits, NEW at \in Nat
    PROVE  Count(l, at) = CountOf(events[l], l, at) /\ Count(l, at) \in Nat
<1>1. Count(l, at) = CountOf(events[l], l, at)
  BY DEF Count, CountOf, Swept
<1>2. events[l] \in Rows /\ \A t \in Times : events[l][t] <= events[l][t] + (IF t = 0 THEN 0 ELSE 0)
  BY DEF LimitValues, Rows
<1>3. 0 \in Times
  BY LimitsAssumption DEF Times
<1>4. CountOf(events[l], l, at) \in Nat
  BY <1>2, <1>3, CountsCompare
<1> QED
  BY <1>1, <1>4

(* The clients who are in flight are finitely many.                        *)
LEMMA InFlightIsFinite ==
    ASSUME NEW l \in Limits
    PROVE  /\ IsFiniteSet(InFlight(l)) /\ IsFiniteSet(Clients)
           /\ Cardinality(InFlight(l)) \in Nat /\ Cardinality(Clients) \in Nat
           /\ Cardinality(InFlight(l)) <= Cardinality(Clients)
<1>1. InFlight(l) \subseteq Clients
  BY DEF InFlight
<1> QED
  BY <1>1, FS_Subset, FS_CardinalityType, LimitsAssumption

\* What a limit promises at time `at` of its rows and the clients in flight.
Holds(l, rows, at, flying) ==
    IF l \in Taken THEN CountOf(rows, l, at) <= MaxEvents[l]
    ELSE CountOf(rows, l, at) + Cardinality(flying) <= MaxEvents[l] + Cardinality(Clients) - 1

EachHolds == \A l \in Limits : Holds(l, events[l], clock, InFlight(l))

LEMMA LimitsHoldIs == LimitValues => (LimitsHold <=> EachHolds)
<1> SUFFICES ASSUME LimitValues PROVE LimitsHold <=> EachHolds
  OBVIOUS
<1>1. clock \in Nat
  BY LimitsAssumption DEF LimitValues, Times
<1>2. \A l \in Limits : Count(l, clock) = CountOf(events[l], l, clock)
  BY <1>1, CountIsOf
<1> QED
  BY <1>2 DEF LimitsHold, Holds, EachHolds

(* A limit still holds when nothing was counted and nobody took off.       *)
LEMMA FewerHold ==
    ASSUME NEW l \in Limits, NEW rows \in Rows, NEW more \in Rows,
           NEW at \in Nat, NEW later \in Nat, at <= later,
           \A t \in Times : more[t] <= rows[t],
           NEW flying \in SUBSET Clients, NEW others \in SUBSET flying,
           Holds(l, rows, at, flying)
    PROVE  Holds(l, more, later, others)
<1>1. 0 \in Times
  BY LimitsAssumption DEF Times
<1>2. \A t \in Times : more[t] <= rows[t] + (IF t = 0 THEN 0 ELSE 0)
  BY DEF Rows
<1>3. /\ CountOf(more, l, later) \in Nat /\ CountOf(rows, l, at) \in Nat
      /\ CountOf(more, l, later) <= CountOf(rows, l, at) + 0
  BY <1>1, <1>2, CountsCompare
<1>4. /\ Cardinality(others) \in Nat /\ Cardinality(flying) \in Nat
      /\ Cardinality(others) <= Cardinality(flying) /\ Cardinality(Clients) \in Nat
  <2>1. IsFiniteSet(Clients) /\ IsFiniteSet(flying) /\ IsFiniteSet(others)
    BY FS_Subset, LimitsAssumption
  <2> QED
    BY <2>1, FS_Subset, FS_CardinalityType
<1>5. MaxEvents[l] \in Nat
  BY LimitsAssumption
<1> QED
  BY <1>3, <1>4, <1>5 DEF Holds

(* Who is counted has been in flight and is no more.                       *)
LEMMA CountedHolds ==
    ASSUME NEW l \in Limits, l \notin Taken, NEW rows \in Rows, NEW more \in Rows,
           NEW at \in Times, \A t \in Times : more[t] <= rows[t] + (IF t = at THEN 1 ELSE 0),
           NEW flying \in SUBSET Clients, NEW c \in flying, NEW others \in SUBSET (flying \ {c}),
           Holds(l, rows, at, flying)
    PROVE  Holds(l, more, at, others)
<1>1. at \in Nat
  BY LimitsAssumption DEF Times
<1>2. /\ CountOf(more, l, at) \in Nat /\ CountOf(rows, l, at) \in Nat
      /\ CountOf(more, l, at) <= CountOf(rows, l, at) + 1
  BY <1>1, CountsCompare
<1>3. /\ Cardinality(others) \in Nat /\ Cardinality(flying) \in Nat
      /\ Cardinality(others) <= Cardinality(flying) - 1 /\ Cardinality(Clients) \in Nat
  <2>1. IsFiniteSet(Clients) /\ IsFiniteSet(flying)
    BY FS_Subset, LimitsAssumption
  <2>2. IsFiniteSet(flying \ {c}) /\ Cardinality(flying \ {c}) = Cardinality(flying) - 1
    BY <2>1, FS_RemoveElement
  <2>3. IsFiniteSet(others) /\ Cardinality(others) <= Cardinality(flying \ {c})
    BY <2>2, FS_Subset
  <2> QED
    BY <2>1, <2>2, <2>3, FS_CardinalityType
<1>4. MaxEvents[l] \in Nat
  BY LimitsAssumption
<1> QED
  BY <1>2, <1>3, <1>4 DEF Holds

(* Who is let through was below the limit by the clock it has read, and    *)
(* the present clock is no earlier.                                        *)
LEMMA LetThroughHolds ==
    ASSUME NEW l \in Limits, NEW rows \in Rows, NEW more \in Rows,
           NEW at \in Times, NEW later \in Times, at <= later,
           \A t \in Times : more[t] <= rows[t] + (IF t = at /\ l \in Taken THEN 1 ELSE 0),
           NEW others \in SUBSET Clients,
           ~(CountOf(rows, l, at) >= MaxEvents[l])
    PROVE  Holds(l, more, later, others)
<1> DEFINE d == IF l \in Taken THEN 1 ELSE 0
<1>1. at \in Nat /\ later \in Nat /\ d \in {0, 1}
  BY LimitsAssumption DEF Times
<1>2. \A t \in Times : more[t] <= rows[t] + (IF t = at THEN d ELSE 0)
  OBVIOUS
<1> HIDE DEF d
<1>3. /\ CountOf(more, l, later) \in Nat /\ CountOf(rows, l, at) \in Nat
      /\ CountOf(more, l, later) <= CountOf(rows, l, at) + d
  BY <1>1, <1>2, CountsCompare
<1>4. /\ Cardinality(others) \in Nat /\ Cardinality(Clients) \in Nat
      /\ Cardinality(others) <= Cardinality(Clients)
  BY FS_Subset, FS_CardinalityType, LimitsAssumption
<1>5. MaxEvents[l] \in Nat
  BY LimitsAssumption
<1>6. CASE l \in Taken
  BY <1>3, <1>5, <1>6 DEF Holds, d
<1>7. CASE l \notin Taken
  BY <1>3, <1>4, <1>5, <1>7 DEF Holds, d
<1> QED
  BY <1>6, <1>7

-----------------------------------------------------------------------------
(* What a step of one client leaves as it is.                              *)

\* The step is c's: it leaves the other clients alone.
Alone(c) ==
    \A d \in Clients \ {c} :
        /\ phase'[d] = phase[d] /\ op'[d] = op[d] /\ left'[d] = left[d]
        /\ now'[d] = now[d] /\ mine'[d] = mine[d]

\* The phases of a request that has no transaction open.
Outside == {"idle", "asking", "attempt", "failed"}

(* The end of a request.                                                   *)
LEMMA EndEffect ==
    ASSUME ClientValues, NEW c \in Clients, EndRequest(c), NEW m \in Nat,
           mine' = mine \/ mine' = [mine EXCEPT ![c] = m]
    PROVE  /\ ClientValues' /\ Alone(c)
           /\ phase'[c] = "idle" /\ op'[c] = "none" /\ now'[c] = 0
<1>1. 0 \in Times
  BY LimitsAssumption DEF Times
<1>2. /\ phase' \in [Clients -> Phases] /\ phase'[c] = "idle"
      /\ \A d \in Clients \ {c} : phase'[d] = phase[d]
  BY DEF ClientValues, EndRequest, Phases
<1>3. /\ op' \in [Clients -> DOMAIN Checks \cup {"none", "confirm"}] /\ op'[c] = "none"
      /\ \A d \in Clients \ {c} : op'[d] = op[d]
  BY DEF ClientValues, EndRequest
<1>4. left' \in [Clients -> Seq(Limits)] /\ \A d \in Clients \ {c} : left'[d] = left[d]
  <2>1. <<>> \in Seq(Limits)
    OBVIOUS
  <2> QED
    BY <2>1 DEF ClientValues, EndRequest
<1>5. /\ now' \in [Clients -> Times] /\ now'[c] = 0
      /\ \A d \in Clients \ {c} : now'[d] = now[d]
  BY <1>1 DEF ClientValues, EndRequest
<1>6. mine' \in [Clients -> Nat] /\ \A d \in Clients \ {c} : mine'[d] = mine[d]
  BY DEF ClientValues
<1> QED
  BY <1>2, <1>3, <1>4, <1>5, <1>6 DEF ClientValues, Alone

(* A request goes on with its limits.                                      *)
LEMMA ProceedEffect ==
    ASSUME ClientValues, clock \in Times, NEW c \in Clients, NEW p \in Phases,
           NEW rest \in Seq(Limits), Proceed(c, p, rest), UNCHANGED mine
    PROVE  /\ ClientValues' /\ Alone(c)
           /\ phase'[c] = p /\ op'[c] = op[c] /\ left'[c] = rest
           /\ now'[c] \in {0, clock}
<1>1. 0 \in Times
  BY LimitsAssumption DEF Times
<1>2. phase' \in [Clients -> Phases] /\ phase'[c] = p /\ \A d \in Clients \ {c} : phase'[d] = phase[d]
  BY DEF ClientValues, Proceed
<1>3. /\ left' \in [Clients -> Seq(Limits)] /\ left'[c] = rest
      /\ \A d \in Clients \ {c} : left'[d] = left[d]
  BY DEF ClientValues, Proceed
<1>4. /\ now' \in [Clients -> Times] /\ now'[c] \in {0, clock}
      /\ \A d \in Clients \ {c} : now'[d] = now[d]
  BY <1>1 DEF ClientValues, Proceed
<1> QED
  BY <1>2, <1>3, <1>4 DEF ClientValues, Alone, Proceed

(* A send or a confirmation goes on.                                       *)
LEMMA ToEffect ==
    ASSUME ClientValues, NEW c \in Clients, NEW p \in Phases, NEW k \in Nat, To(c, p, k),
           NEW at \in Times, now' = now \/ now' = [now EXCEPT ![c] = at]
    PROVE  /\ ClientValues' /\ Alone(c)
           /\ phase'[c] = p /\ mine'[c] = k /\ op'[c] = op[c] /\ left'[c] = left[c]
<1>1. phase' \in [Clients -> Phases] /\ phase'[c] = p /\ \A d \in Clients \ {c} : phase'[d] = phase[d]
  BY DEF ClientValues, To
<1>2. mine' \in [Clients -> Nat] /\ mine'[c] = k /\ \A d \in Clients \ {c} : mine'[d] = mine[d]
  BY DEF ClientValues, To
<1>3. now' \in [Clients -> Times] /\ \A d \in Clients \ {c} : now'[d] = now[d]
  BY DEF ClientValues
<1> QED
  BY <1>1, <1>2, <1>3 DEF ClientValues, Alone, To

(* What fits the other clients still fits them, while time goes on.        *)
LEMMA OthersFit ==
    ASSUME IInv, NEW c \in Clients, Alone(c), clock' \in Times, clock <= clock'
    PROVE  \A d \in Clients \ {c} : RouteFits(d)'
<1> SUFFICES ASSUME NEW d \in Clients \ {c} PROVE RouteFits(d)'
  OBVIOUS
<1>1. RouteFits(d)
  BY DEF IInv, ClientPart
<1>2. now[d] \in Nat /\ clock \in Nat /\ clock' \in Nat
  BY LimitsAssumption DEF IInv, ClientPart, ClientValues, LimitPart, LimitValues, Times
<1>3. now'[d] = now[d] /\ now[d] <= clock'
  BY <1>1, <1>2 DEF Alone, RouteFits
<1>4. /\ phase'[d] = phase[d] /\ op'[d] = op[d] /\ left'[d] = left[d]
  BY DEF Alone
<1> QED
  BY <1>1, <1>3, <1>4 DEF RouteFits

(* Locks that c does not take, or that were free, stay apart.              *)
LEMMA LocksStay ==
    ASSUME IInv, NEW c \in Clients, Alone(c),
           HoldsFarmer(c)' => HoldsFarmer(c) \/ FarmerFree,
           HoldsCode(c)' =>
               \/ mine'[c] = 0
               \/ HoldsCode(c) /\ mine'[c] = mine[c]
               \/ CodeFree(mine'[c])
    PROVE  LocksApart'
<1> SUFFICES ASSUME NEW a \in Clients, NEW b \in Clients, a # b PROVE Apart(a, b)'
  BY DEF LocksApart
<1>1. \A d \in Clients \ {c} :
          /\ HoldsFarmer(d)' <=> HoldsFarmer(d)
          /\ HoldsCode(d)' <=> HoldsCode(d)
          /\ mine'[d] = mine[d]
  BY DEF Alone, HoldsFarmer, HoldsCode
<1>2. \A x, y \in Clients : x # y => Apart(x, y)
  BY DEF IInv, ClientPart, LocksApart
<1>3. CASE a # c /\ b # c
  BY <1>1, <1>2, <1>3 DEF Apart
<1>4. ASSUME NEW d \in Clients \ {c} PROVE Apart(c, d)' /\ Apart(d, c)'
  <2>1. Apart(c, d) /\ Apart(d, c)
    BY <1>2
  <2>2. ~(HoldsFarmer(c)' /\ HoldsFarmer(d)')
    BY <1>1, <2>1 DEF Apart, FarmerFree
  <2>3. HoldsCode(c)' /\ HoldsCode(d)' => mine'[c] = 0 \/ mine'[c] # mine'[d]
    BY <1>1, <2>1 DEF Apart, CodeFree
  <2>4. HoldsCode(c)' /\ HoldsCode(d)' => mine'[d] = 0 \/ mine'[d] # mine'[c]
    BY <2>3
  <2> QED
    BY <2>2, <2>3, <2>4 DEF Apart
<1>5. CASE a = c
  BY <1>4, <1>5
<1>6. CASE b = c
  BY <1>4, <1>6
<1> QED
  BY <1>3, <1>5, <1>6

(* A step of the limits leaves the codes and who works on them as they are.*)
LEMMA LimitsLeaveCodes ==
    ASSUME IInv, UNCHANGED codeVars, clock' \in Times, clock <= clock',
           \A d \in Clients :
               \/ phase'[d] = phase[d] /\ now'[d] = now[d]
               \/ phase[d] \in Outside /\ phase'[d] \in Outside
    PROVE  CodePart' /\ LocksApart' /\ \A d \in Clients : CodeFits(d)'
<1>1. CodePart /\ UNCHANGED <<codes, mine, verified, wrong, messages, crashes>>
  BY DEF IInv, codeVars
<1>2. Ids' = Ids /\ Active' = Active /\ \A at \in Nat : MaySend(at)' <=> MaySend(at)
  BY <1>1 DEF Ids, Active, MaySend, Recent
<1>3. CodeValues' /\ CreatedInOrder'
  <2>1. \A k \in Ids : codes[k].created \in Nat
    <3>1. \A k \in Ids : codes[k] \in Code
      BY <1>1 DEF CodePart, CodeValues, Ids
    <3> QED
      BY <3>1, LimitsAssumption DEF Code, Times
  <2>2. clock \in Nat /\ clock' \in Nat
    BY LimitsAssumption DEF IInv, LimitPart, LimitValues, Times
  <2>3. \A k \in Ids : codes[k].created <= clock'
    BY <1>1, <2>1, <2>2 DEF CodePart, CreatedInOrder
  <2> QED
    BY <1>1, <1>2, <2>3 DEF CodePart, CodeValues, CreatedInOrder
<1>4. CodesHold'
  <2>1. {c \in Clients : phase[c] \in {"accepted", "failed send"}}
          = {c \in Clients : phase'[c] \in {"accepted", "failed send"}}
    BY DEF Outside
  <2>2. SendsAreLimited'
    BY <1>1, <1>2, <2>1 DEF CodePart, CodesHold, SendsAreLimited
  <2>3. OneGoodCode' /\ GuessesAreCounted'
    BY <1>1, <1>2 DEF CodePart, CodesHold, OneGoodCode, GuessesAreCounted
  <2> QED
    BY <2>2, <2>3 DEF CodesHold
<1>5. \A d \in Clients :
          /\ HoldsFarmer(d)' <=> HoldsFarmer(d)
          /\ HoldsCode(d)' <=> HoldsCode(d)
  BY DEF Outside, HoldsFarmer, HoldsCode
<1>6. LocksApart'
  BY <1>1, <1>5 DEF IInv, ClientPart, LocksApart, Apart
<1>7. ASSUME NEW d \in Clients PROVE CodeFits(d)'
  <2>1. CodeFits(d)
    BY DEF IInv, ClientPart
  <2>2. CASE phase'[d] = phase[d] /\ now'[d] = now[d]
    <3>1. now[d] \in Nat
      BY LimitsAssumption DEF IInv, ClientPart, ClientValues, Times
    <3>2. MaySend(now[d])' <=> MaySend(now[d])
      BY <1>1, <2>2 DEF MaySend, Recent, Ids
    <3> QED
      BY <1>1, <1>2, <2>1, <2>2, <3>2 DEF CodeFits
  <2>3. CASE phase'[d] \in Outside
    BY <2>3 DEF CodeFits, Outside, SendPhases
  <2> QED
    BY <2>2, <2>3
<1> QED
  BY <1>1, <1>3, <1>4, <1>6, <1>7 DEF CodePart

(* A step of a send or a confirmation leaves the limits as they are.       *)
LEMMA CodesLeaveLimits ==
    ASSUME IInv, UNCHANGED <<clock, events>>, NEW c \in Clients, Alone(c),
           op'[c] \notin DOMAIN Failures
    PROVE  LimitPart'
<1>1. LimitValues /\ LimitValues'
  BY DEF IInv, LimitPart, LimitValues
<1>2. ASSUME NEW l \in Limits PROVE Holds(l, events[l], clock, InFlight(l)')
  <2>1. InFlight(l)' \in SUBSET InFlight(l) /\ InFlight(l) \in SUBSET Clients
    BY DEF InFlight, Alone
  <2>2. Holds(l, events[l], clock, InFlight(l))
    BY <1>1, LimitsHoldIs DEF IInv, LimitPart, EachHolds
  <2>3. events[l] \in Rows /\ clock \in Nat /\ clock <= clock
    BY <1>1, LimitsAssumption DEF LimitValues, Times
  <2>4. \A t \in Times : events[l][t] <= events[l][t]
    BY <2>3 DEF Rows
  <2> QED
    BY <2>1, <2>2, <2>3, <2>4, FewerHold
<1>3. LimitsHold'
  <2>1. EachHolds'
    BY <1>2 DEF EachHolds
  <2>2. LimitValues' => (LimitsHold' <=> EachHolds')
    BY LimitsHoldIs, PTL
  <2> QED
    BY <1>1, <2>1, <2>2
<1> QED
  BY <1>1, <1>3 DEF LimitPart

-----------------------------------------------------------------------------
(* The steps of the limits.                                                *)

LEMMA HeadAndTail ==
    ASSUME NEW S, NEW s \in Seq(S), s # <<>>
    PROVE  /\ Head(s) \in S /\ Head(s) = s[1] /\ 1 \in DOMAIN s
           /\ Tail(s) \in Seq(S)
           /\ \A i \in DOMAIN Tail(s) : i + 1 \in DOMAIN s /\ i + 1 # 1 /\ Tail(s)[i] = s[i + 1]
           /\ \A i \in DOMAIN s : i = 1 \/ (i - 1 \in DOMAIN Tail(s) /\ Tail(s)[i - 1] = s[i])
OBVIOUS

(* What a route counts when it fails it has asked before, and it asks for  *)
(* no limit twice.                                                         *)
LEMMA Routes ==
    /\ \A o \in DOMAIN Checks : Checks[o] \in Seq(Limits) /\ Checks[o] # <<>>
    /\ \A o \in DOMAIN Failures :
         /\ o \in DOMAIN Checks
         /\ Failures[o] \in Seq(Limits) /\ Failures[o] # <<>>
         /\ \A i, j \in DOMAIN Failures[o] : i # j => Failures[o][i] # Failures[o][j]
         /\ \A i \in DOMAIN Failures[o] :
              /\ Failures[o][i] \notin Taken
              /\ \E j \in DOMAIN Checks[o] : Checks[o][j] = Failures[o][i]
<1>1. DOMAIN Checks = {"login", "password", "send", "upload"} /\ DOMAIN Failures = {"login", "password"}
  BY DEF Checks, Failures
<1>2. /\ Checks["login"] = <<"login.ip_attempts", "login.pair_failures", "login.identifier_failures">>
      /\ Checks["password"] = <<"password.failures">>
      /\ Checks["send"] = <<"verification.ip_sends">>
      /\ Checks["upload"] = <<"upload.ip">>
      /\ Failures["login"] = <<"login.pair_failures", "login.identifier_failures">>
      /\ Failures["password"] = <<"password.failures">>
  BY DEF Checks, Failures
<1>3. \A o \in DOMAIN Checks : Checks[o] \in Seq(Limits) /\ Checks[o] # <<>>
  <2>1. /\ "login.ip_attempts" \in Limits /\ "login.pair_failures" \in Limits
        /\ "login.identifier_failures" \in Limits /\ "password.failures" \in Limits
        /\ "verification.ip_sends" \in Limits /\ "upload.ip" \in Limits
    BY DEF Limits
  <2>2. \A a, b, d \in Limits : <<a>> \in Seq(Limits) /\ <<a, b, d>> \in Seq(Limits)
    OBVIOUS
  <2>3. /\ Checks["login"] \in Seq(Limits) /\ Checks["password"] \in Seq(Limits)
        /\ Checks["send"] \in Seq(Limits) /\ Checks["upload"] \in Seq(Limits)
    BY <1>2, <2>1, <2>2
  <2>4. /\ Checks["login"] # <<>> /\ Checks["password"] # <<>>
        /\ Checks["send"] # <<>> /\ Checks["upload"] # <<>>
    BY <1>2
  <2> QED
    BY <1>1, <2>3, <2>4
<1>4. \A o \in DOMAIN Failures :
         /\ Failures[o] \in Seq(Limits) /\ Failures[o] # <<>>
         /\ \A i, j \in DOMAIN Failures[o] : i # j => Failures[o][i] # Failures[o][j]
  BY <1>1, <1>2 DEF Limits
<1>5. \A i \in DOMAIN Failures["login"] :
          /\ Failures["login"][i] \notin Taken
          /\ \E j \in DOMAIN Checks["login"] : Checks["login"][j] = Failures["login"][i]
  <2>1. DOMAIN Failures["login"] = {1, 2} /\ 2 \in DOMAIN Checks["login"] /\ 3 \in DOMAIN Checks["login"]
    BY <1>2
  <2>2. /\ Checks["login"][2] = Failures["login"][1] /\ Checks["login"][3] = Failures["login"][2]
        /\ Failures["login"][1] \notin Taken /\ Failures["login"][2] \notin Taken
    BY <1>2 DEF Taken
  <2> QED
    BY <2>1, <2>2
<1>6. \A i \in DOMAIN Failures["password"] :
          /\ Failures["password"][i] \notin Taken
          /\ \E j \in DOMAIN Checks["password"] : Checks["password"][j] = Failures["password"][i]
  <2>1. DOMAIN Failures["password"] = {1} /\ 1 \in DOMAIN Checks["password"]
    BY <1>2
  <2>2. Checks["password"][1] = Failures["password"][1] /\ Failures["password"][1] \notin Taken
    BY <1>2 DEF Taken
  <2> QED
    BY <2>1, <2>2
<1> QED
  BY <1>1, <1>3, <1>4, <1>5, <1>6

(* A step of the limits keeps the invariant if the limits hold after it.   *)
LEMMA LimitStep ==
    ASSUME IInv, NEW c \in Clients, Alone(c), UNCHANGED <<clock, codeVars>>,
           ClientValues', LimitValues', EachHolds', RouteFits(c)',
           phase[c] \in Outside, phase'[c] \in Outside
    PROVE  IInv'
<1>1. clock' \in Times /\ clock <= clock'
  BY LimitsAssumption DEF IInv, LimitPart, LimitValues, Times
<1>2. \A d \in Clients : \/ phase'[d] = phase[d] /\ now'[d] = now[d]
                         \/ phase[d] \in Outside /\ phase'[d] \in Outside
  BY DEF Alone
<1>3. CodePart' /\ LocksApart' /\ \A d \in Clients : CodeFits(d)'
  BY <1>1, <1>2, LimitsLeaveCodes
<1>4. \A d \in Clients : RouteFits(d)'
  BY <1>1, OthersFit
<1>5. LimitsHold'
  <2>1. LimitValues' => (LimitsHold' <=> EachHolds')
    BY LimitsHoldIs, PTL
  <2> QED
    BY <2>1
<1> QED
  BY <1>3, <1>4, <1>5 DEF IInv, LimitPart, ClientPart

(* A limit whose events are no more, and where c has not taken off.        *)
LEMMA OneLimitHolds ==
    ASSUME IInv, NEW c \in Clients, Alone(c), UNCHANGED clock, LimitValues', NEW l \in Limits,
           \A t \in Times : events'[l][t] <= events[l][t],
           c \in InFlight(l)' => c \in InFlight(l)
    PROVE  Holds(l, events'[l], clock', InFlight(l)')
<1>1. InFlight(l)' \in SUBSET InFlight(l) /\ InFlight(l) \in SUBSET Clients
  BY DEF InFlight, Alone
<1>2. Holds(l, events[l], clock, InFlight(l))
  BY LimitsHoldIs DEF IInv, LimitPart, EachHolds
<1>3. /\ events[l] \in Rows /\ events'[l] \in Rows
      /\ clock \in Nat /\ clock' \in Nat /\ clock <= clock'
  BY LimitsAssumption DEF IInv, LimitPart, LimitValues, Times
<1> QED
  BY <1>1, <1>2, <1>3, FewerHold

(* The events of a limit are numbers.                                      *)
LEMMA EventsAreCounts ==
    ASSUME IInv
    PROVE  /\ LimitValues /\ ClientValues
           /\ \A l \in Limits : events[l] \in Rows /\ \A t \in Times : events[l][t] \in Nat
           /\ clock \in Times /\ clock \in Nat
           /\ \A c \in Clients : now[c] \in Times /\ now[c] \in Nat /\ now[c] <= clock
<1>1. Times \subseteq Nat
  BY LimitsAssumption DEF Times
<1>2. LimitValues /\ ClientValues /\ \A c \in Clients : RouteFits(c)
  BY DEF IInv, LimitPart, ClientPart
<1>3. \A l \in Limits : events[l] \in Rows /\ \A t \in Times : events[l][t] \in Nat
  <2>1. \A l \in Limits : events[l] \in Rows
    BY <1>2 DEF LimitValues
  <2> QED
    BY <2>1 DEF Rows
<1>4. clock \in Times /\ clock \in Nat
  BY <1>1, <1>2 DEF LimitValues
<1>5. \A c \in Clients : now[c] \in Times
  BY <1>2 DEF ClientValues
<1>6. \A c \in Clients : now[c] <= clock
  BY <1>2 DEF RouteFits
<1> QED
  BY <1>1, <1>2, <1>3, <1>4, <1>5, <1>6

LEMMA BeginKeeps ==
    ASSUME IInv, NEW c \in Clients, NEW o \in DOMAIN Checks, Begin(c, o), UNCHANGED codeVars
    PROVE  IInv'
<1>1. /\ LimitValues /\ ClientValues /\ phase[c] = "idle"
      /\ UNCHANGED <<clock, events, mine>> /\ clock \in Times
      /\ \A l \in Limits : \A t \in Times : events[l][t] \in Nat
  BY EventsAreCounts DEF Begin, codeVars
<1>2. Checks[o] \in Seq(Limits) /\ Checks[o] # <<>>
  BY Routes
<1>3. ClientValues' /\ Alone(c)
  BY <1>1, <1>2 DEF ClientValues, Alone, Begin, Phases
<1>4. /\ phase'[c] = "asking" /\ op'[c] = o /\ left'[c] = Checks[o] /\ now'[c] = clock
  BY <1>1 DEF ClientValues, Begin
<1>5. o # "none"
  BY DEF Checks
<1>6. RouteFits(c)'
  <2>1. clock <= clock /\ clock' = clock
    BY <1>1, LimitsAssumption DEF Times
  <2> QED
    BY <1>2, <1>4, <1>5, <2>1 DEF RouteFits, SendPhases, ConfirmPhases
<1>7. \A l \in Limits : c \notin InFlight(l)'
  <2> SUFFICES ASSUME NEW l \in Limits, c \in InFlight(l)' PROVE FALSE
    OBVIOUS
  <2>1. o \in DOMAIN Failures /\ \E i \in DOMAIN Failures[o] : Failures[o][i] = l
    BY <1>4 DEF InFlight
  <2>2. \A i \in DOMAIN Checks[o] : Checks[o][i] # l
    BY <1>4 DEF InFlight
  <2> QED
    BY <2>1, <2>2, Routes
<1>8. LimitValues'
  BY <1>1 DEF LimitValues
<1>9. EachHolds'
  <2> SUFFICES ASSUME NEW l \in Limits PROVE Holds(l, events'[l], clock', InFlight(l)')
    BY DEF EachHolds
  <2>1. \A t \in Times : events'[l][t] <= events[l][t]
    BY <1>1
  <2> QED
    BY <1>1, <1>3, <1>7, <1>8, <2>1, OneLimitHolds
<1>10. phase[c] \in Outside /\ phase'[c] \in Outside
  BY <1>1, <1>4 DEF Outside
<1> QED
  BY <1>1, <1>3, <1>6, <1>8, <1>9, <1>10, LimitStep

(* The end of a request that is behind its limits, or still asks.          *)
LEMMA EndKeeps ==
    ASSUME IInv, NEW c \in Clients, EndRequest(c), UNCHANGED <<clock, codeVars>>,
           phase[c] \in Outside, LimitValues',
           \A l \in Limits : \A t \in Times : events'[l][t] <= events[l][t]
    PROVE  IInv'
<1>1. ClientValues /\ clock \in Nat /\ UNCHANGED mine
  BY EventsAreCounts DEF codeVars
<1>2. /\ ClientValues' /\ Alone(c)
      /\ phase'[c] = "idle" /\ op'[c] = "none" /\ now'[c] = 0
  <2>1. 0 \in Nat
    OBVIOUS
  <2> QED
    BY <1>1, <2>1, EndEffect
<1>3. RouteFits(c)'
  BY <1>1, <1>2 DEF RouteFits, SendPhases, ConfirmPhases
<1>4. \A l \in Limits : c \notin InFlight(l)'
  BY <1>2 DEF InFlight
<1>5. EachHolds'
  <2> SUFFICES ASSUME NEW l \in Limits PROVE Holds(l, events'[l], clock', InFlight(l)')
    BY DEF EachHolds
  <2> QED
    BY <1>2, <1>4, OneLimitHolds
<1>6. phase'[c] \in Outside
  BY <1>2 DEF Outside
<1> QED
  BY <1>2, <1>3, <1>5, <1>6, LimitStep

(* What a sweep of one limit leaves.                                       *)
LEMMA SweepLeaves ==
    ASSUME IInv, NEW l \in Limits, NEW at \in Nat
    PROVE  /\ Swept(l, at) \in Rows
           /\ \A t \in Times : Swept(l, at)[t] <= events[l][t]
           /\ \A t \in Times : t > clock => Swept(l, at)[t] = 0
<1>1. /\ events[l] \in Rows /\ \A t \in Times : events[l][t] \in Nat
      /\ \A t \in Times : t > clock => events[l][t] = 0
  BY EventsAreCounts DEF LimitValues
<1> QED
  BY <1>1 DEF Swept, Rows

LEMMA TooManyKeeps ==
    ASSUME IInv, NEW c \in Clients, TooMany(c), UNCHANGED codeVars
    PROVE  IInv'
<1> DEFINE l == Head(left[c])
<1>1. /\ LimitValues /\ phase[c] = "asking" /\ now[c] \in Nat
      /\ \A k \in Limits : \A t \in Times : events[k][t] \in Nat
  BY EventsAreCounts DEF TooMany
<1>2. l \in Limits
  BY <1>1, HeadAndTail DEF IInv, ClientPart, ClientValues, RouteFits
<1>3. /\ events' = [events EXCEPT ![l] = Swept(l, now[c])]
      /\ EndRequest(c) /\ UNCHANGED clock
  BY DEF TooMany
<1> HIDE DEF l
<1>4. LimitValues'
  BY <1>1, <1>2, <1>3, SweepLeaves DEF LimitValues
<1>5. \A k \in Limits : \A t \in Times : events'[k][t] <= events[k][t]
  BY <1>1, <1>2, <1>3, SweepLeaves DEF LimitValues
<1> QED
  BY <1>1, <1>3, <1>4, <1>5, EndKeeps DEF Outside

LEMMA LetThroughKeeps ==
    ASSUME IInv, NEW c \in Clients, LetThrough(c), UNCHANGED codeVars
    PROVE  IInv'
<1>1. /\ LimitValues /\ ClientValues /\ phase[c] = "asking" /\ clock \in Times
      /\ now[c] \in Times /\ now[c] \in Nat /\ now[c] <= clock /\ clock \in Nat
      /\ \A k \in Limits : events[k] \in Rows /\ \A t \in Times : events[k][t] \in Nat
  BY EventsAreCounts DEF LetThrough
<1>2. left[c] \in Seq(Limits) /\ left[c] # <<>> /\ RouteFits(c)
  BY <1>1 DEF IInv, ClientPart, ClientValues, RouteFits
<1>a. PICK l \in Limits : l = Head(left[c])
  BY <1>2, HeadAndTail
<1>b. PICK rest \in Seq(Limits) : rest = Tail(left[c])
  BY <1>2, HeadAndTail
<1>c. PICK at \in Times : at = now[c]
  BY <1>1
<1>3. ASSUME NEW k \in Limits, k # l, \A i \in DOMAIN rest : rest[i] # k
      PROVE  \A i \in DOMAIN left[c] : left[c][i] # k
  <2> SUFFICES ASSUME NEW i \in DOMAIN left[c], left[c][i] = k PROVE FALSE
    OBVIOUS
  <2>1. i = 1 \/ (i - 1 \in DOMAIN rest /\ rest[i - 1] = left[c][i])
    BY <1>2, <1>b, HeadAndTail
  <2>2. left[c][1] = l
    BY <1>2, <1>a, HeadAndTail
  <2> QED
    BY <1>3, <2>1, <2>2
<1> DEFINE p == IF rest = <<>> THEN "attempt" ELSE "asking"
<1>d. at \in Nat /\ at <= clock
  BY <1>1, <1>c
<1>4. /\ ~Full(l, at) /\ Proceed(c, p, rest) /\ UNCHANGED <<clock, mine>>
      /\ events' = [events EXCEPT ![l] =
             [Swept(l, at) EXCEPT ![at] = @ + (IF l \in Taken THEN 1 ELSE 0)]]
  BY <1>a, <1>b, <1>c DEF LetThrough, codeVars
<1>5. p \in Phases /\ p \in {"attempt", "asking"} /\ (p = "asking" => rest # <<>>)
  BY DEF Phases
<1> HIDE DEF p
<1>6. /\ ClientValues' /\ Alone(c) /\ phase'[c] = p /\ op'[c] = op[c] /\ left'[c] = rest
      /\ now'[c] \in {0, clock}
  BY <1>1, <1>4, <1>5, ProceedEffect
<1>7. RouteFits(c)'
  <2>1. op[c] \in DOMAIN Checks /\ op[c] # "none"
    BY <1>1, <1>2 DEF RouteFits
  <2>2. now'[c] <= clock'
    BY <1>1, <1>4, <1>6
  <2> QED
    BY <1>5, <1>6, <2>1, <2>2 DEF RouteFits, SendPhases, ConfirmPhases
<1>8. /\ Swept(l, at) \in Rows
      /\ \A t \in Times : Swept(l, at)[t] <= events[l][t] /\ Swept(l, at)[t] \in Nat
      /\ \A t \in Times : t > clock => Swept(l, at)[t] = 0
  BY <1>d, SweepLeaves DEF Rows
<1>9. /\ events'[l] \in Rows
      /\ \A t \in Times : events'[l][t] = Swept(l, at)[t] + (IF t = at /\ l \in Taken THEN 1 ELSE 0)
      /\ \A k \in Limits \ {l} : events'[k] = events[k]
      /\ events' \in [Limits -> Rows]
  <2>1. PICK before \in Rows : before = Swept(l, at)
    BY <1>8
  <2>2. PICK one \in Nat : one = IF l \in Taken THEN 1 ELSE 0
    OBVIOUS
  <2>3. PICK row \in Rows : row = [before EXCEPT ![at] = @ + one]
    <3>1. before \in [Times -> Nat] /\ before[at] + one \in Nat
      BY DEF Rows
    <3>2. [before EXCEPT ![at] = before[at] + one] \in [Times -> Nat]
      BY <3>1
    <3> QED
      BY <3>2 DEF Rows
  <2>4. \A t \in Times : row[t] = before[t] + (IF t = at THEN one ELSE 0)
    BY <2>3 DEF Rows
  <2>5. \A t \in Times : row[t] = before[t] + (IF t = at /\ l \in Taken THEN 1 ELSE 0)
    BY <2>2, <2>4
  <2>6. events' = [events EXCEPT ![l] = row]
    BY <1>4, <2>1, <2>2, <2>3
  <2>7. events \in [Limits -> Rows]
    BY <1>1 DEF LimitValues
  <2>8. /\ events'[l] = row /\ events' \in [Limits -> Rows]
        /\ \A k \in Limits \ {l} : events'[k] = events[k]
    BY <2>6, <2>7
  <2> QED
    BY <2>1, <2>5, <2>8
<1>10. LimitValues'
  <2>1. \A t \in Times : t > clock => events'[l][t] = 0
    BY <1>1, <1>d, <1>8, <1>9 DEF Times
  <2> QED
    BY <1>1, <1>4, <1>9, <2>1 DEF LimitValues
<1>11. Holds(l, events'[l], clock', InFlight(l)')
  <2>1. Count(l, at) = CountOf(events[l], l, at)
    BY <1>1, <1>d, CountIsOf
  <2>2. ~(CountOf(events[l], l, at) >= MaxEvents[l])
    BY <1>4, <2>1 DEF Full
  <2>3. \A t \in Times : events'[l][t] <= events[l][t] + (IF t = at /\ l \in Taken THEN 1 ELSE 0)
    BY <1>1, <1>8, <1>9
  <2>4. InFlight(l)' \in SUBSET Clients /\ clock' \in Times /\ at <= clock'
    BY <1>1, <1>4, <1>d DEF InFlight
  <2> QED
    BY <1>1, <1>9, <2>2, <2>3, <2>4, LetThroughHolds
<1>12. ASSUME NEW k \in Limits, k # l PROVE Holds(k, events'[k], clock', InFlight(k)')
  <2>1. \A t \in Times : events'[k][t] <= events[k][t]
    <3>1. events'[k] = events[k] /\ \A t \in Times : events[k][t] \in Nat
      BY <1>1, <1>9, <1>12
    <3> QED
      BY <3>1
  <2>2. c \in InFlight(k)' => c \in InFlight(k)
    <3> SUFFICES ASSUME c \in InFlight(k)' PROVE c \in InFlight(k)
      OBVIOUS
    <3>1. op[c] \in DOMAIN Failures /\ \E i \in DOMAIN Failures[op[c]] : Failures[op[c]][i] = k
      BY <1>6 DEF InFlight
    <3>2. \A i \in DOMAIN rest : rest[i] # k
      <4>1. CASE p = "asking"
        BY <1>6, <4>1 DEF InFlight
      <4>2. CASE p = "attempt"
        <5>1. rest = <<>>
          BY <4>2 DEF p
        <5> QED
          BY <5>1
      <4> QED
        BY <1>5, <4>1, <4>2
    <3>3. \A i \in DOMAIN left[c] : left[c][i] # k
      BY <1>3, <1>12, <3>2
    <3> QED
      BY <1>1, <3>1, <3>3 DEF InFlight
  <2> QED
    BY <1>4, <1>6, <1>10, <2>1, <2>2, OneLimitHolds
<1>13. EachHolds'
  BY <1>11, <1>12 DEF EachHolds
<1>14. phase[c] \in Outside /\ phase'[c] \in Outside
  BY <1>1, <1>5, <1>6 DEF Outside
<1> QED
  BY <1>4, <1>6, <1>7, <1>10, <1>13, <1>14, LimitStep

LEMMA WrongPasswordKeeps ==
    ASSUME IInv, NEW c \in Clients, WrongPassword(c), UNCHANGED codeVars
    PROVE  IInv'
<1> DEFINE rest == Failures[op[c]]
<1>1. /\ LimitValues /\ ClientValues /\ clock \in Times /\ clock \in Nat
      /\ \A k \in Limits : events[k] \in Rows /\ \A t \in Times : events[k][t] \in Nat
  BY EventsAreCounts
<1>2. /\ phase[c] = "attempt" /\ op[c] \in DOMAIN Failures /\ RouteFits(c)
      /\ Proceed(c, "failed", rest) /\ UNCHANGED <<clock, events, mine>>
  BY DEF IInv, ClientPart, WrongPassword, codeVars
<1>3. /\ rest \in Seq(Limits) /\ rest # <<>>
      /\ \A i, j \in DOMAIN rest : i # j => rest[i] # rest[j]
  BY <1>2, Routes
<1> HIDE DEF rest
<1>4. /\ ClientValues' /\ Alone(c) /\ phase'[c] = "failed" /\ op'[c] = op[c] /\ left'[c] = rest
      /\ now'[c] \in {0, clock}
  BY <1>1, <1>2, <1>3, ProceedEffect DEF Phases
<1>5. RouteFits(c)'
  <2>1. \A i \in DOMAIN rest : \E j \in DOMAIN Failures[op[c]] : Failures[op[c]][j] = rest[i]
    BY DEF rest
  <2>2. now'[c] <= clock' /\ op[c] # "none"
    BY <1>1, <1>2, <1>4 DEF Failures
  <2> QED
    BY <1>2, <1>3, <1>4, <2>1, <2>2 DEF RouteFits, SendPhases, ConfirmPhases
<1>6. LimitValues'
  BY <1>1, <1>2 DEF LimitValues
<1>7. ASSUME NEW k \in Limits PROVE Holds(k, events'[k], clock', InFlight(k)')
  <2>1. \A t \in Times : events'[k][t] <= events[k][t]
    BY <1>1, <1>2
  <2>2. c \in InFlight(k)' => c \in InFlight(k)
    BY <1>2, <1>4 DEF InFlight
  <2> QED
    BY <1>2, <1>4, <1>6, <2>1, <2>2, OneLimitHolds
<1>8. EachHolds'
  BY <1>7 DEF EachHolds
<1>9. phase[c] \in Outside /\ phase'[c] \in Outside
  BY <1>2, <1>4 DEF Outside
<1> QED
  BY <1>2, <1>4, <1>5, <1>6, <1>8, <1>9, LimitStep

LEMMA CountFailureKeeps ==
    ASSUME IInv, NEW c \in Clients, CountFailure(c), UNCHANGED codeVars
    PROVE  IInv'
<1>1. /\ LimitValues /\ ClientValues /\ phase[c] = "failed" /\ clock \in Times /\ clock \in Nat
      /\ \A k \in Limits : events[k] \in Rows /\ \A t \in Times : events[k][t] \in Nat
  BY EventsAreCounts DEF CountFailure
<1>2. left[c] \in Seq(Limits) /\ left[c] # <<>> /\ RouteFits(c) /\ op[c] \in DOMAIN Failures
  BY <1>1 DEF IInv, ClientPart, ClientValues, RouteFits
<1>a. PICK l \in Limits : l = Head(left[c])
  BY <1>2, HeadAndTail
<1>b. PICK rest \in Seq(Limits) : rest = Tail(left[c])
  BY <1>2, HeadAndTail
<1>3. /\ l = left[c][1] /\ 1 \in DOMAIN left[c]
      /\ \A i \in DOMAIN rest : i + 1 \in DOMAIN left[c] /\ i + 1 # 1 /\ rest[i] = left[c][i + 1]
  BY <1>2, <1>a, <1>b, HeadAndTail
<1>4. \A i \in DOMAIN left[c] :
          /\ \E j \in DOMAIN Failures[op[c]] : Failures[op[c]][j] = left[c][i]
          /\ \A j \in DOMAIN left[c] : i # j => left[c][i] # left[c][j]
  BY <1>1, <1>2 DEF RouteFits
<1>5. l \notin Taken
  BY <1>2, <1>3, <1>4, Routes
<1>6. /\ events' = [events EXCEPT ![l][clock] = @ + 1] /\ UNCHANGED <<clock, mine>>
      /\ IF rest = <<>> THEN EndRequest(c) ELSE Proceed(c, "failed", rest)
  BY <1>a, <1>b DEF CountFailure, codeVars
<1>7. /\ ClientValues' /\ Alone(c)
      /\ \/ phase'[c] = "idle" /\ op'[c] = "none" /\ now'[c] = 0
         \/ /\ phase'[c] = "failed" /\ op'[c] = op[c] /\ left'[c] = rest /\ rest # <<>>
            /\ now'[c] \in {0, clock}
  <2>1. CASE rest = <<>>
    <3>1. 0 \in Nat
      OBVIOUS
    <3> QED
      BY <1>1, <1>6, <2>1, <3>1, EndEffect
  <2>2. CASE rest # <<>>
    BY <1>1, <1>3, <1>6, <2>2, ProceedEffect DEF Phases
  <2> QED
    BY <2>1, <2>2
<1>8. RouteFits(c)'
  <2>1. CASE phase'[c] = "idle"
    <3>1. op'[c] = "none" /\ now'[c] = 0
      BY <1>7, <2>1
    <3> QED
      BY <1>1, <1>6, <2>1, <3>1 DEF RouteFits, SendPhases, ConfirmPhases
  <2>2. CASE phase'[c] = "failed"
    <3>1. /\ op'[c] = op[c] /\ left'[c] = rest /\ rest # <<>> /\ now'[c] \in {0, clock}
      BY <1>7, <2>2
    <3>2. \A i \in DOMAIN rest : /\ \E j \in DOMAIN Failures[op[c]] : Failures[op[c]][j] = rest[i]
                                 /\ \A j \in DOMAIN rest : i # j => rest[i] # rest[j]
      <4>1. \A i, j \in DOMAIN rest : i \in Nat /\ j \in Nat
        BY <1>3
      <4> QED
        BY <1>3, <1>4, <4>1
    <3>3. now'[c] <= clock' /\ op[c] # "none"
      BY <1>1, <1>2, <1>6, <3>1 DEF Failures
    <3>4. op[c] \in DOMAIN Checks
      BY <1>2, Routes
    <3>5. /\ op'[c] \in DOMAIN Failures
          /\ \A i \in DOMAIN left'[c] :
               /\ \E j \in DOMAIN Failures[op'[c]] : Failures[op'[c]][j] = left'[c][i]
               /\ \A j \in DOMAIN left'[c] : i # j => left'[c][i] # left'[c][j]
      BY <1>2, <3>1, <3>2
    <3>6. left'[c] # <<>> /\ op'[c] # "none" /\ now'[c] <= clock'
      BY <3>1, <3>3
    <3> QED
      BY <2>2, <3>5, <3>6 DEF RouteFits, SendPhases, ConfirmPhases
  <2> QED
    BY <1>7, <2>1, <2>2
<1>9. /\ events' \in [Limits -> Rows]
      /\ \A t \in Times : events'[l][t] = events[l][t] + (IF t = clock THEN 1 ELSE 0)
      /\ \A k \in Limits \ {l} : events'[k] = events[k]
  BY <1>1, <1>3, <1>6 DEF LimitValues, Rows
<1>10. LimitValues'
  <2>1. \A t \in Times : t > clock => events'[l][t] = 0
    BY <1>1, <1>3, <1>9 DEF LimitValues, Times
  <2> QED
    BY <1>1, <1>6, <1>9, <2>1 DEF LimitValues
<1>11. Holds(l, events'[l], clock', InFlight(l)')
  <2>1. c \in InFlight(l)
    BY <1>1, <1>2, <1>3, <1>4 DEF InFlight
  <2>2. c \notin InFlight(l)'
    <3>1. \A i \in DOMAIN rest : rest[i] # l
      BY <1>3, <1>4
    <3> QED
      BY <1>7, <3>1 DEF InFlight
  <2>3. InFlight(l)' \in SUBSET (InFlight(l) \ {c}) /\ InFlight(l) \in SUBSET Clients
    BY <1>7, <2>2 DEF InFlight, Alone
  <2>4. Holds(l, events[l], clock, InFlight(l))
    BY <1>3, LimitsHoldIs DEF IInv, LimitPart, EachHolds
  <2>5. \A t \in Times : events'[l][t] <= events[l][t] + (IF t = clock THEN 1 ELSE 0)
    <3>1. \A t \in Times : events[l][t] \in Nat
      BY <1>1
    <3> QED
      BY <1>9, <3>1
  <2>6. events[l] \in Rows /\ events'[l] \in Rows /\ clock' = clock
    BY <1>1, <1>3, <1>6, <1>9
  <2> QED
    BY <1>1, <1>3, <1>5, <2>1, <2>3, <2>4, <2>5, <2>6, CountedHolds
<1>12. ASSUME NEW k \in Limits, k # l PROVE Holds(k, events'[k], clock', InFlight(k)')
  <2>1. \A t \in Times : events'[k][t] <= events[k][t]
    <3>1. events'[k] = events[k] /\ \A t \in Times : events[k][t] \in Nat
      BY <1>1, <1>9, <1>12
    <3> QED
      BY <3>1
  <2>2. c \in InFlight(k)' => c \in InFlight(k)
    BY <1>1, <1>3, <1>7 DEF InFlight
  <2> QED
    BY <1>6, <1>7, <1>10, <2>1, <2>2, OneLimitHolds
<1>13. EachHolds'
  BY <1>11, <1>12 DEF EachHolds
<1>14. phase[c] \in Outside /\ phase'[c] \in Outside
  BY <1>1, <1>7 DEF Outside
<1> QED
  BY <1>6, <1>7, <1>8, <1>10, <1>13, <1>14, LimitStep

LEMMA SignedInKeeps ==
    ASSUME IInv, NEW c \in Clients, SignedIn(c), UNCHANGED codeVars
    PROVE  IInv'
<1> DEFINE l == "login.pair_failures"
<1>1. /\ LimitValues /\ \A k \in Limits : \A t \in Times : events[k][t] \in Nat
      /\ phase[c] \in Outside /\ EndRequest(c) /\ UNCHANGED clock
      /\ events' = [events EXCEPT ![l] = [t \in Times |-> 0]]
  BY EventsAreCounts DEF SignedIn, Outside
<1>2. /\ events' \in [Limits -> Rows]
      /\ \A k \in Limits : \A t \in Times : events'[k][t] \in {0, events[k][t]}
  BY <1>1 DEF LimitValues, Rows
<1> HIDE DEF l
<1>3. LimitValues'
  BY <1>1, <1>2 DEF LimitValues
<1>4. \A k \in Limits : \A t \in Times : events'[k][t] <= events[k][t]
  BY <1>1, <1>2
<1> QED
  BY <1>1, <1>3, <1>4, EndKeeps

LEMMA AnsweredKeeps ==
    ASSUME IInv, NEW c \in Clients, Answered(c), UNCHANGED codeVars
    PROVE  IInv'
<1>1. /\ LimitValues /\ \A k \in Limits : \A t \in Times : events[k][t] \in Nat
      /\ phase[c] \in Outside /\ EndRequest(c) /\ UNCHANGED <<clock, events>>
  BY EventsAreCounts DEF Answered, Outside
<1>2. LimitValues'
  BY <1>1 DEF LimitValues
<1>3. \A k \in Limits : \A t \in Times : events'[k][t] <= events[k][t]
  BY <1>1
<1> QED
  BY <1>1, <1>2, <1>3, EndKeeps

(* Time and the hourly job: no limit counts more, and no client moves.     *)
LEMMA WindowsMove ==
    ASSUME IInv, UNCHANGED <<client, codeVars>>, LimitValues', clock <= clock',
           \A l \in Limits : \A t \in Times : events'[l][t] <= events[l][t]
    PROVE  IInv'
<1>1. /\ LimitValues /\ ClientValues /\ UNCHANGED <<phase, op, left, now, mine>>
      /\ clock \in Nat /\ clock' \in Times /\ clock' \in Nat
      /\ \A l \in Limits : events[l] \in Rows /\ events'[l] \in Rows
  BY EventsAreCounts, LimitsAssumption DEF client, codeVars, LimitValues, Times
<1>2. CodePart' /\ LocksApart' /\ \A d \in Clients : CodeFits(d)'
  BY <1>1, LimitsLeaveCodes
<1>3. ClientValues'
  BY <1>1 DEF ClientValues
<1>4. ASSUME NEW d \in Clients PROVE RouteFits(d)'
  <2>1. RouteFits(d) /\ now[d] \in Nat /\ now[d] <= clock
    BY EventsAreCounts DEF IInv, ClientPart
  <2>2. now[d] <= clock'
    BY <1>1, <2>1
  <2> QED
    BY <1>1, <2>1, <2>2 DEF RouteFits
<1>5. EachHolds'
  <2> SUFFICES ASSUME NEW l \in Limits PROVE Holds(l, events'[l], clock', InFlight(l)')
    BY DEF EachHolds
  <2>1. InFlight(l)' = InFlight(l) /\ InFlight(l) \in SUBSET Clients
    BY <1>1 DEF InFlight
  <2>2. Holds(l, events[l], clock, InFlight(l))
    BY <1>1, LimitsHoldIs DEF IInv, LimitPart, EachHolds
  <2> QED
    BY <1>1, <2>1, <2>2, FewerHold
<1>6. LimitsHold'
  <2>1. LimitValues' => (LimitsHold' <=> EachHolds')
    BY LimitsHoldIs, PTL
  <2> QED
    BY <1>5, <2>1
<1> QED
  BY <1>2, <1>3, <1>4, <1>6 DEF IInv, LimitPart, ClientPart

LEMMA PruneKeeps ==
    ASSUME IInv, Prune, UNCHANGED codeVars
    PROVE  IInv'
<1>1. /\ LimitValues /\ \A k \in Limits : \A t \in Times : events[k][t] \in Nat
      /\ UNCHANGED <<clock, client>> /\ clock \in Nat
  BY EventsAreCounts DEF Prune
<1>2. /\ events' \in [Limits -> Rows]
      /\ \A k \in Limits : \A t \in Times : events'[k][t] \in {0, events[k][t]}
  BY <1>1 DEF Prune, LimitValues, Rows
<1>3. LimitValues'
  BY <1>1, <1>2 DEF LimitValues
<1>4. \A k \in Limits : \A t \in Times : events'[k][t] <= events[k][t]
  BY <1>1, <1>2
<1> QED
  BY <1>1, <1>3, <1>4, WindowsMove

LEMMA PassKeeps ==
    ASSUME IInv, Pass, UNCHANGED codeVars
    PROVE  IInv'
<1>1. /\ LimitValues /\ \A k \in Limits : \A t \in Times : events[k][t] \in Nat
      /\ UNCHANGED <<events, client>> /\ clock \in Nat /\ clock < MaxClock /\ clock' = clock + 1
  BY EventsAreCounts DEF Pass
<1>2. clock' \in Times /\ clock <= clock'
  BY <1>1, LimitsAssumption DEF Times
<1>3. LimitValues'
  <2>1. \A t \in Times : t > clock' => t > clock
    BY <1>1 DEF Times
  <2> QED
    BY <1>1, <1>2, <2>1 DEF LimitValues
<1>4. \A k \in Limits : \A t \in Times : events'[k][t] <= events[k][t]
  BY <1>1
<1> QED
  BY <1>1, <1>2, <1>3, <1>4, WindowsMove

LEMMA LimitedKeeps ==
    ASSUME IInv, NEW c \in Clients, Limited(c), UNCHANGED codeVars
    PROVE  IInv'
BY TooManyKeeps, LetThroughKeeps, CountFailureKeeps, WrongPasswordKeeps, SignedInKeeps, AnsweredKeeps
   DEF Limited

-----------------------------------------------------------------------------
(* Codes.                                                                  *)

LEMMA CodeTypes ==
    ASSUME CodeValues
    PROVE  /\ Len(codes) \in Nat /\ Ids = 1..Len(codes)
           /\ \A k \in Ids : /\ codes[k] \in Code /\ k \in Nat /\ k # 0
                             /\ codes[k].created \in Times /\ codes[k].created \in Nat
                             /\ codes[k].attempts \in 0..MaxAttempts
<1>1. Len(codes) \in Nat /\ Ids = 1..Len(codes) /\ \A k \in Ids : codes[k] \in Code
  BY DEF CodeValues, Ids
<1>2. Times \subseteq Nat
  BY LimitsAssumption DEF Times
<1>3. \A k \in Ids : k \in Nat /\ k # 0
  BY <1>1
<1>4. \A k \in Ids : codes[k].created \in Times /\ codes[k].attempts \in 0..MaxAttempts
  BY <1>1 DEF Code
<1> QED
  BY <1>1, <1>2, <1>3, <1>4

(* The limits of the sending of codes.                                     *)
LEMMA SendLimits ==
    /\ Cooldown \in Nat /\ SendWindow \in Nat /\ SendsPerWindow \in Nat /\ MaxAttempts \in Nat
    /\ Cooldown # 0 /\ SendWindow # 0 /\ SendsPerWindow # 0
    /\ Cooldown <= SendWindow /\ MaxCrashes \in Nat
BY CodesAssumption

(* Recent codes are the last ones.                                         *)
LEMMA RecentIsLast ==
    ASSUME CodeValues, CreatedInOrder, NEW at \in Nat
    PROVE  /\ Recent(at) \subseteq Ids /\ IsFiniteSet(Recent(at))
           /\ Cardinality(Recent(at)) \in Nat /\ Cardinality(Recent(at)) <= Len(codes)
           /\ \A k \in Recent(at) : \A j \in Ids : k <= j => j \in Recent(at)
           /\ Recent(at) # {} =>
                Len(codes) \in Recent(at) /\ Max(Recent(at)) = Len(codes) /\ Max(Ids) = Len(codes)
<1>1. /\ Len(codes) \in Nat /\ Ids = 1..Len(codes)
      /\ \A k \in Ids : codes[k].created \in Nat /\ k \in Nat
  BY CodeTypes
<1>2. Recent(at) \subseteq Ids
  BY DEF Recent
<1>3. /\ IsFiniteSet(Recent(at)) /\ Cardinality(Recent(at)) \in Nat
      /\ Cardinality(Recent(at)) <= Len(codes)
  <2>1. IsFiniteSet(Ids) /\ Cardinality(Ids) = Len(codes)
    BY <1>1, FS_Interval
  <2> QED
    BY <1>2, <2>1, FS_Subset, FS_CardinalityType
<1>4. \A k \in Recent(at) : \A j \in Ids : k <= j => j \in Recent(at)
  <2> SUFFICES ASSUME NEW k \in Recent(at), NEW j \in Ids, k <= j PROVE j \in Recent(at)
    OBVIOUS
  <2>1. codes[k].created <= codes[j].created /\ codes[k].created + SendWindow > at
    BY <1>2 DEF CreatedInOrder, Recent
  <2> QED
    BY <1>1, <1>2, <2>1, SendLimits DEF Recent
<1>5. ASSUME Recent(at) # {}
      PROVE  Len(codes) \in Recent(at) /\ Max(Recent(at)) = Len(codes) /\ Max(Ids) = Len(codes)
  <2>1. PICK k \in Recent(at) : TRUE
    BY <1>5
  <2>2. Len(codes) \in Ids /\ k <= Len(codes)
    BY <1>1, <1>2
  <2>3. Len(codes) \in Recent(at)
    BY <1>4, <2>2
  <2>4. ASSUME NEW S \in SUBSET Ids, Len(codes) \in S PROVE Max(S) = Len(codes)
    <3>1. \A x \in S : x \in Nat /\ x <= Len(codes)
      BY <1>1
    <3>2. Max(S) \in S /\ \A y \in S : Max(S) >= y
      BY <2>4, <3>1 DEF Max
    <3>3. Max(S) \in Nat /\ Max(S) <= Len(codes) /\ Max(S) >= Len(codes)
      BY <2>4, <3>1, <3>2
    <3> QED
      BY <1>1, <3>3
  <2> QED
    BY <1>2, <2>2, <2>3, <2>4
<1> QED
  BY <1>2, <1>3, <1>4, <1>5

(* The greatest of one, two or three numbers.                              *)
LEMMA GreatestWait ==
    ASSUME NEW x \in Int, NEW y \in Int, NEW A \in {{}, {x}}, NEW B \in {{}, {y}}
    PROVE  /\ Max({1} \cup A \cup B) \in Nat /\ Max({1} \cup A \cup B) >= 1
           /\ A # {} => Max({1} \cup A \cup B) >= x
           /\ B # {} => Max({1} \cup A \cup B) >= y
<1> DEFINE S == {1} \cup A \cup B
<1>1. \E z \in S : \A w \in S : z >= w
  <2>1. \A z \in S : z \in {1, x, y} /\ 1 \in S
    OBVIOUS
  <2>2. CASE A = {} /\ B = {}
    BY <2>2
  <2>3. CASE A = {x} /\ B = {}
    BY <2>3
  <2>4. CASE A = {} /\ B = {y}
    BY <2>4
  <2>5. CASE A = {x} /\ B = {y}
    <3>1. S = {1, x, y}
      BY <2>5
    <3>2. \E z \in {1, x, y} : z >= 1 /\ z >= x /\ z >= y
      OBVIOUS
    <3> QED
      BY <3>1, <3>2
  <2> QED
    BY <2>2, <2>3, <2>4, <2>5
<1>2. Max(S) \in S /\ \A w \in S : Max(S) >= w
  BY <1>1 DEF Max
<1>3. Max(S) \in Int /\ Max(S) >= 1
  BY <1>2
<1>4. A # {} => x \in S
  OBVIOUS
<1>5. B # {} => y \in S
  OBVIOUS
<1> QED
  BY <1>2, <1>3, <1>4, <1>5

(* What retry_after answers: 0 where a send keeps the limits, and otherwise*)
(* a wait that ends neither the cooldown nor the window too soon.          *)
LEMMA RetryAfterMeans ==
    ASSUME CodeValues, CreatedInOrder, NEW at \in Nat
    PROVE  /\ RetryAfter(at) \in Nat
           /\ RetryAfter(at) = 0 <=> MaySend(at)
           /\ Len(codes) # 0 =>
                \/ codes[Len(codes)].created + Cooldown <= at
                \/ codes[Len(codes)].created + Cooldown <= at + RetryAfter(at)
           /\ Cardinality(Recent(at)) >= SendsPerWindow =>
                /\ Len(codes) - SendsPerWindow + 1 \in Ids
                /\ codes[Len(codes) - SendsPerWindow + 1].created + SendWindow <= at + RetryAfter(at)
<1> DEFINE last == codes[Len(codes)].created
           recent == Recent(at)
           oldest == codes[Len(codes) - SendsPerWindow + 1].created
           A == IF recent # {} /\ at < last + Cooldown THEN {last + Cooldown - at} ELSE {}
           B == IF Cardinality(recent) >= SendsPerWindow THEN {oldest + SendWindow - at} ELSE {}
<1>1. /\ Len(codes) \in Nat /\ Ids = 1..Len(codes)
      /\ \A k \in Ids : codes[k].created \in Nat /\ k \in Nat
  BY CodeTypes
<1>2. /\ recent \subseteq Ids
      /\ Cardinality(recent) \in Nat /\ Cardinality(recent) <= Len(codes)
      /\ recent # {} => Len(codes) \in recent /\ Max(recent) = Len(codes) /\ Max(Ids) = Len(codes)
  BY RecentIsLast
<1>3. Cardinality(recent) >= SendsPerWindow => recent # {}
  BY FS_EmptySet, SendLimits
<1>4. RetryAfter(at) = IF A \cup B = {} THEN 0 ELSE Max({1} \cup A \cup B)
  <2>1. recent = {k \in Ids : codes[k].created + SendWindow > at}
    BY DEF Recent
  <2>2. A = IF recent # {} /\ at < codes[Max(recent)].created + Cooldown
            THEN {codes[Max(recent)].created + Cooldown - at} ELSE {}
    BY <1>2
  <2>3. B = IF Cardinality(recent) >= SendsPerWindow
            THEN {codes[Max(Ids) - SendsPerWindow + 1].created + SendWindow - at} ELSE {}
    BY <1>2, <1>3
  <2> HIDE DEF recent, A, B
  <2> QED
    BY <2>1, <2>2, <2>3, Zenon DEF RetryAfter
<1>5. Len(codes) # 0 => last \in Nat
  BY <1>1
<1>6. Cardinality(recent) >= SendsPerWindow =>
          Len(codes) - SendsPerWindow + 1 \in Ids /\ oldest \in Nat
  BY <1>1, <1>2, SendLimits
<1>7. recent # {} => Len(codes) # 0
  BY <1>1, <1>2
<1>8. Len(codes) # 0 /\ recent = {} => last + Cooldown <= at
  <2> SUFFICES ASSUME Len(codes) # 0, recent = {} PROVE last + Cooldown <= at
    OBVIOUS
  <2>1. Len(codes) \in Ids /\ Len(codes) \notin recent
    BY <1>1
  <2>2. ~(last + SendWindow > at)
    BY <2>1 DEF Recent
  <2> QED
    BY <1>5, <2>2, SendLimits
<1>9. MaySend(at) <=> A \cup B = {}
  <2>1. MaySend(at) <=> (Len(codes) # 0 => last + Cooldown <= at) /\ Cardinality(recent) < SendsPerWindow
    BY DEF MaySend
  <2>2. B = {} <=> Cardinality(recent) < SendsPerWindow
    BY <1>2, SendLimits
  <2>3. A = {} <=> (Len(codes) # 0 => last + Cooldown <= at)
    BY <1>5, <1>7, <1>8, SendLimits
  <2> HIDE DEF A, B
  <2> QED
    BY <2>1, <2>2, <2>3
<1>10. A # {} => last + Cooldown <= at + Max({1} \cup A \cup B)
  <2> SUFFICES ASSUME A # {} PROVE last + Cooldown <= at + Max({1} \cup A \cup B)
    OBVIOUS
  <2>1. last \in Nat
    BY <1>5, <1>7
  <2>2. PICK y \in Int : B \in {{}, {y}}
    BY <1>6, SendLimits
  <2>3. last + Cooldown - at \in Int /\ A \in {{}, {last + Cooldown - at}}
    BY <2>1, SendLimits
  <2> HIDE DEF A, B
  <2>4. Max({1} \cup A \cup B) \in Nat /\ Max({1} \cup A \cup B) >= last + Cooldown - at
    BY <2>2, <2>3, GreatestWait
  <2> QED
    BY <2>1, <2>4, SendLimits
<1>11. B # {} => oldest + SendWindow <= at + Max({1} \cup A \cup B)
  <2> SUFFICES ASSUME B # {} PROVE oldest + SendWindow <= at + Max({1} \cup A \cup B)
    OBVIOUS
  <2>1. oldest \in Nat
    BY <1>6
  <2>2. PICK x \in Int : A \in {{}, {x}}
    BY <1>5, <1>7, SendLimits
  <2>3. oldest + SendWindow - at \in Int /\ B \in {{}, {oldest + SendWindow - at}}
    BY <2>1, SendLimits
  <2> HIDE DEF A, B
  <2>4. Max({1} \cup A \cup B) \in Nat /\ Max({1} \cup A \cup B) >= oldest + SendWindow - at
    BY <2>2, <2>3, GreatestWait
  <2> QED
    BY <2>1, <2>4, SendLimits
<1>12. A \cup B # {} => Max({1} \cup A \cup B) \in Nat /\ Max({1} \cup A \cup B) >= 1
  <2>1. PICK x \in Int : A \in {{}, {x}}
    BY <1>5, <1>7, SendLimits
  <2>2. PICK y \in Int : B \in {{}, {y}}
    BY <1>6, SendLimits
  <2> HIDE DEF A, B
  <2> QED
    BY <2>1, <2>2, GreatestWait
<1>13. RetryAfter(at) \in Nat /\ (RetryAfter(at) = 0 <=> MaySend(at))
  <2> HIDE DEF A, B
  <2> QED
    BY <1>4, <1>9, <1>12
<1>14. Len(codes) # 0 => \/ last + Cooldown <= at
                         \/ last + Cooldown <= at + RetryAfter(at)
  <2>1. A = {} => (Len(codes) # 0 => last + Cooldown <= at)
    BY <1>5, <1>7, <1>8, SendLimits
  <2> HIDE DEF A, B
  <2> QED
    BY <1>4, <1>10, <2>1
<1>15. Cardinality(recent) >= SendsPerWindow => oldest + SendWindow <= at + RetryAfter(at)
  <2>1. Cardinality(recent) >= SendsPerWindow => B # {}
    OBVIOUS
  <2> HIDE DEF A, B
  <2> QED
    BY <1>4, <1>11, <2>1
<1> QED
  BY <1>6, <1>13, <1>14, <1>15

-----------------------------------------------------------------------------
(* Steps of a send or a confirmation.                                      *)

\* The sends whose message a provider has been asked to deliver.
AskedPhases == {"accepted", "failed send"}
Asked == {d \in Clients : phase[d] \in AskedPhases}

\* Every message has a row, a send on its way, or a transaction that died.
MessagesHaveRows == messages <= Len(codes) + crashes + Cardinality(Asked)

(* How many they are before and after a step of one client.                *)
LEMMA AskedCount ==
    ASSUME NEW c \in Clients, Alone(c)
    PROVE  /\ Cardinality(Asked) \in Nat /\ Cardinality(Asked') \in Nat
           /\ Cardinality(Asked') + (IF c \in Asked THEN 1 ELSE 0)
                = Cardinality(Asked) + (IF c \in Asked' THEN 1 ELSE 0)
<1>1. /\ IsFiniteSet(Asked) /\ IsFiniteSet(Asked')
      /\ Cardinality(Asked) \in Nat /\ Cardinality(Asked') \in Nat
  <2>1. Asked \subseteq Clients /\ Asked' \subseteq Clients
    BY DEF Asked
  <2> QED
    BY <2>1, LimitsAssumption, FS_Subset, FS_CardinalityType
<1>2. \A d \in Clients \ {c} : d \in Asked' <=> d \in Asked
  BY DEF Asked, Alone
<1>3. \A d \in Asked \cup Asked' : d \in Clients
  BY DEF Asked
<1>4. CASE c \in Asked /\ c \notin Asked'
  <2>1. Asked' = Asked \ {c}
    BY <1>2, <1>3, <1>4
  <2> QED
    BY <1>1, <1>4, <2>1, FS_RemoveElement
<1>5. CASE c \notin Asked /\ c \in Asked'
  <2>1. Asked' = Asked \cup {c}
    BY <1>2, <1>3, <1>5
  <2> QED
    BY <1>1, <1>5, <2>1, FS_AddElement
<1>6. CASE c \in Asked <=> c \in Asked'
  <2>1. Asked' = Asked
    BY <1>2, <1>3, <1>6
  <2> QED
    BY <1>1, <2>1
<1> QED
  BY <1>4, <1>5, <1>6

(* A step keeps the invariant if the codes are right after it, and fit.    *)
LEMMA CodeStep ==
    ASSUME IInv, NEW c \in Clients, Alone(c), UNCHANGED <<clock, events>>,
           op'[c] \notin DOMAIN Failures, ClientValues', RouteFits(c)', CodePart', LocksApart',
           \A d \in Clients : CodeFits(d)'
    PROVE  IInv'
<1>1. LimitPart'
  BY CodesLeaveLimits
<1>2. clock' \in Times /\ clock <= clock'
  BY EventsAreCounts
<1>3. \A d \in Clients : RouteFits(d)'
  BY <1>2, OthersFit
<1> QED
  BY <1>1, <1>3 DEF IInv, ClientPart

(* So does a step that leaves the codes alone.                             *)
LEMMA QuietStep ==
    ASSUME IInv, NEW c \in Clients, Alone(c),
           UNCHANGED <<clock, events, codes, wrong, verified>>,
           messages' \in Nat, crashes' \in 0..MaxCrashes, MessagesHaveRows',
           op'[c] \notin DOMAIN Failures, ClientValues', RouteFits(c)', CodeFits(c)',
           HoldsFarmer(c)' => HoldsFarmer(c) \/ FarmerFree,
           HoldsCode(c)' =>
               \/ mine'[c] = 0
               \/ HoldsCode(c) /\ mine'[c] = mine[c]
               \/ CodeFree(mine'[c])
    PROVE  IInv'
<1>1. CodePart /\ ClientPart
  BY DEF IInv
<1>2. CodeValues' /\ CreatedInOrder'
  BY <1>1 DEF CodePart, CodeValues, CreatedInOrder, Ids
<1>3. OneGoodCode' /\ GuessesAreCounted'
  BY <1>1 DEF CodePart, CodesHold, OneGoodCode, GuessesAreCounted, Active, Ids
<1>4. SendsAreLimited'
  BY <1>1 DEF CodePart, CodesHold, SendsAreLimited, MessagesHaveRows, Asked, AskedPhases, Ids
<1>5. LocksApart'
  BY LocksStay
<1>6. ASSUME NEW d \in Clients \ {c} PROVE CodeFits(d)'
  <2>1. CodeFits(d)
    BY <1>1 DEF ClientPart
  <2>2. phase'[d] = phase[d] /\ now'[d] = now[d] /\ mine'[d] = mine[d]
    BY DEF Alone
  <2>3. MaySend(now[d])' <=> MaySend(now[d])
    BY <2>2 DEF MaySend, Recent, Ids
  <2>4. Active' = Active
    BY DEF Active, Ids
  <2> QED
    BY <2>1, <2>2, <2>3, <2>4 DEF CodeFits
<1> QED
  BY <1>2, <1>3, <1>4, <1>5, <1>6, CodeStep DEF CodePart, CodesHold

(* Where nothing was sent, and nobody goes or comes who has asked.         *)
LEMMA MessagesStay ==
    ASSUME IInv, NEW c \in Clients, Alone(c), UNCHANGED <<codes, messages, crashes>>,
           c \in Asked <=> c \in Asked'
    PROVE  messages' \in Nat /\ crashes' \in 0..MaxCrashes /\ MessagesHaveRows'
<1>1. MessagesHaveRows /\ CodeValues
  BY DEF IInv, CodePart, CodesHold, SendsAreLimited, MessagesHaveRows, Asked, AskedPhases
<1>2. Cardinality(Asked') = Cardinality(Asked)
  BY AskedCount
<1> QED
  BY <1>1, <1>2 DEF CodeValues, MessagesHaveRows

(* The end of a request, while nothing of the codes changes.               *)
LEMMA DropKeeps ==
    ASSUME IInv, NEW c \in Clients, Drop(c), UNCHANGED <<clock, events, codes, wrong, verified>>,
           messages' \in Nat, crashes' \in 0..MaxCrashes, MessagesHaveRows'
    PROVE  IInv'
<1>1. 0 \in Nat /\ EndRequest(c) /\ mine' = [mine EXCEPT ![c] = 0] /\ ClientValues /\ clock \in Nat
  BY EventsAreCounts DEF Drop
<1>2. /\ ClientValues' /\ Alone(c)
      /\ phase'[c] = "idle" /\ op'[c] = "none" /\ now'[c] = 0
  BY <1>1, EndEffect
<1>3. RouteFits(c)' /\ CodeFits(c)'
  BY <1>1, <1>2 DEF RouteFits, CodeFits, SendPhases, ConfirmPhases
<1>4. ~HoldsFarmer(c)' /\ ~HoldsCode(c)'
  BY <1>2 DEF HoldsFarmer, HoldsCode
<1>5. op'[c] \notin DOMAIN Failures
  BY <1>2 DEF Failures
<1> QED
  BY <1>2, <1>3, <1>4, <1>5, QuietStep

(* A request that stands outside of the codes, or has not asked, ends.      *)
LEMMA SilentDropKeeps ==
    ASSUME IInv, NEW c \in Clients, Drop(c), c \notin Asked,
           UNCHANGED <<clock, events, codes, verified, wrong, messages, crashes>>
    PROVE  IInv'
<1>1. 0 \in Nat /\ EndRequest(c) /\ mine' = [mine EXCEPT ![c] = 0] /\ ClientValues
  BY EventsAreCounts DEF Drop
<1>2. Alone(c) /\ phase'[c] = "idle"
  BY <1>1, EndEffect
<1>3. c \notin Asked'
  BY <1>2 DEF Asked, AskedPhases
<1>4. messages' \in Nat /\ crashes' \in 0..MaxCrashes /\ MessagesHaveRows'
  BY <1>2, <1>3, MessagesStay
<1> QED
  BY <1>4, DropKeeps

LEMMA SendRefusedKeeps ==
    ASSUME IInv, NEW c \in Clients, SendRefused(c)
    PROVE  IInv'
<1>1. c \notin Asked
  BY DEF SendRefused, Asked, AskedPhases
<1> QED
  BY <1>1, SilentDropKeeps DEF SendRefused

LEMMA ConfirmRefusedKeeps ==
    ASSUME IInv, NEW c \in Clients, ConfirmRefused(c)
    PROVE  IInv'
<1>1. c \notin Asked
  BY DEF ConfirmRefused, GetsRow, Asked, AskedPhases
<1> QED
  BY <1>1, SilentDropKeeps DEF ConfirmRefused

LEMMA DeadlockVictimKeeps ==
    ASSUME IInv, NEW c \in Clients, DeadlockVictim(c)
    PROVE  IInv'
<1>1. c \notin Asked
  BY DEF DeadlockVictim, Deadlock, Asked, AskedPhases
<1> QED
  BY <1>1, SilentDropKeeps DEF DeadlockVictim

(* A transaction that had asked takes its row with it, and is counted.     *)
LEMMA CrashKeeps ==
    ASSUME IInv, NEW c \in Clients, Crash(c)
    PROVE  IInv'
<1>1. /\ 0 \in Nat /\ EndRequest(c) /\ mine' = [mine EXCEPT ![c] = 0] /\ ClientValues
      /\ crashes < MaxCrashes /\ crashes' = crashes + 1
      /\ UNCHANGED <<clock, events, codes, verified, wrong, messages>>
  BY EventsAreCounts DEF Crash, Drop
<1>2. Alone(c) /\ phase'[c] = "idle"
  BY <1>1, EndEffect
<1>3. c \notin Asked'
  BY <1>2 DEF Asked, AskedPhases
<1>4. MessagesHaveRows /\ CodeValues
  BY DEF IInv, CodePart, CodesHold, SendsAreLimited, MessagesHaveRows, Asked, AskedPhases
<1>5. /\ crashes \in Nat /\ messages \in Nat /\ Len(codes) \in Nat /\ MaxCrashes \in Nat
      /\ crashes' \in 0..MaxCrashes /\ messages' \in Nat
  BY <1>1, <1>4, SendLimits DEF CodeValues
<1>6. /\ Cardinality(Asked) \in Nat /\ Cardinality(Asked') \in Nat
      /\ Cardinality(Asked) <= Cardinality(Asked') + 1
  BY <1>2, <1>3, AskedCount
<1>7. MessagesHaveRows'
  BY <1>1, <1>4, <1>5, <1>6 DEF MessagesHaveRows
<1> QED
  BY <1>1, <1>5, <1>7, DropKeeps DEF Crash

(* A send, or a confirmation, goes on without a message.                   *)
LEMMA SilentToKeeps ==
    ASSUME IInv, NEW c \in Clients, NEW p \in Phases, NEW k \in Nat, To(c, p, k),
           UNCHANGED <<clock, events, codes, verified, wrong, messages, crashes>>,
           now' = now \/ now' = [now EXCEPT ![c] = clock],
           c \notin Asked, p \notin AskedPhases,
           op[c] \notin DOMAIN Failures,
           \/ p \in SendPhases /\ op[c] = "send"
           \/ p \in ConfirmPhases /\ op[c] = "confirm",
           CodeFits(c)',
           HoldsFarmer(c)' => HoldsFarmer(c) \/ FarmerFree,
           HoldsCode(c)' => \/ k = 0
                            \/ HoldsCode(c) /\ k = mine[c]
                            \/ CodeFree(k)
    PROVE  IInv'
<1>1. ClientValues /\ clock \in Times /\ clock \in Nat /\ now[c] \in Nat /\ now[c] <= clock
  BY EventsAreCounts
<1>2. /\ ClientValues' /\ Alone(c)
      /\ phase'[c] = p /\ mine'[c] = k /\ op'[c] = op[c] /\ left'[c] = left[c]
  BY <1>1, ToEffect
<1>3. c \notin Asked'
  BY <1>2 DEF Asked, AskedPhases
<1>4. messages' \in Nat /\ crashes' \in 0..MaxCrashes /\ MessagesHaveRows'
  BY <1>2, <1>3, MessagesStay
<1>5. RouteFits(c)'
  <2>1. now'[c] = now[c] \/ now'[c] = clock
    BY <1>1 DEF ClientValues
  <2>2. now'[c] <= clock
    BY <1>1, <2>1
  <2>3. now'[c] <= clock'
    BY <2>2
  <2>4. op'[c] # "none"
    BY <1>2
  <2> QED
    BY <1>2, <2>3, <2>4 DEF RouteFits, SendPhases, ConfirmPhases
<1>6. op'[c] \notin DOMAIN Failures
  BY <1>2
<1> QED
  BY <1>2, <1>4, <1>5, <1>6, QuietStep

LEMMA LockFarmerKeeps ==
    ASSUME IInv, NEW c \in Clients, LockFarmer(c)
    PROVE  IInv'
<1>1. /\ phase[c] = "attempt" /\ op[c] = "send" /\ FarmerFree /\ RetryAfter(clock) = 0
      /\ To(c, "superseding", 0) /\ now' = [now EXCEPT ![c] = clock]
      /\ UNCHANGED <<clock, events, codes, verified, wrong, messages, crashes>>
  BY DEF LockFarmer
<1>2. ClientValues /\ clock \in Times /\ clock \in Nat
  BY EventsAreCounts
<1>3. "superseding" \in Phases /\ 0 \in Nat
  BY DEF Phases
<1>4. /\ phase'[c] = "superseding" /\ now'[c] = clock
  BY <1>1, <1>2 DEF ClientValues, To
<1>5. MaySend(clock)
  BY <1>1, <1>2, RetryAfterMeans DEF IInv, CodePart
<1>6. CodeFits(c)'
  <2>1. MaySend(now[c])'
    BY <1>1, <1>4, <1>5 DEF MaySend, Recent, Ids
  <2> QED
    BY <1>4, <2>1 DEF CodeFits, SendPhases
<1>7. /\ c \notin Asked /\ ~HoldsCode(c)' /\ op[c] \notin DOMAIN Failures
      /\ "superseding" \notin AskedPhases
  BY <1>1, <1>4 DEF Asked, AskedPhases, HoldsCode, Failures
<1> QED
  BY <1>1, <1>3, <1>6, <1>7, SilentToKeeps DEF SendPhases

(* At most one code is good.                                               *)
LEMMA OneActive ==
    ASSUME CodeValues, OneGoodCode
    PROVE  /\ \A j, k \in Active : j = k
           /\ \A k \in Active : k \in Ids /\ k \in Nat /\ k # 0 /\ Max(Active) = k /\ Active = {k}
<1>1. \A k \in Active : k \in Ids /\ k \in Nat /\ k # 0 /\ codes[k].status = "active"
  BY CodeTypes DEF Active
<1>2. \A j, k \in Active : j = k
  <2> SUFFICES ASSUME NEW j \in Active, NEW k \in Active, j > k PROVE FALSE
    BY <1>1
  <2>1. codes[j].status = "superseded"
    BY <1>1 DEF OneGoodCode
  <2> QED
    BY <1>1, <2>1
<1>3. ASSUME NEW k \in Active PROVE Max(Active) = k /\ Active = {k}
  <2>1. Active = {k} /\ k >= k
    BY <1>1, <1>2
  <2> QED
    BY <2>1 DEF Max
<1> QED
  BY <1>1, <1>2, <1>3

(* What the invariant says of one client's phase, route and codes.         *)
LEMMA ClientFits ==
    ASSUME IInv, NEW c \in Clients
    PROVE  /\ RouteFits(c) /\ CodeFits(c) /\ mine[c] \in Nat /\ CodeValues /\ OneGoodCode
           /\ ClientValues
           /\ phase[c] \in SendPhases => op[c] = "send"
           /\ phase[c] \in ConfirmPhases => op[c] = "confirm"
BY DEF IInv, ClientPart, ClientValues, CodePart, CodesHold, RouteFits

LEMMA SupersedeKeeps ==
    ASSUME IInv, NEW c \in Clients, Supersede(c)
    PROVE  IInv'
<1>1. /\ phase[c] = "superseding" /\ \A j \in Active : CodeFree(j)
      /\ To(c, "sending", IF Active = {} THEN 0 ELSE Max(Active))
      /\ UNCHANGED <<clock, events, now, codes, verified, wrong, messages, crashes>>
  BY DEF Supersede
<1>2. op[c] = "send" /\ CodeFits(c) /\ CodeValues /\ OneGoodCode /\ ClientValues
  BY <1>1, ClientFits DEF SendPhases
<1>3. PICK k \in Nat : /\ k = IF Active = {} THEN 0 ELSE Max(Active)
                       /\ Active = {k} \ {0} /\ (k = 0 \/ k \in Active)
  <2>1. CASE Active = {}
    <3>1. {0} \ {0} = {} /\ 0 \in Nat
      OBVIOUS
    <3> QED
      BY <2>1, <3>1, Zenon
  <2>2. CASE Active # {}
    <3>1. PICK j \in Active : TRUE
      BY <2>2
    <3>2. j \in Nat /\ j # 0 /\ Max(Active) = j /\ Active = {j}
      BY <1>2, OneActive
    <3>3. {j} \ {0} = {j}
      BY <3>2
    <3> QED
      BY <2>2, <3>2, <3>3
  <2> QED
    BY <2>1, <2>2
<1>4. phase'[c] = "sending" /\ mine'[c] = k /\ now'[c] = now[c]
  <2>1. phase' = [phase EXCEPT ![c] = "sending"] /\ mine' = [mine EXCEPT ![c] = k] /\ now' = now
    BY <1>1, <1>3 DEF To
  <2> QED
    BY <1>2, <2>1 DEF ClientValues
<1>5. CodeFits(c)'
  <2>1. MaySend(now[c])' /\ Active' = Active
    BY <1>1, <1>2 DEF MaySend, Recent, Ids, Active, CodeFits, SendPhases
  <2> QED
    BY <1>1, <1>3, <1>4, <2>1 DEF CodeFits, SendPhases
<1>6. /\ c \notin Asked /\ HoldsFarmer(c) /\ op[c] \notin DOMAIN Failures
      /\ "sending" \in Phases /\ "sending" \in SendPhases /\ "sending" \notin AskedPhases
  BY <1>1, <1>2 DEF Asked, AskedPhases, HoldsFarmer, Failures, Phases, SendPhases
<1>7. k = 0 \/ CodeFree(k)
  BY <1>1, <1>3
<1>8. To(c, "sending", k) /\ now' = now
  BY <1>1, <1>3
<1> QED
  BY <1>1, <1>2, <1>3, <1>5, <1>6, <1>7, <1>8, SilentToKeeps

LEMMA DispatchKeeps ==
    ASSUME IInv, NEW c \in Clients, Dispatch(c)
    PROVE  IInv'
<1>1. \E p \in AskedPhases :
          /\ To(c, p, mine[c])
          /\ messages' = messages + 1 \/ messages' = messages + 0
  <2>1. \E accepted, heard \in BOOLEAN :
          /\ To(c, IF accepted /\ heard THEN "accepted" ELSE "failed send", mine[c])
          /\ messages' = messages + (IF accepted THEN 1 ELSE 0)
    BY DEF Dispatch
  <2> QED
    BY <2>1 DEF AskedPhases
<1>2. /\ phase[c] = "sending"
      /\ UNCHANGED <<clock, events, now, codes, verified, wrong, crashes>>
  BY DEF Dispatch
<1>3. PICK p \in AskedPhases :
          /\ To(c, p, mine[c])
          /\ messages' = messages + 1 \/ messages' = messages + 0
  BY <1>1
<1>4. op[c] = "send" /\ RouteFits(c) /\ CodeFits(c) /\ CodeValues /\ ClientValues /\ mine[c] \in Nat
  BY <1>2, ClientFits DEF SendPhases
<1>5. /\ ClientValues' /\ Alone(c)
      /\ phase'[c] = p /\ mine'[c] = mine[c] /\ op'[c] = op[c] /\ left'[c] = left[c]
  <2>1. p \in Phases /\ clock \in Times /\ now' = now
    BY <1>2, EventsAreCounts DEF Phases, AskedPhases
  <2> QED
    BY <1>3, <1>4, <2>1, ToEffect
<1>6. c \notin Asked /\ c \in Asked'
  BY <1>2, <1>5 DEF Asked, AskedPhases
<1>7. /\ MessagesHaveRows /\ messages \in Nat /\ Len(codes) \in Nat
      /\ crashes \in 0..MaxCrashes /\ crashes \in Nat
  <2>1. MessagesHaveRows
    BY DEF IInv, CodePart, CodesHold, SendsAreLimited, MessagesHaveRows, Asked, AskedPhases
  <2>2. messages \in Nat /\ crashes \in 0..MaxCrashes /\ Len(codes) \in Nat
    BY <1>4, CodeTypes DEF CodeValues
  <2> QED
    BY <2>1, <2>2, SendLimits
<1>8. messages' \in Nat /\ messages' <= messages + 1
  BY <1>3, <1>7
<1>9. /\ Cardinality(Asked) \in Nat /\ Cardinality(Asked') \in Nat
      /\ Cardinality(Asked') = Cardinality(Asked) + 1
  <2>1. /\ Cardinality(Asked) \in Nat /\ Cardinality(Asked') \in Nat
        /\ Cardinality(Asked') + (IF c \in Asked THEN 1 ELSE 0)
             = Cardinality(Asked) + (IF c \in Asked' THEN 1 ELSE 0)
    BY <1>5, AskedCount
  <2> QED
    BY <1>6, <2>1
<1>10. MessagesHaveRows' /\ crashes' \in 0..MaxCrashes
  BY <1>2, <1>7, <1>8, <1>9 DEF MessagesHaveRows
<1>11. RouteFits(c)'
  <2>1. now'[c] <= clock' /\ op[c] # "none"
    BY <1>2, <1>4 DEF RouteFits
  <2> QED
    BY <1>4, <1>5, <2>1 DEF RouteFits, AskedPhases, SendPhases, ConfirmPhases
<1>12. CodeFits(c)'
  <2>1. MaySend(now[c])' /\ Active' = Active /\ Active = {mine[c]} \ {0}
    BY <1>2, <1>4 DEF MaySend, Recent, Ids, Active, CodeFits, SendPhases
  <2> QED
    BY <1>2, <1>5, <2>1 DEF CodeFits, AskedPhases, SendPhases
<1>13. HoldsFarmer(c) /\ HoldsCode(c) /\ op'[c] \notin DOMAIN Failures
  BY <1>2, <1>4, <1>5 DEF HoldsFarmer, HoldsCode, Failures
<1> QED
  BY <1>2, <1>5, <1>8, <1>10, <1>11, <1>12, <1>13, QuietStep

LEMMA ConfirmKeeps ==
    ASSUME IInv, NEW c \in Clients, Confirm(c)
    PROVE  IInv'
<1>1. /\ phase[c] = "idle" /\ Active # {}
      /\ op' = [op EXCEPT ![c] = "confirm"] /\ phase' = [phase EXCEPT ![c] = "waiting"]
      /\ now' = [now EXCEPT ![c] = clock] /\ mine' = [mine EXCEPT ![c] = Max(Active)]
      /\ UNCHANGED <<clock, events, left, codes, verified, wrong, messages, crashes>>
  BY DEF Confirm
<1>2. /\ CodeValues /\ OneGoodCode /\ ClientValues
      /\ clock \in Times /\ clock \in Nat
  BY ClientFits, EventsAreCounts
<1>3. Max(Active) \in Nat
  BY <1>1, <1>2, OneActive
<1>4. ClientValues' /\ Alone(c)
  BY <1>1, <1>2, <1>3 DEF ClientValues, Alone, Phases
<1>5. /\ phase'[c] = "waiting" /\ op'[c] = "confirm" /\ now'[c] = clock
  BY <1>1, <1>2 DEF ClientValues
<1>6. (c \in Asked <=> c \in Asked') /\ ~HoldsFarmer(c)' /\ ~HoldsCode(c)'
  BY <1>1, <1>5 DEF Asked, AskedPhases, HoldsFarmer, HoldsCode
<1>7. messages' \in Nat /\ crashes' \in 0..MaxCrashes /\ MessagesHaveRows'
  BY <1>1, <1>4, <1>6, MessagesStay
<1>8. RouteFits(c)'
  <2>1. now'[c] <= clock'
    BY <1>1, <1>2, <1>5
  <2> QED
    BY <1>5, <2>1 DEF RouteFits, SendPhases, ConfirmPhases
<1>9. CodeFits(c)' /\ op'[c] \notin DOMAIN Failures
  BY <1>5 DEF CodeFits, SendPhases, Failures
<1> QED
  BY <1>1, <1>4, <1>6, <1>7, <1>8, <1>9, QuietStep

LEMMA RightCodeKeeps ==
    ASSUME IInv, NEW c \in Clients, RightCode(c)
    PROVE  IInv'
<1>1. /\ phase[c] = "waiting" /\ CodeFree(mine[c]) /\ mine[c] \in Active /\ To(c, "right", mine[c])
      /\ UNCHANGED <<clock, events, now, codes, verified, wrong, messages, crashes>>
  BY DEF RightCode, GetsRow, Usable
<1>2. op[c] = "confirm" /\ ClientValues /\ mine[c] \in Nat
  BY <1>1, ClientFits DEF ConfirmPhases
<1>3. phase'[c] = "right" /\ mine'[c] = mine[c]
  BY <1>1, <1>2 DEF ClientValues, To
<1>4. CodeFits(c)'
  BY <1>1, <1>3 DEF CodeFits, SendPhases, Active, Ids
<1>5. /\ c \notin Asked /\ ~HoldsFarmer(c)' /\ op[c] \notin DOMAIN Failures
      /\ "right" \in Phases /\ "right" \in ConfirmPhases /\ "right" \notin AskedPhases
  BY <1>1, <1>2, <1>3 DEF Asked, AskedPhases, HoldsFarmer, Failures, Phases, ConfirmPhases
<1> QED
  BY <1>1, <1>2, <1>4, <1>5, SilentToKeeps

LEMMA MarkContactKeeps ==
    ASSUME IInv, NEW c \in Clients, MarkContact(c)
    PROVE  IInv'
<1>1. /\ phase[c] = "right" /\ FarmerFree /\ To(c, "confirming", mine[c])
      /\ UNCHANGED <<clock, events, now, codes, verified, wrong, messages, crashes>>
  BY DEF MarkContact
<1>2. op[c] = "confirm" /\ ClientValues /\ mine[c] \in Nat /\ mine[c] \in Active
  BY <1>1, ClientFits DEF ConfirmPhases, CodeFits
<1>3. phase'[c] = "confirming" /\ mine'[c] = mine[c]
  BY <1>1, <1>2 DEF ClientValues, To
<1>4. CodeFits(c)'
  BY <1>1, <1>2, <1>3 DEF CodeFits, SendPhases, Active, Ids
<1>5. /\ c \notin Asked /\ HoldsCode(c) /\ op[c] \notin DOMAIN Failures
      /\ "confirming" \in Phases /\ "confirming" \in ConfirmPhases /\ "confirming" \notin AskedPhases
  BY <1>1, <1>2 DEF Asked, AskedPhases, HoldsCode, Failures, Phases, ConfirmPhases
<1> QED
  BY <1>1, <1>2, <1>4, <1>5, SilentToKeeps

-----------------------------------------------------------------------------
(* Commits: a guess is counted, a code is sent, a code verifies.           *)

CooldownKept == \A k \in Ids : k + 1 \in Ids => codes[k + 1].created >= codes[k].created + Cooldown

SentFrom(t) == {k \in Ids : codes[k].created \in t..(t + SendWindow - 1)}

WindowsKept == \A t \in Times : Cardinality(SentFrom(t)) <= SendsPerWindow

LEMMA SendsAre == SendsAreLimited <=> CooldownKept /\ WindowsKept /\ MessagesHaveRows
BY DEF SendsAreLimited, CooldownKept, WindowsKept, SentFrom, MessagesHaveRows, Asked, AskedPhases

(* What the invariant says of the codes.                                   *)
LEMMA CodesFit ==
    ASSUME IInv
    PROVE  /\ CodeValues /\ CreatedInOrder /\ OneGoodCode /\ GuessesAreCounted
           /\ CooldownKept /\ WindowsKept /\ MessagesHaveRows
BY SendsAre DEF IInv, CodePart, CodesHold

(* A commit ends its request: what is left to show is about the codes.     *)
LEMMA CommitStep ==
    ASSUME IInv, NEW c \in Clients, Drop(c), UNCHANGED <<clock, events>>,
           CodePart', \A d \in Clients \ {c} : CodeFits(d)'
    PROVE  IInv'
<1>1. 0 \in Nat /\ EndRequest(c) /\ mine' = [mine EXCEPT ![c] = 0] /\ ClientValues /\ clock \in Nat
  BY EventsAreCounts DEF Drop
<1>2. /\ ClientValues' /\ Alone(c)
      /\ phase'[c] = "idle" /\ op'[c] = "none" /\ now'[c] = 0
  BY <1>1, EndEffect
<1>3. RouteFits(c)'
  BY <1>1, <1>2 DEF RouteFits, SendPhases, ConfirmPhases
<1>4. CodeFits(c)' /\ ~HoldsFarmer(c)' /\ ~HoldsCode(c)' /\ op'[c] \notin DOMAIN Failures
  BY <1>2 DEF CodeFits, SendPhases, HoldsFarmer, HoldsCode, Failures
<1>5. LocksApart'
  BY <1>2, <1>4, LocksStay
<1> QED
  BY <1>2, <1>3, <1>4, <1>5, CodeStep

(* Who commits with both locks is alone with the codes.                    *)
LEMMA AloneWithCodes ==
    ASSUME IInv, NEW c \in Clients, Alone(c), HoldsFarmer(c), HoldsCode(c), Active = {mine[c]} \ {0}
    PROVE  \A d \in Clients \ {c} : CodeFits(d)'
<1> SUFFICES ASSUME NEW d \in Clients \ {c} PROVE CodeFits(d)'
  OBVIOUS
<1>1. Apart(c, d) /\ CodeFits(d)
  BY DEF IInv, ClientPart, LocksApart
<1>2. phase[d] \notin SendPhases /\ phase[d] # "confirming"
  BY <1>1 DEF Apart, HoldsFarmer, SendPhases
<1>3. phase[d] # "right"
  <2> SUFFICES ASSUME phase[d] = "right" PROVE FALSE
    OBVIOUS
  <2>1. HoldsCode(d) /\ mine[d] \in Active
    BY <1>1 DEF HoldsCode, CodeFits
  <2> QED
    BY <1>1, <2>1 DEF Apart
<1>4. phase'[d] = phase[d]
  BY DEF Alone
<1> QED
  BY <1>2, <1>3, <1>4 DEF CodeFits

(* A step that creates no code leaves the times of sending as they are.    *)
LEMMA TimesStay ==
    ASSUME IInv, UNCHANGED clock, Len(codes') = Len(codes), Ids' = Ids,
           \A k \in Ids : codes'[k].created = codes[k].created
    PROVE  /\ CreatedInOrder' /\ CooldownKept' /\ WindowsKept'
           /\ \A at \in Nat : MaySend(at)' <=> MaySend(at)
<1>1. CreatedInOrder /\ CooldownKept /\ WindowsKept /\ CodeValues
  BY CodesFit
<1>2. CreatedInOrder' /\ CooldownKept'
  BY <1>1 DEF CreatedInOrder, CooldownKept
<1>3. WindowsKept'
  <2>1. \A t \in Times : SentFrom(t)' = SentFrom(t)
    BY DEF SentFrom
  <2> QED
    BY <1>1, <2>1 DEF WindowsKept
<1>4. ASSUME NEW at \in Nat PROVE MaySend(at)' <=> MaySend(at)
  <2>1. Recent(at)' = Recent(at)
    BY DEF Recent
  <2>2. Len(codes) # 0 => Len(codes) \in Ids
    BY <1>1, CodeTypes
  <2> QED
    BY <2>1, <2>2 DEF MaySend
<1> QED
  BY <1>2, <1>3, <1>4

LEMMA WrongCodeKeeps ==
    ASSUME IInv, NEW c \in Clients, WrongCode(c)
    PROVE  IInv'
<1>1. PICK k \in Active : k = mine[c]
  BY DEF WrongCode, Usable
<1>2. /\ phase[c] = "waiting" /\ codes[k].attempts < MaxAttempts
      /\ codes' = [codes EXCEPT ![k].attempts = @ + 1] /\ wrong' = [wrong EXCEPT ![k] = @ + 1]
      /\ Drop(c) /\ UNCHANGED <<clock, events, verified, messages, crashes>>
  BY <1>1 DEF WrongCode, GetsRow, Usable
<1>3. /\ CodeValues /\ CreatedInOrder /\ OneGoodCode /\ GuessesAreCounted /\ MessagesHaveRows
  BY CodesFit
<1>4. /\ k \in Ids /\ Len(codes) \in Nat /\ Ids = 1..Len(codes)
      /\ \A j \in Ids : codes[j] \in Code /\ codes[j].attempts \in Nat
      /\ codes[k].attempts + 1 \in 0..MaxAttempts
      /\ wrong \in Seq(Nat) /\ Len(wrong) = Len(codes) /\ codes \in Seq(Code)
  <2>1. k \in Ids
    BY DEF Active
  <2>2. \A j \in Ids : codes[j].attempts \in 0..MaxAttempts
    BY <1>3, CodeTypes
  <2>3. \A j \in Ids : codes[j].attempts \in Nat
    BY <2>2, SendLimits
  <2>4. codes[k].attempts + 1 \in 0..MaxAttempts
    BY <1>2, <2>1, <2>3, SendLimits
  <2> QED
    BY <1>3, <2>1, <2>3, <2>4, CodeTypes DEF CodeValues
<1>5. /\ Len(codes') = Len(codes) /\ Ids' = Ids /\ codes' \in Seq(Code)
      /\ \A j \in Ids : /\ codes'[j].created = codes[j].created
                         /\ codes'[j].status = codes[j].status
                         /\ codes'[j].attempts = codes[j].attempts + (IF j = k THEN 1 ELSE 0)
  <2>1. PICK row \in Code : row = [codes[k] EXCEPT !.attempts = @ + 1]
    BY <1>4 DEF Code
  <2>2. codes' = [codes EXCEPT ![k] = row]
    BY <1>2, <2>1
  <2>3. /\ row.created = codes[k].created /\ row.status = codes[k].status
        /\ row.attempts = codes[k].attempts + 1
    BY <1>4, <2>1 DEF Code
  <2>4. codes' \in Seq(Code) /\ Len(codes') = Len(codes) /\ Ids' = Ids
    BY <1>4, <2>2 DEF Ids
  <2>5. \A j \in Ids : codes'[j] = IF j = k THEN row ELSE codes[j]
    BY <1>4, <2>2
  <2> QED
    BY <1>4, <2>3, <2>4, <2>5
<1>6. /\ wrong' \in Seq(Nat) /\ Len(wrong') = Len(wrong)
      /\ \A j \in Ids : wrong'[j] = wrong[j] + (IF j = k THEN 1 ELSE 0)
  BY <1>2, <1>4
<1>7. CodeValues'
  BY <1>2, <1>3, <1>4, <1>5, <1>6 DEF CodeValues
<1>8. /\ CreatedInOrder' /\ CooldownKept' /\ WindowsKept'
      /\ \A at \in Nat : MaySend(at)' <=> MaySend(at)
  BY <1>2, <1>5, TimesStay
<1>9. Active' = Active /\ OneGoodCode'
  <2>1. Ids' = Ids /\ \A j \in Ids : codes'[j].status = codes[j].status
    BY <1>5
  <2>2. Active' = Active
    BY <2>1 DEF Active
  <2>3. {j \in Ids : codes'[j].status = "consumed"} = {j \in Ids : codes[j].status = "consumed"}
    BY <2>1
  <2>4. \A j \in Active : \A m \in Ids : m > j => codes'[m].status = "superseded"
    BY <1>3, <2>1 DEF OneGoodCode
  <2> QED
    BY <1>2, <1>3, <2>1, <2>2, <2>3, <2>4 DEF OneGoodCode
<1>10. GuessesAreCounted'
  <2> SUFFICES ASSUME NEW j \in Ids
               PROVE  wrong'[j] = codes'[j].attempts /\ wrong'[j] <= MaxAttempts
    BY <1>5 DEF GuessesAreCounted
  <2>1. wrong[j] = codes[j].attempts /\ wrong[j] <= MaxAttempts /\ codes[j].attempts \in Nat
    BY <1>3, <1>4 DEF GuessesAreCounted
  <2> QED
    BY <1>4, <1>5, <1>6, <2>1, SendLimits
<1>11. Alone(c) /\ phase'[c] = "idle"
  BY <1>2, EndEffect, EventsAreCounts DEF Drop
<1>12. MessagesHaveRows'
  <2>1. c \notin Asked /\ c \notin Asked'
    BY <1>2, <1>11 DEF Asked, AskedPhases
  <2>2. Cardinality(Asked') = Cardinality(Asked)
    BY <1>11, <2>1, AskedCount
  <2> QED
    BY <1>2, <1>3, <1>5, <2>2 DEF MessagesHaveRows
<1>13. CodePart'
  <2>1. SendsAreLimited' <=> CooldownKept' /\ WindowsKept' /\ MessagesHaveRows'
    BY SendsAre, PTL
  <2> QED
    BY <1>7, <1>8, <1>9, <1>10, <1>12, <2>1 DEF CodePart, CodesHold
<1>14. ASSUME NEW d \in Clients \ {c} PROVE CodeFits(d)'
  <2>1. CodeFits(d) /\ now[d] \in Nat
    BY ClientFits, EventsAreCounts
  <2>2. phase'[d] = phase[d] /\ now'[d] = now[d] /\ mine'[d] = mine[d]
    BY <1>11 DEF Alone
  <2>3. MaySend(now[d])' <=> MaySend(now[d])
    BY <1>5, <1>8, <2>1, <2>2, TimesStay DEF MaySend, Recent
  <2> QED
    BY <1>9, <2>1, <2>2, <2>3 DEF CodeFits
<1> QED
  BY <1>2, <1>13, <1>14, CommitStep

LEMMA CommitConfirmKeeps ==
    ASSUME IInv, NEW c \in Clients, CommitConfirm(c)
    PROVE  IInv'
<1>1. /\ phase[c] = "confirming" /\ codes' = [codes EXCEPT ![mine[c]].status = "consumed"]
      /\ verified' = verified + 1 /\ Drop(c)
      /\ UNCHANGED <<clock, events, wrong, messages, crashes>>
  BY DEF CommitConfirm
<1>2. PICK k \in Active : k = mine[c]
  BY <1>1, ClientFits DEF CodeFits
<1>3. /\ CodeValues /\ CreatedInOrder /\ OneGoodCode /\ GuessesAreCounted /\ MessagesHaveRows
  BY CodesFit
<1>4. /\ k \in Ids /\ k # 0 /\ codes[k].status = "active" /\ Active = {k}
      /\ Len(codes) \in Nat /\ Ids = 1..Len(codes)
      /\ \A j \in Ids : codes[j] \in Code
      /\ verified \in Nat /\ codes \in Seq(Code)
  <2>1. k \in Ids /\ k # 0 /\ codes[k].status = "active" /\ Active = {k}
    BY <1>3, OneActive DEF Active
  <2> QED
    BY <1>3, <2>1, CodeTypes DEF CodeValues
<1>5. /\ Len(codes') = Len(codes) /\ Ids' = Ids /\ codes' \in Seq(Code)
      /\ \A j \in Ids : /\ codes'[j].created = codes[j].created
                         /\ codes'[j].attempts = codes[j].attempts
                         /\ codes'[j].status = IF j = k THEN "consumed" ELSE codes[j].status
  <2>1. PICK row \in Code : row = [codes[k] EXCEPT !.status = "consumed"]
    BY <1>4 DEF Code
  <2>2. codes' = [codes EXCEPT ![k] = row]
    BY <1>1, <1>2, <2>1
  <2>3. /\ row.created = codes[k].created /\ row.attempts = codes[k].attempts
        /\ row.status = "consumed"
    BY <1>4, <2>1 DEF Code
  <2>4. codes' \in Seq(Code) /\ Len(codes') = Len(codes) /\ Ids' = Ids
    BY <1>4, <2>2 DEF Ids
  <2>5. \A j \in Ids : codes'[j] = IF j = k THEN row ELSE codes[j]
    BY <1>4, <2>2
  <2> QED
    BY <1>4, <2>3, <2>4, <2>5
<1>6. CodeValues'
  BY <1>1, <1>3, <1>4, <1>5 DEF CodeValues
<1>7. CreatedInOrder' /\ CooldownKept' /\ WindowsKept'
  BY <1>1, <1>5, TimesStay
<1>8. OneGoodCode'
  <2> DEFINE used == {j \in Ids : codes[j].status = "consumed"}
  <2>1. Active' = {}
    BY <1>4, <1>5 DEF Active
  <2>2. {j \in Ids : codes'[j].status = "consumed"} = used \cup {k} /\ k \notin used
    BY <1>4, <1>5
  <2>3. IsFiniteSet(used)
    <3>1. IsFiniteSet(Ids) /\ used \subseteq Ids
      BY <1>4, FS_Interval
    <3> QED
      BY <3>1, FS_Subset
  <2>4. Cardinality(used) = verified
    BY <1>3 DEF OneGoodCode
  <2> HIDE DEF used
  <2>5. Cardinality(used \cup {k}) = verified + 1
    BY <2>2, <2>3, <2>4, FS_AddElement
  <2>6. Cardinality({j \in Ids : codes'[j].status = "consumed"}) = verified'
    BY <1>1, <2>2, <2>5
  <2> QED
    BY <1>5, <2>1, <2>6 DEF OneGoodCode
<1>9. GuessesAreCounted'
  BY <1>1, <1>3, <1>5 DEF GuessesAreCounted
<1>10. Alone(c) /\ phase'[c] = "idle"
  BY <1>1, EndEffect, EventsAreCounts DEF Drop
<1>11. MessagesHaveRows'
  <2>1. c \notin Asked /\ c \notin Asked'
    BY <1>1, <1>10 DEF Asked, AskedPhases
  <2>2. Cardinality(Asked') = Cardinality(Asked)
    BY <1>10, <2>1, AskedCount
  <2> QED
    BY <1>1, <1>3, <1>5, <2>2 DEF MessagesHaveRows
<1>12. CodePart'
  <2>1. SendsAreLimited' <=> CooldownKept' /\ WindowsKept' /\ MessagesHaveRows'
    BY SendsAre, PTL
  <2> QED
    BY <1>6, <1>7, <1>8, <1>9, <1>11, <2>1 DEF CodePart, CodesHold
<1>13. \A d \in Clients \ {c} : CodeFits(d)'
  <2>1. HoldsFarmer(c) /\ HoldsCode(c) /\ Active = {mine[c]} \ {0}
    BY <1>1, <1>2, <1>4 DEF HoldsFarmer, HoldsCode
  <2> QED
    BY <1>10, <2>1, AloneWithCodes
<1> QED
  BY <1>1, <1>12, <1>13, CommitStep

(* What a send decided by the clock it read keeps the limits when it       *)
(* commits: the codes of any window that holds the new one were recent.    *)
LEMMA NewCodeKeepsWindows ==
    ASSUME CodeValues, CreatedInOrder, CooldownKept, WindowsKept,
           NEW at \in Times, at <= clock, clock \in Nat, UNCHANGED clock, MaySend(at),
           Len(codes') = Len(codes) + 1, Ids' = 1..(Len(codes) + 1),
           \A k \in Ids : codes'[k].created = codes[k].created,
           codes'[Len(codes) + 1].created = at
    PROVE  CreatedInOrder' /\ CooldownKept' /\ WindowsKept'
<1> DEFINE n == Len(codes)
<1>1. /\ n \in Nat /\ Ids = 1..n
      /\ \A k \in Ids : codes[k].created \in Nat /\ k \in Nat
      /\ at \in Nat
  BY CodeTypes, LimitsAssumption DEF Times
<1>2. \A k \in Ids' : k \in Ids \/ k = n + 1
  BY <1>1
<1>3. \A k \in Ids : codes[k].created + Cooldown <= at
  <2> SUFFICES ASSUME NEW k \in Ids PROVE codes[k].created + Cooldown <= at
    OBVIOUS
  <2>1. n \in Ids /\ k <= n /\ n # 0
    BY <1>1
  <2>2. codes[k].created <= codes[n].created /\ codes[n].created + Cooldown <= at
    BY <2>1 DEF CreatedInOrder, MaySend
  <2>3. codes[k].created \in Nat /\ codes[n].created \in Nat
    BY <1>1, <2>1
  <2> QED
    BY <1>1, <2>2, <2>3, SendLimits
<1>4. \A k \in Ids : codes[k].created <= at
  <2> SUFFICES ASSUME NEW k \in Ids PROVE codes[k].created <= at
    OBVIOUS
  <2>1. codes[k].created \in Nat /\ codes[k].created + Cooldown <= at
    BY <1>1, <1>3
  <2> QED
    BY <1>1, <2>1, SendLimits
<1>5. CreatedInOrder'
  <2> SUFFICES ASSUME NEW k \in Ids'
               PROVE  /\ codes'[k].created <= clock
                      /\ \A j \in Ids' : j <= k => codes'[j].created <= codes'[k].created
    BY DEF CreatedInOrder
  <2>1. CASE k \in Ids
    <3>1. codes'[k].created = codes[k].created /\ codes[k].created <= clock
      BY <2>1 DEF CreatedInOrder
    <3>2. ASSUME NEW j \in Ids', j <= k PROVE codes'[j].created <= codes'[k].created
      <4>1. j \in Ids
        BY <1>1, <2>1, <3>2
      <4> QED
        BY <2>1, <3>2, <4>1 DEF CreatedInOrder
    <3> QED
      BY <3>1, <3>2
  <2>2. CASE k = n + 1
    <3>1. codes'[k].created = at
      BY <2>2
    <3>2. \A j \in Ids' : codes'[j].created <= at
      BY <1>1, <1>2, <1>4
    <3> QED
      BY <3>1, <3>2
  <2> QED
    BY <1>2, <2>1, <2>2
<1>6. CooldownKept'
  <2> SUFFICES ASSUME NEW k \in Ids', k + 1 \in Ids'
               PROVE  codes'[k + 1].created >= codes'[k].created + Cooldown
    BY DEF CooldownKept
  <2>1. k \in Ids /\ codes'[k].created = codes[k].created
    BY <1>1
  <2>2. CASE k + 1 \in Ids
    BY <2>1, <2>2 DEF CooldownKept
  <2>3. CASE k + 1 = n + 1
    <3>1. codes'[k + 1].created = at
      BY <2>3
    <3>2. codes[k].created \in Nat /\ codes[k].created + Cooldown <= at
      BY <1>1, <1>3, <2>1
    <3> QED
      BY <1>1, <2>1, <3>1, <3>2, SendLimits
  <2> QED
    BY <1>2, <2>2, <2>3
<1>7. ASSUME NEW t \in Times PROVE Cardinality(SentFrom(t)') <= SendsPerWindow
  <2>1. t \in Nat /\ SendWindow \in Nat /\ SendsPerWindow \in Nat
    BY SendLimits, LimitsAssumption DEF Times
  <2>2. Cardinality(SentFrom(t)) <= SendsPerWindow
    BY DEF WindowsKept
  <2>3. CASE at \in t..(t + SendWindow - 1)
    <3>1. SentFrom(t) \subseteq Recent(at)
      BY <1>1, <2>1, <2>3 DEF SentFrom, Recent
    <3>2. IsFiniteSet(Recent(at)) /\ Cardinality(Recent(at)) \in Nat
      BY <1>1, RecentIsLast
    <3>3. /\ IsFiniteSet(SentFrom(t)) /\ Cardinality(SentFrom(t)) \in Nat
          /\ Cardinality(SentFrom(t)) <= Cardinality(Recent(at))
      BY <3>1, <3>2, FS_Subset, FS_CardinalityType
    <3>4. SentFrom(t)' = SentFrom(t) \cup {n + 1} /\ n + 1 \notin SentFrom(t)
      BY <1>1, <1>2, <2>3 DEF SentFrom
    <3>5. Cardinality(SentFrom(t)') = Cardinality(SentFrom(t)) + 1
      BY <3>3, <3>4, FS_AddElement
    <3>6. Cardinality(Recent(at)) < SendsPerWindow
      BY DEF MaySend
    <3> QED
      BY <2>1, <3>2, <3>3, <3>5, <3>6
  <2>4. CASE at \notin t..(t + SendWindow - 1)
    <3>1. SentFrom(t)' = SentFrom(t)
      BY <1>1, <1>2, <2>4 DEF SentFrom
    <3> QED
      BY <2>2, <3>1
  <2> QED
    BY <2>3, <2>4
<1>8. WindowsKept'
  BY <1>7 DEF WindowsKept
<1> QED
  BY <1>5, <1>6, <1>8

LEMMA CommitSendKeeps ==
    ASSUME IInv, NEW c \in Clients, CommitSend(c)
    PROVE  IInv'
<1>1. /\ phase[c] \in AskedPhases
      /\ wrong' = Append(wrong, 0) /\ Drop(c)
      /\ UNCHANGED <<clock, events, verified, messages, crashes>>
  BY DEF CommitSend, AskedPhases
<1>2. PICK k \in Nat : k = mine[c]
  BY ClientFits
<1>3. PICK at \in Times : at = now[c] /\ at <= clock /\ clock \in Nat
  BY EventsAreCounts
<1>4. PICK st \in {"active", "superseded"} :
          st = IF phase[c] = "accepted" THEN "active" ELSE "superseded"
  OBVIOUS
<1>5. codes' = Append(
          [j \in Ids |-> IF j = k THEN [codes[j] EXCEPT !.status = "superseded"] ELSE codes[j]],
          [created |-> at, attempts |-> 0, status |-> st])
  BY <1>2, <1>3, <1>4 DEF CommitSend
<1>6. /\ CodeValues /\ CreatedInOrder /\ OneGoodCode /\ GuessesAreCounted /\ MessagesHaveRows
      /\ CooldownKept /\ WindowsKept
  BY CodesFit
<1>7. MaySend(at) /\ Active = {k} \ {0}
  <2>1. phase[c] \in SendPhases \ {"superseding"} /\ CodeFits(c)
    BY <1>1, ClientFits DEF AskedPhases, SendPhases
  <2> QED
    BY <1>2, <1>3, <2>1 DEF CodeFits
<1> DEFINE n == Len(codes)
<1>8. /\ n \in Nat /\ Ids = 1..n /\ \A j \in Ids : codes[j] \in Code
      /\ \A j \in Ids : codes[j].attempts \in 0..MaxAttempts
      /\ codes \in Seq(Code) /\ wrong \in Seq(Nat) /\ Len(wrong) = n
  BY <1>6, CodeTypes DEF CodeValues
<1>9. PICK new \in Code : /\ new = [created |-> at, attempts |-> 0, status |-> st]
                          /\ new.created = at /\ new.attempts = 0 /\ new.status = st
  <2>1. 0 \in 0..MaxAttempts /\ st \in {"active", "superseded", "consumed"}
    BY SendLimits
  <2>2. [created |-> at, attempts |-> 0, status |-> st] \in Code
    BY <2>1 DEF Code
  <2> QED
    BY <2>2
<1>10. PICK old \in Seq(Code) :
          /\ old = [j \in Ids |-> IF j = k THEN [codes[j] EXCEPT !.status = "superseded"] ELSE codes[j]]
          /\ Len(old) = n
          /\ \A j \in Ids : /\ old[j].created = codes[j].created
                             /\ old[j].attempts = codes[j].attempts
                             /\ old[j].status = IF j = k THEN "superseded" ELSE codes[j].status
  <2> DEFINE row(j) == IF j = k THEN [codes[j] EXCEPT !.status = "superseded"] ELSE codes[j]
  <2>1. \A j \in Ids : /\ row(j) \in Code
                       /\ row(j).created = codes[j].created
                       /\ row(j).attempts = codes[j].attempts
                       /\ row(j).status = IF j = k THEN "superseded" ELSE codes[j].status
    BY <1>8 DEF Code
  <2> HIDE DEF row
  <2>2. [j \in Ids |-> row(j)] \in Seq(Code) /\ Len([j \in Ids |-> row(j)]) = n
    BY <1>8, <2>1
  <2>3. PICK rows \in Seq(Code) : rows = [j \in Ids |-> row(j)]
    BY <2>2
  <2>4. \A j \in Ids : rows[j] = row(j)
    BY <2>3
  <2>5. rows = [j \in Ids |-> IF j = k THEN [codes[j] EXCEPT !.status = "superseded"] ELSE codes[j]]
    BY <2>3 DEF row
  <2> QED
    BY <2>1, <2>2, <2>3, <2>4, <2>5
<1>11. codes' = Append(old, new)
  BY <1>5, <1>9, <1>10
<1>12. /\ codes' \in Seq(Code) /\ Len(codes') = n + 1 /\ Ids' = 1..(n + 1)
       /\ \A j \in Ids : codes'[j] = old[j]
       /\ codes'[n + 1] = new
  BY <1>8, <1>10, <1>11 DEF Ids
<1>13. /\ wrong' \in Seq(Nat) /\ Len(wrong') = n + 1
       /\ \A j \in Ids : wrong'[j] = wrong[j]
       /\ wrong'[n + 1] = 0
  BY <1>1, <1>8
<1>14. \A j \in Ids' : j \in Ids \/ j = n + 1
  BY <1>8, <1>12
<1>15. CodeValues'
  BY <1>1, <1>6, <1>12, <1>13 DEF CodeValues
<1>16. CreatedInOrder' /\ CooldownKept' /\ WindowsKept'
  <2>1. /\ \A j \in Ids : codes'[j].created = codes[j].created
        /\ codes'[n + 1].created = at /\ UNCHANGED clock
    BY <1>1, <1>9, <1>10, <1>12
  <2> QED
    BY <1>3, <1>6, <1>7, <1>12, <2>1, NewCodeKeepsWindows
<1>17. \A j \in Ids : /\ codes'[j].status # "active"
                      /\ codes'[j].status = "consumed" <=> codes[j].status = "consumed"
  <2> SUFFICES ASSUME NEW j \in Ids
               PROVE  /\ codes'[j].status # "active"
                      /\ codes'[j].status = "consumed" <=> codes[j].status = "consumed"
    OBVIOUS
  <2>1. codes'[j].status = IF j = k THEN "superseded" ELSE codes[j].status
    BY <1>10, <1>12
  <2>2. codes[j].status = "active" => j = k
    BY <1>7 DEF Active
  <2>3. j = k => codes[j].status = "active"
    <3>1. j # 0
      BY <1>8
    <3> QED
      BY <1>7, <3>1 DEF Active
  <2> QED
    BY <2>1, <2>2, <2>3
<1>18. OneGoodCode'
  <2>1. \A j \in Active' : j = n + 1
    BY <1>14, <1>17 DEF Active
  <2>2. \A m \in Ids' : ~(m > n + 1)
    BY <1>8, <1>12
  <2>3. codes'[n + 1].status # "consumed" /\ n + 1 \notin Ids
    BY <1>8, <1>9, <1>12
  <2>4. {j \in Ids' : codes'[j].status = "consumed"} = {j \in Ids : codes[j].status = "consumed"}
    <3>1. \A j \in Ids : j \in Ids'
      BY <1>8, <1>12
    <3> QED
      BY <1>14, <1>17, <2>3, <3>1
  <2> QED
    BY <1>1, <1>6, <2>1, <2>2, <2>4 DEF OneGoodCode
<1>19. GuessesAreCounted'
  <2> SUFFICES ASSUME NEW j \in Ids'
               PROVE  wrong'[j] = codes'[j].attempts /\ wrong'[j] <= MaxAttempts
    BY DEF GuessesAreCounted
  <2>1. CASE j \in Ids
    BY <1>6, <1>10, <1>12, <1>13, <2>1 DEF GuessesAreCounted
  <2>2. CASE j = n + 1
    BY <1>9, <1>12, <1>13, <2>2, SendLimits
  <2> QED
    BY <1>14, <2>1, <2>2
<1>20. Alone(c) /\ phase'[c] = "idle"
  BY <1>1, EndEffect, EventsAreCounts DEF Drop
<1>21. MessagesHaveRows'
  <2>1. c \in Asked /\ c \notin Asked'
    BY <1>1, <1>20 DEF Asked, AskedPhases
  <2>2. /\ Cardinality(Asked) \in Nat /\ Cardinality(Asked') \in Nat
        /\ Cardinality(Asked') + 1 = Cardinality(Asked)
    <3>1. /\ Cardinality(Asked) \in Nat /\ Cardinality(Asked') \in Nat
          /\ Cardinality(Asked') + (IF c \in Asked THEN 1 ELSE 0)
               = Cardinality(Asked) + (IF c \in Asked' THEN 1 ELSE 0)
      BY <1>20, AskedCount
    <3> QED
      BY <2>1, <3>1
  <2>3. messages \in Nat /\ crashes \in Nat
    BY <1>6, SendLimits DEF CodeValues
  <2>4. messages <= n + crashes + Cardinality(Asked)
    BY <1>6 DEF MessagesHaveRows
  <2>5. messages <= (n + 1) + crashes + Cardinality(Asked')
    BY <1>8, <2>2, <2>3, <2>4
  <2> QED
    BY <1>1, <1>12, <2>5 DEF MessagesHaveRows
<1>22. CodePart'
  <2>1. SendsAreLimited' <=> CooldownKept' /\ WindowsKept' /\ MessagesHaveRows'
    BY SendsAre, PTL
  <2> QED
    BY <1>15, <1>16, <1>18, <1>19, <1>21, <2>1 DEF CodePart, CodesHold
<1>23. \A d \in Clients \ {c} : CodeFits(d)'
  <2>1. HoldsFarmer(c) /\ HoldsCode(c) /\ Active = {mine[c]} \ {0}
    BY <1>1, <1>2, <1>7 DEF AskedPhases, HoldsFarmer, HoldsCode
  <2> QED
    BY <1>20, <2>1, AloneWithCodes
<1> QED
  BY <1>1, <1>22, <1>23, CommitStep

-----------------------------------------------------------------------------
(* The invariant holds.                                                    *)

LEMMA InitHolds == Init => IInv
<1> SUFFICES ASSUME Init PROVE IInv
  OBVIOUS
<1>1. /\ clock = 0 /\ events = [l \in Limits |-> [t \in Times |-> 0]]
      /\ phase = [c \in Clients |-> "idle"] /\ op = [c \in Clients |-> "none"]
      /\ left = [c \in Clients |-> <<>>] /\ now = [c \in Clients |-> 0]
      /\ mine = [c \in Clients |-> 0]
      /\ codes = <<>> /\ wrong = <<>> /\ verified = 0 /\ messages = 0 /\ crashes = 0
  BY DEF Init, LimitInit
<1>2. 0 \in Times /\ 0 \in Nat
  BY LimitsAssumption DEF Times
<1>3. LimitValues
  <2>1. \A l \in Limits : events[l] \in Rows /\ \A t \in Times : events[l][t] = 0
    BY <1>1 DEF Rows
  <2> QED
    BY <1>1, <1>2, <2>1 DEF LimitValues, Rows
<1>4. EachHolds
  <2> SUFFICES ASSUME NEW l \in Limits PROVE Holds(l, events[l], clock, InFlight(l))
    BY DEF EachHolds
  <2> DEFINE rows == [t \in Times |-> IF t \in InWindow(l, clock) THEN events[l][t] ELSE 0]
  <2>1. rows \in Rows /\ \A t \in Times : rows[t] = 0
    BY <1>1 DEF Rows
  <2> HIDE DEF rows
  <2>2. Total(rows) = 0
    BY <2>1, TotalOfNothing
  <2>3. CountOf(events[l], l, clock) = 0
    BY <2>2 DEF CountOf, rows
  <2>4. InFlight(l) = {}
    BY <1>1 DEF InFlight, Failures
  <2>5. Cardinality(InFlight(l)) = 0 /\ Cardinality(Clients) \in Nat
    BY <2>4, FS_EmptySet, InFlightIsFinite
  <2>6. MaxEvents[l] \in Nat /\ Cardinality(Clients) # 0
    BY FS_EmptySet, LimitsAssumption
  <2> QED
    BY <2>3, <2>5, <2>6 DEF Holds
<1>5. LimitPart
  BY <1>3, <1>4, LimitsHoldIs DEF LimitPart
<1>6. CodeValues /\ Ids = {}
  <2>1. codes \in Seq(Code) /\ wrong \in Seq(Nat) /\ Len(wrong) = 0 /\ Len(codes) = 0 /\ DOMAIN codes = {}
    BY <1>1
  <2>2. crashes \in 0..MaxCrashes
    BY <1>1, SendLimits
  <2> QED
    BY <1>1, <2>1, <2>2 DEF CodeValues, Ids
<1>7. CreatedInOrder /\ CooldownKept /\ GuessesAreCounted
  BY <1>6 DEF CreatedInOrder, CooldownKept, GuessesAreCounted
<1>8. WindowsKept
  <2>1. \A t \in Times : SentFrom(t) = {}
    BY <1>6 DEF SentFrom
  <2> QED
    BY <2>1, FS_EmptySet, SendLimits DEF WindowsKept
<1>9. OneGoodCode
  <2>1. Active = {} /\ {k \in Ids : codes[k].status = "consumed"} = {}
    BY <1>6 DEF Active
  <2> QED
    BY <1>1, <2>1, FS_EmptySet DEF OneGoodCode
<1>10. MessagesHaveRows
  <2>1. Asked = {} /\ Len(codes) = 0
    BY <1>1 DEF Asked, AskedPhases
  <2> QED
    BY <1>1, <2>1, FS_EmptySet DEF MessagesHaveRows
<1>11. CodePart
  BY <1>6, <1>7, <1>8, <1>9, <1>10, SendsAre DEF CodePart, CodesHold
<1>12. ClientValues
  <2>1. <<>> \in Seq(Limits)
    OBVIOUS
  <2> QED
    BY <1>1, <1>2, <2>1 DEF ClientValues, Phases
<1>13. LocksApart /\ \A c \in Clients : RouteFits(c) /\ CodeFits(c)
  BY <1>1 DEF LocksApart, Apart, HoldsFarmer, HoldsCode, RouteFits, CodeFits, SendPhases, ConfirmPhases
<1> QED
  BY <1>5, <1>11, <1>12, <1>13 DEF IInv, ClientPart

LEMMA StutterKeeps ==
    ASSUME IInv, UNCHANGED vars
    PROVE  IInv'
<1>1. UNCHANGED <<client, codeVars>> /\ UNCHANGED <<clock, events>>
  BY DEF vars, limitVars
<1>2. /\ LimitValues /\ \A l \in Limits : \A t \in Times : events[l][t] \in Nat /\ clock \in Nat
      /\ clock \in Nat
  BY EventsAreCounts
<1>3. LimitValues' /\ clock <= clock'
  BY <1>1, <1>2 DEF LimitValues
<1>4. \A l \in Limits : \A t \in Times : events'[l][t] <= events[l][t]
  BY <1>1, <1>2
<1> QED
  BY <1>1, <1>3, <1>4, WindowsMove

LEMMA NextKeeps == IInv /\ [Next]_vars => IInv'
<1> SUFFICES ASSUME IInv, [Next]_vars PROVE IInv'
  OBVIOUS
<1>1. CASE UNCHANGED vars
  BY <1>1, StutterKeeps
<1>2. CASE Pass /\ UNCHANGED codeVars
  BY <1>2, PassKeeps
<1>3. CASE Prune /\ UNCHANGED codeVars
  BY <1>3, PruneKeeps
<1>4. ASSUME NEW c \in Clients, Limited(c), UNCHANGED codeVars PROVE IInv'
  BY <1>4, LimitedKeeps
<1>5. ASSUME NEW c \in Clients, NEW o \in DOMAIN Checks, Begin(c, o), UNCHANGED codeVars PROVE IInv'
  BY <1>5, BeginKeeps
<1>6. ASSUME NEW c \in Clients, Confirm(c) \/ Handle(c) \/ Crash(c) PROVE IInv'
  <2>1. CASE Confirm(c)
    BY <2>1, ConfirmKeeps
  <2>2. CASE Crash(c)
    BY <2>2, CrashKeeps
  <2>3. CASE Handle(c)
    BY <2>3, LockFarmerKeeps, SendRefusedKeeps, SupersedeKeeps, DispatchKeeps, CommitSendKeeps,
       ConfirmRefusedKeeps, WrongCodeKeeps, RightCodeKeeps, MarkContactKeeps, CommitConfirmKeeps,
       DeadlockVictimKeeps DEF Handle
  <2> QED
    BY <1>6, <2>1, <2>2, <2>3
<1> QED
  BY <1>1, <1>2, <1>3, <1>4, <1>5, <1>6 DEF Next

THEOREM Invariance == Safety => []IInv
<1>1. Init => IInv
  BY InitHolds
<1>2. IInv /\ [Next]_vars => IInv'
  BY NextKeeps
<1> QED
  BY <1>1, <1>2, PTL DEF Safety

-----------------------------------------------------------------------------
(* What the routes promise.                                                *)

LEMMA PartsGiveTypes == IInv => TypeOK
<1> SUFFICES ASSUME IInv PROVE TypeOK
  OBVIOUS
<1>1. LimitValues /\ ClientValues /\ CodeValues /\ LocksApart /\ \A c \in Clients : RouteFits(c)
  BY DEF IInv, LimitPart, ClientPart, CodePart
<1>2. clock \in Nat /\ \A c \in Clients : now[c] \in Nat /\ now[c] <= clock
  BY EventsAreCounts
<1>3. clock \in Times /\ events \in [Limits -> [Times -> Nat]]
  BY <1>1 DEF LimitValues, Rows
<1>4. op \in [Clients -> DOMAIN Checks \cup {"none", "confirm"}]
  BY <1>1 DEF ClientValues
<1>5. now \in [Clients -> 0..clock]
  <2>1. \A c \in Clients : now[c] \in 0..clock
    BY <1>2
  <2> QED
    BY <1>1, <2>1 DEF ClientValues
<1>6. ASSUME NEW c \in Clients
      PROVE  /\ phase[c] = "idle" <=> op[c] = "none"
             /\ phase[c] \in {"asking", "failed"} => left[c] # <<>>
             /\ \A i \in DOMAIN left[c] : left[c][i] \in Limits
             /\ \A l \in Limits, t \in Times : t > clock => events[l][t] = 0
  <2>1. left[c] \in Seq(Limits)
    BY <1>1 DEF ClientValues
  <2>2. \A i \in DOMAIN left[c] : left[c][i] \in Limits
    BY <2>1
  <2>3. \A l \in Limits, t \in Times : t > clock => events[l][t] = 0
    BY <1>1 DEF LimitValues
  <2>4. RouteFits(c)
    BY <1>1
  <2> QED
    BY <2>2, <2>3, <2>4 DEF RouteFits
<1>7. LimitTypeOK
  BY <1>3, <1>4, <1>5, <1>6 DEF LimitTypeOK
<1>8. CodeTypeOK
  BY <1>1 DEF CodeTypeOK, CodeValues, Code, LocksApart, Apart
<1> QED
  BY <1>7, <1>8 DEF TypeOK

(* Whoever waits as long as a limit of attempts told it to finds one event *)
(* less in the window than there were, and there were no more than allowed.*)
LEMMA LimitWaits == IInv => LimitWaitIsEnough
<1> SUFFICES ASSUME IInv, NEW l \in Taken, Full(l, clock), MaxEvents[l] > 0
             PROVE  ~Full(l, clock + Wait(l, clock))
  BY DEF LimitWaitIsEnough
<1>1. /\ LimitValues /\ clock \in Times /\ clock \in Nat /\ l \in Limits
      /\ events[l] \in Rows /\ \A t \in Times : events[l][t] \in Nat
  BY EventsAreCounts DEF Taken, Limits
<1>2. MaxEvents[l] \in Nat /\ MaxEvents[l] >= 1 /\ WindowOf[l] \in Nat /\ Times \subseteq Nat
  <2>1. MaxEvents[l] \in Nat /\ WindowOf[l] \in Nat /\ Times \subseteq Nat
    BY <1>1, LimitsAssumption DEF Times
  <2> QED
    BY <2>1
<1>3. Count(l, clock) \in Nat /\ Count(l, clock) <= MaxEvents[l] /\ Count(l, clock) >= MaxEvents[l]
  BY <1>1, CountIsOf DEF IInv, LimitPart, LimitsHold, Full
<1> DEFINE held == {t \in InWindow(l, clock) : events[l][t] > 0}
<1>4. held \in SUBSET Nat /\ held \subseteq Times
  BY <1>2 DEF InWindow
<1>5. \A t \in held : t \in InWindow(l, clock) /\ events[l][t] > 0
  OBVIOUS
<1>6. held # {}
  <2> SUFFICES ASSUME held = {} PROVE FALSE
    OBVIOUS
  <2>1. PICK rows \in Rows : rows = Swept(l, clock)
    BY <1>1, SweepLeaves
  <2>2. \A t \in Times : rows[t] = 0
    <3> SUFFICES ASSUME NEW t \in Times PROVE rows[t] = 0
      OBVIOUS
    <3>1. t \in InWindow(l, clock) => events[l][t] = 0
      BY <1>1
    <3> QED
      BY <2>1, <3>1 DEF Swept
  <2>3. Count(l, clock) = 0
    BY <2>1, <2>2, TotalOfNothing DEF Count
  <2> QED
    BY <1>2, <1>3, <2>3
<1>7. PICK first \in held : first = Min(held) /\ first = Oldest(l, clock)
  <2> HIDE DEF held
  <2>1. \E n \in held : \A m \in held : n <= m
    BY <1>4, <1>6, LeastNumber
  <2>2. Min(held) \in held
    BY <2>1 DEF Min
  <2>3. Oldest(l, clock) = Min(held)
    BY <1>6, Zenon DEF Oldest, held
  <2> QED
    BY <2>2, <2>3
<1>8. first \in Times /\ first \in Nat /\ events[l][first] > 0 /\ first \in InWindow(l, clock)
  BY <1>4, <1>5
<1>9. PICK w \in Nat : w = Wait(l, clock) /\ first + WindowOf[l] <= clock + w
  <2> DEFINE x == first + WindowOf[l] - clock
  <2>1. x \in Int
    BY <1>1, <1>2, <1>8
  <2>2. Wait(l, clock) = Max({1} \cup {x} \cup {})
    <3>1. Wait(l, clock) = Max({1, x})
      BY <1>7 DEF Wait
    <3>2. {1, x} = {1} \cup {x} \cup {}
      OBVIOUS
    <3> QED
      BY <3>1, <3>2
  <2> HIDE DEF x
  <2>3. /\ Max({1} \cup {x} \cup {}) \in Nat /\ Max({1} \cup {x} \cup {}) >= x
    BY <2>1, GreatestWait
  <2>4. Wait(l, clock) \in Nat /\ Wait(l, clock) >= x
    BY <2>2, <2>3
  <2>5. first + WindowOf[l] <= clock + Wait(l, clock)
    BY <1>1, <1>2, <1>8, <2>4 DEF x
  <2> QED
    BY <2>4, <2>5
<1>10. clock + w \in Nat
  BY <1>1
<1>11. PICK old \in Rows : old = Swept(l, clock)
  BY <1>1, SweepLeaves
<1>12. PICK new \in Rows : new = Swept(l, clock + w)
  BY <1>1, <1>10, SweepLeaves
<1>13. \A t \in Times : new[t] <= old[t] + (IF t = first THEN -1 ELSE 0)
  <2> SUFFICES ASSUME NEW t \in Times PROVE new[t] <= old[t] + (IF t = first THEN -1 ELSE 0)
    OBVIOUS
  <2>1. /\ t \in Nat /\ events[l][t] \in Nat
        /\ old[t] = IF t \in InWindow(l, clock) THEN events[l][t] ELSE 0
        /\ new[t] = IF t \in InWindow(l, clock + w) THEN events[l][t] ELSE 0
    BY <1>1, <1>2, <1>11, <1>12 DEF Swept
  <2>2. t \in InWindow(l, clock + w) => t \in InWindow(l, clock)
    BY <1>1, <1>2, <2>1 DEF InWindow
  <2>3. first \notin InWindow(l, clock + w)
    BY <1>1, <1>2, <1>8, <1>9 DEF InWindow
  <2>4. CASE t = first
    BY <1>8, <2>1, <2>3, <2>4
  <2>5. CASE t # first
    BY <2>1, <2>2, <2>5
  <2> QED
    BY <2>4, <2>5
<1>14. /\ Total(new) \in Nat /\ Total(old) \in Nat /\ Total(new) <= Total(old) + (-1)
  BY <1>8, <1>13, TotalsCompare
<1>15. Count(l, clock) = Total(old) /\ Count(l, clock + w) = Total(new)
  BY <1>11, <1>12 DEF Count
<1>16. ~(Count(l, clock + w) >= MaxEvents[l])
  BY <1>2, <1>3, <1>14, <1>15
<1> QED
  BY <1>9, <1>16 DEF Full

(* And whoever waits as long as a send was told to keeps the cooldown and  *)
(* finds the window's oldest code outside of it.                           *)
LEMMA SendWaits == IInv => (RetryAfter(clock) # 0 => RetryAfter(clock + RetryAfter(clock)) = 0)
<1> SUFFICES ASSUME IInv PROVE RetryAfter(clock + RetryAfter(clock)) = 0
  OBVIOUS
<1> DEFINE n == Len(codes)
<1>1. CodeValues /\ CreatedInOrder /\ clock \in Nat
  BY CodesFit, EventsAreCounts
<1>2. PICK r \in Nat : r = RetryAfter(clock)
  BY <1>1, RetryAfterMeans
<1>3. /\ n # 0 => \/ codes[n].created + Cooldown <= clock
                  \/ codes[n].created + Cooldown <= clock + r
      /\ Cardinality(Recent(clock)) >= SendsPerWindow =>
           /\ n - SendsPerWindow + 1 \in Ids
           /\ codes[n - SendsPerWindow + 1].created + SendWindow <= clock + r
  BY <1>1, <1>2, RetryAfterMeans
<1>4. /\ n \in Nat /\ Ids = 1..n
      /\ \A k \in Ids : codes[k].created \in Nat /\ k \in Nat
  BY <1>1, CodeTypes
<1>5. PICK at \in Nat : at = clock + r
  BY <1>1
<1>6. n # 0 => codes[n].created + Cooldown <= at
  <2> SUFFICES ASSUME n # 0 PROVE codes[n].created + Cooldown <= at
    OBVIOUS
  <2>1. codes[n].created \in Nat
    BY <1>4
  <2> QED
    BY <1>1, <1>3, <1>5, <2>1, SendLimits
<1>7. /\ IsFiniteSet(Recent(clock)) /\ Cardinality(Recent(clock)) \in Nat
      /\ Recent(at) \subseteq Ids /\ Cardinality(Recent(at)) \in Nat
      /\ \A k \in Recent(at) : \A j \in Ids : k <= j => j \in Recent(at)
  BY <1>1, RecentIsLast
<1>8. Cardinality(Recent(at)) < SendsPerWindow
  <2>1. CASE Cardinality(Recent(clock)) < SendsPerWindow
    <3>1. Recent(at) \subseteq Recent(clock)
      BY <1>1, <1>4, <1>5, SendLimits DEF Recent
    <3>2. Cardinality(Recent(at)) <= Cardinality(Recent(clock))
      BY <1>7, <3>1, FS_Subset
    <3> QED
      BY <1>7, <2>1, <3>2, SendLimits
  <2>2. CASE Cardinality(Recent(clock)) >= SendsPerWindow
    <3>1. PICK oldest \in Ids : oldest = n - SendsPerWindow + 1
      BY <1>3, <2>2
    <3>2. codes[oldest].created + SendWindow <= at /\ codes[oldest].created \in Nat
      BY <1>3, <1>4, <1>5, <2>2, <3>1
    <3>3. oldest \notin Recent(at)
      BY <3>2, SendLimits DEF Recent
    <3>4. Recent(at) \subseteq (oldest + 1)..n
      BY <1>4, <1>7, <3>3
    <3>5. /\ IsFiniteSet((oldest + 1)..n)
          /\ Cardinality((oldest + 1)..n) = IF oldest + 1 > n THEN 0 ELSE n - (oldest + 1) + 1
      <4>1. oldest + 1 \in Int /\ n \in Int
        BY <1>4
      <4> QED
        BY <4>1, FS_Interval
    <3>6. Cardinality((oldest + 1)..n) < SendsPerWindow
      <4>1. oldest \in Nat /\ oldest <= n
        BY <1>4, <3>1
      <4> QED
        BY <1>4, <3>1, <3>5, <4>1, SendLimits
    <3>7. Cardinality(Recent(at)) <= Cardinality((oldest + 1)..n) /\ Cardinality((oldest + 1)..n) \in Nat
      BY <3>4, <3>5, FS_Subset, FS_CardinalityType
    <3> QED
      BY <1>7, <3>6, <3>7, SendLimits
  <2> QED
    BY <1>7, <2>1, <2>2, SendLimits
<1>9. MaySend(at)
  BY <1>6, <1>8 DEF MaySend
<1>10. RetryAfter(at) = 0
  BY <1>1, <1>9, RetryAfterMeans
<1> QED
  BY <1>2, <1>5, <1>10

(* No two clients hold one row, no client asks for a limit that is not its *)
(* route's, and nothing is counted for a time that has not come: TypeOK    *)
(* (app/services/rate_limit.py, app/routers/verifications.py).             *)
THEOREM TypeCorrect == Safety => []TypeOK
BY Invariance, PartsGiveTypes, PTL

(* Attempts keep their limit in every window, and failures exceed theirs by*)
(* no more than the requests that were open: LimitsHold, however requests  *)
(* overlap and wait for the advisory lock with the clock they have read    *)
(* (take, ensure_allowed and record, app/services/rate_limit.py).          *)
THEOREM LimitsAreKept == Safety => []LimitsHold
<1>1. IInv => LimitsHold
  BY DEF IInv, LimitPart
<1> QED
  BY <1>1, Invariance, PTL

(* One code is good at a time and verifies once, every wrong guess is on   *)
(* record, and sends keep the cooldown, the window's limit and a row for   *)
(* each message: CodesHold, whatever the provider answers and whoever dies *)
(* (send_verification_code and confirm_verification_code,                  *)
(* app/routers/verifications.py).                                          *)
THEOREM CodesAreKept == Safety => []CodesHold
<1>1. IInv => CodesHold
  BY DEF IInv, CodePart
<1> QED
  BY <1>1, Invariance, PTL

(* Nobody who waits as long as it was told is refused again, unless others *)
(* came in between: WaitIsEnough (_refuse in app/services/rate_limit.py,   *)
(* retry_after in app/services/verification_codes.py).                     *)
THEOREM WaitsSuffice == Safety => []WaitIsEnough
<1>1. IInv => WaitIsEnough
  BY LimitWaits, SendWaits DEF WaitIsEnough
<1> QED
  BY <1>1, Invariance, PTL

=============================================================================
