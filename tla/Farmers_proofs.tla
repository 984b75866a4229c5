---------------------------- MODULE Farmers_proofs ----------------------------
(***************************************************************************)
(* Proofs about Farmers, for any requests, keys, files, sizes and bounds.  *)
(***************************************************************************)
EXTENDS Farmers, WellFoundedInduction, TLAPS

-----------------------------------------------------------------------------
(* The parts of TypeOK.                                                    *)

Phases == {"unsent", "sent", "clear", "entered", "chosen", "recorded", "scanning", "scanned",
           "stored", "located", "placed", "done"}

Values ==
    /\ profiles \in Nat /\ lastId \in Nat
    /\ ledger \subseteq Rows
    /\ documents \in Seq(Files) /\ objects \subseteq Files
    /\ apiaries \in Seq([key : Keys, asked : BOOLEAN])
    /\ finished \subseteq Keys /\ asked \subseteq Requests
    /\ crashes \in 0..MaxCrashes

RequestValues ==
    /\ phase \in [Requests -> Phases]
    /\ req \in [Requests -> Enrolments \cup Decisions \cup Uploads \cup Sites \cup {NoRequest}]
    /\ id \in [Requests -> 0..lastId] /\ saw \in [Requests -> 0..lastId]
    /\ \A r \in Requests : phase[r] \in {"unsent", "done"} <=> req[r] = NoRequest

\* Ids, keys, the farmer's row and the phone have one holder each.
Apart(q, r) ==
    /\ id[q] # 0 => id[q] # id[r]
    /\ HasKey(q) /\ HasKey(r) => req[q].key # req[r].key
    /\ ~(Uploading(q) /\ Uploading(r))
    /\ ~(phase[q] = "entered" /\ phase[r] = "entered")

OneHolder == \A q, r \in Requests : q # r => Apart(q, r)

-----------------------------------------------------------------------------
(* The inductive invariant: what a request has looked up must still be so  *)
(* when it commits, or somebody must have been kept out.  First what is so *)
(* of each request that is at work.                                        *)

\* It is in the phases of its operation only.
OpFits(r) ==
    /\ phase[r] \in {"clear", "entered"} => req[r] \in Enrolments
    /\ phase[r] \in {"chosen", "recorded"} => req[r] \in Decisions
    /\ Uploading(r) => req[r] \in Uploads
    /\ phase[r] \in {"located", "placed"} => req[r] \in Sites

\* Its id is that of no committed row.
IdFits(r) ==
    /\ id[r] # 0 <=> phase[r] \in {"entered", "recorded"}
    /\ \A row \in ledger : id[r] # row.id

\* A key that is held has no response yet.
KeyFits(r) == HasKey(r) => req[r].key \notin finished

\* Nobody has enrolled since it entered its farmer; a choice is of a farmer
\* that is enrolled, and does not take back what they were enrolled under.
EnrolFits(r) ==
    /\ phase[r] = "entered" => profiles = 0
    /\ phase[r] \in {"chosen", "recorded"} =>
         /\ profiles = 1
         /\ req[r].purpose = "data_processing" => req[r].granted

\* What an upload has asked before the scan holds until it commits.
UploadFits(r) ==
    /\ Uploading(r) => /\ \A i \in DOMAIN documents : documents[i] # req[r].file
                       /\ Held + SizeOf[req[r].file] <= Quota
    /\ phase[r] \in {"scanned", "stored"} => req[r].file \notin Infected
    /\ phase[r] = "stored" => req[r].file \in objects

\* Who did not ask for the place is a replay.
PlaceFits(r) ==
    /\ phase[r] = "located" => r \in asked \/ req[r].key \in finished
    /\ phase[r] = "placed" => r \in asked

\* An officer's grant has seen no choice of the farmer's, or a grant.
SawGrant(purpose, seen) == seen = 0 \/ \E row \in OwnOf(purpose) : row.id = seen /\ row.granted

GrantFits(r) ==
    phase[r] \in {"chosen", "recorded"} /\ req[r].granted /\ Via(req[r].by) = "onboarder" =>
        SawGrant(req[r].purpose, saw[r])

AtWork(r) ==
    OpFits(r) /\ IdFits(r) /\ KeyFits(r) /\ EnrolFits(r) /\ UploadFits(r) /\ PlaceFits(r) /\ GrantFits(r)

\* Then what is so of the tables.  The profile and the consent it was made
\* under come together, and no choice takes that consent back.
LedgerHolds ==
    /\ profiles <= 1 /\ (profiles = 0 <=> Of("data_processing") = {})
    /\ \A row \in Of("data_processing") : row.granted
    /\ \A row, other \in ledger : row.id = other.id => row = other
    /\ \A row \in ledger :
         row.granted /\ row.via = "onboarder" => SawGrant(row.purpose, row.saw)

KeysFinished == \A i \in DOMAIN apiaries : apiaries[i].key \in finished

TablesHold == Values /\ LedgerHolds /\ DocumentsHold /\ ApiariesHold /\ KeysFinished

IInv ==
    /\ TablesHold
    /\ RequestValues /\ OneHolder
    /\ \A r \in Requests : AtWork(r)

-----------------------------------------------------------------------------
(* Lemmas about the operators.                                             *)

(* A set of numbers that is not empty has a least one.                     *)
LEMMA LeastNumber ==
    ASSUME NEW S \in SUBSET Nat, S # {}
    PROVE  \E n \in S : \A m \in S : n <= m
<1> DEFINE Below == {pair \in Nat \X Nat : pair[1] < pair[2]}
<1>1. Below = OpToRel(<, Nat)
  BY DEF OpToRel
<1>2. IsWellFoundedOn(Below, Nat)
  BY <1>1, NatLessThanWellFounded
<1>3. PICK n \in S : \A m \in S : ~(<<m, n>> \in Below)
  <2> HIDE DEF Below
  <2> QED
    BY <1>2, WFMin
<1>4. ASSUME NEW m \in S, m < n PROVE FALSE
  <2>1. <<m, n>> \in Nat \X Nat /\ <<m, n>>[1] < <<m, n>>[2]
    BY <1>4
  <2> QED
    BY <2>1, <1>3
<1> QED
  BY <1>4

(* One that is bounded has a greatest one.                                 *)
LEMMA GreatestNumber ==
    ASSUME NEW bound \in Nat, NEW S \in SUBSET (0..bound), S # {}
    PROVE  \E n \in S : \A m \in S : m <= n
<1> DEFINE gaps == {bound - n : n \in S}
<1>1. gaps \in SUBSET Nat /\ gaps # {}
  <2>1. \A n \in S : bound - n \in Nat
    OBVIOUS
  <2> QED
    BY <2>1
<1>2. PICK gap \in gaps : \A other \in gaps : gap <= other
  BY <1>1, LeastNumber
<1>3. PICK n \in S : gap = bound - n
  BY <1>2
<1>4. \A m \in S : m <= n
  BY <1>2, <1>3
<1> QED
  BY <1>4

(* The newest of some rows is one of them.                                 *)
LEMMA NewestRow ==
    ASSUME Values, NEW rows \in SUBSET ledger, rows # {}
    PROVE  Newest(rows) \in rows /\ \A other \in rows : other.id <= Newest(rows).id
<1>1. \A row \in rows : row.id \in 0..lastId
  BY DEF Values, Rows
<1>2. {row.id : row \in rows} \in SUBSET (0..lastId) /\ {row.id : row \in rows} # {}
  BY <1>1
<1>3. PICK n \in {row.id : row \in rows} : \A m \in {row.id : row \in rows} : m <= n
  BY <1>2, GreatestNumber DEF Values
<1>4. PICK row \in rows : row.id = n
  BY <1>3
<1>5. \A other \in rows : other.id <= row.id
  BY <1>3, <1>4
<1> QED
  BY <1>4, <1>5 DEF Newest

(* What a request sees of the farmer's own choices is the newest, if any.  *)
LEMMA SeenIsNewest ==
    ASSUME Values, NEW purpose \in Purposes,
           NEW seen, seen = Max({0} \cup {row.id : row \in OwnOf(purpose)})
    PROVE  /\ seen \in 0..lastId
           /\ OwnOf(purpose) = {} => seen = 0
           /\ OwnOf(purpose) # {} => seen = Newest(OwnOf(purpose)).id
<1> DEFINE ids == {row.id : row \in OwnOf(purpose)}
<1>1. OwnOf(purpose) \in SUBSET ledger
  BY DEF OwnOf, Of
<1>2. \A row \in OwnOf(purpose) : row.id \in 1..lastId
  BY <1>1 DEF Values, Rows
<1>3. CASE OwnOf(purpose) = {}
  <2>1. seen \in {0}
    BY <1>3 DEF Max
  <2> QED
    BY <1>3, <2>1 DEF Values
<1>4. CASE OwnOf(purpose) # {}
  <2> DEFINE newest == Newest(OwnOf(purpose)).id
  <2>1. newest \in ids /\ \A n \in ids : n <= newest
    BY <1>1, <1>4, NewestRow
  <2>2. newest \in 1..lastId
    BY <1>1, <1>2, <1>4, NewestRow
  <2> HIDE DEF newest
  <2>3. newest \in {0} \cup ids /\ \A n \in {0} \cup ids : newest >= n
    BY <1>2, <2>1, <2>2
  <2>4. seen \in {0} \cup ids /\ \A n \in {0} \cup ids : seen >= n
    BY <2>3 DEF Max
  <2>5. seen = newest
    BY <1>2, <2>2, <2>3, <2>4
  <2> QED
    BY <1>4, <2>2, <2>5 DEF newest
<1> QED
  BY <1>3, <1>4

\* The sums of the sizes of the first files.
IsTotal(total, n, files) ==
    total = [i \in 0..n |-> IF i = 0 THEN 0 ELSE total[i - 1] + SizeOf[files[i]]]

SameUpTo(n, files, more) == \A i \in 1..n : files[i] = more[i]

(* There are such sums, up to any file, and they are numbers.              *)
LEMMA TotalExists ==
    ASSUME NEW files \in Seq(Files), NEW n \in 0..Len(files)
    PROVE  \E total \in [0..n -> Nat] : IsTotal(total, n, files)
<1> DEFINE Has(k) == \E total \in [0..k -> Nat] : IsTotal(total, k, files)
           lacking == {k \in 0..Len(files) : ~Has(k)}
<1> SUFFICES ASSUME lacking # {} PROVE FALSE
  OBVIOUS
<1>1. PICK k \in lacking : \A m \in lacking : k <= m
  <2>1. lacking \in SUBSET Nat
    OBVIOUS
  <2> HIDE DEF lacking
  <2> QED
    BY <2>1, LeastNumber
<1>2. CASE k = 0
  <2> DEFINE total == [i \in 0..0 |-> 0]
  <2>1. total \in [0..0 -> Nat] /\ IsTotal(total, 0, files)
    BY DEF IsTotal
  <2> QED
    BY <1>1, <1>2, <2>1
<1>3. CASE k # 0
  <2>1. k - 1 \in 0..Len(files) /\ k \in 1..Len(files) /\ k - 1 \notin lacking
    <3> HIDE DEF Has
    <3>1. k \in 0..Len(files) /\ Len(files) \in Nat /\ ~(k <= k - 1)
      BY <1>1
    <3> QED
      BY <1>1, <1>3, <3>1
  <2>2. PICK part \in [0..(k - 1) -> Nat] : IsTotal(part, k - 1, files)
    BY <2>1
  <2> DEFINE total == [i \in 0..k |-> IF i = k THEN part[k - 1] + SizeOf[files[k]] ELSE part[i]]
  <2>3. SizeOf[files[k]] \in Nat
    BY <2>1, FarmersAssumption
  <2>4. total \in [0..k -> Nat]
    BY <2>1, <2>2, <2>3
  <2>5. \A i \in 0..k : total[i] = IF i = 0 THEN 0 ELSE total[i - 1] + SizeOf[files[i]]
    <3> SUFFICES ASSUME NEW i \in 0..k
                 PROVE  total[i] = IF i = 0 THEN 0 ELSE total[i - 1] + SizeOf[files[i]]
      OBVIOUS
    <3>1. CASE i = k
      BY <1>3, <2>1, <3>1
    <3>2. CASE i # k
      <4>1. part[i] = IF i = 0 THEN 0 ELSE part[i - 1] + SizeOf[files[i]]
        BY <2>1, <2>2, <3>2 DEF IsTotal
      <4> QED
        BY <2>1, <3>2, <4>1
    <3> QED
      BY <3>1, <3>2
  <2>6. IsTotal(total, k, files)
    BY <2>5 DEF IsTotal
  <2> QED
    BY <1>1, <2>4, <2>6
<1> QED
  BY <1>2, <1>3

(* There is one such sum only, and it does not depend on later files.      *)
LEMMA TotalUnique ==
    ASSUME NEW files \in Seq(Files), NEW more \in Seq(Files), NEW n \in Nat, NEW k \in Nat, n <= k,
           SameUpTo(n, files, more),
           NEW total, IsTotal(total, n, files), NEW sum, IsTotal(sum, k, more)
    PROVE  \A i \in 0..n : total[i] = sum[i]
<1> DEFINE wrong == {i \in 0..n : total[i] # sum[i]}
<1> SUFFICES ASSUME wrong # {} PROVE FALSE
  OBVIOUS
<1>1. PICK i \in wrong : \A m \in wrong : i <= m
  <2>1. wrong \in SUBSET Nat
    OBVIOUS
  <2> HIDE DEF wrong
  <2> QED
    BY <2>1, LeastNumber
<1>2. /\ total[i] = IF i = 0 THEN 0 ELSE total[i - 1] + SizeOf[files[i]]
      /\ sum[i] = IF i = 0 THEN 0 ELSE sum[i - 1] + SizeOf[more[i]]
  BY DEF IsTotal
<1>3. i # 0 => i - 1 \in 0..n /\ i - 1 \notin wrong
  BY <1>1
<1> QED
  BY <1>1, <1>2, <1>3 DEF SameUpTo

(* What is held is the sum up to the last file.                            *)
LEMMA SizeIsTotal ==
    ASSUME NEW files \in Seq(Files)
    PROVE  \E total \in [0..Len(files) -> Nat] :
               IsTotal(total, Len(files), files) /\ Size(files) = total[Len(files)]
<1> DEFINE chosen == CHOOSE total : IsTotal(total, Len(files), files)
<1>1. Len(files) \in Nat /\ Len(files) \in 0..Len(files) /\ SameUpTo(Len(files), files, files)
  BY DEF SameUpTo
<1>2. PICK total \in [0..Len(files) -> Nat] : IsTotal(total, Len(files), files)
  BY <1>1, TotalExists
<1>3. IsTotal(chosen, Len(files), files)
  BY <1>2
<1>4. Size(files) = chosen[Len(files)]
  BY Zenon DEF Size, IsTotal
<1> HIDE DEF chosen
<1>5. \A i \in 0..Len(files) : chosen[i] = total[i]
  BY <1>1, <1>2, <1>3, TotalUnique
<1> QED
  BY <1>1, <1>2, <1>4, <1>5

(* Nothing is held at first, and an upload adds the size of its file.      *)
LEMMA SizeOfNothing == Size(<<>>) = 0
<1>1. <<>> \in Seq(Files) /\ Len(<<>>) = 0
  OBVIOUS
<1>2. PICK total \in [0..0 -> Nat] : IsTotal(total, 0, <<>>) /\ Size(<<>>) = total[0]
  BY <1>1, SizeIsTotal
<1> QED
  BY <1>2 DEF IsTotal

LEMMA SizeOfAppended ==
    ASSUME NEW files \in Seq(Files), NEW f \in Files
    PROVE  Size(files) \in Nat /\ Size(Append(files, f)) = Size(files) + SizeOf[f]
<1> DEFINE more == Append(files, f)
           n == Len(files)
<1>1. more \in Seq(Files) /\ Len(more) = n + 1 /\ n \in Nat
  OBVIOUS
<1>2. SameUpTo(n, files, more) /\ more[n + 1] = f
  BY DEF SameUpTo
<1>3. PICK total \in [0..n -> Nat] : IsTotal(total, n, files) /\ Size(files) = total[n]
  BY SizeIsTotal
<1>4. PICK sum \in [0..(n + 1) -> Nat] : IsTotal(sum, n + 1, more) /\ Size(more) = sum[n + 1]
  BY <1>1, SizeIsTotal
<1> HIDE DEF more, n
<1>5. total[n] = sum[n]
  <2>1. n + 1 \in Nat /\ n <= n + 1 /\ n \in 0..n
    BY <1>1
  <2>2. \A t, u : IsTotal(t, n, files) /\ IsTotal(u, n + 1, more) => \A i \in 0..n : t[i] = u[i]
    BY <1>1, <1>2, <2>1, TotalUnique
  <2>3. \A i \in 0..n : total[i] = sum[i]
    BY <1>3, <1>4, <2>2
  <2> QED
    BY <2>1, <2>3
<1>6. sum[n + 1] = sum[n] + SizeOf[f]
  BY <1>1, <1>2, <1>4 DEF IsTotal
<1>7. Size(files) \in Nat /\ Size(more) = Size(files) + SizeOf[f]
  BY <1>1, <1>3, <1>4, <1>5, <1>6
<1> QED
  BY <1>7 DEF more

-----------------------------------------------------------------------------
(* What a step leaves as it is.                                            *)

\* A step leaves a request alone.
Same(q) ==
    /\ phase'[q] = phase[q] /\ req'[q] = req[q] /\ id'[q] = id[q] /\ saw'[q] = saw[q]
    /\ q \in asked' <=> q \in asked

(* A request that is left alone stays apart from another such one.         *)
LEMMA ApartStays ==
    ASSUME NEW q \in Requests, NEW r \in Requests, Same(q), Same(r), Apart(q, r)
    PROVE  Apart(q, r)'
BY DEF Same, Apart, HasKey, Uploading

(* It stays what it is at its work, if the tables do.                      *)
LEMMA WorkStays ==
    ASSUME NEW q \in Requests, Same(q), AtWork(q), UNCHANGED tables, objects \subseteq objects'
    PROVE  AtWork(q)'
<1>1. UNCHANGED <<profiles, ledger, documents, apiaries, finished>>
  BY DEF tables
<1>2. OpFits(q)' /\ IdFits(q)' /\ KeyFits(q)' /\ EnrolFits(q)'
  BY <1>1 DEF AtWork, Same, OpFits, IdFits, KeyFits, EnrolFits, HasKey, Uploading
<1>3. Held' = Held
  BY <1>1 DEF Held
<1>4. UploadFits(q)' /\ PlaceFits(q)'
  BY <1>1, <1>3 DEF AtWork, Same, UploadFits, PlaceFits, Uploading
<1>5. GrantFits(q)'
  BY <1>1 DEF AtWork, Same, GrantFits, SawGrant, OwnOf, Of
<1> QED
  BY <1>2, <1>4, <1>5 DEF AtWork

(* The tables are as good as they were, whatever else there is to draw     *)
(* from or to keep.                                                        *)
LEMMA TablesStay ==
    ASSUME TablesHold, UNCHANGED tables, lastId' \in Nat, lastId <= lastId',
           objects \subseteq objects', objects' \subseteq Files, objects' \cap Infected = {},
           asked' \subseteq Requests, crashes' \in 0..MaxCrashes
    PROVE  TablesHold'
<1>1. UNCHANGED <<profiles, ledger, documents, apiaries, finished>>
  BY DEF tables
<1>2. Values'
  <2>1. ledger \subseteq Rows'
    BY DEF TablesHold, Values, Rows
  <2> QED
    BY <1>1, <2>1 DEF TablesHold, Values
<1>3. LedgerHolds' /\ KeysFinished' /\ ApiariesHold'
  BY <1>1 DEF TablesHold, LedgerHolds, KeysFinished, ApiariesHold, SawGrant, OwnOf, Of
<1>4. DocumentsHold'
  BY <1>1 DEF TablesHold, DocumentsHold, Held
<1> QED
  BY <1>2, <1>3, <1>4 DEF TablesHold

(* A request moves on and no table changes.                                *)
LEMMA MoveInv ==
    ASSUME IInv, NEW r \in Requests, \A q \in Requests \ {r} : Same(q),
           UNCHANGED <<tables, crashes>>, lastId' \in Nat, lastId <= lastId',
           objects \subseteq objects', objects' \subseteq Files, objects' \cap Infected = {},
           asked' \subseteq Requests,
           RequestValues', AtWork(r)',
           \A q \in Requests \ {r} : Apart(q, r)' /\ Apart(r, q)'
    PROVE  IInv'
<1>1. TablesHold'
  BY TablesStay DEF IInv, TablesHold, Values
<1>2. OneHolder'
  <2>1. \A q, o \in Requests \ {r} : q # o => Apart(q, o)'
    BY ApartStays DEF IInv, OneHolder
  <2> QED
    BY <2>1 DEF OneHolder
<1>3. \A q \in Requests : AtWork(q)'
  BY WorkStays DEF IInv
<1> QED
  BY <1>1, <1>2, <1>3 DEF IInv

(* What it means that a request is over.                                   *)
LEMMA DropAlone ==
    ASSUME IInv, NEW r \in Requests, Drop(r), lastId' = lastId, Values'
    PROVE  /\ \A q \in Requests \ {r} : Same(q)
           /\ RequestValues' /\ OneHolder' /\ AtWork(r)'
           /\ asked' \subseteq Requests
<1>1. /\ phase' = [phase EXCEPT ![r] = "done"] /\ req' = [req EXCEPT ![r] = NoRequest]
      /\ id' = [id EXCEPT ![r] = 0] /\ saw' = [saw EXCEPT ![r] = 0] /\ asked' = asked \ {r}
  BY DEF Drop, Goes
<1>2. \A q \in Requests \ {r} : Same(q)
  BY <1>1 DEF IInv, RequestValues, Same
<1>3. phase'[r] = "done" /\ req'[r] = NoRequest /\ id'[r] = 0 /\ saw'[r] = 0
  BY <1>1 DEF IInv, RequestValues
<1>4. RequestValues'
  <2>1. phase' \in [Requests -> Phases]
    BY <1>1 DEF IInv, RequestValues, Phases
  <2>2. /\ req' \in [Requests -> Enrolments \cup Decisions \cup Uploads \cup Sites \cup {NoRequest}]
        /\ id' \in [Requests -> 0..lastId'] /\ saw' \in [Requests -> 0..lastId']
    <3>1. 0 \in 0..lastId
      BY DEF IInv, TablesHold, Values
    <3> QED
      BY <1>1, <3>1 DEF IInv, RequestValues
  <2>3. \A q \in Requests : phase'[q] \in {"unsent", "done"} <=> req'[q] = NoRequest
    BY <1>2, <1>3 DEF IInv, RequestValues, Same
  <2> QED
    BY <2>1, <2>2, <2>3 DEF RequestValues, NoRequest, Enrolments, Decisions, Uploads, Sites
<1>5. AtWork(r)'
  <2>1. \A row \in ledger' : row.id # 0
    BY DEF Values, Rows
  <2>2. ~HasKey(r)' /\ ~Uploading(r)'
    BY <1>3 DEF HasKey, Uploading
  <2>3. OpFits(r)' /\ IdFits(r)' /\ KeyFits(r)' /\ EnrolFits(r)' /\ PlaceFits(r)'
    BY <1>3, <2>1, <2>2 DEF OpFits, IdFits, KeyFits, EnrolFits, PlaceFits
  <2>4. UploadFits(r)' /\ GrantFits(r)'
    BY <1>3, <2>2 DEF UploadFits, GrantFits
  <2> QED
    BY <2>3, <2>4 DEF AtWork
<1>6. OneHolder'
  <2>1. \A q, o \in Requests \ {r} : q # o => Apart(q, o)'
    BY <1>2, ApartStays DEF IInv, OneHolder
  <2>2. \A q \in Requests \ {r} : Apart(q, r)' /\ Apart(r, q)'
    BY <1>3 DEF Apart, HasKey, Uploading
  <2> QED
    BY <2>1, <2>2 DEF OneHolder
<1> QED
  BY <1>1, <1>2, <1>4, <1>5, <1>6 DEF IInv, TablesHold, Values

(* A request ends and leaves the tables as they are.                       *)
LEMMA DropInv ==
    ASSUME IInv, NEW r \in Requests, Drop(r), UNCHANGED <<tables, lastId>>,
           objects \subseteq objects', objects' \subseteq Files, objects' \cap Infected = {},
           crashes' \in 0..MaxCrashes
    PROVE  IInv'
<1>1. asked' \subseteq Requests /\ lastId' \in Nat /\ lastId <= lastId'
  BY DEF Drop, IInv, TablesHold, Values
<1>2. TablesHold'
  BY <1>1, TablesStay DEF IInv
<1>3. /\ \A q \in Requests \ {r} : Same(q)
      /\ RequestValues' /\ OneHolder' /\ AtWork(r)'
  BY <1>2, DropAlone DEF TablesHold
<1>4. \A q \in Requests : AtWork(q)'
  BY <1>3, WorkStays DEF IInv
<1> QED
  BY <1>2, <1>3, <1>4 DEF IInv

(* So does one that is refused, or has an error.                           *)
LEMMA EndsInv ==
    ASSUME IInv, NEW r \in Requests, Ends(r)
    PROVE  IInv'
BY DropInv DEF Ends, IInv, TablesHold, Values, DocumentsHold

(* A request goes on to another phase, and may learn something there.      *)
LEMMA GoesOn ==
    ASSUME IInv, NEW r \in Requests, NEW p \in Phases \ {"unsent", "done"},
           phase[r] \notin {"unsent", "done"}, Goes(r, p), req' = req,
           lastId' \in Nat, lastId <= lastId',
           NEW n \in 0..lastId', id' = [id EXCEPT ![r] = n],
           NEW m \in 0..lastId', saw' = [saw EXCEPT ![r] = m],
           asked' \in {asked, asked \cup {r}}
    PROVE  /\ \A q \in Requests \ {r} : Same(q)
           /\ RequestValues' /\ asked' \subseteq Requests
           /\ phase'[r] = p /\ req'[r] = req[r] /\ id'[r] = n /\ saw'[r] = m
           /\ req[r] \in Enrolments \cup Decisions \cup Uploads \cup Sites
<1>1. \A q \in Requests \ {r} : Same(q)
  BY DEF IInv, RequestValues, Same, Goes
<1>2. /\ phase' = [phase EXCEPT ![r] = p]
      /\ phase'[r] = p /\ req'[r] = req[r] /\ id'[r] = n /\ saw'[r] = m
  BY DEF IInv, RequestValues, Goes
<1>3. req[r] # NoRequest /\ req[r] \in Enrolments \cup Decisions \cup Uploads \cup Sites
  BY DEF IInv, RequestValues
<1>4. RequestValues'
  <2>1. phase' \in [Requests -> Phases]
    BY <1>2 DEF IInv, RequestValues
  <2>2. id' \in [Requests -> 0..lastId'] /\ saw' \in [Requests -> 0..lastId']
    <3>1. \A q \in Requests : id[q] \in 0..lastId' /\ saw[q] \in 0..lastId'
      BY DEF IInv, RequestValues, TablesHold, Values
    <3> QED
      BY <3>1 DEF IInv, RequestValues
  <2>3. \A q \in Requests : phase'[q] \in {"unsent", "done"} <=> req'[q] = NoRequest
    BY <1>1, <1>2, <1>3 DEF IInv, RequestValues, Same
  <2> QED
    BY <2>1, <2>2, <2>3 DEF IInv, RequestValues, NoRequest, Enrolments, Decisions, Uploads, Sites
<1> QED
  BY <1>1, <1>2, <1>3, <1>4 DEF IInv, TablesHold, Values

(* It does so without a new id: then only its phase may make the difference *)
(* to the others.                                                          *)
LEMMA PhaseInv ==
    ASSUME IInv, NEW r \in Requests, NEW p \in Phases \ {"unsent", "done"},
           phase[r] \notin {"unsent", "done"}, Goes(r, p),
           UNCHANGED <<tables, lastId, req, id, crashes>>,
           NEW m \in 0..lastId, saw' = [saw EXCEPT ![r] = m],
           asked' \in {asked, asked \cup {r}},
           objects \subseteq objects', objects' \subseteq Files, objects' \cap Infected = {},
           AtWork(r)',
           HasKey(r)' => HasKey(r) \/ KeyFree(req[r].key),
           Uploading(r)' => Uploading(r) \/ RowFree,
           phase'[r] = "entered" => phase[r] = "entered"
    PROVE  IInv'
<1>1. lastId' \in Nat /\ lastId <= lastId' /\ lastId' = lastId
  BY DEF IInv, TablesHold, Values
<1>2. id[r] \in 0..lastId' /\ id' = [id EXCEPT ![r] = id[r]]
  BY <1>1 DEF IInv, RequestValues
<1>3. /\ \A q \in Requests \ {r} : Same(q)
      /\ RequestValues' /\ asked' \subseteq Requests
      /\ phase'[r] = p /\ req'[r] = req[r] /\ id'[r] = id[r]
  BY <1>1, <1>2, GoesOn
<1>4. ASSUME NEW q \in Requests \ {r}
      PROVE  Apart(q, r)' /\ Apart(r, q)'
  <2>1. Same(q) /\ Apart(q, r) /\ Apart(r, q)
    BY <1>3 DEF IInv, OneHolder
  <2>2. (HasKey(q)' <=> HasKey(q)) /\ (Uploading(q)' <=> Uploading(q))
    BY <2>1 DEF Same, HasKey, Uploading
  <2>3. HasKey(q) /\ HasKey(r)' => req[q].key # req[r].key
    BY <2>1 DEF Apart, KeyFree
  <2>4. ~(Uploading(q) /\ Uploading(r)')
    BY <2>1 DEF Apart, RowFree
  <2> QED
    BY <1>3, <2>1, <2>2, <2>3, <2>4 DEF Apart, Same
<1> QED
  BY <1>1, <1>3, <1>4, MoveInv

(* The new id of a row is that of no other one.                            *)
LEMMA DrawInv ==
    ASSUME IInv, NEW r \in Requests,
           \/ phase[r] = "clear" /\ Goes(r, "entered") /\ PhoneFree /\ profiles = 0
           \/ phase[r] = "chosen" /\ Goes(r, "recorded"),
           lastId' = lastId + 1, id' = [id EXCEPT ![r] = lastId + 1],
           UNCHANGED <<tables, objects, req, saw, asked, crashes>>
    PROVE  IInv'
<1> DEFINE p == IF phase[r] = "clear" THEN "entered" ELSE "recorded"
<1>1. /\ p \in Phases \ {"unsent", "done"} /\ phase[r] \notin {"unsent", "done"} /\ Goes(r, p)
      /\ phase[r] = "clear" => p = "entered"
      /\ phase[r] # "clear" => p = "recorded" /\ phase[r] = "chosen"
  BY DEF Phases
<1> HIDE DEF p
<1>2. lastId \in Nat /\ lastId' \in Nat /\ lastId <= lastId' /\ lastId + 1 \in 0..lastId'
  BY DEF IInv, TablesHold, Values
<1>3. saw[r] \in 0..lastId' /\ saw' = [saw EXCEPT ![r] = saw[r]]
  BY <1>2 DEF IInv, RequestValues
<1>4. /\ \A q \in Requests \ {r} : Same(q)
      /\ RequestValues' /\ asked' \subseteq Requests
      /\ phase'[r] = p /\ req'[r] = req[r] /\ id'[r] = lastId + 1 /\ saw'[r] = saw[r]
  BY <1>1, <1>2, <1>3, GoesOn
<1>5. UNCHANGED <<profiles, ledger, documents, apiaries, finished>>
  BY DEF tables
<1>6. AtWork(r)'
  <2>1. AtWork(r)
    BY DEF IInv
  <2>2. OpFits(r)' /\ KeyFits(r)' /\ EnrolFits(r)' /\ PlaceFits(r)'
    BY <1>1, <1>4, <1>5, <2>1
       DEF AtWork, OpFits, KeyFits, EnrolFits, PlaceFits, HasKey, Uploading
  <2>3. IdFits(r)'
    <3>1. \A row \in ledger : row.id \in 1..lastId
      BY DEF IInv, TablesHold, Values, Rows
    <3> QED
      BY <1>1, <1>2, <1>4, <1>5, <3>1 DEF IdFits
  <2>4. UploadFits(r)'
    BY <1>1, <1>4 DEF UploadFits, Uploading
  <2>5. GrantFits(r)'
    BY <1>1, <1>4, <1>5, <2>1 DEF AtWork, OpFits, GrantFits, SawGrant, OwnOf, Of
  <2> QED
    BY <2>2, <2>3, <2>4, <2>5 DEF AtWork
<1>7. ASSUME NEW q \in Requests \ {r}
      PROVE  Apart(q, r)' /\ Apart(r, q)'
  <2>1. Same(q) /\ Apart(q, r) /\ Apart(r, q) /\ id[q] \in 0..lastId
    BY <1>4 DEF IInv, OneHolder, RequestValues
  <2>2. HasKey(r)' /\ HasKey(r) /\ ~Uploading(r)' /\ (HasKey(q)' <=> HasKey(q))
    BY <1>1, <1>4, <2>1 DEF Same, HasKey, Uploading
  <2>3. phase'[r] = "entered" => phase[q] # "entered"
    BY <1>1, <1>4 DEF PhoneFree
  <2> QED
    BY <1>2, <1>4, <2>1, <2>2, <2>3 DEF Apart, Same
<1> QED
  BY <1>2, <1>4, <1>6, <1>7, MoveInv DEF IInv, TablesHold, Values, DocumentsHold

-----------------------------------------------------------------------------
(* The steps that commit nothing.                                          *)

\* In its steps before the commit a request keeps what it has not changed.
Keeps(r) ==
    UNCHANGED <<profiles, ledger, lastId, documents, objects, apiaries, finished, req, id, crashes>>

(* Then the tables are what they were, and good.                           *)
LEMMA KeepsTables ==
    ASSUME IInv, NEW r \in Requests, Keeps(r)
    PROVE  /\ UNCHANGED <<tables, lastId, req, id, crashes>> /\ Held' = Held
           /\ objects \subseteq objects' /\ objects' \subseteq Files /\ objects' \cap Infected = {}
BY DEF Keeps, tables, Held, IInv, TablesHold, Values, DocumentsHold

(* It learns nothing from most of them.                                    *)
LEMMA SawKept ==
    ASSUME IInv, NEW r \in Requests, UNCHANGED saw
    PROVE  saw[r] \in 0..lastId /\ saw' = [saw EXCEPT ![r] = saw[r]]
BY DEF IInv, RequestValues

(* A request that is sent holds nothing.                                   *)
LEMMA SendInv ==
    ASSUME IInv, NEW r \in Requests,
           NEW what \in Enrolments \cup Decisions \cup Uploads \cup Sites, Send(r, what)
    PROVE  IInv'
<1>1. /\ phase[r] = "unsent" /\ phase' = [phase EXCEPT ![r] = "sent"]
      /\ req' = [req EXCEPT ![r] = what]
      /\ UNCHANGED <<tables, lastId, objects, id, saw, asked, crashes>>
  BY DEF Send, Goes
<1>2. phase'[r] = "sent" /\ req'[r] = what /\ \A q \in Requests \ {r} : Same(q)
  BY <1>1 DEF IInv, RequestValues, Same
<1>3. RequestValues'
  <2>1. phase' \in [Requests -> Phases]
    BY <1>1 DEF IInv, RequestValues, Phases
  <2>2. req' \in [Requests -> Enrolments \cup Decisions \cup Uploads \cup Sites \cup {NoRequest}]
    BY <1>1 DEF IInv, RequestValues
  <2>3. what # NoRequest
    BY DEF Enrolments, Decisions, Uploads, Sites, NoRequest
  <2>4. \A q \in Requests : phase'[q] \in {"unsent", "done"} <=> req'[q] = NoRequest
    BY <1>2, <2>3 DEF IInv, RequestValues, Same
  <2>5. id' \in [Requests -> 0..lastId'] /\ saw' \in [Requests -> 0..lastId']
    BY <1>1 DEF IInv, RequestValues
  <2> QED
    BY <2>1, <2>2, <2>4, <2>5 DEF RequestValues, Enrolments, Decisions, Uploads, Sites, NoRequest
<1>4. ~HasKey(r)' /\ ~Uploading(r)' /\ id'[r] = 0 /\ id[r] = 0
  BY <1>1, <1>2 DEF HasKey, Uploading, IInv, AtWork, IdFits
<1>5. AtWork(r)'
  <2>1. OpFits(r)' /\ KeyFits(r)' /\ EnrolFits(r)' /\ PlaceFits(r)' /\ UploadFits(r)' /\ GrantFits(r)'
    BY <1>2, <1>4 DEF OpFits, KeyFits, EnrolFits, PlaceFits, UploadFits, GrantFits
  <2>2. IdFits(r)'
    BY <1>1, <1>2, <1>4 DEF IInv, AtWork, IdFits, tables
  <2> QED
    BY <2>1, <2>2 DEF AtWork
<1>6. \A q \in Requests \ {r} : Apart(q, r)' /\ Apart(r, q)'
  BY <1>2, <1>4 DEF Apart
<1>7. /\ UNCHANGED <<tables, crashes>> /\ lastId' \in Nat /\ lastId <= lastId'
      /\ objects \subseteq objects' /\ objects' \subseteq Files /\ objects' \cap Infected = {}
      /\ asked' \subseteq Requests
  BY <1>1 DEF IInv, TablesHold, Values, DocumentsHold
<1> QED
  BY <1>2, <1>3, <1>5, <1>6, <1>7, MoveInv

(* An enrolment that goes on has a key that nobody holds.                  *)
LEMMA BeginEnrolInv ==
    ASSUME IInv, NEW r \in Requests, BeginEnrol(r)
    PROVE  IInv'
<1>1. CASE Ends(r)
  BY <1>1, EndsInv
<1>2. CASE ~Ends(r)
  <2>1. /\ Goes(r, "clear") /\ Keeps(r) /\ UNCHANGED <<saw, asked>>
        /\ phase[r] = "sent" /\ req[r].op = "enroll" /\ KeyFree(req[r].key)
        /\ req[r].key \notin finished
    BY <1>2 DEF BeginEnrol, Keeps, tables
  <2>2. phase'[r] = "clear" /\ "clear" \in Phases \ {"unsent", "done"}
    BY <2>1 DEF IInv, RequestValues, Goes, Phases
  <2>3. req[r] \in Enrolments
    BY <2>1 DEF IInv, RequestValues, Enrolments, Decisions, Uploads, Sites, NoRequest
  <2>4. AtWork(r)'
    BY <2>1, <2>2, <2>3 DEF IInv, AtWork, Keeps, OpFits, IdFits, KeyFits, EnrolFits, UploadFits,
                            PlaceFits, GrantFits, HasKey, Uploading
  <2>5. ~Uploading(r)' /\ phase'[r] # "entered"
    BY <2>2 DEF Uploading
  <2> QED
    BY <2>1, <2>2, <2>4, <2>5, KeepsTables, SawKept, PhaseInv
<1> QED
  BY <1>1, <1>2

(* A farmer is entered when there is none, and no other one is being so.   *)
LEMMA InsertFarmerInv ==
    ASSUME IInv, NEW r \in Requests, InsertFarmer(r)
    PROVE  IInv'
<1>1. CASE Ends(r)
  BY <1>1, EndsInv
<1>2. CASE ~Ends(r)
  <2>1. profiles = 0
    BY <1>2 DEF InsertFarmer, Enrolled, IInv, TablesHold, Values
  <2> QED
    BY <1>2, <2>1, DrawInv DEF InsertFarmer
<1> QED
  BY <1>1, <1>2

(* A choice that goes on is one of a farmer, and an officer's grant has    *)
(* looked at the newest of the farmer's own choices.                       *)
LEMMA BeginChoiceInv ==
    ASSUME IInv, NEW r \in Requests, BeginChoice(r)
    PROVE  IInv'
<1>1. CASE Ends(r)
  BY <1>1, EndsInv
<1>2. CASE ~Ends(r)
  <2> DEFINE seen == Max({0} \cup {row.id : row \in OwnOf(req[r].purpose)})
  <2>1. /\ Goes(r, "chosen") /\ Keeps(r) /\ UNCHANGED asked /\ saw' = [saw EXCEPT ![r] = seen]
        /\ phase[r] = "sent" /\ req[r].op = "consent" /\ KeyFree(req[r].key)
        /\ req[r].key \notin finished /\ Enrolled /\ MayChoose(req[r])
    BY <1>2 DEF BeginChoice, Keeps, tables
  <2>2. req[r] \in Decisions /\ req[r].purpose \in Purposes
    BY <2>1 DEF IInv, RequestValues, Enrolments, Decisions, Uploads, Sites, NoRequest
  <2>3. /\ seen \in 0..lastId
        /\ OwnOf(req[r].purpose) = {} => seen = 0
        /\ OwnOf(req[r].purpose) # {} => seen = Newest(OwnOf(req[r].purpose)).id
    BY <2>2, SeenIsNewest DEF IInv, TablesHold
  <2> HIDE DEF seen
  <2>4. phase'[r] = "chosen" /\ "chosen" \in Phases \ {"unsent", "done"} /\ saw'[r] = seen
    BY <2>1 DEF IInv, RequestValues, Goes, Phases
  <2>5. profiles = 1
    BY <2>1 DEF Enrolled, IInv, TablesHold, Values, LedgerHolds
  <2>6. OpFits(r)' /\ IdFits(r)' /\ KeyFits(r)' /\ EnrolFits(r)' /\ UploadFits(r)' /\ PlaceFits(r)'
    BY <2>1, <2>2, <2>4, <2>5
       DEF IInv, AtWork, Keeps, OpFits, IdFits, KeyFits, EnrolFits, UploadFits, PlaceFits,
           HasKey, Uploading, MayChoose
  <2>7. GrantFits(r)'
    <3> SUFFICES ASSUME req[r].granted, Via(req[r].by) = "onboarder"
                 PROVE  SawGrant(req[r].purpose, seen)
      BY <2>1, <2>4 DEF GrantFits, Keeps, SawGrant, OwnOf, Of
    <3>1. OwnChoices(req[r].purpose) = OwnOf(req[r].purpose)
      BY DEF OwnChoices, OwnOf
    <3>2. OwnOf(req[r].purpose) = {} \/ Newest(OwnOf(req[r].purpose)).granted
      BY <2>1, <3>1 DEF MayChoose, WithdrawnByFarmer
    <3>3. OwnOf(req[r].purpose) # {} => Newest(OwnOf(req[r].purpose)) \in OwnOf(req[r].purpose)
      <4>1. OwnOf(req[r].purpose) \in SUBSET ledger
        BY DEF OwnOf, Of
      <4> QED
        BY <4>1, NewestRow DEF IInv, TablesHold
    <3> QED
      BY <2>3, <3>2, <3>3 DEF SawGrant
  <2>8. ~Uploading(r)' /\ phase'[r] # "entered"
    BY <2>4 DEF Uploading
  <2>9. AtWork(r)'
    BY <2>6, <2>7 DEF AtWork
  <2> QED
    BY <2>1, <2>3, <2>4, <2>8, <2>9, KeepsTables, PhaseInv
<1> QED
  BY <1>1, <1>2

(* The row of a choice gets its id.                                        *)
LEMMA InsertChoiceInv ==
    ASSUME IInv, NEW r \in Requests, InsertChoice(r)
    PROVE  IInv'
BY DrawInv DEF InsertChoice

(* An upload that goes on is the only one, and what it asked is so.        *)
LEMMA BeginUploadInv ==
    ASSUME IInv, NEW r \in Requests, BeginUpload(r)
    PROVE  IInv'
<1>1. CASE Ends(r)
  BY <1>1, EndsInv
<1>2. CASE ~Ends(r)
  <2>1. /\ Goes(r, "scanning") /\ Keeps(r) /\ UNCHANGED <<saw, asked>>
        /\ phase[r] = "sent" /\ req[r].op = "upload" /\ RowFree /\ MayUpload(req[r])
    BY <1>2 DEF BeginUpload, Keeps, tables
  <2>2. phase'[r] = "scanning" /\ "scanning" \in Phases \ {"unsent", "done"}
    BY <2>1 DEF IInv, RequestValues, Goes, Phases
  <2>3. req[r] \in Uploads
    BY <2>1 DEF IInv, RequestValues, Enrolments, Decisions, Uploads, Sites, NoRequest
  <2>4. UploadFits(r)'
    BY <2>1, <2>2, KeepsTables DEF UploadFits, MayUpload, Keeps
  <2>5. AtWork(r)'
    BY <2>1, <2>2, <2>3, <2>4
       DEF IInv, AtWork, Keeps, OpFits, IdFits, KeyFits, EnrolFits, PlaceFits, GrantFits, HasKey
  <2>6. ~HasKey(r)' /\ phase'[r] # "entered"
    BY <2>2 DEF HasKey
  <2> QED
    BY <2>1, <2>2, <2>5, <2>6, KeepsTables, SawKept, PhaseInv
<1> QED
  BY <1>1, <1>2

(* Only a file that the scanner passed goes on.                            *)
LEMMA ScanInv ==
    ASSUME IInv, NEW r \in Requests, Scan(r)
    PROVE  IInv'
<1>1. CASE Ends(r)
  BY <1>1, EndsInv
<1>2. CASE ~Ends(r)
  <2>1. /\ Goes(r, "scanned") /\ Keeps(r) /\ UNCHANGED <<saw, asked>>
        /\ phase[r] = "scanning" /\ req[r].file \notin Infected
    BY <1>2 DEF Scan, Keeps, tables, Clean
  <2>2. phase'[r] = "scanned" /\ "scanned" \in Phases \ {"unsent", "done"}
    BY <2>1 DEF IInv, RequestValues, Goes, Phases
  <2>3. Uploading(r) /\ ~HasKey(r)' /\ phase'[r] # "entered"
    BY <2>1, <2>2 DEF Uploading, HasKey
  <2>4. AtWork(r)
    BY DEF IInv
  <2>5. UploadFits(r)'
    BY <2>1, <2>2, <2>3, <2>4, KeepsTables DEF AtWork, UploadFits, Keeps
  <2>6. AtWork(r)'
    BY <2>1, <2>2, <2>3, <2>4, <2>5
       DEF AtWork, Keeps, OpFits, IdFits, KeyFits, EnrolFits, PlaceFits, GrantFits, HasKey
  <2> QED
    BY <2>1, <2>2, <2>3, <2>6, KeepsTables, SawKept, PhaseInv
<1> QED
  BY <1>1, <1>2

(* The store may keep the object of a file the scanner passed, heard of or *)
(* not.                                                                    *)
LEMMA PutInv ==
    ASSUME IInv, NEW r \in Requests, Put(r)
    PROVE  IInv'
<1>1. PICK kept, heard \in BOOLEAN :
         /\ heard => kept
         /\ objects' = objects \cup (IF kept THEN {req[r].file} ELSE {})
         /\ IF heard
            THEN Goes(r, "stored") /\ UNCHANGED <<req, id, saw, asked>>
            ELSE Drop(r)
  BY DEF Put
<1>2. phase[r] = "scanned" /\ UNCHANGED <<tables, lastId, crashes>> /\ AtWork(r)
  BY DEF Put, IInv
<1>3. Uploading(r) /\ req[r].file \in Files \ Infected
  BY <1>2 DEF Uploading, AtWork, OpFits, UploadFits, Uploads
<1>4. objects \subseteq objects' /\ objects' \subseteq Files /\ objects' \cap Infected = {}
  BY <1>1, <1>3 DEF IInv, TablesHold, Values, DocumentsHold
<1>5. CASE ~heard
  BY <1>1, <1>2, <1>4, <1>5, DropInv DEF IInv, TablesHold, Values
<1>6. CASE heard
  <2>1. /\ Goes(r, "stored") /\ UNCHANGED <<req, id, saw, asked>> /\ req[r].file \in objects'
    BY <1>1, <1>6
  <2>2. phase'[r] = "stored" /\ "stored" \in Phases \ {"unsent", "done"}
    BY <2>1 DEF IInv, RequestValues, Goes, Phases
  <2>3. UNCHANGED <<profiles, ledger, documents, apiaries, finished>> /\ Held' = Held
    BY <1>2 DEF tables, Held
  <2>4. ~HasKey(r)' /\ phase'[r] # "entered"
    BY <2>2 DEF HasKey
  <2>5. UploadFits(r)'
    BY <1>2, <1>3, <2>1, <2>2, <2>3 DEF AtWork, UploadFits
  <2>6. AtWork(r)'
    BY <1>2, <1>3, <2>1, <2>2, <2>3, <2>5
       DEF AtWork, OpFits, IdFits, KeyFits, EnrolFits, PlaceFits, GrantFits, HasKey
  <2> QED
    BY <1>2, <1>3, <1>4, <2>1, <2>2, <2>4, <2>6, SawKept, PhaseInv
<1> QED
  BY <1>5, <1>6

(* Unless it takes itself for a replay, an apiary's place is asked for.    *)
LEMMA LocateInv ==
    ASSUME IInv, NEW r \in Requests, Locate(r)
    PROVE  IInv'
<1>1. CASE Ends(r)
  BY <1>1, EndsInv
<1>2. CASE ~Ends(r)
  <2>1. /\ Goes(r, "located") /\ Keeps(r) /\ UNCHANGED saw
        /\ asked' = IF req[r].key \in finished THEN asked ELSE asked \cup {r}
        /\ phase[r] = "sent" /\ req[r].op = "apiary"
    BY <1>2 DEF Locate, Keeps, tables
  <2>2. phase'[r] = "located" /\ "located" \in Phases \ {"unsent", "done"}
    BY <2>1 DEF IInv, RequestValues, Goes, Phases
  <2>3. req[r] \in Sites
    BY <2>1 DEF IInv, RequestValues, Enrolments, Decisions, Uploads, Sites, NoRequest
  <2>4. ~HasKey(r)' /\ ~Uploading(r)' /\ phase'[r] # "entered"
    BY <2>2 DEF HasKey, Uploading
  <2>5. AtWork(r)'
    BY <2>1, <2>2, <2>3, <2>4
       DEF IInv, AtWork, Keeps, OpFits, IdFits, KeyFits, EnrolFits, UploadFits, PlaceFits, GrantFits
  <2> QED
    BY <2>1, <2>2, <2>4, <2>5, KeepsTables, SawKept, PhaseInv
<1> QED
  BY <1>1, <1>2

(* Who goes on is no replay, and has asked.                                *)
LEMMA InsertApiaryInv ==
    ASSUME IInv, NEW r \in Requests, InsertApiary(r)
    PROVE  IInv'
<1>1. CASE Ends(r)
  BY <1>1, EndsInv
<1>2. CASE ~Ends(r)
  <2>1. /\ Goes(r, "placed") /\ Keeps(r) /\ UNCHANGED <<saw, asked>>
        /\ phase[r] = "located" /\ KeyFree(req[r].key) /\ req[r].key \notin finished
    BY <1>2 DEF InsertApiary, Keeps, tables
  <2>2. phase'[r] = "placed" /\ "placed" \in Phases \ {"unsent", "done"}
    BY <2>1 DEF IInv, RequestValues, Goes, Phases
  <2>3. ~Uploading(r)' /\ phase'[r] # "entered"
    BY <2>2 DEF Uploading
  <2>4. AtWork(r)'
    BY <2>1, <2>2, <2>3
       DEF IInv, AtWork, Keeps, OpFits, IdFits, KeyFits, EnrolFits, UploadFits, PlaceFits, GrantFits
  <2> QED
    BY <2>1, <2>2, <2>3, <2>4, KeepsTables, SawKept, PhaseInv
<1> QED
  BY <1>1, <1>2

-----------------------------------------------------------------------------
(* The commits.                                                            *)

(* A new row takes away nothing that the ledger said, and has its own id.  *)
LEMMA LedgerGrows ==
    ASSUME IInv, NEW r \in Requests, phase[r] \in {"entered", "recorded"},
           NEW row \in Rows, row.id = id[r], ledger' = ledger \cup {row}, lastId' = lastId
    PROVE  /\ ledger' \subseteq Rows'
           /\ \A purpose : Of(purpose) \subseteq Of(purpose)'
           /\ \A purpose, seen : SawGrant(purpose, seen) => SawGrant(purpose, seen)'
           /\ \A one, other \in ledger' : one.id = other.id => one = other
           /\ \A q \in Requests \ {r} : \A one \in ledger' : id[q] # one.id
<1>1. ledger' \subseteq Rows' /\ \A one \in ledger' : one.id # 0
  BY DEF IInv, TablesHold, Values, Rows
<1>2. \A purpose : Of(purpose) \subseteq Of(purpose)' /\ OwnOf(purpose) \subseteq OwnOf(purpose)'
  BY DEF Of, OwnOf
<1>3. \A purpose, seen : SawGrant(purpose, seen) => SawGrant(purpose, seen)'
  BY <1>2 DEF SawGrant
<1>4. \A one, other \in ledger' : one.id = other.id => one = other
  BY DEF IInv, TablesHold, LedgerHolds, AtWork, IdFits
<1>5. ASSUME NEW q \in Requests \ {r}, NEW one \in ledger'
      PROVE  id[q] # one.id
  <2>1. \A old \in ledger : id[q] # old.id
    BY DEF IInv, AtWork, IdFits
  <2>2. id[q] # 0 => id[q] # id[r]
    BY DEF IInv, OneHolder, Apart
  <2> QED
    BY <1>1, <2>1, <2>2
<1> QED
  BY <1>1, <1>2, <1>3, <1>4, <1>5

(* A commit is the end of its request, and leaves the others as they are.  *)
LEMMA CommitInv ==
    ASSUME IInv, NEW r \in Requests, Drop(r), lastId' = lastId, TablesHold',
           \A q \in Requests \ {r} : Same(q) => AtWork(q)'
    PROVE  IInv'
<1>1. /\ \A q \in Requests \ {r} : Same(q)
      /\ RequestValues' /\ OneHolder' /\ AtWork(r)'
  BY DropAlone DEF TablesHold
<1> QED
  BY <1>1 DEF IInv

(* A key is finished by its holder.                                        *)
LEMMA KeysOfOthers ==
    ASSUME IInv, NEW r \in Requests, HasKey(r), finished' = finished \cup {req[r].key},
           NEW q \in Requests \ {r}, Same(q)
    PROVE  KeyFits(q)' /\ finished \subseteq finished'
BY DEF IInv, OneHolder, Apart, AtWork, KeyFits, HasKey, Same

(* A first enrolment comes with the grant it was made under.               *)
LEMMA CommitEnrolInv ==
    ASSUME IInv, NEW r \in Requests, CommitEnrol(r)
    PROVE  IInv'
<1> DEFINE row == [id |-> id[r], purpose |-> "data_processing", granted |-> TRUE,
                   via |-> "onboarder", saw |-> 0]
<1>1. /\ phase[r] = "entered" /\ profiles' = profiles + 1 /\ ledger' = ledger \cup {row}
      /\ finished' = finished \cup {req[r].key} /\ Drop(r)
      /\ UNCHANGED <<lastId, objects, documents, apiaries, crashes>>
  BY DEF CommitEnrol
<1>2. /\ HasKey(r) /\ req[r].key \in Keys /\ profiles = 0 /\ id[r] # 0
      /\ Of("data_processing") = {}
  BY <1>1 DEF HasKey, IInv, AtWork, OpFits, IdFits, EnrolFits, Enrolments, TablesHold, LedgerHolds
<1>3. row \in Rows /\ row.id = id[r]
  BY <1>2 DEF Rows, IInv, RequestValues, TablesHold, Values, Purposes
<1>4. /\ row.purpose = "data_processing" /\ row.granted /\ row.saw = 0
      /\ \A purpose : Of(purpose)' \subseteq Of(purpose) \cup {row}
  BY <1>1 DEF Of
<1> HIDE DEF row
<1>5. /\ ledger' \subseteq Rows'
      /\ \A purpose, seen : SawGrant(purpose, seen) => SawGrant(purpose, seen)'
      /\ \A one, other \in ledger' : one.id = other.id => one = other
      /\ \A q \in Requests \ {r} : \A one \in ledger' : id[q] # one.id
  BY <1>1, <1>3, LedgerGrows
<1>6. TablesHold'
  <2>1. Values'
    BY <1>1, <1>2, <1>5 DEF Drop, IInv, TablesHold, Values
  <2>2. LedgerHolds'
    <3>1. row \in Of("data_processing")' /\ profiles' = 1
      BY <1>1, <1>2, <1>4 DEF Of
    <3>2. \A one \in Of("data_processing")' : one.granted
      BY <1>2, <1>4
    <3>3. SawGrant(row.purpose, row.saw)
      BY <1>4 DEF SawGrant
    <3>4. \A one \in ledger' : one.granted /\ one.via = "onboarder" => SawGrant(one.purpose, one.saw)'
      BY <1>1, <1>5, <3>3 DEF IInv, TablesHold, LedgerHolds
    <3> QED
      BY <1>5, <3>1, <3>2, <3>4 DEF LedgerHolds
  <2>3. DocumentsHold' /\ ApiariesHold' /\ KeysFinished'
    BY <1>1 DEF IInv, TablesHold, DocumentsHold, Held, ApiariesHold, KeysFinished
  <2> QED
    BY <2>1, <2>2, <2>3 DEF TablesHold
<1>7. ASSUME NEW q \in Requests \ {r}, Same(q)
      PROVE  AtWork(q)'
  <2>1. AtWork(q) /\ Apart(q, r) /\ KeyFits(q)' /\ finished \subseteq finished'
    BY <1>1, <1>2, <1>7, KeysOfOthers DEF IInv, OneHolder
  <2>2. phase[q] \notin {"entered", "chosen", "recorded"}
    BY <1>1, <1>2, <2>1 DEF AtWork, EnrolFits, Apart
  <2>3. EnrolFits(q)' /\ GrantFits(q)' /\ OpFits(q)' /\ PlaceFits(q)' /\ UploadFits(q)'
    BY <1>1, <1>7, <2>1, <2>2
       DEF AtWork, Same, EnrolFits, GrantFits, OpFits, PlaceFits, UploadFits, Uploading, Held
  <2>4. IdFits(q)'
    BY <1>5, <1>7, <2>1 DEF AtWork, Same, IdFits
  <2> QED
    BY <2>1, <2>3, <2>4 DEF AtWork
<1> QED
  BY <1>1, <1>6, <1>7, CommitInv

(* A choice adds to the ledger what was seen when it was allowed.          *)
LEMMA CommitChoiceInv ==
    ASSUME IInv, NEW r \in Requests, CommitChoice(r)
    PROVE  IInv'
<1> DEFINE row == [id |-> id[r], purpose |-> req[r].purpose, granted |-> req[r].granted,
                   via |-> Via(req[r].by), saw |-> saw[r]]
<1>1. /\ phase[r] = "recorded" /\ ledger' = ledger \cup {row}
      /\ finished' = finished \cup {req[r].key} /\ Drop(r)
      /\ UNCHANGED <<profiles, documents, apiaries, lastId, objects, crashes>>
  BY DEF CommitChoice
<1>2. /\ HasKey(r) /\ req[r] \in Decisions /\ req[r].key \in Keys /\ profiles = 1 /\ id[r] # 0
      /\ Of("data_processing") # {}
  BY <1>1 DEF HasKey, IInv, AtWork, OpFits, IdFits, EnrolFits, Decisions, TablesHold, LedgerHolds
<1>3. row \in Rows /\ row.id = id[r]
  <2>1. id[r] \in 1..lastId /\ saw[r] \in 0..lastId
    BY <1>2 DEF IInv, RequestValues, TablesHold, Values
  <2> QED
    BY <1>2, <2>1 DEF Rows, Decisions, Via
<1>4. /\ row.purpose = req[r].purpose /\ row.granted = req[r].granted /\ row.saw = saw[r]
      /\ row.via = Via(req[r].by)
      /\ \A purpose : Of(purpose)' \subseteq Of(purpose) \cup {row}
      /\ \A one \in Of("data_processing")' : one.purpose = "data_processing"
  BY <1>1 DEF Of
<1> HIDE DEF row
<1>5. /\ ledger' \subseteq Rows'
      /\ \A purpose : Of(purpose) \subseteq Of(purpose)'
      /\ \A purpose, seen : SawGrant(purpose, seen) => SawGrant(purpose, seen)'
      /\ \A one, other \in ledger' : one.id = other.id => one = other
      /\ \A q \in Requests \ {r} : \A one \in ledger' : id[q] # one.id
  BY <1>1, <1>3, LedgerGrows
<1>6. TablesHold'
  <2>1. Values'
    BY <1>1, <1>2, <1>5 DEF Drop, IInv, TablesHold, Values
  <2>2. LedgerHolds'
    <3>1. Of("data_processing")' # {} /\ profiles' = 1
      BY <1>1, <1>2, <1>5
    <3>2. \A one \in Of("data_processing")' : one.granted
      BY <1>1, <1>4 DEF IInv, AtWork, EnrolFits, TablesHold, LedgerHolds
    <3>3. row.granted /\ row.via = "onboarder" => SawGrant(row.purpose, row.saw)
      BY <1>1, <1>4 DEF IInv, AtWork, GrantFits
    <3>4. \A one \in ledger' : one.granted /\ one.via = "onboarder" => SawGrant(one.purpose, one.saw)'
      BY <1>1, <1>5, <3>3 DEF IInv, TablesHold, LedgerHolds
    <3> QED
      BY <1>5, <3>1, <3>2, <3>4 DEF LedgerHolds
  <2>3. DocumentsHold' /\ ApiariesHold' /\ KeysFinished'
    BY <1>1 DEF IInv, TablesHold, DocumentsHold, Held, ApiariesHold, KeysFinished
  <2> QED
    BY <2>1, <2>2, <2>3 DEF TablesHold
<1>7. ASSUME NEW q \in Requests \ {r}, Same(q)
      PROVE  AtWork(q)'
  <2>1. AtWork(q) /\ KeyFits(q)' /\ finished \subseteq finished'
    BY <1>1, <1>2, <1>7, KeysOfOthers DEF IInv
  <2>2. EnrolFits(q)' /\ OpFits(q)' /\ PlaceFits(q)' /\ UploadFits(q)'
    BY <1>1, <1>7, <2>1
       DEF AtWork, Same, EnrolFits, OpFits, PlaceFits, UploadFits, Uploading, Held
  <2>3. IdFits(q)'
    BY <1>5, <1>7, <2>1 DEF AtWork, Same, IdFits
  <2>4. GrantFits(q)'
    BY <1>5, <1>7, <2>1 DEF AtWork, Same, GrantFits
  <2> QED
    BY <2>1, <2>2, <2>3, <2>4 DEF AtWork
<1> QED
  BY <1>1, <1>6, <1>7, CommitInv

(* An upload adds a file that was not there, fits, and has its object.     *)
LEMMA CommitUploadInv ==
    ASSUME IInv, NEW r \in Requests, CommitUpload(r)
    PROVE  IInv'
<1> DEFINE f == req[r].file
<1>1. /\ phase[r] = "stored" /\ documents' = Append(documents, f) /\ Drop(r)
      /\ UNCHANGED <<profiles, ledger, apiaries, finished, lastId, objects, crashes>>
  BY DEF CommitUpload
<1>2. /\ Uploading(r) /\ f \in Files /\ f \in objects
      /\ \A i \in DOMAIN documents : documents[i] # f
      /\ Held + SizeOf[f] <= Quota
  BY <1>1 DEF Uploading, IInv, AtWork, OpFits, Uploads, UploadFits
<1>3. documents \in Seq(Files)
  BY DEF IInv, TablesHold, Values
<1> HIDE DEF f
<1>4. Held \in Nat /\ Held' = Held + SizeOf[f]
  BY <1>1, <1>2, <1>3, SizeOfAppended DEF Held
<1>5. /\ documents' \in Seq(Files) /\ DOMAIN documents' = 1..(Len(documents) + 1)
      /\ DOMAIN documents = 1..Len(documents) /\ Len(documents) \in Nat
      /\ \A i \in DOMAIN documents : documents'[i] = documents[i]
      /\ documents'[Len(documents) + 1] = f
  BY <1>1, <1>2, <1>3
<1>6. TablesHold'
  <2>1. Values'
    BY <1>1, <1>5 DEF Drop, IInv, TablesHold, Values, Rows
  <2>2. DocumentsHold'
    <3>1. IsInjective(documents')
      BY <1>2, <1>5 DEF IsInjective, IInv, TablesHold, DocumentsHold
    <3>2. \A i \in DOMAIN documents' : documents'[i] \in objects'
      BY <1>1, <1>2, <1>5 DEF IInv, TablesHold, DocumentsHold
    <3> QED
      BY <1>1, <1>2, <1>4, <3>1, <3>2 DEF IInv, TablesHold, DocumentsHold, IsInjective
  <2>3. LedgerHolds' /\ ApiariesHold' /\ KeysFinished'
    BY <1>1 DEF IInv, TablesHold, LedgerHolds, SawGrant, OwnOf, Of, ApiariesHold, KeysFinished
  <2> QED
    BY <2>1, <2>2, <2>3 DEF TablesHold
<1>7. ASSUME NEW q \in Requests \ {r}, Same(q)
      PROVE  AtWork(q)'
  <2>1. AtWork(q) /\ ~Uploading(q)
    BY <1>2 DEF IInv, OneHolder, Apart
  <2>2. OpFits(q)' /\ IdFits(q)' /\ KeyFits(q)' /\ EnrolFits(q)' /\ PlaceFits(q)'
    BY <1>1, <1>7, <2>1
       DEF AtWork, Same, OpFits, IdFits, KeyFits, EnrolFits, PlaceFits, HasKey, Uploading
  <2>3. UploadFits(q)' /\ GrantFits(q)'
    BY <1>1, <1>7, <2>1 DEF AtWork, Same, UploadFits, Uploading, GrantFits, SawGrant, OwnOf, Of
  <2> QED
    BY <2>2, <2>3 DEF AtWork
<1> QED
  BY <1>1, <1>6, <1>7, CommitInv

(* An apiary is the first one of its key, and its place was asked for.     *)
LEMMA CommitApiaryInv ==
    ASSUME IInv, NEW r \in Requests, CommitApiary(r)
    PROVE  IInv'
<1> DEFINE made == [key |-> req[r].key, asked |-> r \in asked]
           n == Len(apiaries)
<1>1. /\ phase[r] = "placed" /\ apiaries' = Append(apiaries, made)
      /\ finished' = finished \cup {req[r].key} /\ Drop(r)
      /\ UNCHANGED <<profiles, ledger, documents, lastId, objects, crashes>>
  BY DEF CommitApiary
<1>2. /\ HasKey(r) /\ req[r].key \in Keys /\ req[r].key \notin finished /\ r \in asked
  BY <1>1 DEF HasKey, IInv, AtWork, OpFits, Sites, KeyFits, PlaceFits
<1>3. /\ made \in [key : Keys, asked : BOOLEAN] /\ made.key = req[r].key /\ made.asked
      /\ apiaries \in Seq([key : Keys, asked : BOOLEAN])
  BY <1>2 DEF IInv, TablesHold, Values
<1> HIDE DEF made
<1>4. /\ apiaries' \in Seq([key : Keys, asked : BOOLEAN])
      /\ DOMAIN apiaries' = 1..(n + 1) /\ DOMAIN apiaries = 1..n /\ n \in Nat
      /\ \A i \in DOMAIN apiaries : apiaries'[i] = apiaries[i]
      /\ apiaries'[n + 1] = made
  BY <1>1, <1>3
<1> HIDE DEF n
<1>5. TablesHold'
  <2>1. Values'
    BY <1>1, <1>2, <1>4 DEF Drop, IInv, TablesHold, Values, Rows
  <2>2. KeysFinished'
    BY <1>1, <1>3, <1>4 DEF IInv, TablesHold, KeysFinished
  <2>3. ApiariesHold'
    <3>1. \A i \in DOMAIN apiaries : apiaries[i].key # made.key
      BY <1>2, <1>3 DEF IInv, TablesHold, KeysFinished
    <3>2. \A i \in DOMAIN apiaries' : i \in DOMAIN apiaries \/ i = n + 1
      BY <1>4
    <3>3. \A i, j \in DOMAIN apiaries' : apiaries'[i].key = apiaries'[j].key => i = j
      BY <1>4, <3>1, <3>2 DEF IInv, TablesHold, ApiariesHold
    <3>4. \A i \in DOMAIN apiaries' : apiaries'[i].asked
      BY <1>3, <1>4, <3>2 DEF IInv, TablesHold, ApiariesHold
    <3> QED
      BY <3>3, <3>4 DEF ApiariesHold
  <2>4. LedgerHolds' /\ DocumentsHold'
    BY <1>1 DEF IInv, TablesHold, LedgerHolds, SawGrant, OwnOf, Of, DocumentsHold, Held
  <2> QED
    BY <2>1, <2>2, <2>3, <2>4 DEF TablesHold
<1>6. ASSUME NEW q \in Requests \ {r}, Same(q)
      PROVE  AtWork(q)'
  <2>1. AtWork(q) /\ KeyFits(q)' /\ finished \subseteq finished'
    BY <1>1, <1>2, <1>6, KeysOfOthers DEF IInv
  <2>2. OpFits(q)' /\ IdFits(q)' /\ EnrolFits(q)' /\ PlaceFits(q)'
    BY <1>1, <1>6, <2>1 DEF AtWork, Same, OpFits, IdFits, EnrolFits, PlaceFits, Uploading
  <2>3. UploadFits(q)' /\ GrantFits(q)'
    BY <1>1, <1>6, <2>1
       DEF AtWork, Same, UploadFits, Uploading, Held, GrantFits, SawGrant, OwnOf, Of
  <2> QED
    BY <2>1, <2>2, <2>3 DEF AtWork
<1> QED
  BY <1>1, <1>5, <1>6, CommitInv

-----------------------------------------------------------------------------
(* The theorems.                                                           *)

LEMMA IInvInit == Init => IInv
<1> SUFFICES ASSUME Init PROVE IInv
  OBVIOUS
<1>1. Values /\ LedgerHolds
  <2>1. /\ documents \in Seq(Files) /\ objects \subseteq Files
        /\ apiaries \in Seq([key : Keys, asked : BOOLEAN])
        /\ finished \subseteq Keys /\ asked \subseteq Requests /\ crashes \in 0..MaxCrashes
    BY FarmersAssumption DEF Init
  <2>2. CASE profiles = 0 /\ ledger = {} /\ lastId = 0
    BY <2>1, <2>2 DEF Values, LedgerHolds, Of
  <2>3. CASE profiles = 1 /\ lastId = 2 /\ ledger # {}
    <3>1. PICK via \in {"farmer_self", "onboarder"}, granted \in BOOLEAN :
               ledger = {[id |-> 1, purpose |-> "data_processing", granted |-> TRUE,
                          via |-> "onboarder", saw |-> 0],
                         [id |-> 2, purpose |-> "document_upload", granted |-> granted,
                          via |-> via, saw |-> 0]}
      BY <2>3 DEF Init
    <3> DEFINE first == [id |-> 1, purpose |-> "data_processing", granted |-> TRUE,
                         via |-> "onboarder", saw |-> 0]
               second == [id |-> 2, purpose |-> "document_upload", granted |-> granted,
                          via |-> via, saw |-> 0]
    <3>2. /\ first \in Rows /\ first.id = 1 /\ first.granted /\ first.saw = 0
          /\ first.purpose = "data_processing"
      BY <2>3 DEF Rows, Purposes
    <3>3. /\ second \in Rows /\ second.id = 2 /\ second.saw = 0
          /\ second.purpose = "document_upload"
      BY <2>3 DEF Rows, Purposes
    <3>4. ledger = {first, second}
      BY <3>1
    <3> HIDE DEF first, second
    <3>5. Of("data_processing") = {first}
      BY <3>2, <3>3, <3>4 DEF Of
    <3>6. LedgerHolds
      BY <2>3, <3>2, <3>3, <3>4, <3>5 DEF LedgerHolds, SawGrant
    <3> QED
      BY <2>1, <2>3, <3>2, <3>3, <3>4, <3>6 DEF Values
  <2> QED
    BY <2>2, <2>3 DEF Init
<1>3. DocumentsHold
  BY SizeOfNothing, FarmersAssumption DEF Init, DocumentsHold, Held, IsInjective
<1>4. ApiariesHold /\ KeysFinished
  BY DEF Init, ApiariesHold, KeysFinished
<1>5. RequestValues
  BY <1>1 DEF Init, RequestValues, Phases, Values
<1>6. OneHolder
  BY DEF Init, OneHolder, Apart, HasKey, Uploading
<1>7. ASSUME NEW r \in Requests PROVE AtWork(r)
  <2>1. phase[r] = "unsent" /\ id[r] = 0 /\ ~HasKey(r) /\ ~Uploading(r)
    BY DEF Init, HasKey, Uploading
  <2>2. \A row \in ledger : row.id # 0
    BY DEF Init
  <2> QED
    BY <2>1, <2>2 DEF AtWork, OpFits, IdFits, KeyFits, EnrolFits, UploadFits, PlaceFits, GrantFits
<1> QED
  BY <1>1, <1>3, <1>4, <1>5, <1>6, <1>7 DEF IInv, TablesHold

LEMMA IInvStep == IInv /\ [Next]_vars => IInv'
<1> SUFFICES ASSUME IInv, [Next]_vars PROVE IInv'
  OBVIOUS
<1>1. ASSUME NEW r \in Requests,
             NEW what \in Enrolments \cup Decisions \cup Uploads \cup Sites, Send(r, what)
      PROVE  IInv'
  BY <1>1, SendInv
<1>2. ASSUME NEW r \in Requests, Handle(r)
      PROVE  IInv'
  <2>1. CASE BeginEnrol(r) \/ InsertFarmer(r) \/ CommitEnrol(r)
    BY <2>1, BeginEnrolInv, InsertFarmerInv, CommitEnrolInv
  <2>2. CASE BeginChoice(r) \/ InsertChoice(r) \/ CommitChoice(r)
    BY <2>2, BeginChoiceInv, InsertChoiceInv, CommitChoiceInv
  <2>3. CASE BeginUpload(r) \/ Scan(r) \/ Put(r) \/ CommitUpload(r)
    BY <2>3, BeginUploadInv, ScanInv, PutInv, CommitUploadInv
  <2>4. CASE Locate(r) \/ InsertApiary(r) \/ CommitApiary(r)
    BY <2>4, LocateInv, InsertApiaryInv, CommitApiaryInv
  <2> QED
    BY <1>2, <2>1, <2>2, <2>3, <2>4 DEF Handle
<1>3. ASSUME NEW r \in Requests, Crash(r)
      PROVE  IInv'
  <2>1. Drop(r) /\ UNCHANGED <<tables, lastId, objects>>
    BY <1>3 DEF Crash
  <2>2. crashes' \in 0..MaxCrashes
    BY <1>3, FarmersAssumption DEF Crash, IInv, TablesHold, Values
  <2> QED
    BY <2>1, <2>2, DropInv DEF IInv, TablesHold, Values, DocumentsHold
<1>4. CASE UNCHANGED vars
  <2>1. UNCHANGED <<tables, lastId, objects, phase, req, id, saw, asked, crashes>>
    BY <1>4 DEF vars, request
  <2>2. \A q \in Requests : Same(q)
    BY <2>1 DEF Same
  <2>3. /\ lastId' \in Nat /\ lastId <= lastId'
        /\ objects \subseteq objects' /\ objects' \subseteq Files /\ objects' \cap Infected = {}
        /\ asked' \subseteq Requests /\ crashes' \in 0..MaxCrashes
    BY <2>1 DEF IInv, TablesHold, Values, DocumentsHold
  <2>4. TablesHold'
    BY <2>1, <2>3, TablesStay DEF IInv
  <2>5. RequestValues'
    BY <2>1 DEF IInv, RequestValues, Enrolments, Decisions, Uploads, Sites, NoRequest
  <2>6. OneHolder' /\ \A q \in Requests : AtWork(q)'
    BY <2>1, <2>2, <2>3, ApartStays, WorkStays DEF IInv, OneHolder
  <2> QED
    BY <2>4, <2>5, <2>6 DEF IInv
<1> QED
  BY <1>1, <1>2, <1>3, <1>4 DEF Next

LEMMA Invariance == Spec => []IInv
BY IInvInit, IInvStep, PTL DEF Spec

(* Every variable has its type, and no two requests share an id, a key,    *)
(* the farmer's row or the phone number (farmers.py; idempotency.py).      *)
THEOREM TypeCorrect == Spec => []TypeOK
<1>1. IInv => TypeOK
  BY DEF IInv, TablesHold, Values, RequestValues, OneHolder, Apart, TypeOK
<1> QED
  BY <1>1, Invariance, PTL

(* One profile, never without the consent it was made under; documents     *)
(* that differ, fit the quota and have their objects, and nothing that the *)
(* scanner did not pass; and one apiary for a key, whose place was looked  *)
(* up (enroll_farmer, upload_document, create_apiary).                     *)
THEOREM FarmerRowsHold == Spec => []RowsHold
<1>1. ASSUME IInv PROVE EnrolledOnce
  <2>1. Of("data_processing") \in SUBSET ledger
    BY DEF Of
  <2>2. Of("data_processing") # {} => Newest(Of("data_processing")).granted
    BY <1>1, <2>1, NewestRow DEF IInv, TablesHold, LedgerHolds
  <2> QED
    BY <1>1, <2>2 DEF EnrolledOnce, Enrolled, Stands, IInv, TablesHold, Values, LedgerHolds
<1>2. IInv => RowsHold
  BY <1>1 DEF RowsHold, IInv, TablesHold
<1> QED
  BY <1>2, Invariance, PTL

(* An officer's grant stands against the farmer's own withdrawal only if   *)
(* it was allowed before the withdrawal was committed                      *)
(* (record_farmer_consent; consent.py, withdrawn_by_farmer).               *)
THEOREM WithdrawalStands == Spec => []OwnChoiceStands
<1>1. ASSUME IInv, NEW p \in Purposes,
             OwnOf(p) # {}, ~Newest(OwnOf(p)).granted, Stands(p)
      PROVE  /\ Newest(Of(p)).via = "onboarder"
             /\ Newest(Of(p)).saw # Newest(OwnOf(p)).id
  <2> DEFINE last == Newest(Of(p))
             own == Newest(OwnOf(p))
  <2>1. Of(p) \in SUBSET ledger /\ OwnOf(p) \in SUBSET ledger /\ OwnOf(p) \subseteq Of(p)
    BY DEF Of, OwnOf
  <2>2. own \in OwnOf(p) /\ \A other \in OwnOf(p) : other.id <= own.id
    BY <1>1, <2>1, NewestRow DEF IInv, TablesHold
  <2>3. last \in Of(p) /\ last.granted /\ \A other \in Of(p) : other.id <= last.id
    BY <1>1, <2>1, NewestRow DEF IInv, TablesHold, Stands
  <2> HIDE DEF last, own
  <2>4. own \in Rows /\ last \in Rows /\ lastId \in Nat
    BY <1>1, <2>1, <2>2, <2>3 DEF IInv, TablesHold, Values
  <2>5. last.via = "onboarder"
    <3> SUFFICES ASSUME last.via = "farmer_self" PROVE FALSE
      BY <2>4 DEF Rows
    <3>1. last \in OwnOf(p)
      BY <2>3 DEF OwnOf
    <3>2. last.id <= own.id /\ own.id <= last.id
      BY <2>1, <2>2, <2>3, <3>1
    <3>3. last.id = own.id
      BY <2>4, <3>2 DEF Rows
    <3>4. last = own
      BY <1>1, <2>1, <2>2, <2>3, <3>3 DEF IInv, TablesHold, LedgerHolds
    <3> QED
      BY <1>1, <2>3, <3>4 DEF own
  <2>6. SawGrant(p, last.saw)
    BY <1>1, <2>1, <2>3, <2>5 DEF IInv, TablesHold, LedgerHolds, Of
  <2>7. ASSUME last.saw = own.id PROVE FALSE
    <3>1. own.id # 0
      BY <2>4 DEF Rows
    <3>2. PICK row \in OwnOf(p) : row.id = own.id /\ row.granted
      BY <2>6, <2>7, <3>1 DEF SawGrant
    <3>3. row = own
      BY <1>1, <2>1, <2>2, <3>2 DEF IInv, TablesHold, LedgerHolds
    <3> QED
      BY <1>1, <3>2, <3>3 DEF own
  <2> QED
    BY <2>5, <2>7 DEF last, own
<1>2. IInv => OwnChoiceStands
  BY <1>1 DEF OwnChoiceStands
<1> QED
  BY <1>2, Invariance, PTL

=============================================================================
