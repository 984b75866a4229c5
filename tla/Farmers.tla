------------------------------- MODULE Farmers -------------------------------
(***************************************************************************)
(* What is kept about one farmer, known by one phone number: the profile   *)
(* (enroll_farmer), the consent ledger (record_farmer_consent, app/        *)
(* services/consent.py), the documents (upload_document) with their        *)
(* scanner and object store, and the apiaries (create_apiary).             *)
(*                                                                         *)
(* A request is one transaction, except create_apiary, which ends a first  *)
(* one before it asks a third party.  The wait for an idempotency key is   *)
(* one step with the reads after it; the append to the audit log and the   *)
(* commit are the last step: the chain lock orders the commits, and any    *)
(* order is possible here.                                                 *)
(***************************************************************************)
EXTENDS Naturals, Sequences, FiniteSetsExt

CONSTANTS
    Requests,       \* each is made once
    Keys,           \* idempotency keys
    Files,          \* contents, told apart by their SHA-256
    SizeOf, MaxFile, Quota,
    Accepted,       \* the files whose first bytes sniff() knows
    Infected,       \* the files the scanner finds something in
    MaxCrashes      \* bound: transactions that are cut off

ASSUME FarmersAssumption ==
    /\ SizeOf \in [Files -> Nat \ {0}]
    /\ {MaxFile, Quota, MaxCrashes} \subseteq Nat
    /\ Accepted \subseteq Files /\ Infected \subseteq Files

Purposes == {"data_processing", "document_upload"}

\* Who asks: the farmer, another farmer, or an officer.
Actors == {"farmer", "stranger", "staff"}
ActsFor(actor) == actor # "stranger"

Enrolments == [op : {"enroll"}, key : Keys, granted : BOOLEAN]
Decisions == [op : {"consent"}, key : Keys, by : Actors, purpose : Purposes, granted : BOOLEAN]
Uploads == [op : {"upload"}, by : Actors, file : Files]
Sites == [op : {"apiary"}, key : Keys, by : Actors]

VARIABLES
    profiles,       \* committed pairs of a user and a farmer with this phone
    ledger,         \* committed rows of consent_records
    lastId,         \* the sequence of their ids
    documents,      \* committed rows of documents: their contents
    objects,        \* what the object store holds
    apiaries,       \* committed rows of apiary_locations, each with the key that
                    \*   made it and whether its place was asked for
    finished,       \* keys whose response is committed
    phase, req,     \* of each request: how far it is, and what it asks for
    id,             \*   the id of its consent row, 0 before it has one
    saw,            \*   the farmer's own latest choice when it looked, 0 for none
    asked,          \* requests that gave the point to the third party
    crashes

tables == <<profiles, ledger, documents, apiaries, finished>>
request == <<phase, req, id, saw, asked>>
vars == <<tables, lastId, objects, request, crashes>>

NoRequest == [op |-> "none"]

Of(purpose) == {row \in ledger : row.purpose = purpose}
OwnOf(purpose) == {row \in Of(purpose) : row.via = "farmer_self"}
Newest(rows) == CHOOSE row \in rows : \A other \in rows : other.id <= row.id
Stands(purpose) == Of(purpose) # {} /\ Newest(Of(purpose)).granted

Enrolled == profiles > 0

\* sum(Document.size_bytes).
Size(files) ==
    LET total[i \in 0..Len(files)] == IF i = 0 THEN 0 ELSE total[i - 1] + SizeOf[files[i]]
    IN  total[Len(files)]
Held == Size(documents)

Goes(r, p) == phase' = [phase EXCEPT ![r] = p]
Drop(r) ==
    /\ Goes(r, "done")
    /\ req' = [req EXCEPT ![r] = NoRequest]
    /\ id' = [id EXCEPT ![r] = 0]
    /\ saw' = [saw EXCEPT ![r] = 0]
    /\ asked' = asked \ {r}

\* An error, or a stored response: the transaction ends with nothing written.
Ends(r) == Drop(r) /\ UNCHANGED <<tables, lastId, objects, crashes>>

\* INSERT .. ON CONFLICT waits for the open transaction that holds the key.
HasKey(r) == phase[r] \in {"clear", "entered", "chosen", "recorded", "placed"}
KeyFree(k) == \A r \in Requests : HasKey(r) => req[r].key # k

-----------------------------------------------------------------------------
(* POST /farmers *)

\* phone_taken is decided by what is committed.
BeginEnrol(r) ==
    /\ phase[r] = "sent" /\ req[r].op = "enroll"
    /\ KeyFree(req[r].key)
    /\ IF req[r].key \in finished \/ Enrolled
       THEN Ends(r)
       ELSE Goes(r, "clear") /\ UNCHANGED <<tables, lastId, objects, req, id, saw, asked, crashes>>

\* UNIQUE(phone): an INSERT waits for the open one of the same phone.
PhoneFree == \A r \in Requests : phase[r] # "entered"

\* The flushes of the user and the farmer, which fail if another enrolment of
\* the phone (or of the e-mail address) has committed, and capture_consent,
\* which undoes both unless the request carries the grant.
InsertFarmer(r) ==
    /\ phase[r] = "clear"
    /\ PhoneFree
    /\ \/ Ends(r)
       \/ /\ ~Enrolled /\ req[r].granted
          /\ Goes(r, "entered")
          /\ lastId' = lastId + 1
          /\ id' = [id EXCEPT ![r] = lastId + 1]
          /\ UNCHANGED <<tables, objects, req, saw, asked, crashes>>

CommitEnrol(r) ==
    /\ phase[r] = "entered"
    /\ profiles' = profiles + 1
    /\ ledger' = ledger \cup
         {[id |-> id[r], purpose |-> "data_processing", granted |-> TRUE,
           via |-> "onboarder", saw |-> 0]}
    /\ finished' = finished \cup {req[r].key}
    /\ Drop(r)
    /\ UNCHANGED <<lastId, objects, documents, apiaries, crashes>>

-----------------------------------------------------------------------------
(* POST /farmers/{id}/consents *)

Via(actor) == IF actor = "farmer" THEN "farmer_self" ELSE "onboarder"

\* Variant: the newest row decides, if it is the farmer's.
NewestIfTheirs(purpose) ==
    {row \in Of(purpose) : row.via = "farmer_self" /\ row = Newest(Of(purpose))}

\* The rows that decide whether an officer may grant.
OwnChoices(purpose) == {row \in Of(purpose) : row.via = "farmer_self"}

WithdrawnByFarmer(purpose) ==
    OwnChoices(purpose) # {} /\ ~Newest(OwnChoices(purpose)).granted

MayChoose(c) ==
    /\ ActsFor(c.by)
    /\ c.purpose = "data_processing" => c.granted
    /\ c.granted /\ Via(c.by) = "onboarder" => ~WithdrawnByFarmer(c.purpose)

BeginChoice(r) ==
    /\ phase[r] = "sent" /\ req[r].op = "consent"
    /\ KeyFree(req[r].key)
    /\ IF req[r].key \in finished \/ ~Enrolled \/ ~MayChoose(req[r])
       THEN Ends(r)
       ELSE /\ Goes(r, "chosen")
            /\ saw' = [saw EXCEPT ![r] =
                 Max({0} \cup {row.id : row \in OwnOf(req[r].purpose)})]
            /\ UNCHANGED <<tables, lastId, objects, req, id, asked, crashes>>

\* The INSERT draws the id; the chain lock is waited for after that.
InsertChoice(r) ==
    /\ phase[r] = "chosen"
    /\ Goes(r, "recorded")
    /\ lastId' = lastId + 1
    /\ id' = [id EXCEPT ![r] = lastId + 1]
    /\ UNCHANGED <<tables, objects, req, saw, asked, crashes>>

CommitChoice(r) ==
    /\ phase[r] = "recorded"
    /\ ledger' = ledger \cup
         {[id |-> id[r], purpose |-> req[r].purpose, granted |-> req[r].granted,
           via |-> Via(req[r].by), saw |-> saw[r]]}
    /\ finished' = finished \cup {req[r].key}
    /\ Drop(r)
    /\ UNCHANGED <<profiles, documents, apiaries, lastId, objects, crashes>>

-----------------------------------------------------------------------------
(* POST /farmers/{id}/documents, once RateLimits has let it through *)

Uploading(r) == phase[r] \in {"scanning", "scanned", "stored"}

\* Variant: the farmer is read without FOR NO KEY UPDATE.
RowUnlocked == TRUE

\* The farmer's row is locked for the whole upload.
RowFree == \A r \in Requests : ~Uploading(r)

\* parse_reply: a clear OK and nothing else.
Clean(f) == f \notin Infected

\* Everything that is asked before the scan, in this order: ownership, consent,
\* size, type, whether the farmer has the same bytes already, and the quota.
MayUpload(u) ==
    /\ Enrolled /\ ActsFor(u.by)
    /\ Stands("document_upload")
    /\ SizeOf[u.file] <= MaxFile
    /\ u.file \in Accepted
    /\ \A i \in DOMAIN documents : documents[i] # u.file
    /\ Held + SizeOf[u.file] <= Quota

BeginUpload(r) ==
    /\ phase[r] = "sent" /\ req[r].op = "upload"
    /\ RowFree
    /\ IF MayUpload(req[r])
       THEN Goes(r, "scanning") /\ UNCHANGED <<tables, lastId, objects, req, id, saw, asked, crashes>>
       ELSE Ends(r)

\* A verdict, or none.
Scan(r) ==
    /\ phase[r] = "scanning"
    /\ \/ Ends(r)
       \/ /\ Clean(req[r].file)
          /\ Goes(r, "scanned")
          /\ UNCHANGED <<tables, lastId, objects, req, id, saw, asked, crashes>>

\* put(): idempotent, and one that failed may have stored the object.
Put(r) ==
    /\ phase[r] = "scanned"
    /\ \E kept, heard \in BOOLEAN :
         /\ heard => kept
         /\ objects' = objects \cup (IF kept THEN {req[r].file} ELSE {})
         /\ IF heard
            THEN Goes(r, "stored") /\ UNCHANGED <<req, id, saw, asked>>
            ELSE Drop(r)
    /\ UNCHANGED <<tables, lastId, crashes>>

\* The INSERT cannot meet another row of the same bytes: the lock is held
\* since it was looked for.
CommitUpload(r) ==
    /\ phase[r] = "stored"
    /\ documents' = Append(documents, req[r].file)
    /\ Drop(r)
    /\ UNCHANGED <<profiles, ledger, apiaries, finished, lastId, objects, crashes>>

-----------------------------------------------------------------------------
(* POST /apiaries *)

\* The first transaction: ownership, and completed(), which claims nothing.
\* The geocoder is called with no transaction open, unless this is a replay.
Locate(r) ==
    /\ phase[r] = "sent" /\ req[r].op = "apiary"
    /\ IF ~Enrolled \/ ~ActsFor(req[r].by)
       THEN Ends(r)
       ELSE /\ Goes(r, "located")
            /\ asked' = IF req[r].key \in finished THEN asked ELSE asked \cup {r}
            /\ UNCHANGED <<tables, lastId, objects, req, id, saw, crashes>>

\* The second one: begin(), the farmer read again, the INSERT.
InsertApiary(r) ==
    /\ phase[r] = "located"
    /\ KeyFree(req[r].key)
    /\ IF req[r].key \in finished
       THEN Ends(r)
       ELSE Goes(r, "placed") /\ UNCHANGED <<tables, lastId, objects, req, id, saw, asked, crashes>>

CommitApiary(r) ==
    /\ phase[r] = "placed"
    /\ apiaries' = Append(apiaries, [key |-> req[r].key, asked |-> r \in asked])
    /\ finished' = finished \cup {req[r].key}
    /\ Drop(r)
    /\ UNCHANGED <<profiles, ledger, documents, lastId, objects, crashes>>

-----------------------------------------------------------------------------
Send(r, what) ==
    /\ phase[r] = "unsent"
    /\ Goes(r, "sent")
    /\ req' = [req EXCEPT ![r] = what]
    /\ UNCHANGED <<tables, lastId, objects, id, saw, asked, crashes>>

\* The process or its connection dies; what the store has, it keeps, and an id
\* that was drawn is not drawn again.
Crash(r) ==
    /\ phase[r] \notin {"unsent", "sent", "done"}
    /\ crashes < MaxCrashes
    /\ crashes' = crashes + 1
    /\ Drop(r)
    /\ UNCHANGED <<tables, lastId, objects>>

Handle(r) ==
    \/ BeginEnrol(r) \/ InsertFarmer(r) \/ CommitEnrol(r)
    \/ BeginChoice(r) \/ InsertChoice(r) \/ CommitChoice(r)
    \/ BeginUpload(r) \/ Scan(r) \/ Put(r) \/ CommitUpload(r)
    \/ Locate(r) \/ InsertApiary(r) \/ CommitApiary(r)

\* Nobody is enrolled; or the farmer is, with one choice about documents.
Init ==
    /\ \/ profiles = 0 /\ ledger = {} /\ lastId = 0
       \/ /\ profiles = 1 /\ lastId = 2
          /\ \E via \in {"farmer_self", "onboarder"}, granted \in BOOLEAN :
               ledger = {[id |-> 1, purpose |-> "data_processing", granted |-> TRUE,
                          via |-> "onboarder", saw |-> 0],
                         [id |-> 2, purpose |-> "document_upload", granted |-> granted,
                          via |-> via, saw |-> 0]}
    /\ documents = <<>> /\ objects = {} /\ apiaries = <<>> /\ finished = {}
    /\ phase = [r \in Requests |-> "unsent"]
    /\ req = [r \in Requests |-> NoRequest]
    /\ id = [r \in Requests |-> 0]
    /\ saw = [r \in Requests |-> 0]
    /\ asked = {} /\ crashes = 0

Next ==
    \E r \in Requests :
        \/ \E what \in Enrolments \cup Decisions \cup Uploads \cup Sites : Send(r, what)
        \/ Handle(r)
        \/ Crash(r)

Spec == Init /\ [][Next]_vars

-----------------------------------------------------------------------------
(* Properties.                                                             *)

Rows ==
    [id : 1..lastId, purpose : Purposes, granted : BOOLEAN,
     via : {"farmer_self", "onboarder"}, saw : 0..lastId]

TypeOK ==
    /\ profiles \in Nat
    /\ ledger \subseteq Rows
    /\ documents \in Seq(Files) /\ objects \subseteq Files
    /\ apiaries \in Seq([key : Keys, asked : BOOLEAN])
    /\ finished \subseteq Keys /\ asked \subseteq Requests
    /\ crashes \in 0..MaxCrashes
    /\ \A r \in Requests :
         /\ phase[r] \in {"unsent", "done"} <=> req[r] = NoRequest
         /\ id[r] \in 0..lastId /\ saw[r] \in 0..lastId
    \* ids, keys, the farmer's row and the phone have one holder each
    /\ \A q, r \in Requests : q # r =>
         /\ id[q] # 0 => id[q] # id[r]
         /\ HasKey(q) /\ HasKey(r) => req[q].key # req[r].key
         /\ ~(Uploading(q) /\ Uploading(r))
         /\ ~(phase[q] = "entered" /\ phase[r] = "entered")

\* One profile for a phone, and never without the consent it was made under:
\* no choice recorded later takes data_processing back.
EnrolledOnce == profiles <= 1 /\ (Enrolled <=> Stands("data_processing"))

\* A farmer's documents are told apart by their content and fit the quota; the
\* object of each is in the store, whatever failed on the way; and nothing the
\* scanner did not pass is in the store at all.
DocumentsHold ==
    /\ IsInjective(documents)
    /\ Held <= Quota
    /\ \A i \in DOMAIN documents : documents[i] \in objects
    /\ objects \cap Infected = {}

\* A key makes one apiary, whose place was looked up: a request that took
\* itself for a replay is one.
ApiariesHold ==
    /\ \A i, j \in DOMAIN apiaries : apiaries[i].key = apiaries[j].key => i = j
    /\ \A i \in DOMAIN apiaries : apiaries[i].asked

RowsHold == EnrolledOnce /\ DocumentsHold /\ ApiariesHold

\* "A data subject's own withdrawal is reversible only by the data subject"
\* (app/routers/farmers.py:197): where consent stands against the farmer's own
\* latest choice, an officer's grant that had already looked when the
\* withdrawal was committed is what overrode it.
OwnChoiceStands ==
    \A p \in Purposes :
        LET own == OwnOf(p)
        IN  own # {} /\ ~Newest(own).granted /\ Stands(p)
            => LET last == Newest(Of(p))
               IN  last.via = "onboarder" /\ last.saw # Newest(own).id
=============================================================================
