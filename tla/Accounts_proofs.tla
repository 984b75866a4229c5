---------------------------- MODULE Accounts_proofs ----------------------------
(***************************************************************************)
(* Proofs about Accounts, for any requests, number of users, window,       *)
(* lifetime and length of the run.                                         *)
(***************************************************************************)
EXTENDS Accounts, FiniteSetTheorems, SequenceTheorems, WellFoundedInduction, TLAPS

-----------------------------------------------------------------------------
(* The parts of TypeOK.                                                    *)

TableValues ==
    /\ users \in [Users -> User]
    /\ tokens \in Seq(Token)
    /\ clock \in 0..MaxClock

RequestValues ==
    /\ pc \in [Requests -> Pcs]
    /\ req \in [Requests -> Request]
    /\ todo \in [Requests -> SUBSET (Users \cup TokenIds)]
    /\ spent \in [Requests -> SUBSET TokenIds]
    /\ tokenLocks \in [Requests -> SUBSET TokenIds]
    /\ userLocks \in [Requests -> SUBSET (Users \X Modes)]

-----------------------------------------------------------------------------
(* The inductive invariant: what the committed rows say, who holds which   *)
(* lock, and what each request relies on while it goes through its         *)
(* statements.                                                             *)

\* Of the tokens one was exchanged for, at most its present successor is good.
SuccessorsHold ==
    \A t \in TokenIds :
        /\ tokens[t].parent \in 0..Len(tokens) /\ tokens[t].succ \in 0..Len(tokens)
        /\ LiveChildren(t) \subseteq {tokens[t].succ}

RowsHold == SuccessorsHold /\ AnAdminRemains /\ OthersPasswordMustChange

\* Two requests hold no token's row both, and no conflicting locks of a user's.
Apart(r, o) ==
    /\ tokenLocks[r] \cap tokenLocks[o] = {}
    /\ \A u \in Users : \A m, n \in Modes :
         <<u, m>> \in userLocks[r] /\ <<u, n>> \in userLocks[o] => ~Conflict(m, n)

LocksApart == \A r, o \in Requests : r # o => Apart(r, o)

\* The request leaves a token behind.
Issues(q) == q.op \in {"login", "change"} \/ q.path \in {"rotate", "grace", "inactive"}

Resting == {"idle"} \cup Final
Managing == {"deactivate", "reset", "resetRoot"}
Renewing == {"rotate", "grace"}

\* Who is not at work holds nothing.
RestFits(r) ==
    pc[r] \in Resting =>
        /\ req[r] = NoRequest
        /\ todo[r] = {} /\ spent[r] = {} /\ tokenLocks[r] = {} /\ userLocks[r] = {}

\* Which operation is at which statement.
OpFits(r) ==
    LET op == req[r].op
        path == req[r].path
    IN  /\ pc[r] \notin Resting => req[r].user \in Users /\ op # "none"
        /\ pc[r] = "admins" => op = "deactivate" /\ todo[r] \subseteq Users
        /\ pc[r] = "target" => op \in Managing
        /\ pc[r] = "others" => op = "deactivate"
        /\ pc[r] = "sweep" => /\ \/ op \in Managing \cup {"change"}
                                 \/ op = "refresh" /\ path \in {"reuse", "inactive"}
                              /\ todo[r] \subseteq TokenIds
        /\ pc[r] = "retire" => op = "refresh" /\ path = "grace"
        /\ pc[r] = "insert" => \/ op \in {"login", "change"}
                               \/ op = "refresh" /\ path \in Renewing
        /\ pc[r] = "update" => op = "change"
        /\ op = "refresh" <=> path # "none"
        /\ op # "refresh" => req[r].tok = 0

\* A refresh holds the row of its token from its first statement on.
TokenFits(r) ==
    LET t == req[r].tok
        path == req[r].path
    IN  /\ spent[r] \subseteq tokenLocks[r]
        /\ req[r].op = "refresh" =>
             /\ t \in tokenLocks[r] /\ tokens[t].user = req[r].user
             /\ path \in Renewing => ~tokens[t].revoked
             /\ path = "grace" => tokens[t].succ # 0
             /\ path # "reuse" /\ pc[r] # "retire" =>
                  tokens[t].succ = 0 \/ tokens[t].succ \in spent[r]

\* The lock of the account's row, from the statement that takes it on.
UserFits(r) ==
    LET op == req[r].op
        u == req[r].user
    IN  /\ op \in {"deactivate", "reset"} => users[u].role # "none"
        /\ op \in Managing /\ pc[r] \in {"others", "sweep", "commit"} =>
             <<u, "update">> \in userLocks[r]
        /\ op = "change" /\ pc[r] \in {"insert", "commit"} => <<u, "no key update">> \in userLocks[r]
        /\ (pc[r] = "commit" /\ Issues(req[r])) \/ req[r].path = "inactive" =>
             <<u, "key share">> \in userLocks[r]

\* What a reset and a deactivation have still to revoke is what they still see.
SweepFits(r) ==
    req[r].op \in Managing /\ pc[r] \in {"sweep", "commit"} =>
        \A t \in TokenIds :
            tokens[t].user = req[r].user =>
                tokens[t].revoked \/ t \in spent[r] \/ (pc[r] = "sweep" /\ t \in todo[r])

\* What a request decided by what it read is still so.
SeenFits(r) ==
    LET q == req[r]
        u == q.user
    IN  /\ q.op = "reset" /\ pc[r] \in {"sweep", "commit"} => q.seen = users[u].mustChange
        /\ q.path \in Renewing /\ q.seen => users[u].active
        /\ q.path \in Renewing /\ pc[r] = "commit" => q.seen
        /\ q.op = "deactivate" /\ pc[r] \in {"sweep", "commit"} /\ users[u].role = "admin" =>
             \E v \in Users \ {u} : IsAdmin(v) /\ <<v, "update">> \in userLocks[r]

AtWork(r) ==
    /\ RestFits(r) /\ OpFits(r) /\ TokenFits(r)
    /\ UserFits(r) /\ SweepFits(r) /\ SeenFits(r)

IInv ==
    /\ TableValues /\ RequestValues
    /\ RowsHold /\ LocksApart
    /\ \A r \in Requests : AtWork(r)

-----------------------------------------------------------------------------
(* Values.                                                                 *)

(* The first of the users whose rows are still to be locked is one of them.*)
LEMMA FirstUserLocked ==
    ASSUME NEW r \in Requests, todo[r] \subseteq Users, todo[r] # {}
    PROVE  FirstUser(r) \in todo[r]
<1> DEFINE Below == {pair \in Nat \X Nat : pair[1] < pair[2]}
<1>1. todo[r] \subseteq Nat
  BY AccountsAssumption DEF Users
<1>2. Below = OpToRel(<, Nat)
  BY DEF OpToRel
<1>3. IsWellFoundedOn(Below, Nat)
  BY <1>2, NatLessThanWellFounded
<1>4. PICK u \in todo[r] : \A v \in todo[r] : ~(<<v, u>> \in Below)
  <2> HIDE DEF Below
  <2> QED
    BY <1>1, <1>3, WFMin
<1>5. ASSUME NEW v \in todo[r], v < u PROVE FALSE
  <2>1. <<v, u>> \in Nat \X Nat /\ <<v, u>>[1] < <<v, u>>[2]
    BY <1>1, <1>5
  <2> QED
    BY <2>1, <1>4
<1>6. \A v \in todo[r] : u <= v
  BY <1>1, <1>5
<1> QED
  BY <1>6 DEF FirstUser

(* Where a request says that it is about somebody, there is such a request.*)
LEMMA RequestFields ==
    ASSUME RequestValues, NEW r \in Requests
    PROVE  /\ req[r] \in Request
           /\ req[r].op \in Ops /\ req[r].user \in Nat /\ req[r].tok \in Nat
           /\ req[r].role \in Roles /\ req[r].at \in 0..MaxClock /\ req[r].seen \in BOOLEAN
BY DEF RequestValues, Request

(* A token that is committed has the fields of a token.                    *)
LEMMA TokenFields ==
    ASSUME TableValues, NEW t \in TokenIds
    PROVE  /\ tokens[t] \in Token
           /\ t \in 1..Len(tokens) /\ Len(tokens) \in Nat
           /\ tokens[t].user \in Users /\ tokens[t].revoked \in BOOLEAN
           /\ tokens[t].parent \in Nat /\ tokens[t].succ \in Nat
<1>1. t \in 1..Len(tokens) /\ Len(tokens) \in Nat
  BY DEF TableValues, TokenIds
<1>2. tokens[t] \in Token
  BY <1>1 DEF TableValues
<1> QED
  BY <1>1, <1>2 DEF Token

(* Ids are counted up.                                                     *)
LEMMA IdsOfTokens == TableValues => TokenIds = 1..Len(tokens) /\ Len(tokens) \in Nat
BY DEF TableValues, TokenIds

(* A request that leaves no token is one whose operation has none.         *)
LEMMA IssuedTokens ==
    ASSUME NEW r \in Requests
    PROVE  /\ Issues(req[r]) => Issued(r) = <<[user |-> req[r].user, parent |-> req[r].tok,
                 succ |-> 0, revoked |-> req[r].path = "inactive", issued |-> req[r].at]>>
           /\ ~Issues(req[r]) => Issued(r) = <<>>
           /\ Issued(r) # <<>> <=> Issues(req[r])
<1>1. Issues(req[r]) => Issued(r) = <<[user |-> req[r].user, parent |-> req[r].tok,
                 succ |-> 0, revoked |-> req[r].path = "inactive", issued |-> req[r].at]>>
  BY DEF Issued, Issues
<1>2. ~Issues(req[r]) => Issued(r) = <<>>
  BY DEF Issued, Issues
<1>3. \A x : Len(<<x>>) = 1 /\ Len(<<>>) = 0
  OBVIOUS
<1> QED
  BY <1>1, <1>2, <1>3

(* The initial states.                                                     *)
LEMMA InitEstablishes == Init => IInv
<1> SUFFICES ASSUME Init PROVE IInv
  OBVIOUS
<1>0. PICK root \in BOOLEAN :
        users = [u \in Users |-> CASE u = 1 -> Member("admin", root)
                                   [] u = 2 -> Member("admin", FALSE)
                                   [] OTHER -> Absent]
  BY DEF Init
<1>1. /\ 1 \in Users /\ 2 \in Users
      /\ \A u \in Users : users[u] \in {Member("admin", root), Member("admin", FALSE), Absent}
      /\ users[1] = Member("admin", root)
      /\ DOMAIN users = Users
  BY <1>0, AccountsAssumption DEF Users
<1>2. TableValues
  <2>1. {Member("admin", root), Member("admin", FALSE), Absent} \subseteq User
    BY DEF Member, Absent, User, Roles
  <2>2. users \in [Users -> User]
    BY <1>0, <1>1, <2>1
  <2>3. 0 \in 0..MaxClock
    BY AccountsAssumption
  <2>4. tokens \in Seq(Token) /\ clock \in 0..MaxClock
    BY <1>1, <2>3 DEF Init, Token
  <2> QED
    BY <2>2, <2>4 DEF TableValues
<1>3. RequestValues
  <2>1. NoRequest \in Request
    BY AccountsAssumption DEF NoRequest, Request, Ops, Roles
  <2> QED
    BY <2>1 DEF Init, RequestValues, Pcs
<1>4. RowsHold
  <2>1. TokenIds = {1} /\ Len(tokens) = 1
    BY DEF Init, TokenIds
  <2>2. SuccessorsHold
    BY <2>1 DEF SuccessorsHold, LiveChildren, Init
  <2>3. AnAdminRemains
    BY <1>1 DEF AnAdminRemains, ActiveAdmins, IsAdmin, Member
  <2>4. OthersPasswordMustChange
    BY <1>1 DEF OthersPasswordMustChange, Member, Absent
  <2> QED
    BY <2>2, <2>3, <2>4 DEF RowsHold
<1>5. LocksApart
  BY DEF Init, LocksApart, Apart
<1>6. ASSUME NEW r \in Requests PROVE AtWork(r)
  BY DEF Init, NoRequest, AtWork, RestFits, OpFits, TokenFits, UserFits, SweepFits, SeenFits,
         Resting, Managing, Renewing, Issues
<1> QED
  BY <1>2, <1>3, <1>4, <1>5, <1>6 DEF IInv

-----------------------------------------------------------------------------
(* What a step of one request is to the others.                            *)

\* Nothing of any other request changes.
OthersStill(r) ==
    \A o \in Requests \ {r} :
        /\ pc'[o] = pc[o] /\ req'[o] = req[o]
        /\ todo'[o] = todo[o] /\ spent'[o] = spent[o]
        /\ tokenLocks'[o] = tokenLocks[o] /\ userLocks'[o] = userLocks[o]

\* Tokens are never taken back, and whoever has locked one finds it as it was;
\* whoever has locked an account gets no good token of it put behind its back.
TokensMove(r) ==
    /\ TokenIds \subseteq TokenIds'
    /\ \A t \in TokenIds :
         /\ tokens'[t].user = tokens[t].user
         /\ tokens[t].revoked => tokens'[t].revoked
         /\ \A o \in Requests \ {r} : t \in tokenLocks[o] => tokens'[t] = tokens[t]
    /\ \A t \in TokenIds' \ TokenIds :
         \/ tokens'[t].revoked
         \/ \A o \in Requests \ {r} : <<tokens'[t].user, "update">> \notin userLocks[o]

\* A role is for good, whoever has locked an account finds it as it was, and no
\* account is deactivated while a session of it is renewed.
UsersMove(r) ==
    \A u \in Users :
        /\ users[u].role # "none" =>
             /\ users'[u].role = users[u].role
             /\ \A o \in Requests \ {r} :
                  <<u, "update">> \in userLocks[o] => users'[u] = users[u]
        /\ \A o \in Requests \ {r} :
             req[o].path \in Renewing /\ req[o].user = u /\ users[u].active => users'[u].active

(* What a request relies on, the steps of the others leave it.             *)
LEMMA OthersKeep ==
    ASSUME IInv, NEW r \in Requests, OthersStill(r), TokensMove(r), UsersMove(r),
           NEW o \in Requests, o # r
    PROVE  AtWork(o)'
<1>0. /\ AtWork(o) /\ req[o] \in Request
      /\ pc'[o] = pc[o] /\ req'[o] = req[o]
      /\ todo'[o] = todo[o] /\ spent'[o] = spent[o]
      /\ tokenLocks'[o] = tokenLocks[o] /\ userLocks'[o] = userLocks[o]
      /\ tokenLocks[o] \subseteq TokenIds /\ todo[o] \subseteq Users \cup TokenIds
  BY DEF IInv, OthersStill, RequestValues
<1>1. RestFits(o)'
  BY <1>0 DEF AtWork, RestFits
<1>2. OpFits(o)'
  BY <1>0 DEF AtWork, OpFits, TokensMove
<1>3. TokenFits(o)'
  <2>1. req[o].op = "refresh" => tokens'[req[o].tok] = tokens[req[o].tok]
    BY <1>0 DEF AtWork, TokenFits, TokensMove
  <2> QED
    BY <1>0, <2>1 DEF AtWork, TokenFits
<1>4. pc[o] \notin Resting => req[o].user \in Users
  BY <1>0 DEF AtWork, OpFits
<1>5. UserFits(o)'
  <2>1. req[o].op \in {"deactivate", "reset"} =>
           req[o].user \in Users /\ users[req[o].user].role # "none"
    <3>1. pc[o] \in Resting => req[o].op = "none"
      BY <1>0 DEF AtWork, RestFits, NoRequest
    <3> QED
      BY <1>0, <1>4, <3>1 DEF AtWork, UserFits
  <2>2. req[o].op \in {"deactivate", "reset"} => users'[req[o].user].role # "none"
    BY <2>1 DEF UsersMove
  <2> QED
    BY <1>0, <2>2 DEF AtWork, UserFits, Issues
<1>6. SweepFits(o)'
  <2> SUFFICES ASSUME req[o].op \in Managing, pc[o] \in {"sweep", "commit"},
                      NEW t \in TokenIds', tokens'[t].user = req[o].user
               PROVE  tokens'[t].revoked \/ t \in spent[o] \/ (pc[o] = "sweep" /\ t \in todo[o])
    BY <1>0 DEF SweepFits
  <2>1. CASE t \in TokenIds
    BY <1>0, <2>1 DEF TokensMove, AtWork, SweepFits
  <2>2. CASE t \notin TokenIds
    <3>1. <<req[o].user, "update">> \in userLocks[o]
      BY <1>0 DEF AtWork, UserFits
    <3> QED
      BY <2>2, <3>1 DEF TokensMove
  <2> QED
    BY <2>1, <2>2
<1>7. SeenFits(o)'
  <2> DEFINE u == req[o].user
  <2>1. ASSUME req[o].op \in {"deactivate", "reset"}, pc[o] \in {"sweep", "commit"}
        PROVE  users'[u] = users[u] /\ u \in Users
    BY <1>0, <1>4, <2>1 DEF AtWork, UserFits, UsersMove, Managing, Resting, Final
  <2>2. ASSUME req[o].path \in Renewing, req[o].seen PROVE users'[u].active
    <3>1. u \in Users
      BY <1>0, <1>4, <2>2 DEF AtWork, RestFits, NoRequest, Renewing
    <3> QED
      BY <1>0, <2>2, <3>1 DEF AtWork, SeenFits, UsersMove
  <2>3. ASSUME req[o].op = "deactivate", pc[o] \in {"sweep", "commit"}, users'[u].role = "admin"
        PROVE  \E v \in Users \ {u} : IsAdmin(v)' /\ <<v, "update">> \in userLocks[o]
    <3>1. users[u].role = "admin"
      BY <2>1, <2>3
    <3>2. PICK v \in Users \ {u} : IsAdmin(v) /\ <<v, "update">> \in userLocks[o]
      BY <1>0, <2>3, <3>1 DEF AtWork, SeenFits
    <3>3. users'[v] = users[v]
      BY <3>2 DEF IsAdmin, UsersMove
    <3> QED
      BY <3>2, <3>3 DEF IsAdmin
  <2> QED
    BY <1>0, <2>1, <2>2, <2>3 DEF AtWork, SeenFits
<1> QED
  BY <1>1, <1>2, <1>3, <1>5, <1>6, <1>7 DEF AtWork

(* So a step keeps the invariant if it moves the committed rows as it may  *)
(* and the request itself still fits.                                      *)
LEMMA RowsMoved ==
    ASSUME IInv, NEW r \in Requests, OthersStill(r), TokensMove(r), UsersMove(r),
           TableValues', RowsHold', RequestValues', AtWork(r)',
           \A o \in Requests \ {r} : Apart(r, o)' /\ Apart(o, r)'
    PROVE  IInv'
<1>1. \A o \in Requests : AtWork(o)'
  BY OthersKeep
<1>2. LocksApart'
  <2> SUFFICES ASSUME NEW p \in Requests, NEW o \in Requests, p # o PROVE Apart(p, o)'
    BY DEF LocksApart
  <2>1. CASE p = r \/ o = r
    BY <2>1
  <2>2. CASE p # r /\ o # r
    BY <2>2 DEF IInv, LocksApart, Apart, OthersStill
  <2> QED
    BY <2>1, <2>2
<1> QED
  BY <1>1, <1>2 DEF IInv

(* Above all if it leaves them alone.                                      *)
LEMMA RowsAlone ==
    ASSUME IInv, NEW r \in Requests, UNCHANGED <<users, tokens, clock>>, OthersStill(r),
           RequestValues', AtWork(r)', \A o \in Requests \ {r} : Apart(r, o)' /\ Apart(o, r)'
    PROVE  IInv'
<1>1. TableValues'
  BY DEF IInv, TableValues
<1>2. RowsHold'
  BY DEF IInv, RowsHold, SuccessorsHold, TokenIds, LiveChildren, AnAdminRemains, ActiveAdmins,
         IsAdmin, OthersPasswordMustChange
<1>3. TokensMove(r) /\ UsersMove(r)
  BY DEF TokensMove, UsersMove, TokenIds
<1> QED
  BY <1>1, <1>2, <1>3, RowsMoved

-----------------------------------------------------------------------------
(* Locks.                                                                  *)

(* Which modes conflict does not depend on who came first.                 *)
LEMMA ConflictIsMutual == \A m, n \in Modes : Conflict(m, n) <=> Conflict(n, m)
BY DEF Conflict, Modes

(* A request that drops its locks, or takes none, is apart from the others.*)
LEMMA ApartStays ==
    ASSUME IInv, NEW r \in Requests, OthersStill(r),
           tokenLocks'[r] \in {{}, tokenLocks[r]}, userLocks'[r] \in {{}, userLocks[r]}
    PROVE  \A o \in Requests \ {r} : Apart(r, o)' /\ Apart(o, r)'
<1>1. \A o \in Requests \ {r} : Apart(r, o) /\ Apart(o, r)
  BY DEF IInv, LocksApart
<1> QED
  BY <1>1 DEF Apart, OthersStill

(* So is one that locks tokens nobody else has locked.                     *)
LEMMA ApartByToken ==
    ASSUME IInv, NEW r \in Requests, OthersStill(r), NEW t \in TokenIds, TokenFree(r, t),
           tokenLocks'[r] = tokenLocks[r] \cup {t}, userLocks'[r] = userLocks[r]
    PROVE  \A o \in Requests \ {r} : Apart(r, o)' /\ Apart(o, r)'
<1>1. \A o \in Requests \ {r} : Apart(r, o) /\ Apart(o, r) /\ t \notin tokenLocks[o]
  BY DEF IInv, LocksApart, TokenFree, TokenHolders
<1> QED
  BY <1>1 DEF Apart, OthersStill

(* And one that locks accounts' rows nobody else has a conflicting lock of.*)
LEMMA ApartByUser ==
    ASSUME IInv, NEW r \in Requests, OthersStill(r), NEW m \in Modes, NEW S \in SUBSET Users,
           \A u \in S : UserFree(r, u, m),
           tokenLocks'[r] = tokenLocks[r], userLocks'[r] = userLocks[r] \cup S \X {m}
    PROVE  \A o \in Requests \ {r} : Apart(r, o)' /\ Apart(o, r)'
<1>1. \A o \in Requests \ {r} : Apart(r, o) /\ Apart(o, r)
  BY DEF IInv, LocksApart
<1>2. ASSUME NEW o \in Requests \ {r}, NEW u \in S, NEW n \in Modes, <<u, n>> \in userLocks[o]
      PROVE  ~Conflict(m, n) /\ ~Conflict(n, m)
  BY <1>2, ConflictIsMutual DEF UserFree, UserHolders
<1>3. \A u, n : <<u, n>> \in S \X {m} <=> u \in S /\ n = m
  OBVIOUS
<1> QED
  BY <1>1, <1>2, <1>3 DEF Apart, OthersStill

(* The locks of a request after it has locked an account's row.            *)
LEMMA UserLocked ==
    ASSUME RequestValues, NEW r \in Requests, NEW u \in Users, NEW m \in Modes, LockUser(r, u, m)
    PROVE  /\ userLocks' \in [Requests -> SUBSET (Users \X Modes)]
           /\ userLocks'[r] = userLocks[r] \cup {u} \X {m}
           /\ userLocks[r] \subseteq userLocks'[r] /\ <<u, m>> \in userLocks'[r]
           /\ \A o \in Requests \ {r} : userLocks'[o] = userLocks[o]
<1>1. userLocks' = [userLocks EXCEPT ![r] = @ \cup {<<u, m>>}]
  BY DEF LockUser
<1>2. {<<u, m>>} = {u} \X {m} /\ <<u, m>> \in Users \X Modes
  OBVIOUS
<1>3. userLocks \in [Requests -> SUBSET (Users \X Modes)]
  BY DEF RequestValues
<1>4. userLocks'[r] = userLocks[r] \cup {<<u, m>>}
  BY <1>1, <1>3
<1>5. userLocks[r] \cup {<<u, m>>} \in SUBSET (Users \X Modes)
  BY <1>2, <1>3
<1>6. userLocks' \in [Requests -> SUBSET (Users \X Modes)]
  BY <1>1, <1>3, <1>4, <1>5
<1> QED
  BY <1>1, <1>2, <1>3, <1>4, <1>6

(* Nobody else has a conflicting lock of a row that was free.              *)
LEMMA ApartByOneUser ==
    ASSUME IInv, NEW r \in Requests, OthersStill(r), NEW u \in Users, NEW m \in Modes,
           UserFree(r, u, m), LockUser(r, u, m), UNCHANGED tokenLocks
    PROVE  \A o \in Requests \ {r} : Apart(r, o)' /\ Apart(o, r)'
<1>0. RequestValues
  BY DEF IInv
<1>1. userLocks'[r] = userLocks[r] \cup {u} \X {m}
  <2>1. userLocks' = [userLocks EXCEPT ![r] = @ \cup {<<u, m>>}]
    BY DEF LockUser
  <2> QED
    BY <1>0, <2>1 DEF RequestValues
<1>2. {u} \in SUBSET Users /\ \A v \in {u} : UserFree(r, v, m)
  OBVIOUS
<1> QED
  BY <1>1, <1>2, ApartByUser

-----------------------------------------------------------------------------
(* Requests that arrive.                                                   *)

(* A handler starts with nothing but what it has read.                     *)
LEMMA Started ==
    ASSUME IInv, NEW r \in Requests, NEW next \in Pcs, NEW q \in Request, Start(r, next, q)
    PROVE  /\ todo[r] = {} /\ spent[r] = {} /\ tokenLocks[r] = {} /\ userLocks[r] = {}
           /\ pc' \in [Requests -> Pcs] /\ req' \in [Requests -> Request]
           /\ \A o \in Requests \ {r} : pc'[o] = pc[o] /\ req'[o] = req[o]
           /\ pc'[r] = next
           /\ req'[r].op = q.op /\ req'[r].user = q.user /\ req'[r].tok = q.tok
           /\ req'[r].path = q.path /\ req'[r].seen = q.seen /\ req'[r].role = q.role
<1>1. pc[r] \in Resting /\ AtWork(r)
  BY DEF Start, IInv, Resting
<1>2. todo[r] = {} /\ spent[r] = {} /\ tokenLocks[r] = {} /\ userLocks[r] = {}
  BY <1>1 DEF AtWork, RestFits
<1>3. /\ pc \in [Requests -> Pcs] /\ req \in [Requests -> Request]
      /\ clock \in 0..MaxClock
  BY DEF IInv, RequestValues, TableValues
<1>4. [q EXCEPT !.at = clock] \in Request
  BY <1>3 DEF Request
<1>5. pc' = [pc EXCEPT ![r] = next] /\ req' = [req EXCEPT ![r] = [q EXCEPT !.at = clock]]
  BY DEF Start
<1>6. req'[r] = [q EXCEPT !.at = clock]
  BY <1>3, <1>5
<1>7. /\ req'[r].op = q.op /\ req'[r].user = q.user /\ req'[r].tok = q.tok
      /\ req'[r].path = q.path /\ req'[r].seen = q.seen /\ req'[r].role = q.role
  BY <1>6 DEF Request
<1>8. pc' \in [Requests -> Pcs] /\ req' \in [Requests -> Request]
  BY <1>3, <1>4, <1>5
<1>9. pc'[r] = next /\ \A o \in Requests \ {r} : pc'[o] = pc[o] /\ req'[o] = req[o]
  BY <1>3, <1>5
<1> QED
  BY <1>2, <1>7, <1>8, <1>9

(* No request looks like one that asks for nothing.                        *)
LEMMA NothingAsked == NoRequest \in Request
BY AccountsAssumption DEF NoRequest, Request, Ops, Roles

(* The refresh holds the token's row, and knows the way it will go.        *)
LEMMA PresentKeeps ==
    ASSUME IInv, NEW r \in Requests, NEW t \in TokenIds, Present(r, t)
    PROVE  IInv'
<1> DEFINE path == PathOf(t)
           u == tokens[t].user
           q == [NoRequest EXCEPT !.op = "refresh", !.user = u, !.tok = t,
                                  !.path = path, !.seen = users[u].active]
           next == CASE path = "reuse" -> "sweep" [] path = "grace" -> "retire"
                      [] OTHER -> "insert"
<1>1. TableValues /\ RequestValues
  BY DEF IInv
<1>2. u \in Users /\ t \in Nat /\ users[u].active \in BOOLEAN
  BY <1>1, TokenFields, IdsOfTokens DEF TableValues, User
<1>3. path \in {"reuse", "rotate", "grace"}
  BY DEF PathOf
<1>4. /\ q \in Request
      /\ q.op = "refresh" /\ q.user = u /\ q.tok = t /\ q.path = path
      /\ q.seen = users[u].active
  <2>1. q \in Request
    <3>1. "refresh" \in Ops /\ u \in Nat
      BY <1>2, AccountsAssumption DEF Ops, Users
    <3>2. path \in {"none", "rotate", "grace", "reuse", "inactive"}
      BY <1>3
    <3> HIDE DEF u, path
    <3> QED
      BY <1>2, <3>1, <3>2, NothingAsked DEF Request
  <2> QED
    BY <2>1 DEF NoRequest
<1>5. /\ Start(r, next, q) /\ TokenFree(r, t) /\ LockToken(r, t)
      /\ path = "reuse" => StartSweep(r, u)
      /\ path # "reuse" => todo' = todo
      /\ UNCHANGED <<users, tokens, clock, spent, userLocks>>
  BY DEF Present
<1>6. next \in {"sweep", "retire", "insert"} /\ next \in Pcs
  BY DEF Pcs
<1> HIDE DEF q
<1>7. /\ todo[r] = {} /\ spent[r] = {} /\ tokenLocks[r] = {} /\ userLocks[r] = {}
      /\ pc' \in [Requests -> Pcs] /\ req' \in [Requests -> Request]
      /\ \A o \in Requests \ {r} : pc'[o] = pc[o] /\ req'[o] = req[o]
      /\ pc'[r] = next
      /\ req'[r].op = "refresh" /\ req'[r].user = u /\ req'[r].tok = t
      /\ req'[r].path = path /\ req'[r].seen = users[u].active
  BY <1>4, <1>5, <1>6, Started
<1>8. /\ tokenLocks' = [tokenLocks EXCEPT ![r] = {t}]
      /\ path = "reuse" => todo' = [todo EXCEPT ![r] = Unrevoked(r, u)]
      /\ Unrevoked(r, u) \subseteq TokenIds
  BY <1>1, <1>5, <1>7 DEF LockToken, StartSweep, RequestValues, Unrevoked
<1>9. /\ todo'[r] \subseteq TokenIds /\ spent'[r] = {} /\ tokenLocks'[r] = {t}
      /\ userLocks'[r] = userLocks[r]
  BY <1>1, <1>5, <1>7, <1>8 DEF RequestValues
<1>10. OthersStill(r)
  BY <1>1, <1>5, <1>7, <1>8 DEF OthersStill, RequestValues
<1>11. RequestValues'
  BY <1>1, <1>5, <1>7, <1>8 DEF RequestValues, TokenIds
<1>12. \A o \in Requests \ {r} : Apart(r, o)' /\ Apart(o, r)'
  BY <1>5, <1>7, <1>9, <1>10, ApartByToken
<1>13. AtWork(r)'
  <2>1. RestFits(r)' /\ UserFits(r)' /\ SweepFits(r)' /\ OpFits(r)'
    BY <1>2, <1>3, <1>5, <1>6, <1>7, <1>9
       DEF RestFits, UserFits, SweepFits, OpFits, Resting, Final, Managing, Renewing, TokenIds
  <2>2. TokenFits(r)'
    <3>1. /\ path # "reuse" => ~tokens[t].revoked
          /\ path = "grace" <=> ~tokens[t].revoked /\ tokens[t].succ # 0
                                /\ WithinReuseWindow(tokens[t].succ)
          /\ path = "rotate" => tokens[t].succ = 0
      BY DEF PathOf
    <3> HIDE DEF path
    <3>2. path # "reuse" /\ next # "retire" => path = "rotate"
      BY <1>3
    <3> QED
      BY <1>5, <1>7, <1>9, <3>1, <3>2 DEF TokenFits, Renewing
  <2>3. SeenFits(r)'
    BY <1>5, <1>6, <1>7 DEF SeenFits, Renewing
  <2> QED
    BY <2>1, <2>2, <2>3 DEF AtWork
<1> QED
  BY <1>5, <1>10, <1>11, <1>12, <1>13, RowsAlone

(* A sign-in, a change of password and the requests of an admin start      *)
(* without a lock.                                                         *)
LEMMA LockFreeStart ==
    ASSUME IInv, NEW r \in Requests, NEW next \in Pcs, NEW q \in Request, Start(r, next, q),
           \/ next = "admins" /\ q.op = "deactivate" /\ todo'[r] \subseteq Users
           \/ next = "target" /\ q.op \in {"reset", "resetRoot"}
           \/ next = "insert" /\ q.op = "login"
           \/ next = "sweep" /\ q.op = "change" /\ todo'[r] \subseteq TokenIds
           \/ next = "commit" /\ q.op \in {"create", "bootstrap"},
           q.user \in Users, q.path = "none", q.tok = 0,
           q.op \in {"deactivate", "reset"} => users[q.user].role # "none",
           \A o \in Requests \ {r} : todo'[o] = todo[o],
           todo' \in [Requests -> SUBSET (Users \cup TokenIds)],
           UNCHANGED <<users, tokens, clock, spent, locks>>
    PROVE  IInv'
<1>1. TableValues /\ RequestValues
  BY DEF IInv
<1>2. /\ todo[r] = {} /\ spent[r] = {} /\ tokenLocks[r] = {} /\ userLocks[r] = {}
      /\ pc' \in [Requests -> Pcs] /\ req' \in [Requests -> Request]
      /\ \A o \in Requests \ {r} : pc'[o] = pc[o] /\ req'[o] = req[o]
      /\ pc'[r] = next
      /\ req'[r].op = q.op /\ req'[r].user = q.user /\ req'[r].tok = q.tok
      /\ req'[r].path = q.path /\ req'[r].seen = q.seen /\ req'[r].role = q.role
  BY Started
<1>3. OthersStill(r)
  BY <1>2 DEF OthersStill, locks
<1>4. RequestValues'
  BY <1>1, <1>2 DEF RequestValues, TokenIds, locks
<1>5. \A o \in Requests \ {r} : Apart(r, o)' /\ Apart(o, r)'
  BY <1>3, ApartStays DEF locks
<1>6. RestFits(r)' /\ OpFits(r)'
  BY <1>2 DEF RestFits, OpFits, Resting, Final, Managing, TokenIds
<1>7. TokenFits(r)' /\ SweepFits(r)' /\ SeenFits(r)'
  BY <1>2 DEF TokenFits, SweepFits, SeenFits, Managing, Renewing, locks
<1>8. UserFits(r)'
  BY <1>2 DEF UserFits, Managing, Issues
<1> QED
  BY <1>3, <1>4, <1>5, <1>6, <1>7, <1>8, RowsAlone DEF AtWork

(* So they do.                                                             *)
LEMMA LockFreeKeeps ==
    ASSUME IInv, NEW r \in Requests,
           \/ \E u \in Users : Login(r, u) \/ ChangePassword(r, u) \/ ResetRoot(r, u) \/ Bootstrap(r, u)
           \/ \E a, u \in Users : Deactivate(r, a, u) \/ ResetPassword(r, a, u) \/ CreateUser(r, a, u)
    PROVE  IInv'
<1>0. /\ \A u \in Users : u \in Nat /\ users[u].mustChange \in BOOLEAN
      /\ todo \in [Requests -> SUBSET (Users \cup TokenIds)]
  BY AccountsAssumption DEF IInv, TableValues, RequestValues, User, Users
<1>1. ASSUME NEW u \in Users, Login(r, u) PROVE IInv'
  <2> DEFINE q == [NoRequest EXCEPT !.op = "login", !.user = u]
  <2>1. q \in Request /\ q.op = "login" /\ q.user = u /\ q.path = "none" /\ q.tok = 0
    BY <1>0, NothingAsked DEF Request, Ops, NoRequest
  <2>2. Start(r, "insert", q) /\ UNCHANGED <<users, tokens, clock, work, locks>>
    BY <1>1 DEF Login
  <2> HIDE DEF q
  <2> QED
    BY <1>0, <2>1, <2>2, LockFreeStart DEF work, Pcs
<1>2. ASSUME NEW u \in Users, ChangePassword(r, u) PROVE IInv'
  <2> DEFINE q == [NoRequest EXCEPT !.op = "change", !.user = u, !.seen = users[u].mustChange]
  <2>1. q \in Request /\ q.op = "change" /\ q.user = u /\ q.path = "none" /\ q.tok = 0
    BY <1>0, NothingAsked DEF Request, Ops, NoRequest
  <2>2. /\ Start(r, "sweep", q) /\ StartSweep(r, u)
        /\ UNCHANGED <<users, tokens, clock, spent, locks>>
    BY <1>2 DEF ChangePassword
  <2> HIDE DEF q
  <2>3. /\ todo' = [todo EXCEPT ![r] = Unrevoked(r, u)]
        /\ Unrevoked(r, u) \subseteq TokenIds
    BY <2>2 DEF StartSweep, Unrevoked
  <2>4. /\ todo' \in [Requests -> SUBSET (Users \cup TokenIds)]
        /\ todo'[r] \subseteq TokenIds /\ \A o \in Requests \ {r} : todo'[o] = todo[o]
    BY <1>0, <2>3
  <2> QED
    BY <2>1, <2>2, <2>4, LockFreeStart DEF Pcs
<1>3. ASSUME NEW u \in Users, ResetRoot(r, u) PROVE IInv'
  <2> DEFINE q == [NoRequest EXCEPT !.op = "resetRoot", !.user = u]
  <2>1. q \in Request /\ q.op = "resetRoot" /\ q.user = u /\ q.path = "none" /\ q.tok = 0
    BY <1>0, NothingAsked DEF Request, Ops, NoRequest
  <2>2. Start(r, "target", q) /\ UNCHANGED <<users, tokens, clock, work, locks>>
    BY <1>3 DEF ResetRoot
  <2> HIDE DEF q
  <2> QED
    BY <1>0, <2>1, <2>2, LockFreeStart DEF work, Pcs
<1>4. ASSUME NEW u \in Users, Bootstrap(r, u) PROVE IInv'
  <2> DEFINE q == [NoRequest EXCEPT !.op = "bootstrap", !.user = u, !.role = "admin"]
  <2>1. q \in Request /\ q.op = "bootstrap" /\ q.user = u /\ q.path = "none" /\ q.tok = 0
    BY <1>0, NothingAsked DEF Request, Ops, NoRequest, Roles
  <2>2. Start(r, "commit", q) /\ UNCHANGED <<users, tokens, clock, work, locks>>
    BY <1>4 DEF Bootstrap
  <2> HIDE DEF q
  <2> QED
    BY <1>0, <2>1, <2>2, LockFreeStart DEF work, Pcs
<1>5. ASSUME NEW a \in Users, NEW u \in Users, Deactivate(r, a, u) PROVE IInv'
  <2> DEFINE q == [NoRequest EXCEPT !.op = "deactivate", !.by = a, !.user = u]
  <2>1. q \in Request /\ q.op = "deactivate" /\ q.user = u /\ q.path = "none" /\ q.tok = 0
    BY <1>0, NothingAsked DEF Request, Ops, NoRequest
  <2>2. /\ Start(r, "admins", q) /\ users[u].role # "none"
        /\ todo' = [todo EXCEPT ![r] = ActiveAdmins]
        /\ UNCHANGED <<users, tokens, clock, spent, locks>>
    BY <1>5 DEF Deactivate
  <2> HIDE DEF q
  <2>3. /\ todo' \in [Requests -> SUBSET (Users \cup TokenIds)]
        /\ todo'[r] \subseteq Users /\ \A o \in Requests \ {r} : todo'[o] = todo[o]
    BY <1>0, <2>2 DEF ActiveAdmins
  <2> QED
    BY <2>1, <2>2, <2>3, LockFreeStart DEF Pcs
<1>6. ASSUME NEW a \in Users, NEW u \in Users, ResetPassword(r, a, u) PROVE IInv'
  <2> DEFINE q == [NoRequest EXCEPT !.op = "reset", !.by = a, !.user = u]
  <2>1. q \in Request /\ q.op = "reset" /\ q.user = u /\ q.path = "none" /\ q.tok = 0
    BY <1>0, NothingAsked DEF Request, Ops, NoRequest
  <2>2. /\ Start(r, "target", q) /\ users[u].role # "none"
        /\ UNCHANGED <<users, tokens, clock, work, locks>>
    BY <1>6 DEF ResetPassword
  <2> HIDE DEF q
  <2> QED
    BY <1>0, <2>1, <2>2, LockFreeStart DEF work, Pcs
<1>7. ASSUME NEW a \in Users, NEW u \in Users, CreateUser(r, a, u) PROVE IInv'
  <2>1. PICK role \in {"staff", "admin"} :
          Start(r, "commit", [NoRequest EXCEPT !.op = "create", !.by = a, !.user = u,
                                               !.role = role])
    BY <1>7 DEF CreateUser
  <2> DEFINE q == [NoRequest EXCEPT !.op = "create", !.by = a, !.user = u, !.role = role]
  <2>2. q \in Request /\ q.op = "create" /\ q.user = u /\ q.path = "none" /\ q.tok = 0
    BY <1>0, NothingAsked DEF Request, Ops, NoRequest, Roles
  <2>3. Start(r, "commit", q) /\ UNCHANGED <<users, tokens, clock, work, locks>>
    BY <1>7, <2>1 DEF CreateUser
  <2> HIDE DEF q
  <2> QED
    BY <1>0, <2>2, <2>3, LockFreeStart DEF work, Pcs
<1> QED
  BY <1>1, <1>2, <1>3, <1>4, <1>5, <1>6, <1>7

(* A request that ends forgets what it knew and drops its locks.           *)
LEMMA Ended ==
    ASSUME IInv, NEW r \in Requests, NEW result \in Final, End(r, result)
    PROVE  /\ pc'[r] = result /\ AtWork(r)'
           /\ OthersStill(r)
           /\ \A o \in Requests \ {r} : Apart(r, o)' /\ Apart(o, r)'
           /\ TokenIds \subseteq TokenIds' => RequestValues'
<1>1. RequestValues
  BY DEF IInv
<1>2. /\ pc' = [pc EXCEPT ![r] = result]
      /\ req' = [req EXCEPT ![r] = NoRequest]
      /\ todo' = [todo EXCEPT ![r] = {}]
      /\ spent' = [spent EXCEPT ![r] = {}]
      /\ tokenLocks' = [tokenLocks EXCEPT ![r] = {}]
      /\ userLocks' = [userLocks EXCEPT ![r] = {}]
  BY DEF End
<1>3. /\ pc'[r] = result /\ req'[r] = NoRequest
      /\ todo'[r] = {} /\ spent'[r] = {} /\ tokenLocks'[r] = {} /\ userLocks'[r] = {}
  BY <1>1, <1>2 DEF RequestValues
<1>4. AtWork(r)'
  BY <1>3 DEF AtWork, RestFits, OpFits, TokenFits, UserFits, SweepFits, SeenFits, NoRequest,
              Resting, Final, Managing, Renewing, Issues
<1>5. OthersStill(r)
  BY <1>1, <1>2 DEF OthersStill, RequestValues
<1>6. \A o \in Requests \ {r} : Apart(r, o)' /\ Apart(o, r)'
  BY <1>3, <1>5, ApartStays
<1>7. ASSUME TokenIds \subseteq TokenIds' PROVE RequestValues'
  <2>1. pc' \in [Requests -> Pcs] /\ req' \in [Requests -> Request]
    BY <1>1, <1>2, NothingAsked DEF RequestValues, Pcs
  <2>2. /\ todo' \in [Requests -> SUBSET (Users \cup TokenIds)]
        /\ spent' \in [Requests -> SUBSET TokenIds]
        /\ tokenLocks' \in [Requests -> SUBSET TokenIds]
        /\ userLocks' \in [Requests -> SUBSET (Users \X Modes)]
    BY <1>1, <1>2 DEF RequestValues
  <2> HIDE DEF TokenIds
  <2> QED
    BY <1>7, <2>1, <2>2 DEF RequestValues
<1> QED
  BY <1>3, <1>4, <1>5, <1>6, <1>7

(* An end that leaves the rows alone: refused, cancelled or nothing to do. *)
LEMMA EndKeeps ==
    ASSUME IInv, NEW r \in Requests, NEW result \in Final, End(r, result),
           UNCHANGED <<users, tokens, clock>>
    PROVE  IInv'
<1>1. TokenIds \subseteq TokenIds'
  BY DEF TokenIds
<1> QED
  BY <1>1, Ended, RowsAlone

(* An expired token is turned down.                                        *)
LEMMA ExpiredKeeps ==
    ASSUME IInv, NEW r \in Requests, NEW t \in TokenIds, PresentExpired(r, t)
    PROVE  IInv'
<1>1. RequestValues /\ AtWork(r) /\ pc[r] = "idle"
  BY DEF IInv, PresentExpired
<1>2. /\ req[r] = NoRequest
      /\ todo[r] = {} /\ spent[r] = {} /\ tokenLocks[r] = {} /\ userLocks[r] = {}
  BY <1>1 DEF AtWork, RestFits, Resting
<1>3. /\ pc' = [pc EXCEPT ![r] = "refused"]
      /\ UNCHANGED <<users, tokens, clock, req, todo, spent, tokenLocks, userLocks>>
  BY DEF PresentExpired, work, locks
<1>4. AtWork(r)'
  BY <1>1, <1>2, <1>3 DEF AtWork, RestFits, OpFits, TokenFits, UserFits, SweepFits, SeenFits,
        NoRequest, Resting, Final, Managing, Renewing, Issues, RequestValues
<1>5. OthersStill(r) /\ RequestValues'
  BY <1>1, <1>3 DEF OthersStill, RequestValues, Pcs, Final, TokenIds
<1> QED
  BY <1>3, <1>4, <1>5, ApartStays, RowsAlone

-----------------------------------------------------------------------------
(* Requests that go on.                                                    *)

(* The sweep locks a token and revokes it, unless that was done meanwhile. *)
LEMMA SweepRowKeeps ==
    ASSUME IInv, NEW r \in Requests, SweepRow(r)
    PROVE  IInv'
<1>1. TableValues /\ RequestValues /\ AtWork(r) /\ pc[r] = "sweep"
  BY DEF IInv, SweepRow
<1>2. PICK t \in todo[r] :
        /\ TokenFree(r, t)
        /\ LockToken(r, t)
        /\ spent' = [spent EXCEPT ![r] = IF tokens[t].revoked THEN @ ELSE @ \cup {t}]
        /\ todo' = [todo EXCEPT ![r] = @ \ {t}]
  BY DEF SweepRow
<1>3. UNCHANGED <<users, tokens, clock, pc, req, userLocks>>
  BY DEF SweepRow
<1>4. t \in TokenIds
  BY <1>1 DEF AtWork, OpFits
<1>5. /\ tokenLocks'[r] = tokenLocks[r] \cup {t}
      /\ spent'[r] = IF tokens[t].revoked THEN spent[r] ELSE spent[r] \cup {t}
      /\ todo'[r] = todo[r] \ {t}
  BY <1>1, <1>2 DEF LockToken, RequestValues
<1>6. OthersStill(r)
  BY <1>1, <1>2, <1>3 DEF OthersStill, LockToken, RequestValues
<1>7. RequestValues'
  BY <1>1, <1>2, <1>3, <1>4 DEF RequestValues, LockToken, TokenIds
<1>8. \A o \in Requests \ {r} : Apart(r, o)' /\ Apart(o, r)'
  BY <1>2, <1>3, <1>4, <1>5, <1>6, ApartByToken
<1>9. RestFits(r)' /\ OpFits(r)' /\ UserFits(r)' /\ SeenFits(r)'
  BY <1>1, <1>3, <1>5
     DEF AtWork, RestFits, OpFits, UserFits, SeenFits, IsAdmin, Resting, Final, TokenIds
<1>10. TokenFits(r)' /\ SweepFits(r)'
  BY <1>1, <1>3, <1>5 DEF AtWork, TokenFits, SweepFits, TokenIds
<1> QED
  BY <1>3, <1>6, <1>7, <1>8, <1>9, <1>10, RowsAlone DEF AtWork

(* Then the change of a password goes on to the user's row.                *)
LEMMA SweepDoneKeeps ==
    ASSUME IInv, NEW r \in Requests, SweepDone(r)
    PROVE  IInv'
<1>1. RequestValues /\ AtWork(r) /\ pc[r] = "sweep" /\ todo[r] = {}
  BY DEF IInv, SweepDone
<1>2. /\ pc' = [pc EXCEPT ![r] = IF req[r].op = "change" THEN "update" ELSE "commit"]
      /\ UNCHANGED <<users, tokens, clock, req, todo, spent, tokenLocks, userLocks>>
  BY DEF SweepDone, Go, work, locks
<1>3. pc'[r] = IF req[r].op = "change" THEN "update" ELSE "commit"
  BY <1>1, <1>2 DEF RequestValues
<1>4. OthersStill(r) /\ RequestValues'
  BY <1>1, <1>2 DEF OthersStill, RequestValues, Pcs, TokenIds
<1>5. RestFits(r)' /\ OpFits(r)' /\ TokenFits(r)'
  BY <1>1, <1>2, <1>3
     DEF AtWork, RestFits, OpFits, TokenFits, Resting, Final, Managing, Renewing, TokenIds
<1>6. UserFits(r)'
  <2>1. Issues(req[r]) /\ req[r].op # "change" => req[r].path = "inactive"
    BY <1>1 DEF AtWork, OpFits, Issues, Managing
  <2>2. UserFits(r)
    BY <1>1 DEF AtWork
  <2>3. /\ pc'[r] = "commit" => req[r].op # "change"
        /\ pc'[r] \in {"commit", "update"}
    BY <1>3
  <2> QED
    BY <1>1, <1>2, <2>1, <2>2, <2>3 DEF UserFits, Issues, Managing
<1>7. SweepFits(r)' /\ SeenFits(r)'
  BY <1>1, <1>2, <1>3
     DEF AtWork, OpFits, SweepFits, SeenFits, IsAdmin, Managing, Renewing, Resting, Final, TokenIds
<1> QED
  BY <1>2, <1>4, <1>5, <1>6, <1>7, ApartStays, RowsAlone DEF AtWork

(* The successor nobody received is locked and given up with its token.    *)
LEMMA RetireKeeps ==
    ASSUME IInv, NEW r \in Requests, Retire(r)
    PROVE  IInv'
<1> DEFINE t == req[r].tok
           s == tokens[t].succ
<1>1. TableValues /\ RequestValues /\ AtWork(r) /\ SuccessorsHold /\ pc[r] = "retire"
  BY DEF IInv, RowsHold, Retire
<1>2. /\ TokenFree(r, s)
      /\ tokenLocks' = [tokenLocks EXCEPT ![r] = @ \cup {s}]
      /\ spent' = [spent EXCEPT ![r] = {t, s}]
      /\ pc' = [pc EXCEPT ![r] = "insert"]
      /\ UNCHANGED <<users, tokens, clock, req, todo, userLocks>>
  BY DEF Retire, LockToken, Go
<1>3. req[r].op = "refresh" /\ req[r].path = "grace"
  BY <1>1 DEF AtWork, OpFits
<1>4. t \in tokenLocks[r] /\ t \in TokenIds /\ s # 0
  BY <1>1, <1>3 DEF AtWork, TokenFits, RequestValues
<1>5. s \in TokenIds
  BY <1>1, <1>4, IdsOfTokens DEF SuccessorsHold
<1>6. /\ tokenLocks'[r] = tokenLocks[r] \cup {s} /\ spent'[r] = {t, s}
      /\ pc'[r] = "insert"
  BY <1>1, <1>2 DEF RequestValues
<1>7. OthersStill(r) /\ RequestValues'
  BY <1>1, <1>2, <1>4, <1>5 DEF OthersStill, RequestValues, Pcs, TokenIds
<1>8. \A o \in Requests \ {r} : Apart(r, o)' /\ Apart(o, r)'
  BY <1>2, <1>5, <1>6, <1>7, ApartByToken
<1>9. RestFits(r)' /\ OpFits(r)' /\ UserFits(r)' /\ SweepFits(r)' /\ SeenFits(r)'
  BY <1>1, <1>2, <1>3, <1>6
     DEF AtWork, RestFits, OpFits, UserFits, SweepFits, SeenFits, Resting, Final, Managing,
         Renewing, TokenIds
<1>10. TokenFits(r)'
  BY <1>1, <1>2, <1>3, <1>4, <1>6 DEF AtWork, TokenFits, Renewing
<1> QED
  BY <1>2, <1>7, <1>8, <1>9, <1>10, RowsAlone DEF AtWork

(* The INSERT locks the row of the user, and is the end of the session of  *)
(* an inactive one.                                                        *)
LEMMA IssueKeeps ==
    ASSUME IInv, NEW r \in Requests, Issue(r)
    PROVE  IInv'
<1> DEFINE u == req[r].user
<1>1. TableValues /\ RequestValues /\ AtWork(r) /\ pc[r] = "insert"
  BY DEF IInv, Issue
<1>2. u \in Users
  BY <1>1 DEF AtWork, OpFits, Resting, Final
<1>3. /\ UserFree(r, u, "key share") /\ LockUser(r, u, "key share")
      /\ UNCHANGED <<users, tokens, clock, spent, tokenLocks>>
      /\ "key share" \in Modes
  BY DEF Issue, Modes
<1> HIDE DEF u
<1>4. /\ userLocks' \in [Requests -> SUBSET (Users \X Modes)]
      /\ userLocks'[r] = userLocks[r] \cup {u} \X {"key share"}
      /\ userLocks[r] \subseteq userLocks'[r] /\ <<u, "key share">> \in userLocks'[r]
      /\ \A o \in Requests \ {r} : userLocks'[o] = userLocks[o]
  BY <1>1, <1>2, <1>3, UserLocked
<1>5. ASSUME OthersStill(r) PROVE \A o \in Requests \ {r} : Apart(r, o)' /\ Apart(o, r)'
  BY <1>2, <1>3, <1>5, ApartByOneUser
<1> USE DEF u
<1>6. CASE MayRenew(r)
  <2>1. pc' = [pc EXCEPT ![r] = "commit"] /\ req' = req /\ todo' = todo
    BY <1>6 DEF Issue, Go
  <2>2. pc'[r] = "commit"
    BY <1>1, <2>1 DEF RequestValues
  <2>3. OthersStill(r) /\ RequestValues'
    BY <1>1, <1>3, <1>4, <2>1 DEF OthersStill, RequestValues, Pcs, TokenIds
  <2>4. RestFits(r)' /\ OpFits(r)' /\ TokenFits(r)'
    BY <1>1, <1>3, <2>1, <2>2
       DEF AtWork, RestFits, OpFits, TokenFits, Resting, Final, Managing, Renewing, TokenIds
  <2>5. UserFits(r)' /\ SweepFits(r)'
    BY <1>1, <1>3, <1>4, <2>1, <2>2 DEF AtWork, OpFits, UserFits, SweepFits, Issues, Managing
  <2>6. SeenFits(r)'
    BY <1>1, <1>3, <1>6, <2>1, <2>2 DEF AtWork, OpFits, SeenFits, MayRenew, Renewing
  <2> QED
    BY <1>3, <1>5, <2>3, <2>4, <2>5, <2>6, RowsAlone DEF AtWork
<1>7. CASE ~MayRenew(r)
  <2>1. /\ pc' = [pc EXCEPT ![r] = "sweep"]
        /\ req' = [req EXCEPT ![r].path = "inactive"]
        /\ todo' = [todo EXCEPT ![r] = Unrevoked(r, u)]
        /\ req[r].op = "refresh"
    BY <1>7 DEF Issue, StartSweep, MayRenew
  <2>2. /\ pc'[r] = "sweep" /\ req'[r].path = "inactive"
        /\ req'[r].op = req[r].op /\ req'[r].user = u /\ req'[r].tok = req[r].tok
        /\ req'[r] \in Request
        /\ todo'[r] \subseteq TokenIds
    BY <1>1, <2>1 DEF RequestValues, Request, Unrevoked
  <2>3. OthersStill(r)
    BY <1>1, <1>3, <1>4, <2>1 DEF OthersStill, RequestValues
  <2>4. RequestValues'
    <3>1. req' = [req EXCEPT ![r] = req'[r]]
      BY <1>1, <2>1 DEF RequestValues
    <3>2. req' \in [Requests -> Request]
      BY <1>1, <2>2, <3>1 DEF RequestValues
    <3> QED
      BY <1>1, <1>3, <1>4, <2>1, <3>2 DEF RequestValues, Unrevoked, Pcs, TokenIds
  <2>5. RestFits(r)' /\ OpFits(r)'
    BY <1>1, <1>2, <1>3, <2>1, <2>2
       DEF AtWork, RestFits, OpFits, Resting, Final, Managing, Renewing, TokenIds
  <2>6. TokenFits(r)'
    BY <1>1, <1>3, <2>1, <2>2 DEF AtWork, OpFits, TokenFits, Renewing
  <2>7. UserFits(r)' /\ SweepFits(r)' /\ SeenFits(r)'
    BY <1>4, <2>1, <2>2 DEF UserFits, SweepFits, SeenFits, Issues, Managing, Renewing
  <2> QED
    BY <1>3, <1>5, <2>3, <2>4, <2>5, <2>6, <2>7, RowsAlone DEF AtWork
<1> QED
  BY <1>6, <1>7

(* The change of a password locks the user's row.                          *)
LEMMA UpdateUserKeeps ==
    ASSUME IInv, NEW r \in Requests, UpdateUser(r)
    PROVE  IInv'
<1> DEFINE u == req[r].user
<1>1. RequestValues /\ AtWork(r) /\ pc[r] = "update"
  BY DEF IInv, UpdateUser
<1>2. u \in Users /\ req[r].op = "change"
  BY <1>1 DEF AtWork, OpFits, Resting, Final
<1>3. /\ UserFree(r, u, "no key update") /\ LockUser(r, u, "no key update")
      /\ pc' = [pc EXCEPT ![r] = "insert"]
      /\ UNCHANGED <<users, tokens, clock, req, todo, spent, tokenLocks>>
      /\ "no key update" \in Modes
  BY DEF UpdateUser, Go, work, Modes
<1> HIDE DEF u
<1>4. /\ userLocks' \in [Requests -> SUBSET (Users \X Modes)]
      /\ userLocks'[r] = userLocks[r] \cup {u} \X {"no key update"}
      /\ userLocks[r] \subseteq userLocks'[r] /\ <<u, "no key update">> \in userLocks'[r]
      /\ \A o \in Requests \ {r} : userLocks'[o] = userLocks[o]
      /\ pc'[r] = "insert"
  <2>1. pc'[r] = "insert"
    BY <1>1, <1>3 DEF RequestValues
  <2>2. RequestValues /\ u \in Users /\ "no key update" \in Modes
        /\ LockUser(r, u, "no key update")
    BY <1>1, <1>2, <1>3
  <2>3. /\ userLocks' \in [Requests -> SUBSET (Users \X Modes)]
        /\ userLocks'[r] = userLocks[r] \cup {u} \X {"no key update"}
        /\ userLocks[r] \subseteq userLocks'[r] /\ <<u, "no key update">> \in userLocks'[r]
        /\ \A o \in Requests \ {r} : userLocks'[o] = userLocks[o]
    BY <2>2, UserLocked
  <2> QED
    BY <2>1, <2>3
<1>5. OthersStill(r) /\ RequestValues'
  BY <1>1, <1>3, <1>4 DEF OthersStill, RequestValues, Pcs, TokenIds
<1>6. \A o \in Requests \ {r} : Apart(r, o)' /\ Apart(o, r)'
  BY <1>2, <1>3, <1>5, ApartByOneUser
<1> USE DEF u
<1>7. RestFits(r)' /\ OpFits(r)' /\ TokenFits(r)'
  BY <1>1, <1>2, <1>3, <1>4 DEF AtWork, RestFits, OpFits, TokenFits, Resting, Final, Managing
<1>8. UserFits(r)' /\ SweepFits(r)' /\ SeenFits(r)'
  BY <1>1, <1>2, <1>3, <1>4 DEF AtWork, OpFits, UserFits, SweepFits, SeenFits, Managing, Renewing
<1> QED
  BY <1>3, <1>5, <1>6, <1>7, <1>8, RowsAlone DEF AtWork

(* lock_active_admins locks one admin more, or has them all.               *)
LEMMA LockAdminKeeps ==
    ASSUME IInv, NEW r \in Requests, LockAdmin(r)
    PROVE  IInv'
<1>1. RequestValues /\ AtWork(r) /\ pc[r] = "admins"
  BY DEF IInv, LockAdmin
<1>2. req[r].op = "deactivate" /\ todo[r] \subseteq Users
  BY <1>1 DEF AtWork, OpFits
<1>3. CASE todo[r] = {}
  <2>1. /\ pc' = [pc EXCEPT ![r] = "target"]
        /\ UNCHANGED <<users, tokens, clock, req, todo, spent, tokenLocks, userLocks>>
    BY <1>3 DEF LockAdmin, Go
  <2>2. pc'[r] = "target"
    BY <1>1, <2>1 DEF RequestValues
  <2>3. OthersStill(r) /\ RequestValues'
    BY <1>1, <2>1 DEF OthersStill, RequestValues, Pcs, TokenIds
  <2>4. RestFits(r)' /\ OpFits(r)' /\ TokenFits(r)'
    BY <1>1, <1>2, <2>1, <2>2
       DEF AtWork, RestFits, OpFits, TokenFits, Resting, Final, Managing
  <2>5. UserFits(r)' /\ SweepFits(r)' /\ SeenFits(r)'
    BY <1>1, <1>2, <2>1, <2>2 DEF AtWork, UserFits, SweepFits, SeenFits, Issues
  <2> QED
    BY <2>1, <2>3, <2>4, <2>5, ApartStays, RowsAlone DEF AtWork
<1>4. CASE todo[r] # {}
  <2> DEFINE u == FirstUser(r)
  <2>1. u \in todo[r] /\ u \in Users
    BY <1>2, <1>4, FirstUserLocked
  <2>2. /\ UserFree(r, u, "update") /\ LockUser(r, u, "update")
        /\ todo' = [todo EXCEPT ![r] = @ \ {u}]
        /\ UNCHANGED <<users, tokens, clock, pc, req, spent, tokenLocks>>
        /\ "update" \in Modes
    BY <1>4 DEF LockAdmin, Modes
  <2> HIDE DEF u
  <2>3. /\ userLocks' \in [Requests -> SUBSET (Users \X Modes)]
        /\ userLocks[r] \subseteq userLocks'[r]
        /\ \A o \in Requests \ {r} : userLocks'[o] = userLocks[o]
    BY <1>1, <2>1, <2>2, UserLocked
  <2>4. todo'[r] = todo[r] \ {u}
    BY <1>1, <2>2 DEF RequestValues
  <2>5. OthersStill(r) /\ RequestValues'
    BY <1>1, <2>2, <2>3 DEF OthersStill, RequestValues, TokenIds
  <2>6. \A o \in Requests \ {r} : Apart(r, o)' /\ Apart(o, r)'
    BY <2>1, <2>2, <2>5, ApartByOneUser
  <2>7. RestFits(r)' /\ OpFits(r)' /\ TokenFits(r)'
    BY <1>1, <1>2, <2>2, <2>4
       DEF AtWork, RestFits, OpFits, TokenFits, Resting, Final, Managing
  <2>8. UserFits(r)' /\ SweepFits(r)' /\ SeenFits(r)'
    BY <1>1, <1>2, <2>2, <2>3 DEF AtWork, UserFits, SweepFits, SeenFits, Issues
  <2> QED
    BY <2>2, <2>5, <2>6, <2>7, <2>8, RowsAlone DEF AtWork
<1> QED
  BY <1>3, <1>4

(* The target's row is locked when the rules look at it, and what they saw *)
(* of it holds from then on.                                               *)
LEMMA TargetKeeps ==
    ASSUME IInv, NEW r \in Requests, Target(r)
    PROVE  IInv'
<1> DEFINE u == req[r].user
<1>1. TableValues /\ RequestValues /\ AtWork(r) /\ pc[r] = "target"
  BY DEF IInv, Target
<1>2. u \in Users /\ req[r].op \in Managing
  BY <1>1 DEF AtWork, OpFits, Resting, Final
<1>3. UNCHANGED <<users, tokens, clock>> /\ UserFree(r, u, "update") /\ "update" \in Modes
  BY DEF Target, Modes
<1>4. CASE \E result \in Final : End(r, result)
  BY <1>3, <1>4, EndKeeps
<1>5. CASE ~\E result \in Final : End(r, result)
  <2>1. /\ LockUser(r, u, "update")
        /\ req' = [req EXCEPT ![r].seen = users[u].mustChange]
        /\ \/ /\ req[r].op = "deactivate" /\ users[u].role = "admin"
              /\ pc' = [pc EXCEPT ![r] = "others"] /\ todo' = todo
           \/ /\ ~(req[r].op = "deactivate" /\ users[u].role = "admin")
              /\ pc' = [pc EXCEPT ![r] = "sweep"] /\ StartSweep(r, u)
        /\ UNCHANGED <<spent, tokenLocks>>
    BY <1>5 DEF Target, Final
  <2>2. Unrevoked(r, u) \subseteq TokenIds
    BY DEF Unrevoked
  <2>3. \/ /\ req[r].op = "deactivate" /\ users[u].role = "admin"
           /\ pc'[r] = "others"
        \/ /\ ~(req[r].op = "deactivate" /\ users[u].role = "admin")
           /\ pc'[r] = "sweep" /\ todo'[r] = Unrevoked(r, u)
    BY <1>1, <2>1 DEF RequestValues, StartSweep
  <2>4. /\ req'[r].seen = users[u].mustChange
        /\ req'[r].op = req[r].op /\ req'[r].user = u /\ req'[r].tok = req[r].tok
        /\ req'[r].path = req[r].path /\ req'[r] \in Request
    <3>1. users[u].mustChange \in BOOLEAN
      BY <1>1, <1>2 DEF TableValues, User
    <3>2. req[r] \in Request /\ req'[r] = [req[r] EXCEPT !.seen = users[u].mustChange]
      BY <1>1, <2>1 DEF RequestValues
    <3> HIDE DEF u
    <3> QED
      BY <3>1, <3>2 DEF Request, u
  <2>5. /\ userLocks' \in [Requests -> SUBSET (Users \X Modes)]
        /\ userLocks[r] \subseteq userLocks'[r] /\ <<u, "update">> \in userLocks'[r]
        /\ \A o \in Requests \ {r} : userLocks'[o] = userLocks[o]
    <3> HIDE DEF u
    <3> QED
      BY <1>1, <1>2, <1>3, <2>1, UserLocked
  <2>6. /\ pc' \in [Requests -> Pcs] /\ todo' \in [Requests -> SUBSET (Users \cup TokenIds)]
        /\ \A o \in Requests \ {r} : pc'[o] = pc[o] /\ todo'[o] = todo[o] /\ req'[o] = req[o]
    BY <1>1, <2>1, <2>2 DEF RequestValues, Pcs, StartSweep
  <2>7. req' \in [Requests -> Request]
    <3>1. req' = [req EXCEPT ![r] = req'[r]]
      BY <1>1, <2>1 DEF RequestValues
    <3> QED
      BY <1>1, <2>4, <3>1 DEF RequestValues
  <2>8. OthersStill(r) /\ RequestValues'
    BY <1>1, <1>3, <2>1, <2>5, <2>6, <2>7 DEF OthersStill, RequestValues, TokenIds
  <2>9. \A o \in Requests \ {r} : Apart(r, o)' /\ Apart(o, r)'
    <3> HIDE DEF u
    <3> QED
      BY <1>2, <1>3, <2>1, <2>8, ApartByOneUser
  <2>10. RestFits(r)' /\ OpFits(r)'
    BY <1>1, <1>2, <1>3, <2>2, <2>3, <2>4
       DEF AtWork, RestFits, OpFits, Resting, Final, Managing, TokenIds
  <2>11. TokenFits(r)'
    BY <1>1, <1>2, <1>3, <2>1, <2>4 DEF AtWork, TokenFits, Managing
  <2>12. req[r].path = "none"
    BY <1>1, <1>2 DEF AtWork, OpFits, Managing
  <2>13. UserFits(r)'
    BY <1>1, <1>2, <1>3, <2>3, <2>4, <2>5, <2>12 DEF AtWork, UserFits, Managing
  <2>14. SweepFits(r)'
    <3>1. ASSUME NEW t \in TokenIds, tokens[t].user = u, pc'[r] = "sweep"
          PROVE  tokens[t].revoked \/ t \in spent[r] \/ t \in todo'[r]
      BY <2>3, <3>1 DEF Unrevoked
    <3> QED
      BY <1>3, <2>1, <2>3, <2>4, <3>1 DEF SweepFits, TokenIds
  <2>15. SeenFits(r)'
    BY <1>3, <2>3, <2>4, <2>12 DEF SeenFits, Renewing
  <2> QED
    BY <1>3, <2>8, <2>9, <2>10, <2>11, <2>13, <2>14, <2>15, RowsAlone DEF AtWork
<1> QED
  BY <1>4, <1>5

(* The other active admins are locked together, and one of them remains.   *)
LEMMA CountOthersKeeps ==
    ASSUME IInv, NEW r \in Requests, CountOthers(r)
    PROVE  IInv'
<1> DEFINE u == req[r].user
           S == OtherAdmins(r)
<1>1. TableValues /\ RequestValues /\ AtWork(r) /\ pc[r] = "others"
  BY DEF IInv, CountOthers
<1>2. u \in Users /\ req[r].op = "deactivate" /\ req[r].path = "none"
  BY <1>1 DEF AtWork, OpFits, Resting, Final
<1>3. /\ UNCHANGED <<users, tokens, clock>> /\ "update" \in Modes
      /\ \A v \in S : UserFree(r, v, "update") /\ v \in Users \ {u} /\ IsAdmin(v)
  BY DEF CountOthers, Modes, OtherAdmins, ActiveAdmins
<1>4. CASE S = {}
  <2>1. End(r, "refused") /\ "refused" \in Final
    BY <1>4 DEF CountOthers, Final
  <2> QED
    BY <1>3, <2>1, EndKeeps
<1>5. CASE S # {}
  <2>1. /\ userLocks' = [userLocks EXCEPT ![r] = @ \cup S \X {"update"}]
        /\ todo' = [todo EXCEPT ![r] = Unrevoked(r, u)]
        /\ pc' = [pc EXCEPT ![r] = "sweep"]
        /\ UNCHANGED <<req, spent, tokenLocks>>
    BY <1>5 DEF CountOthers, Go, StartSweep
  <2>2. /\ S \X {"update"} \subseteq Users \X Modes
        /\ S \in SUBSET Users
        /\ Unrevoked(r, u) \subseteq TokenIds
    BY <1>3 DEF Unrevoked
  <2> HIDE DEF S
  <2>3. /\ pc'[r] = "sweep" /\ todo'[r] = Unrevoked(r, u)
        /\ userLocks'[r] = userLocks[r] \cup S \X {"update"}
    BY <1>1, <2>1 DEF RequestValues
  <2>4. userLocks' \in [Requests -> SUBSET (Users \X Modes)]
    <3>1. userLocks'[r] \in SUBSET (Users \X Modes)
      BY <1>1, <2>2, <2>3 DEF RequestValues
    <3>2. userLocks' = [userLocks EXCEPT ![r] = userLocks'[r]]
      BY <1>1, <2>1 DEF RequestValues
    <3> QED
      BY <1>1, <3>1, <3>2 DEF RequestValues
  <2>5. OthersStill(r) /\ RequestValues'
    <3>1. OthersStill(r)
      BY <1>1, <2>1 DEF OthersStill, RequestValues
    <3>2. RequestValues'
      BY <1>1, <1>3, <2>1, <2>2, <2>4 DEF RequestValues, TokenIds, Pcs
    <3> QED
      BY <3>1, <3>2
  <2>6. \A o \in Requests \ {r} : Apart(r, o)' /\ Apart(o, r)'
    BY <1>3, <2>1, <2>2, <2>3, <2>5, ApartByUser
  <2>7. RestFits(r)' /\ OpFits(r)' /\ TokenFits(r)'
    BY <1>1, <1>2, <1>3, <2>1, <2>2, <2>3
       DEF AtWork, RestFits, OpFits, TokenFits, Resting, Final, Managing, TokenIds
  <2>8. UserFits(r)'
    BY <1>1, <1>2, <1>3, <2>1, <2>3 DEF AtWork, UserFits, Managing
  <2>9. SweepFits(r)'
    <3>1. ASSUME NEW t \in TokenIds, tokens[t].user = u
          PROVE  tokens[t].revoked \/ t \in spent[r] \/ t \in todo'[r]
      BY <2>3, <3>1 DEF Unrevoked
    <3> QED
      BY <1>3, <2>1, <2>3, <3>1 DEF SweepFits, TokenIds
  <2>10. SeenFits(r)'
    <3>1. PICK v \in S : TRUE
      BY <1>5
    <3>2. v \in Users \ {u} /\ IsAdmin(v)' /\ <<v, "update">> \in userLocks'[r]
      BY <1>3, <2>3, <3>1 DEF IsAdmin
    <3> QED
      BY <1>2, <2>1, <2>3, <3>2 DEF SeenFits, Renewing
  <2> QED
    BY <1>3, <2>5, <2>6, <2>7, <2>8, <2>9, <2>10, RowsAlone DEF AtWork
<1> QED
  BY <1>4, <1>5

-----------------------------------------------------------------------------
(* COMMIT.                                                                 *)

\* The tokens of before, with what the request revoked and exchanged.
Kept(r) ==
    [t \in TokenIds |->
        [tokens[t] EXCEPT
            !.revoked = @ \/ t \in spent[r],
            !.succ = IF t = req[r].tok /\ Issued(r) # <<>> THEN Len(tokens) + 1 ELSE @]]

(* They are the tokens there were, one by one.                             *)
LEMMA KeptTokens ==
    ASSUME TableValues, NEW r \in Requests
    PROVE  /\ Kept(r) \in Seq(Token) /\ Len(Kept(r)) = Len(tokens)
           /\ \A t \in TokenIds :
                /\ Kept(r)[t].user = tokens[t].user /\ Kept(r)[t].parent = tokens[t].parent
                /\ Kept(r)[t].revoked <=> tokens[t].revoked \/ t \in spent[r]
                /\ Kept(r)[t].succ = IF t = req[r].tok /\ Issues(req[r])
                                       THEN Len(tokens) + 1 ELSE tokens[t].succ
                /\ t \notin spent[r] /\ ~(t = req[r].tok /\ Issues(req[r])) =>
                     Kept(r)[t] = tokens[t]
<1>1. TokenIds = 1..Len(tokens) /\ Len(tokens) \in Nat
  BY IdsOfTokens
<1>2. ASSUME NEW t \in TokenIds
      PROVE  /\ Kept(r)[t] \in Token
             /\ Kept(r)[t].user = tokens[t].user /\ Kept(r)[t].parent = tokens[t].parent
             /\ Kept(r)[t].revoked <=> tokens[t].revoked \/ t \in spent[r]
             /\ Kept(r)[t].succ = IF t = req[r].tok /\ Issues(req[r])
                                    THEN Len(tokens) + 1 ELSE tokens[t].succ
             /\ t \notin spent[r] /\ ~(t = req[r].tok /\ Issues(req[r])) =>
                  Kept(r)[t] = tokens[t]
  <2>1. Kept(r)[t] = [tokens[t] EXCEPT
            !.revoked = @ \/ t \in spent[r],
            !.succ = IF t = req[r].tok /\ Issued(r) # <<>> THEN Len(tokens) + 1 ELSE @]
    BY DEF Kept
  <2>2. tokens[t] \in Token
    BY TokenFields
  <2>3. Issued(r) # <<>> <=> Issues(req[r])
    BY IssuedTokens
  <2> DEFINE row == tokens[t]
             revoked == row.revoked \/ t \in spent[r]
             succ == IF t = req[r].tok /\ Issues(req[r]) THEN Len(tokens) + 1 ELSE row.succ
  <2>4. row.revoked \in BOOLEAN /\ row.succ \in Nat /\ revoked \in BOOLEAN /\ succ \in Nat
    BY <1>1, <2>2 DEF Token
  <2>5. Kept(r)[t] = [row EXCEPT !.revoked = revoked, !.succ = succ]
    BY <2>1, <2>3
  <2>6. t \notin spent[r] => revoked = row.revoked
    BY <2>4
  <2>7. ~(t = req[r].tok /\ Issues(req[r])) => succ = row.succ
    OBVIOUS
  <2>8. revoked <=> row.revoked \/ t \in spent[r]
    OBVIOUS
  <2> HIDE DEF revoked, succ
  <2>9. /\ Kept(r)[t] \in Token
        /\ Kept(r)[t].user = row.user /\ Kept(r)[t].parent = row.parent
        /\ Kept(r)[t].revoked = revoked /\ Kept(r)[t].succ = succ
    BY <2>2, <2>4, <2>5 DEF Token
  <2>10. revoked = row.revoked /\ succ = row.succ => Kept(r)[t] = row
    BY <2>2, <2>5 DEF Token
  <2> USE DEF succ
  <2> QED
    BY <2>6, <2>7, <2>8, <2>9, <2>10
<1>3. Kept(r) \in [1..Len(tokens) -> Token]
  BY <1>1, <1>2 DEF Kept
<1>4. Kept(r) \in Seq(Token) /\ Len(Kept(r)) = Len(tokens)
  BY <1>1, <1>3
<1> QED
  BY <1>2, <1>4

(* What a request leaves of the tokens: those, and the one it issued.      *)
LEMMA CommittedRows ==
    ASSUME IInv, NEW r \in Requests, pc[r] = "commit"
    PROVE  /\ CommittedTokens(r) \in Seq(Token)
           /\ Len(CommittedTokens(r)) = IF Issues(req[r]) THEN Len(tokens) + 1 ELSE Len(tokens)
           /\ \A t \in TokenIds : CommittedTokens(r)[t] = Kept(r)[t]
           /\ Issues(req[r]) =>
                /\ CommittedTokens(r)[Len(tokens) + 1].user = req[r].user
                /\ CommittedTokens(r)[Len(tokens) + 1].parent = req[r].tok
                /\ CommittedTokens(r)[Len(tokens) + 1].succ = 0
                /\ CommittedTokens(r)[Len(tokens) + 1].revoked = (req[r].path = "inactive")
<1>1. TableValues /\ RequestValues /\ AtWork(r)
  BY DEF IInv
<1>2. Kept(r) \in Seq(Token) /\ Len(Kept(r)) = Len(tokens)
  BY <1>1, KeptTokens
<1>3. TokenIds = 1..Len(tokens) /\ Len(tokens) \in Nat
  BY <1>1, IdsOfTokens
<1>4. CommittedTokens(r) = Kept(r) \o Issued(r)
  BY DEF CommittedTokens, Kept
<1>5. CASE ~Issues(req[r])
  <2>1. Issued(r) = <<>>
    BY <1>5, IssuedTokens
  <2>2. CommittedTokens(r) = Kept(r)
    BY <1>2, <1>4, <2>1, ConcatEmptySeq
  <2> QED
    BY <1>2, <1>5, <2>2
<1>6. CASE Issues(req[r])
  <2> DEFINE new == [user |-> req[r].user, parent |-> req[r].tok, succ |-> 0,
                     revoked |-> req[r].path = "inactive", issued |-> req[r].at]
  <2>1. Issued(r) = <<new>>
    BY <1>6, IssuedTokens
  <2>2. req[r].user \in Users /\ req[r].tok \in Nat /\ req[r].at \in 0..MaxClock
    BY <1>1, RequestFields DEF AtWork, OpFits, Resting, Final
  <2>3. new \in Token
    BY <2>2 DEF Token
  <2>4. /\ new.user = req[r].user /\ new.parent = req[r].tok /\ new.succ = 0
        /\ new.revoked = (req[r].path = "inactive")
    OBVIOUS
  <2> HIDE DEF new
  <2>5. <<new>> \in Seq(Token) /\ Len(<<new>>) = 1 /\ <<new>>[1] = new
    BY <2>3
  <2>6. /\ Kept(r) \o <<new>> \in Seq(Token)
        /\ Len(Kept(r) \o <<new>>) = Len(tokens) + 1
        /\ \A i \in 1..Len(tokens) + 1 :
             (Kept(r) \o <<new>>)[i] = IF i <= Len(tokens) THEN Kept(r)[i]
                                       ELSE <<new>>[i - Len(tokens)]
    BY <1>2, <2>5, ConcatProperties
  <2>7. (Kept(r) \o <<new>>)[Len(tokens) + 1] = new
    <3>1. Len(tokens) + 1 \in 1..Len(tokens) + 1 /\ ~(Len(tokens) + 1 <= Len(tokens))
          /\ Len(tokens) + 1 - Len(tokens) = 1
      BY <1>3
    <3> QED
      BY <2>5, <2>6, <3>1
  <2>8. \A t \in TokenIds : (Kept(r) \o <<new>>)[t] = Kept(r)[t]
    BY <1>3, <2>6
  <2> QED
    BY <1>4, <1>6, <2>1, <2>4, <2>6, <2>7, <2>8
<1> QED
  BY <1>5, <1>6

(* What a request leaves of the account's row.                             *)
LEMMA CommittedRow ==
    ASSUME IInv, NEW r \in Requests, pc[r] = "commit", ~Taken(r)
    PROVE  LET row == users[req[r].user]
               new == CommittedUser(r)
               op == req[r].op
           IN  /\ new \in User
               /\ row.role # "none" => new.role = row.role
               /\ row.active /\ op # "deactivate" => new.active
               /\ new.role # "none" /\ ~new.own => new.mustChange
               /\ op \in {"login", "refresh"} => new = row
               /\ op \in {"create", "bootstrap"} => row.role = "none"
<1> DEFINE u == req[r].user
           row == users[u]
           op == req[r].op
<1>1. TableValues /\ RequestValues /\ AtWork(r) /\ OthersPasswordMustChange
  BY DEF IInv, RowsHold
<1>2. u \in Users /\ op \in Ops /\ op # "none" /\ req[r].role \in Roles
      /\ req[r].seen \in BOOLEAN
  BY <1>1, RequestFields DEF AtWork, OpFits, Resting, Final
<1>3. /\ row \in User /\ row.role \in Roles /\ row.root \in BOOLEAN /\ row.active \in BOOLEAN
      /\ row.mustChange \in BOOLEAN /\ row.own \in BOOLEAN
      /\ row.role # "none" /\ ~row.own => row.mustChange
  BY <1>1, <1>2 DEF TableValues, User, OthersPasswordMustChange
<1>4. op \in {"create", "bootstrap"} => row.role = "none"
  BY DEF Taken
<1>5. CASE op \in {"login", "refresh"}
  <2>1. CommittedUser(r) = row
    BY <1>5 DEF CommittedUser
  <2> QED
    BY <1>3, <1>5, <2>1
<1>6. CASE op = "change"
  <2> DEFINE must == IF req[r].seen THEN FALSE ELSE row.mustChange
  <2>1. CommittedUser(r) = [row EXCEPT !.own = TRUE, !.mustChange = must]
    BY <1>6 DEF CommittedUser
  <2>2. must \in BOOLEAN
    BY <1>3
  <2> HIDE DEF must
  <2> QED
    BY <1>3, <1>6, <2>1, <2>2 DEF User
<1>7. CASE op = "reset"
  <2>1. req[r].seen = row.mustChange
    BY <1>1, <1>7 DEF AtWork, SeenFits
  <2>2. CommittedUser(r) = [row EXCEPT !.own = FALSE, !.mustChange = TRUE]
    BY <1>3, <1>7, <2>1 DEF CommittedUser
  <2> QED
    BY <1>3, <1>7, <2>2 DEF User
<1>8. CASE op = "resetRoot"
  <2>1. CommittedUser(r) = [row EXCEPT !.own = TRUE, !.mustChange = FALSE, !.active = TRUE]
    BY <1>8 DEF CommittedUser
  <2> QED
    BY <1>3, <1>8, <2>1 DEF User
<1>9. CASE op = "deactivate"
  <2>1. CommittedUser(r) = [row EXCEPT !.active = FALSE]
    BY <1>9 DEF CommittedUser
  <2> QED
    BY <1>3, <1>9, <2>1 DEF User
<1>10. CASE op \in {"create", "bootstrap"}
  <2>1. CommittedUser(r) =
          [role |-> req[r].role, root |-> op = "bootstrap", active |-> TRUE,
           mustChange |-> op = "create", own |-> op = "bootstrap"]
    BY <1>10 DEF CommittedUser
  <2> DEFINE first == op = "bootstrap"
             second == op = "create"
  <2>2. CommittedUser(r) = [role |-> req[r].role, root |-> first, active |-> TRUE,
                            mustChange |-> second, own |-> first]
    BY <2>1
  <2>3. first \in BOOLEAN /\ second \in BOOLEAN /\ (first \/ second)
    BY <1>10
  <2> HIDE DEF first, second
  <2>4. /\ CommittedUser(r) \in User /\ CommittedUser(r).active
        /\ CommittedUser(r).own = first /\ CommittedUser(r).mustChange = second
    BY <1>2, <2>2, <2>3 DEF User
  <2> QED
    BY <1>4, <1>10, <2>3, <2>4
<1> QED
  BY <1>2, <1>5, <1>6, <1>7, <1>8, <1>9, <1>10 DEF Ops

\* What COMMIT does, in one place.
Commits(r) ==
    /\ pc[r] = "commit" /\ ~Taken(r)
    /\ tokens' = CommittedTokens(r)
    /\ users' = [users EXCEPT ![req[r].user] = CommittedUser(r)]

(* Of the tokens of the others it changes none, and no account behind the  *)
(* back of who has locked it.                                              *)
LEMMA CommitMoves ==
    ASSUME IInv, NEW r \in Requests, Commits(r)
    PROVE  /\ TokensMove(r) /\ UsersMove(r)
           /\ TokenIds' = 1..(IF Issues(req[r]) THEN Len(tokens) + 1 ELSE Len(tokens))
           /\ TokenIds = 1..Len(tokens) /\ Len(tokens) \in Nat
<1> DEFINE u == req[r].user
           tok == req[r].tok
           new == Len(tokens) + 1
<1>1. TableValues /\ RequestValues /\ AtWork(r)
  BY DEF IInv
<1>2. /\ u \in Users /\ pc[r] = "commit"
      /\ spent[r] \subseteq tokenLocks[r]
      /\ req[r].op = "refresh" => tok \in tokenLocks[r]
      /\ req[r].op # "refresh" => tok = 0
  BY <1>1 DEF AtWork, OpFits, TokenFits, Resting, Final, Commits
<1>3. TokenIds = 1..Len(tokens) /\ Len(tokens) \in Nat
  BY <1>1, IdsOfTokens
<1>4. TokenIds' = 1..(IF Issues(req[r]) THEN Len(tokens) + 1 ELSE Len(tokens))
  BY <1>3, CommittedRows DEF Commits, TokenIds
<1>5. \A o \in Requests \ {r} : Apart(r, o)
  BY DEF IInv, LocksApart
<1>6. \A t \in TokenIds : tokens'[t] = Kept(r)[t]
  BY CommittedRows DEF Commits
<1>7. TokensMove(r)
  <2>1. TokenIds \subseteq TokenIds'
    BY <1>3, <1>4
  <2>2. ASSUME NEW t \in TokenIds
        PROVE  /\ tokens'[t].user = tokens[t].user
               /\ tokens[t].revoked => tokens'[t].revoked
    BY <1>1, <1>6, KeptTokens
  <2>3. ASSUME NEW t \in TokenIds, NEW o \in Requests \ {r}, t \in tokenLocks[o]
        PROVE  tokens'[t] = tokens[t]
    <3>1. t \notin tokenLocks[r]
      BY <1>5, <2>3 DEF Apart
    <3>2. t \notin spent[r] /\ t # tok
      BY <1>2, <1>3, <3>1
    <3> QED
      BY <1>1, <1>6, <3>2, KeptTokens
  <2>4. ASSUME NEW t \in TokenIds' \ TokenIds, NEW o \in Requests \ {r}
        PROVE  <<tokens'[t].user, "update">> \notin userLocks[o]
    <3>1. t = new /\ Issues(req[r])
      BY <1>3, <1>4, <2>4
    <3>2. tokens'[t].user = u
      BY <1>2, <3>1, CommittedRows DEF Commits
    <3>3. <<u, "key share">> \in userLocks[r]
      BY <1>1, <1>2, <3>1 DEF AtWork, UserFits
    <3>4. "key share" \in Modes /\ "update" \in Modes /\ Conflict("key share", "update")
      BY DEF Modes, Conflict
    <3> QED
      BY <1>2, <1>5, <3>2, <3>3, <3>4 DEF Apart
  <2> QED
    BY <2>1, <2>2, <2>3, <2>4 DEF TokensMove
<1>8. \A v \in Users : v # u => users'[v] = users[v]
  BY <1>1, <1>2 DEF Commits, TableValues
<1>9. users'[u] = CommittedUser(r)
  BY <1>1, <1>2 DEF Commits, TableValues
<1>10. /\ users[u].role # "none" => CommittedUser(r).role = users[u].role
       /\ users[u].active /\ req[r].op # "deactivate" => CommittedUser(r).active
       /\ req[r].op \in {"login", "refresh"} => CommittedUser(r) = users[u]
       /\ req[r].op \in {"create", "bootstrap"} => users[u].role = "none"
  BY CommittedRow DEF Commits
<1>11. req[r].op \in Ops \ {"none"}
  BY <1>1, <1>2, RequestFields DEF AtWork, OpFits, Resting, Final
<1>12. ASSUME NEW o \in Requests \ {r}, <<u, "update">> \in userLocks[o], users[u].role # "none"
       PROVE  users'[u] = users[u]
  <2>1. ASSUME NEW m \in Modes, <<u, m>> \in userLocks[r] PROVE FALSE
    <3>1. "update" \in Modes /\ Conflict(m, "update")
      BY DEF Modes, Conflict
    <3> QED
      BY <1>2, <1>5, <1>12, <2>1, <3>1 DEF Apart
  <2>2. req[r].op = "change" => <<u, "no key update">> \in userLocks[r]
    BY <1>1, <1>2 DEF AtWork, UserFits
  <2>3. req[r].op \in Managing => <<u, "update">> \in userLocks[r]
    BY <1>1, <1>2 DEF AtWork, UserFits
  <2>4. "update" \in Modes /\ "no key update" \in Modes
    BY DEF Modes
  <2>5. req[r].op \in {"login", "refresh"}
    BY <1>10, <1>11, <1>12, <2>1, <2>2, <2>3, <2>4 DEF Ops, Managing
  <2> QED
    BY <1>9, <1>10, <2>5
<1>13. ASSUME NEW o \in Requests \ {r}, req[o].path \in Renewing, req[o].user = u,
              req[r].op = "deactivate"
       PROVE  FALSE
  <2>1. AtWork(o)
    BY DEF IInv
  <2>2. /\ req[o].tok \in tokenLocks[o] /\ tokens[req[o].tok].user = u
        /\ ~tokens[req[o].tok].revoked
    BY <1>13, <2>1 DEF AtWork, OpFits, TokenFits, Renewing
  <2>3. req[o].tok \in TokenIds
    BY <1>1, <2>2 DEF RequestValues
  <2>4. req[o].tok \in spent[r]
    BY <1>1, <1>2, <1>13, <2>2, <2>3 DEF AtWork, SweepFits, Managing
  <2> QED
    BY <1>2, <1>5, <2>2, <2>4 DEF Apart
<1>14. UsersMove(r)
  <2> SUFFICES ASSUME NEW v \in Users
               PROVE  /\ users[v].role # "none" =>
                           /\ users'[v].role = users[v].role
                           /\ \A o \in Requests \ {r} :
                                <<v, "update">> \in userLocks[o] => users'[v] = users[v]
                      /\ \A o \in Requests \ {r} :
                           req[o].path \in Renewing /\ req[o].user = v /\ users[v].active =>
                             users'[v].active
    BY DEF UsersMove
  <2>1. CASE v # u
    BY <1>8, <2>1
  <2>2. CASE v = u
    BY <1>9, <1>10, <1>12, <1>13, <2>2
  <2> QED
    BY <2>1, <2>2
<1> QED
  BY <1>3, <1>4, <1>7, <1>14

(* The one token it leaves takes the place of the one it was exchanged for *)
(* and of that one's successor.                                            *)
LEMMA CommitSuccessors ==
    ASSUME IInv, NEW r \in Requests, Commits(r)
    PROVE  SuccessorsHold'
<1> DEFINE tok == req[r].tok
           new == Len(tokens) + 1
<1>1. TableValues /\ RequestValues /\ AtWork(r) /\ SuccessorsHold /\ pc[r] = "commit"
  BY DEF IInv, RowsHold, Commits
<1>2. /\ TokenIds' = 1..(IF Issues(req[r]) THEN new ELSE Len(tokens))
      /\ TokenIds = 1..Len(tokens) /\ Len(tokens) \in Nat
      /\ Len(tokens') = IF Issues(req[r]) THEN new ELSE Len(tokens)
  BY CommitMoves, CommittedRows DEF Commits
<1>3. /\ req[r].op = "refresh" => tok \in TokenIds
      /\ req[r].op # "refresh" => tok = 0
      /\ tok \in 0..Len(tokens)
  BY <1>1, <1>2 DEF AtWork, OpFits, TokenFits, RequestValues
<1>4. ASSUME NEW t \in TokenIds
      PROVE  /\ tokens'[t].parent = tokens[t].parent
             /\ tokens'[t].revoked <=> tokens[t].revoked \/ t \in spent[r]
             /\ tokens'[t].succ = IF t = tok /\ Issues(req[r]) THEN new ELSE tokens[t].succ
             /\ tokens[t].parent \in 0..Len(tokens) /\ tokens[t].succ \in 0..Len(tokens)
  <2>1. tokens'[t] = Kept(r)[t]
    BY <1>1, CommittedRows DEF Commits
  <2> QED
    BY <1>1, <2>1, KeptTokens DEF SuccessorsHold
<1>5. Issues(req[r]) => tokens'[new].parent = tok /\ tokens'[new].succ = 0
  BY <1>1, CommittedRows DEF Commits
<1>6. ASSUME NEW t \in TokenIds, NEW c \in TokenIds, c \in LiveChildren(t)' PROVE c \in LiveChildren(t)
  BY <1>4, <1>6 DEF LiveChildren
<1>7. ASSUME NEW c \in TokenIds, Issues(req[r]), NEW t \in TokenIds, t = tok,
             c \in LiveChildren(t)'
      PROVE  FALSE
  <2>1. c = tokens[t].succ
    BY <1>1, <1>6, <1>7 DEF SuccessorsHold
  <2>2. c \notin spent[r]
    BY <1>4, <1>7 DEF LiveChildren
  <2>3. req[r].op = "refresh" /\ req[r].path # "reuse"
    <3>1. req[r].op = "refresh"
      BY <1>2, <1>3, <1>7
    <3> QED
      BY <1>7, <3>1 DEF Issues
  <2>4. tokens[tok].succ = 0 \/ tokens[tok].succ \in spent[r]
    BY <1>1, <2>3 DEF AtWork, TokenFits
  <2> QED
    BY <1>2, <1>7, <2>1, <2>2, <2>4
<1>8. ASSUME NEW t \in TokenIds', NEW c \in LiveChildren(t)'
      PROVE  c = tokens'[t].succ
  <2>0. c \in TokenIds' /\ tokens'[c].parent = t
    BY DEF LiveChildren
  <2>1. CASE t \in TokenIds /\ c \in TokenIds
    <3>1. c = tokens[t].succ
      BY <1>1, <1>6, <2>1 DEF SuccessorsHold
    <3>2. ~(t = tok /\ Issues(req[r]))
      BY <1>7, <2>1
    <3> QED
      BY <1>4, <2>1, <3>1, <3>2
  <2>2. CASE t \in TokenIds /\ c \notin TokenIds
    <3>1. c = new /\ Issues(req[r])
      BY <1>2, <2>0, <2>2
    <3>2. t = tok
      BY <1>5, <2>0, <3>1
    <3> QED
      BY <1>4, <2>2, <3>1, <3>2
  <2>3. CASE t \notin TokenIds
    <3>1. t = new /\ Issues(req[r])
      BY <1>2, <2>3
    <3>2. c \in TokenIds => tokens'[c].parent # new
      BY <1>2, <1>4
    <3>3. c \notin TokenIds => tokens'[c].parent # new
      BY <1>2, <1>3, <1>5, <2>0
    <3> QED
      BY <2>0, <3>1, <3>2, <3>3
  <2> QED
    BY <2>1, <2>2, <2>3
<1>9. ASSUME NEW t \in TokenIds'
      PROVE  tokens'[t].parent \in 0..Len(tokens') /\ tokens'[t].succ \in 0..Len(tokens')
  <2>1. CASE t \in TokenIds
    BY <1>2, <1>4, <2>1
  <2>2. CASE t \notin TokenIds
    BY <1>2, <1>3, <1>5, <2>2
  <2> QED
    BY <2>1, <2>2
<1> QED
  BY <1>8, <1>9 DEF SuccessorsHold

(* It leaves an admin and no password of another's choice without the flag.*)
LEMMA CommitUsers ==
    ASSUME IInv, NEW r \in Requests, Commits(r)
    PROVE  AnAdminRemains' /\ OthersPasswordMustChange' /\ users' \in [Users -> User]
<1> DEFINE u == req[r].user
           row == CommittedUser(r)
<1>1. /\ TableValues /\ AtWork(r) /\ pc[r] = "commit"
      /\ AnAdminRemains /\ OthersPasswordMustChange
  BY DEF IInv, RowsHold, Commits
<1>2. u \in Users
  BY <1>1 DEF AtWork, OpFits, Resting, Final
<1>3. /\ row \in User
      /\ users[u].role # "none" => row.role = users[u].role
      /\ users[u].active /\ req[r].op # "deactivate" => row.active
      /\ row.role # "none" /\ ~row.own => row.mustChange
  BY CommittedRow DEF Commits
<1>4. users' = [users EXCEPT ![u] = row] /\ users \in [Users -> User]
  BY <1>1 DEF Commits, TableValues
<1> HIDE DEF u, row
<1>5. users' \in [Users -> User] /\ users'[u] = row
      /\ \A v \in Users : v # u => users'[v] = users[v]
  BY <1>2, <1>3, <1>4
<1>6. OthersPasswordMustChange'
  BY <1>1, <1>3, <1>5 DEF OthersPasswordMustChange
<1>7. PICK a \in Users : IsAdmin(a)
  BY <1>1 DEF AnAdminRemains, ActiveAdmins
<1>8. \E v \in Users : IsAdmin(v)'
  <2>1. CASE req[r].op = "deactivate" /\ users[u].role = "admin"
    <3>1. \E v \in Users \ {u} : IsAdmin(v)
      BY <1>1, <2>1 DEF AtWork, SeenFits, u
    <3> QED
      BY <1>5, <3>1 DEF IsAdmin
  <2>2. CASE ~(req[r].op = "deactivate" /\ users[u].role = "admin")
    <3>1. CASE a # u
      BY <1>5, <1>7, <3>1 DEF IsAdmin
    <3>2. CASE a = u
      BY <1>3, <1>5, <1>7, <2>2, <3>2 DEF IsAdmin
    <3> QED
      BY <3>1, <3>2
  <2> QED
    BY <2>1, <2>2
<1> QED
  BY <1>5, <1>6, <1>8 DEF AnAdminRemains, ActiveAdmins

(* So a commit keeps the invariant.                                        *)
LEMMA CommitKeeps ==
    ASSUME IInv, NEW r \in Requests, Commit(r)
    PROVE  IInv' /\ Commits(r)
<1>1. Commits(r)
  BY DEF Commit, Commits
<1>2. PICK result \in Final : End(r, result)
  BY DEF Commit, Final
<1>3. TokensMove(r) /\ UsersMove(r) /\ TokenIds \subseteq TokenIds'
  BY <1>1, CommitMoves DEF TokensMove
<1>4. TableValues'
  <2>1. tokens' \in Seq(Token)
    BY <1>1, CommittedRows DEF Commits
  <2>2. clock' \in 0..MaxClock
    BY DEF Commit, IInv, TableValues
  <2> QED
    BY <1>1, <2>1, <2>2, CommitUsers DEF TableValues
<1>5. RowsHold'
  BY <1>1, CommitSuccessors, CommitUsers DEF RowsHold
<1>6. /\ AtWork(r)' /\ OthersStill(r) /\ RequestValues'
      /\ \A o \in Requests \ {r} : Apart(r, o)' /\ Apart(o, r)'
  BY <1>2, <1>3, Ended
<1> QED
  BY <1>1, <1>3, <1>4, <1>5, <1>6, RowsMoved

(* Nobody else is at work on the token a logout revokes.                   *)
LEMMA LogoutKeeps ==
    ASSUME IInv, NEW r \in Requests, NEW t \in TokenIds, Logout(r, t)
    PROVE  IInv'
<1>1. TableValues /\ RequestValues /\ AtWork(r) /\ RowsHold /\ pc[r] = "idle"
  BY DEF IInv, Logout
<1>2. /\ req[r] = NoRequest
      /\ todo[r] = {} /\ spent[r] = {} /\ tokenLocks[r] = {} /\ userLocks[r] = {}
  BY <1>1 DEF AtWork, RestFits, Resting
<1>3. /\ pc' = [pc EXCEPT ![r] = "ok"]
      /\ tokens' = [tokens EXCEPT ![t].revoked = TRUE] /\ TokenFree(r, t)
      /\ UNCHANGED <<users, clock, req, todo, spent, tokenLocks, userLocks>>
  BY DEF Logout, work, locks
<1>4. TokenIds = 1..Len(tokens) /\ Len(tokens) \in Nat /\ tokens[t] \in Token
  BY <1>1, IdsOfTokens, TokenFields
<1>5. [tokens[t] EXCEPT !.revoked = TRUE] \in Token
  BY <1>4 DEF Token
<1>6. /\ tokens' \in Seq(Token) /\ Len(tokens') = Len(tokens)
      /\ \A s \in TokenIds : s # t => tokens'[s] = tokens[s]
      /\ tokens'[t] = [tokens[t] EXCEPT !.revoked = TRUE]
  <2> DEFINE row == [tokens[t] EXCEPT !.revoked = TRUE]
  <2>1. tokens' = [tokens EXCEPT ![t] = row] /\ row \in Token
    BY <1>3, <1>5
  <2>2. tokens \in Seq(Token) /\ t \in 1..Len(tokens)
    BY <1>1, <1>4 DEF TableValues
  <2> HIDE DEF row
  <2>3. /\ [tokens EXCEPT ![t] = row] \in Seq(Token)
        /\ Len([tokens EXCEPT ![t] = row]) = Len(tokens)
        /\ \A s \in 1..Len(tokens) :
             [tokens EXCEPT ![t] = row][s] = IF s = t THEN row ELSE tokens[s]
    BY <2>1, <2>2, ExceptSeq
  <2>4. /\ tokens' \in Seq(Token) /\ Len(tokens') = Len(tokens)
        /\ \A s \in TokenIds : s # t => tokens'[s] = tokens[s]
        /\ tokens'[t] = row
    BY <1>4, <2>1, <2>2, <2>3
  <2> QED
    BY <2>4 DEF row
<1>7. TokenIds' = TokenIds
  BY <1>4, <1>6 DEF TokenIds
<1>8. ASSUME NEW s \in TokenIds
      PROVE  /\ tokens'[s].user = tokens[s].user /\ tokens'[s].parent = tokens[s].parent
             /\ tokens'[s].succ = tokens[s].succ
             /\ tokens[s].revoked => tokens'[s].revoked
  BY <1>4, <1>6 DEF Token
<1>9. TokensMove(r)
  BY <1>3, <1>6, <1>7, <1>8 DEF TokensMove, TokenFree, TokenHolders
<1>10. UsersMove(r)
  BY <1>3 DEF UsersMove
<1>11. TableValues' /\ RowsHold'
  <2>1. SuccessorsHold'
    <3>1. \A s \in TokenIds : LiveChildren(s)' \subseteq LiveChildren(s)
      BY <1>7, <1>8 DEF LiveChildren
    <3> QED
      BY <1>1, <1>6, <1>7, <1>8, <3>1 DEF RowsHold, SuccessorsHold
  <2>2. AnAdminRemains' /\ OthersPasswordMustChange'
    BY <1>1, <1>3 DEF RowsHold, AnAdminRemains, ActiveAdmins, IsAdmin, OthersPasswordMustChange
  <2> QED
    BY <1>1, <1>3, <1>6, <2>1, <2>2 DEF TableValues, RowsHold
<1>12. AtWork(r)'
  BY <1>1, <1>2, <1>3 DEF AtWork, RestFits, OpFits, TokenFits, UserFits, SweepFits, SeenFits,
        NoRequest, Resting, Final, Managing, Renewing, Issues, RequestValues
<1>13. OthersStill(r) /\ RequestValues'
  <2> HIDE DEF TokenIds
  <2> QED
    BY <1>1, <1>3, <1>7 DEF OthersStill, RequestValues, Pcs, Final
<1> QED
  BY <1>3, <1>9, <1>10, <1>11, <1>12, <1>13, ApartStays, RowsMoved

-----------------------------------------------------------------------------
(* The theorems.                                                           *)

(* Nothing a request relies on has to do with the time.                    *)
LEMMA ClockKeeps ==
    ASSUME IInv, UNCHANGED <<users, tokens, pc, req, work, locks>>, clock' \in 0..MaxClock
    PROVE  IInv'
<1>1. UNCHANGED <<users, tokens, pc, req, todo, spent, tokenLocks, userLocks>>
  BY DEF work, locks
<1>2. TableValues' /\ RequestValues'
  BY <1>1 DEF IInv, TableValues, RequestValues, TokenIds
<1>3. RowsHold'
  BY <1>1 DEF IInv, RowsHold, SuccessorsHold, TokenIds, LiveChildren, AnAdminRemains,
              ActiveAdmins, IsAdmin, OthersPasswordMustChange
<1>4. LocksApart'
  BY <1>1 DEF IInv, LocksApart, Apart
<1>5. ASSUME NEW r \in Requests PROVE AtWork(r)'
  <2>1. AtWork(r)
    BY DEF IInv
  <2>2. RestFits(r)' /\ OpFits(r)' /\ TokenFits(r)'
    BY <1>1, <2>1 DEF AtWork, RestFits, OpFits, TokenFits, TokenIds
  <2>3. UserFits(r)' /\ SweepFits(r)' /\ SeenFits(r)'
    BY <1>1, <2>1 DEF AtWork, UserFits, SweepFits, SeenFits, IsAdmin, Issues, TokenIds
  <2> QED
    BY <2>2, <2>3 DEF AtWork
<1> QED
  BY <1>2, <1>3, <1>4, <1>5 DEF IInv

(* Every step keeps the invariant.                                         *)
LEMMA StepKeeps == IInv /\ [Next]_vars => IInv'
<1> SUFFICES ASSUME IInv, [Next]_vars PROVE IInv'
  OBVIOUS
<1>1. ASSUME NEW r \in Requests, Arrive(r) PROVE IInv'
  <2>1. ASSUME NEW t \in TokenIds, Present(r, t) \/ PresentExpired(r, t) \/ Logout(r, t)
        PROVE  IInv'
    BY <2>1, PresentKeeps, ExpiredKeeps, LogoutKeeps
  <2> QED
    BY <1>1, <2>1, LockFreeKeeps DEF Arrive
<1>2. ASSUME NEW r \in Requests, Proceed(r) PROVE IInv'
  <2>1. CASE CommitTaken(r) \/ DeadlockVictim(r)
    <3>1. End(r, "aborted") /\ "aborted" \in Final /\ UNCHANGED <<users, tokens, clock>>
      BY <2>1 DEF CommitTaken, DeadlockVictim, Final
    <3> QED
      BY <3>1, EndKeeps
  <2> QED
    BY <1>2, <2>1, SweepRowKeeps, SweepDoneKeeps, RetireKeeps, IssueKeeps, UpdateUserKeeps,
       LockAdminKeeps, TargetKeeps, CountOthersKeeps, CommitKeeps DEF Proceed
<1>3. CASE Tick
  <2>1. clock' \in 0..MaxClock
    BY <1>3, AccountsAssumption DEF Tick, IInv, TableValues
  <2> QED
    BY <1>3, <2>1, ClockKeeps DEF Tick
<1>4. CASE UNCHANGED vars
  <2>1. clock' \in 0..MaxClock
    BY <1>4 DEF vars, IInv, TableValues
  <2> QED
    BY <1>4, <2>1, ClockKeeps DEF vars
<1> QED
  BY <1>1, <1>2, <1>3, <1>4 DEF Next

(* The invariant holds throughout.                                         *)
LEMMA Invariant == Safety => []IInv
BY InitEstablishes, StepKeeps, PTL DEF Safety

(* The rows, requests and locks keep their types.                          *)
THEOREM TypeCorrect == Safety => []TypeOK
<1>1. IInv => TypeOK
  BY DEF IInv, TableValues, RequestValues, TypeOK
<1> QED
  BY <1>1, Invariant, PTL

(* At most one of the tokens one was exchanged for is still good, however  *)
(* often it is presented and however the refreshes overlap.                *)
THEOREM OneSuccessor == Safety => []OneLiveSuccessor
<1>1. ASSUME IInv PROVE OneLiveSuccessor
  <2> SUFFICES ASSUME NEW t \in TokenIds PROVE Cardinality(LiveChildren(t)) <= 1
    BY DEF OneLiveSuccessor
  <2>1. LiveChildren(t) \subseteq {tokens[t].succ}
    BY <1>1 DEF IInv, RowsHold, SuccessorsHold
  <2>2. IsFiniteSet({tokens[t].succ}) /\ Cardinality({tokens[t].succ}) = 1
    BY FS_Singleton
  <2> QED
    BY <2>1, <2>2, FS_Subset
<1> QED
  BY <1>1, Invariant, PTL

(* There is always an active admin, whichever admins deactivate one        *)
(* another at the same moment.                                             *)
THEOREM AdminRemains == Safety => []AnAdminRemains
<1>1. IInv => AnAdminRemains
  BY DEF IInv, RowsHold
<1> QED
  BY <1>1, Invariant, PTL

(* A password somebody else chose must be changed, whatever reset and      *)
(* change of it overlap.                                                   *)
THEOREM PasswordMustChange == Safety => []OthersPasswordMustChange
<1>1. IInv => OthersPasswordMustChange
  BY DEF IInv, RowsHold
<1> QED
  BY <1>1, Invariant, PTL

(* Only its COMMIT takes a request from there to its good end.             *)
LEMMA OnlyCommitSucceeds ==
    ASSUME IInv, [Next]_vars, NEW r \in Requests, Committing(r)
    PROVE  Commit(r)
<1>0. pc[r] = "commit" /\ pc'[r] = "ok" /\ pc \in [Requests -> Pcs]
  BY DEF Committing, IInv, RequestValues
<1>1. ASSUME NEW o \in Requests, Arrive(o) PROVE FALSE
  <2>1. pc[o] = "idle" /\ \E next : pc' = [pc EXCEPT ![o] = next]
    BY <1>1 DEF Arrive, Present, PresentExpired, Logout, Login, ChangePassword, ResetRoot,
                Bootstrap, Deactivate, ResetPassword, CreateUser, Start
  <2> QED
    BY <1>0, <2>1
<1>2. ASSUME NEW o \in Requests, Proceed(o), o # r PROVE FALSE
  <2>1. pc' = pc \/ \E next : pc' = [pc EXCEPT ![o] = next]
    BY <1>2 DEF Proceed, SweepRow, SweepDone, Retire, Issue, UpdateUser, LockAdmin, Target,
                CountOthers, Commit, CommitTaken, DeadlockVictim, Go, End
  <2> QED
    BY <1>0, <1>2, <2>1
<1>3. ASSUME CommitTaken(r) \/ DeadlockVictim(r) PROVE FALSE
  <2>1. pc' = [pc EXCEPT ![r] = "aborted"]
    BY <1>3 DEF CommitTaken, DeadlockVictim, End
  <2> QED
    BY <1>0, <2>1
<1>4. Proceed(r) => Commit(r)
  BY <1>0, <1>3 DEF Proceed, SweepRow, SweepDone, Retire, Issue, UpdateUser, LockAdmin, Target,
                    CountOthers
<1>5. ~Tick /\ ~UNCHANGED vars
  BY <1>0 DEF Tick, vars
<1> QED
  BY <1>1, <1>2, <1>4, <1>5 DEF Next

(* When a reset or a deactivation commits, no session of the account is    *)
(* left, whichever sign-ins and refreshes were under way.                  *)
LEMMA ResetEndsSessions ==
    ASSUME IInv, [Next]_vars, NEW r \in Requests, Committing(r),
           req[r].op \in {"deactivate", "reset", "resetRoot"},
           NEW t \in DOMAIN tokens', tokens'[t].user = req[r].user
    PROVE  tokens'[t].revoked
<1>1. Commits(r) /\ pc[r] = "commit"
  BY OnlyCommitSucceeds, CommitKeeps DEF Commits
<1>2. TableValues /\ AtWork(r)
  BY DEF IInv
<1>3. ~Issues(req[r])
  BY <1>2 DEF AtWork, OpFits, Issues
<1>4. t \in TokenIds
  BY <1>1, <1>3, CommitMoves DEF TokenIds
<1>5. tokens'[t] = Kept(r)[t]
  BY <1>1, <1>4, CommittedRows DEF Commits
<1>6. tokens[t].user = req[r].user => tokens[t].revoked \/ t \in spent[r]
  BY <1>1, <1>2, <1>4 DEF AtWork, SweepFits, Managing
<1> QED
  BY <1>2, <1>4, <1>5, <1>6, KeptTokens

(* No refresh gives a token to an account that is not active when it       *)
(* commits, though it read the account before it waited.                   *)
LEMMA InactiveNeverRenews ==
    ASSUME IInv, [Next]_vars, NEW r \in Requests, Committing(r), req[r].op = "refresh"
    PROVE  users[req[r].user].active
<1>1. Commit(r)
  BY OnlyCommitSucceeds
<1>2. AtWork(r) /\ pc[r] = "commit" /\ pc'[r] = "ok" /\ RequestValues
  BY DEF IInv, Committing
<1>3. pc' = [pc EXCEPT ![r] = IF req[r].path \in {"reuse", "inactive"} THEN "refused" ELSE "ok"]
  BY <1>1 DEF Commit, End
<1>4. req[r].path \notin {"reuse", "inactive"}
  BY <1>2, <1>3 DEF RequestValues
<1>5. req[r].path \in Renewing
  BY <1>2, <1>4 DEF AtWork, OpFits, RequestValues, Request, Renewing
<1> QED
  BY <1>2, <1>5 DEF AtWork, SeenFits

(* A reset or a deactivation leaves no session of the account, and no      *)
(* refresh gives one to an account that is not active.                     *)
THEOREM SessionsEnd == Safety => SessionsEndWithTheAccount
<1>1. IInv /\ [Next]_vars =>
        [\A r \in Requests :
            Committing(r) =>
                /\ req[r].op \in {"deactivate", "reset", "resetRoot"} =>
                       \A t \in DOMAIN tokens' :
                           tokens'[t].user = req[r].user => tokens'[t].revoked
                /\ req[r].op = "refresh" => users[req[r].user].active]_vars
  BY ResetEndsSessions, InactiveNeverRenews
<1> QED
  BY <1>1, Invariant, PTL DEF Safety, SessionsEndWithTheAccount
===============================================================================
