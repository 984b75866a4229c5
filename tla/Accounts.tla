------------------------------ MODULE Accounts ------------------------------
(***************************************************************************)
(* Accounts and their sessions: the refresh tokens                         *)
(* (app/services/refresh_tokens.py, app/routers/auth.py), the staff rules  *)
(* (app/services/users.py, app/routers/users.py) and the root admin        *)
(* (app/services/bootstrap.py).                                            *)
(*                                                                         *)
(* Every request is one transaction at READ COMMITTED, and what it may     *)
(* read and must wait for is what PostgreSQL says: a SELECT or an UPDATE   *)
(* sees what is committed when it starts; SELECT FOR UPDATE and UPDATE     *)
(* wait for a locked row and then look at it again; and the INSERT of a    *)
(* token takes a KEY SHARE lock of the row of its user (the foreign key),  *)
(* which waits for FOR UPDATE.  Of a cycle of waiting transactions one is  *)
(* cancelled.                                                              *)
(*                                                                         *)
(* A handler starts with its first read, and one that waits before that is *)
(* not there yet.  Passwords are left out but for who chose the present    *)
(* one; attempts with a wrong one change nothing here (RateLimits counts   *)
(* them).  The audit append of each handler is its last statement before   *)
(* COMMIT, so the chain lock (AuditChain) adds no wait to those below;     *)
(* idempotency keys are in StageWriter.                                    *)
(***************************************************************************)
EXTENDS Naturals, Sequences, FiniteSets

CONSTANTS
    Requests,     \* the requests the server ever gets (bound)
    NUsers,       \* bound: the rows users may have; ids are 1..NUsers
    Window,       \* refresh_reuse_window_seconds, in ticks
    Lifetime,     \* refresh_token_ttl_days, in ticks
    MaxClock      \* bound: how long a run lasts

ASSUME AccountsAssumption ==
    /\ NUsers \in Nat \ {0, 1} /\ MaxClock \in Nat
    /\ Window \in Nat /\ Lifetime \in Nat /\ Window < Lifetime

VARIABLES
    users, tokens,           \* committed rows
    clock,
    pc, req,                 \* of each request: where it is, and what it knows
    todo,                    \* rows its present statement has still to lock
    spent,                   \* tokens it has revoked and not committed
    tokenLocks, userLocks    \* the row locks it holds

work == <<todo, spent>>
locks == <<tokenLocks, userLocks>>
vars == <<users, tokens, clock, pc, req, work, locks>>

Users == 1..NUsers
TokenIds == DOMAIN tokens
Roles == {"none", "staff", "admin"}     \* "none": there is no such row

User == [role : Roles, root : BOOLEAN, active : BOOLEAN,
         mustChange : BOOLEAN, own : BOOLEAN]
Absent == [role |-> "none", root |-> FALSE, active |-> FALSE,
           mustChange |-> FALSE, own |-> FALSE]

Token == [user : Users, parent : Nat, succ : Nat, revoked : BOOLEAN, issued : 0..MaxClock]

Ops == {"none", "refresh", "login", "change", "deactivate", "reset",
        "create", "bootstrap", "resetRoot"}
Request == [op : Ops,
            by : Nat, user : Nat,    \* the caller, and the account it is about
            tok : Nat,               \* the token presented
            path : {"none", "rotate", "grace", "reuse", "inactive"},
            seen : BOOLEAN,          \* is_active or must_change_password, as read
            role : Roles, at : 0..MaxClock]
NoRequest == [op |-> "none", by |-> 0, user |-> 0, tok |-> 0, path |-> "none",
              seen |-> FALSE, role |-> "none", at |-> 0]

Final == {"ok", "refused", "aborted"}
Pcs == {"idle", "admins", "target", "others", "sweep", "retire", "insert", "update",
        "commit"} \cup Final

IsAdmin(u) == users[u].role = "admin" /\ users[u].active
ActiveAdmins == {u \in Users : IsAdmin(u)}
Roots == {u \in Users : users[u].root}

\* Children a token was exchanged for that are still good for something.
LiveChildren(t) == {s \in TokenIds : tokens[s].parent = t /\ ~tokens[s].revoked}
Live(t) == ~tokens[t].revoked /\ tokens[t].succ = 0

-----------------------------------------------------------------------------
(* Row locks. *)

Modes == {"update", "no key update", "key share"}
Conflict(m, n) == "update" \in {m, n} \/ {m, n} = {"no key update"}

TokenHolders(r, t) == {o \in Requests \ {r} : t \in tokenLocks[o]}
UserHolders(r, u, m) ==
    {o \in Requests \ {r} : \E n \in Modes : <<u, n>> \in userLocks[o] /\ Conflict(m, n)}

TokenFree(r, t) == TokenHolders(r, t) = {}
UserFree(r, u, m) == UserHolders(r, u, m) = {}
LockToken(r, t) == tokenLocks' = [tokenLocks EXCEPT ![r] = @ \cup {t}]
LockUser(r, u, m) == userLocks' = [userLocks EXCEPT ![r] = @ \cup {<<u, m>>}]

\* Whom the next statement of a request waits for.
FirstUser(r) == CHOOSE u \in todo[r] : \A v \in todo[r] : u <= v
OtherAdmins(r) == ActiveAdmins \ {req[r].user}
WaitsFor(r) ==
    CASE pc[r] = "admins" /\ todo[r] # {} -> UserHolders(r, FirstUser(r), "update")
      [] pc[r] = "target" -> UserHolders(r, req[r].user, "update")
      [] pc[r] = "others" -> UNION {UserHolders(r, u, "update") : u \in OtherAdmins(r)}
      [] pc[r] = "sweep" /\ \A t \in todo[r] : ~TokenFree(r, t) ->
            UNION {TokenHolders(r, t) : t \in todo[r]}
      [] pc[r] = "retire" -> TokenHolders(r, tokens[req[r].tok].succ)
      [] pc[r] = "insert" -> UserHolders(r, req[r].user, "key share")
      [] pc[r] = "update" -> UserHolders(r, req[r].user, "no key update")
      [] OTHER -> {}

\* The requests of C wait on one another in circles.
Cycle(C) == /\ C # {}
            /\ \A r \in C : WaitsFor(r) \cap C # {}
            /\ C \subseteq UNION {WaitsFor(r) : r \in C}

End(r, result) ==
    /\ pc' = [pc EXCEPT ![r] = result]
    /\ req' = [req EXCEPT ![r] = NoRequest]
    /\ todo' = [todo EXCEPT ![r] = {}]
    /\ spent' = [spent EXCEPT ![r] = {}]
    /\ tokenLocks' = [tokenLocks EXCEPT ![r] = {}]
    /\ userLocks' = [userLocks EXCEPT ![r] = {}]

Start(r, next, q) ==
    /\ pc[r] = "idle"
    /\ pc' = [pc EXCEPT ![r] = next]
    /\ req' = [req EXCEPT ![r] = [q EXCEPT !.at = clock]]

Go(r, next) == pc' = [pc EXCEPT ![r] = next] /\ UNCHANGED req

-----------------------------------------------------------------------------
(* _revoke_all_for_user: one UPDATE of the user's unrevoked tokens, those  *)
(* that are committed when it starts and its own.  It locks them one after *)
(* the other and looks again at one it had to wait for.                    *)

Unrevoked(r, u) ==
    {t \in TokenIds : tokens[t].user = u /\ ~tokens[t].revoked} \ spent[r]

StartSweep(r, u) == todo' = [todo EXCEPT ![r] = Unrevoked(r, u)]

SweepRow(r) ==
    /\ pc[r] = "sweep"
    /\ \E t \in todo[r] :
        /\ TokenFree(r, t)
        /\ LockToken(r, t)
        /\ spent' = [spent EXCEPT ![r] = IF tokens[t].revoked THEN @ ELSE @ \cup {t}]
        /\ todo' = [todo EXCEPT ![r] = @ \ {t}]
    /\ UNCHANGED <<users, tokens, clock, pc, req, userLocks>>

SweepDone(r) ==
    /\ pc[r] = "sweep" /\ todo[r] = {}
    /\ Go(r, IF req[r].op = "change" THEN "update" ELSE "commit")
    /\ UNCHANGED <<users, tokens, clock, work, locks>>

-----------------------------------------------------------------------------
(* POST /auth/refresh *)

\* Unused, and issued no longer ago than the window.
WithinReuseWindow(t) == Live(t) /\ tokens[t].issued + Window >= clock

Expired(t) == tokens[t].issued + Lifetime <= clock

\* Which way rotate() goes once it has locked the row of the token.
PathOf(t) ==
    IF tokens[t].revoked THEN "reuse"
    ELSE IF tokens[t].succ = 0 THEN "rotate"
    ELSE IF WithinReuseWindow(tokens[t].succ) THEN "grace" ELSE "reuse"

Present(r, t) ==
    LET path == PathOf(t)
        u == tokens[t].user
        q == [NoRequest EXCEPT !.op = "refresh", !.user = u, !.tok = t,
                               !.path = path, !.seen = users[u].active]
    IN  /\ TokenFree(r, t)
        /\ path # "reuse" => ~Expired(t)
        /\ Start(r, CASE path = "reuse" -> "sweep" [] path = "grace" -> "retire"
                      [] OTHER -> "insert", q)
        /\ LockToken(r, t)
        /\ IF path = "reuse" THEN StartSweep(r, u) ELSE UNCHANGED todo
        /\ UNCHANGED <<users, tokens, clock, spent, userLocks>>

\* An unknown token and an expired one change nothing.
PresentExpired(r, t) ==
    /\ pc[r] = "idle" /\ TokenFree(r, t)
    /\ PathOf(t) # "reuse" /\ Expired(t)
    /\ pc' = [pc EXCEPT ![r] = "refused"]
    /\ UNCHANGED <<users, tokens, clock, req, work, locks>>

\* Variant: the successor is left as it is.
RetirePresentedOnly(r) ==
    /\ pc[r] = "retire"
    /\ spent' = [spent EXCEPT ![r] = {req[r].tok}]
    /\ Go(r, "insert")
    /\ UNCHANGED <<users, tokens, clock, todo, locks>>

\* The token and the successor nobody received are both revoked.
Retire(r) ==
    /\ pc[r] = "retire"
    /\ LET s == tokens[req[r].tok].succ
       IN  /\ TokenFree(r, s)
           /\ LockToken(r, s)
           /\ spent' = [spent EXCEPT ![r] = {req[r].tok, s}]
    /\ Go(r, "insert")
    /\ UNCHANGED <<users, tokens, clock, todo, userLocks>>

\* Variant: only login asks whether the account is active.
RenewsAnyone(r) == TRUE

\* A session of an account that was inactive when the handler read it ends.
MayRenew(r) == req[r].op # "refresh" \/ req[r].seen

\* issue(): the INSERT of a token, for a sign-in, a rotation or a new password.
Issue(r) ==
    /\ pc[r] = "insert"
    /\ UserFree(r, req[r].user, "key share")
    /\ LockUser(r, req[r].user, "key share")
    /\ IF MayRenew(r)
       THEN Go(r, "commit") /\ UNCHANGED todo
       ELSE /\ pc' = [pc EXCEPT ![r] = "sweep"]
            /\ req' = [req EXCEPT ![r].path = "inactive"]
            /\ StartSweep(r, req[r].user)
    /\ UNCHANGED <<users, tokens, clock, spent, tokenLocks>>

-----------------------------------------------------------------------------
(* POST /auth/login, /auth/logout and /auth/password *)

\* The right password of an active account.
Login(r, u) ==
    /\ users[u].active
    /\ Start(r, "insert", [NoRequest EXCEPT !.op = "login", !.user = u])
    /\ UNCHANGED <<users, tokens, clock, work, locks>>

\* Only the presented token is revoked, if it still has to be.
Logout(r, t) ==
    /\ pc[r] = "idle"
    /\ ~tokens[t].revoked /\ TokenFree(r, t)
    /\ tokens' = [tokens EXCEPT ![t].revoked = TRUE]
    /\ pc' = [pc EXCEPT ![r] = "ok"]
    /\ UNCHANGED <<users, clock, req, work, locks>>

\* get_current_user_pending_ok lets the caller in, and the password it gives
\* is the present one.
ChangePassword(r, u) ==
    /\ users[u].active
    /\ Start(r, "sweep", [NoRequest EXCEPT !.op = "change", !.user = u,
                                           !.seen = users[u].mustChange])
    /\ StartSweep(r, u)
    /\ UNCHANGED <<users, tokens, clock, spent, locks>>

\* The flush of the user's row, after that of the tokens.
UpdateUser(r) ==
    /\ pc[r] = "update"
    /\ UserFree(r, req[r].user, "no key update")
    /\ LockUser(r, req[r].user, "no key update")
    /\ Go(r, "insert")
    /\ UNCHANGED <<users, tokens, clock, work, tokenLocks>>

-----------------------------------------------------------------------------
(* Staff accounts: /users.  requires("user.manage") reads the caller before *)
(* any lock is taken.                                                       *)

MayManage(a) == IsAdmin(a) /\ ~users[a].mustChange

Deactivate(r, a, u) ==
    /\ MayManage(a) /\ users[u].role # "none"
    /\ Start(r, "admins", [NoRequest EXCEPT !.op = "deactivate", !.by = a, !.user = u])
    /\ todo' = [todo EXCEPT ![r] = ActiveAdmins]
    /\ UNCHANGED <<users, tokens, clock, spent, locks>>

\* Variant: in whatever order the rows come.
LockAnyAdmin(r) ==
    \E u \in todo[r] :
        /\ pc[r] = "admins"
        /\ UserFree(r, u, "update") /\ LockUser(r, u, "update")
        /\ todo' = [todo EXCEPT ![r] = @ \ {u}]
        /\ pc' = [pc EXCEPT ![r] = IF todo[r] = {u} THEN "target" ELSE @]
        /\ UNCHANGED <<users, tokens, clock, req, spent, tokenLocks>>

\* lock_active_admins: in the order of their ids.  A row it has waited for is
\* locked also if it is an active admin's no more.
LockAdmin(r) ==
    /\ pc[r] = "admins"
    /\ IF todo[r] = {}
       THEN Go(r, "target") /\ UNCHANGED <<todo, userLocks>>
       ELSE /\ UserFree(r, FirstUser(r), "update")
            /\ LockUser(r, FirstUser(r), "update")
            /\ todo' = [todo EXCEPT ![r] = @ \ {FirstUser(r)}]
            /\ UNCHANGED <<pc, req>>
    /\ UNCHANGED <<users, tokens, clock, spent, tokenLocks>>

ResetPassword(r, a, u) ==
    /\ MayManage(a) /\ users[u].role # "none"
    /\ Start(r, "target", [NoRequest EXCEPT !.op = "reset", !.by = a, !.user = u])
    /\ UNCHANGED <<users, tokens, clock, work, locks>>

\* scripts/reset_root.py
ResetRoot(r, u) ==
    /\ Roots = {u}
    /\ Start(r, "target", [NoRequest EXCEPT !.op = "resetRoot", !.user = u])
    /\ UNCHANGED <<users, tokens, clock, work, locks>>

\* The rules that refuse a change of u for the caller a.  A caller's own row is
\* the one its session read before any lock, when the account was active.
Refused(op, a, u) ==
    CASE op = "deactivate" -> a = u \/ (users[u].active /\ users[u].root)
      [] op = "reset" -> \/ a = u
                         \/ users[u].root
                         \/ users[u].role = "admin" /\ ~users[a].root
      [] OTHER -> FALSE

\* Variant: the row is read without FOR UPDATE.
TargetUnlocked(r) ==
    LET u == req[r].user
    IN  /\ pc[r] = "target"
        /\ ~Refused(req[r].op, req[r].by, u)
        /\ req' = [req EXCEPT ![r].seen = users[u].mustChange]
        /\ pc' = [pc EXCEPT ![r] = "sweep"] /\ StartSweep(r, u)
        /\ UNCHANGED <<users, tokens, clock, spent, locks>>

\* _user_or_404 locks the target, the rules look at it, and its sessions end.
Target(r) ==
    LET u == req[r].user
    IN  /\ pc[r] = "target"
        /\ UserFree(r, u, "update")
        /\ IF Refused(req[r].op, req[r].by, u)
           THEN End(r, "refused")
           ELSE IF req[r].op = "deactivate" /\ ~users[u].active
           THEN End(r, "ok")
           ELSE /\ LockUser(r, u, "update")
                /\ req' = [req EXCEPT ![r].seen = users[u].mustChange]
                /\ IF req[r].op = "deactivate" /\ users[u].role = "admin"
                   THEN pc' = [pc EXCEPT ![r] = "others"] /\ UNCHANGED todo
                   ELSE pc' = [pc EXCEPT ![r] = "sweep"] /\ StartSweep(r, u)
                /\ UNCHANGED <<spent, tokenLocks>>
        /\ UNCHANGED <<users, tokens, clock>>

\* Variant: the others are not counted.
CountNobody(r) ==
    /\ pc[r] = "others"
    /\ StartSweep(r, req[r].user)
    /\ Go(r, "sweep")
    /\ UNCHANGED <<users, tokens, clock, spent, locks>>

\* deactivate() counts the other active admins, and locks them.
CountOthers(r) ==
    /\ pc[r] = "others"
    /\ \A u \in OtherAdmins(r) : UserFree(r, u, "update")
    /\ IF OtherAdmins(r) = {}
       THEN End(r, "refused")
       ELSE /\ userLocks' = [userLocks EXCEPT ![r] = @ \cup OtherAdmins(r) \X {"update"}]
            /\ StartSweep(r, req[r].user)
            /\ Go(r, "sweep")
            /\ UNCHANGED <<spent, tokenLocks>>
    /\ UNCHANGED <<users, tokens, clock>>

\* POST /users: only the root admin adds an admin.  scripts/create_admin.py
\* makes the root admin.  identifier_taken and the look for a root are reads.
CreateUser(r, a, u) ==
    /\ MayManage(a) /\ users[u].role = "none"
    /\ \E role \in {"staff", "admin"} :
        /\ role = "admin" => users[a].root
        /\ Start(r, "commit", [NoRequest EXCEPT !.op = "create", !.by = a, !.user = u,
                                                !.role = role])
    /\ UNCHANGED <<users, tokens, clock, work, locks>>

Bootstrap(r, u) ==
    /\ Roots = {} /\ users[u].role = "none"
    /\ Start(r, "commit", [NoRequest EXCEPT !.op = "bootstrap", !.user = u, !.role = "admin"])
    /\ UNCHANGED <<users, tokens, clock, work, locks>>

-----------------------------------------------------------------------------
(* What COMMIT makes of it. *)

\* Variant: when it expires is stored as when it was issued.
IssuedAtExpiry(r) ==
    LET q == req[r]
    IN  IF q.op = "login"
        THEN <<[user |-> q.user, parent |-> 0, succ |-> 0, revoked |-> FALSE,
                issued |-> q.at + Lifetime]>>
        ELSE <<>>

Issued(r) ==
    LET q == req[r]
    IN  IF q.op \in {"login", "change"} \/ q.path \in {"rotate", "grace", "inactive"}
        THEN <<[user |-> q.user, parent |-> q.tok, succ |-> 0,
                revoked |-> q.path = "inactive", issued |-> q.at]>>
        ELSE <<>>

CommittedTokens(r) ==
    [t \in TokenIds |->
        [tokens[t] EXCEPT
            !.revoked = @ \/ t \in spent[r],
            !.succ = IF t = req[r].tok /\ Issued(r) # <<>> THEN Len(tokens) + 1 ELSE @]]
    \o Issued(r)

\* An unchanged attribute is not in the UPDATE.
CommittedUser(r) ==
    LET q == req[r]
        row == users[q.user]
    IN  CASE q.op = "change" ->
                [row EXCEPT !.own = TRUE, !.mustChange = IF q.seen THEN FALSE ELSE @]
          [] q.op = "reset" ->
                [row EXCEPT !.own = FALSE, !.mustChange = IF q.seen THEN @ ELSE TRUE]
          [] q.op = "resetRoot" ->
                [row EXCEPT !.own = TRUE, !.mustChange = FALSE, !.active = TRUE]
          [] q.op = "deactivate" -> [row EXCEPT !.active = FALSE]
          [] q.op \in {"create", "bootstrap"} ->
                [role |-> q.role, root |-> q.op = "bootstrap", active |-> TRUE,
                 mustChange |-> q.op = "create", own |-> q.op = "bootstrap"]
          [] OTHER -> row

\* The username of an account that was made meanwhile is taken.
Taken(r) == req[r].op \in {"create", "bootstrap"} /\ users[req[r].user].role # "none"

Commit(r) ==
    /\ pc[r] = "commit" /\ ~Taken(r)
    /\ tokens' = CommittedTokens(r)
    /\ users' = [users EXCEPT ![req[r].user] = CommittedUser(r)]
    /\ End(r, IF req[r].path \in {"reuse", "inactive"} THEN "refused" ELSE "ok")
    /\ UNCHANGED clock

CommitTaken(r) ==
    /\ pc[r] = "commit" /\ Taken(r)
    /\ End(r, "aborted")
    /\ UNCHANGED <<users, tokens, clock>>

\* PostgreSQL cancels one of the transactions that wait in a circle.
DeadlockVictim(r) ==
    /\ \E C \in SUBSET Requests : r \in C /\ Cycle(C)
    /\ End(r, "aborted")
    /\ UNCHANGED <<users, tokens, clock>>

Tick ==
    /\ clock < MaxClock
    /\ clock' = clock + 1
    /\ UNCHANGED <<users, tokens, pc, req, work, locks>>

-----------------------------------------------------------------------------
\* Two admins, perhaps one of them the root, the second signed in, and a row
\* that is free: there may be no root, as in tests/test_phase4b_identity.py.
Member(role, root) ==
    [role |-> role, root |-> root, active |-> TRUE, mustChange |-> FALSE, own |-> TRUE]

Init ==
    /\ \E root \in BOOLEAN :
        users = [u \in Users |-> CASE u = 1 -> Member("admin", root)
                                   [] u = 2 -> Member("admin", FALSE)
                                   [] OTHER -> Absent]
    /\ tokens = <<[user |-> 2, parent |-> 0, succ |-> 0, revoked |-> FALSE, issued |-> 0]>>
    /\ clock = 0
    /\ pc = [r \in Requests |-> "idle"]
    /\ req = [r \in Requests |-> NoRequest]
    /\ todo = [r \in Requests |-> {}]
    /\ spent = [r \in Requests |-> {}]
    /\ tokenLocks = [r \in Requests |-> {}]
    /\ userLocks = [r \in Requests |-> {}]

Arrive(r) ==
    \/ \E t \in TokenIds : Present(r, t) \/ PresentExpired(r, t) \/ Logout(r, t)
    \/ \E u \in Users : Login(r, u) \/ ChangePassword(r, u) \/ ResetRoot(r, u) \/ Bootstrap(r, u)
    \/ \E a, u \in Users : Deactivate(r, a, u) \/ ResetPassword(r, a, u) \/ CreateUser(r, a, u)

Proceed(r) ==
    \/ SweepRow(r) \/ SweepDone(r)
    \/ Retire(r) \/ Issue(r) \/ UpdateUser(r)
    \/ LockAdmin(r) \/ Target(r) \/ CountOthers(r)
    \/ Commit(r) \/ CommitTaken(r)
    \/ DeadlockVictim(r)

Next == (\E r \in Requests : Arrive(r) \/ Proceed(r)) \/ Tick

Safety == Init /\ [][Next]_vars

\* A handler goes on as long as its transaction can; nothing makes anyone call.
Spec == Safety /\ \A r \in Requests : WF_vars(Proceed(r))

-----------------------------------------------------------------------------
(* Properties. *)

TypeOK ==
    /\ users \in [Users -> User]
    /\ tokens \in Seq(Token)
    /\ clock \in 0..MaxClock
    /\ pc \in [Requests -> Pcs]
    /\ req \in [Requests -> Request]
    /\ todo \in [Requests -> SUBSET (Users \cup TokenIds)]
    /\ spent \in [Requests -> SUBSET TokenIds]
    /\ tokenLocks \in [Requests -> SUBSET TokenIds]
    /\ userLocks \in [Requests -> SUBSET (Users \X Modes)]

\* However often a token is presented, at once or again, at most one of the
\* tokens it was exchanged for is still good: two refreshes that overlap do not
\* both mint a successor, and a retry after a lost answer replaces the one that
\* was lost (rotate, the lock of its row and the grace path).
OneLiveSuccessor == \A t \in TokenIds : Cardinality(LiveChildren(t)) <= 1

Committing(r) == pc[r] = "commit" /\ pc'[r] = "ok"

\* When an admin's reset or deactivation commits, no session of the account is
\* left, whichever sign-ins and refreshes were under way: they wait for the row
\* of the user, or are waited for, or one of the two is cancelled (_user_or_404
\* and the foreign key of refresh_tokens).  And no refresh gives a token to an
\* account that is not active when it commits, though it read the account
\* before it waited, and though a sign-in that overtook the deactivation left a
\* live token behind.
SessionsEndWithTheAccount ==
    [][\A r \in Requests :
        Committing(r) =>
            /\ req[r].op \in {"deactivate", "reset", "resetRoot"} =>
                   \A t \in DOMAIN tokens' :
                       tokens'[t].user = req[r].user => tokens'[t].revoked
            /\ req[r].op = "refresh" => users[req[r].user].active]_vars

\* There is always an active admin, whatever admins do to one another at the
\* same moment: the last one is refused even where there is no root admin.
AnAdminRemains == ActiveAdmins # {}

\* A password that somebody else chose must be changed before anything is done
\* with it, also when the owner's own change and the reset overlap.
OthersPasswordMustChange ==
    \A u \in Users : users[u].role # "none" /\ ~users[u].own => users[u].mustChange

\* "Taken before any single user row, it makes concurrent admin changes queue
\* instead of deadlocking" (lock_active_admins, app/services/users.py:39-40), and
\* so it does unless an admin is deactivated while others wait for them: these
\* keep the row, and a change that came later no longer lists it and wants it
\* as its target only after those it does list.
AdminChangesQueue ==
    \A C \in SUBSET Requests :
        Cycle(C) /\ (\A r \in C : req[r].op = "deactivate") =>
            \E r \in C, u \in Users :
                /\ <<u, "update">> \in userLocks[r]
                /\ users[u].role = "admin" /\ ~users[u].active

\* What change_password says: the caller stays signed in here, and every other
\* device is signed out.
OtherDevicesSignedOut ==
    [][\A r \in Requests :
        Committing(r) /\ req[r].op = "change" =>
            \A t \in TokenIds : tokens[t].user = req[r].user => tokens'[t].revoked]_vars
=============================================================================
