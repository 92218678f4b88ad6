------------------------------ MODULE Accounts ------------------------------
(***************************************************************************)
(* Login accounts of the Worker (apps/cloudflare): sessions, passwords,    *)
(* what an administrator does with accounts, and applications for one.     *)
(*                                                                         *)
(* A handler looks up its session and reads the rows it needs, awaits (a   *)
(* password derivation among others), and writes with one D1 batch.  The   *)
(* batch asks for a version, not for the session again.  An UPDATE that    *)
(* misses writes nothing and the rest of its batch commits; a broken       *)
(* UNIQUE key or a trigger's ABORT undoes the batch.                       *)
(*                                                                         *)
(* A session that has expired counts for nothing and is deleted by the     *)
(* next login: here it is gone when it expires.  A handler that is lost    *)
(* takes no further step.                                                  *)
(***************************************************************************)
EXTENDS Integers

CONSTANTS
    Logins, NoLogin,    \* login_id values
    Admins,             \* the accounts there are at the start, role admin
    Passwords, NoPassword,
    Tokens, NoToken,    \* session tokens
    Applications,       \* registration requests
    Requests,           \* handlers that may run at the same time
    Scopes,             \* the sets of handlers to look at together
    MaxVersion          \* bound: versions of an account

ASSUME AccountsAssumption ==
    /\ NoLogin \notin Logins /\ NoPassword \notin Passwords /\ NoToken \notin Tokens
    /\ Admins \subseteq Logins /\ Admins # {}
    /\ Scopes \subseteq SUBSET {"login", "create", "apply", "APPROVED", "REJECTED",
                               "ACTIVATE", "DEACTIVATE", "RESET", "password"}
    /\ MaxVersion \in Nat \ {0}

VARIABLES
    accounts,           \* preview_users: login -> row
    sessions,           \* preview_sessions: token -> login
    applications,       \* preview_user_registration_requests: id -> row
    events,             \* preview_user_admin_events, with the account's version then
    request,            \* the handlers in flight
    scope               \* the handlers people call

vars == <<accounts, sessions, applications, events, request, scope>>
-----------------------------------------------------------------------------
Account == [password : Passwords, active : BOOLEAN, admin : BOOLEAN,
            version : 1..MaxVersion]
Application == [login : Logins, password : Passwords,
                status : {"PENDING", "APPROVED", "REJECTED"}]
Action == {"ACTIVATE", "DEACTIVATE", "RESET"}
Event == [target : Logins, action : Action \cup {"CREATE", "ADMIT"}, version : 1..MaxVersion]

Kind == {"none", "login", "create", "apply", "APPROVED", "REJECTED", "password"} \cup Action
Request == [kind : Kind,
            user : Logins \cup {NoLogin},         \* whose session asks
            token : Tokens \cup {NoToken},
            target : Logins \cup {NoLogin},       \* the account it is about
            application : Applications \cup {"none"},
            old : Passwords \cup {NoPassword},    \* what a password change proves
            new : Passwords \cup {NoPassword},
            admin : BOOLEAN,                      \* the new account's role
            version : 0..MaxVersion]              \* of the target, as read

Idle == [kind |-> "none", user |-> NoLogin, token |-> NoToken, target |-> NoLogin,
         application |-> "none", old |-> NoPassword, new |-> NoPassword,
         admin |-> FALSE, version |-> 0]

Begin(r, q) ==
    /\ q.kind \in scope
    /\ request' = [request EXCEPT ![r] = q]
Done(r) == request' = [request EXCEPT ![r] = Idle]

Put(table, id, row) == [x \in DOMAIN table \cup {id} |-> IF x = id THEN row ELSE table[x]]
Without(gone) == [t \in DOMAIN sessions \ gone |-> sessions[t]]
SessionsOf(u) == {t \in DOMAIN sessions : sessions[t] = u}

(* previewSessionUser.                                                     *)
SignedIn(u, t) == t \in SessionsOf(u) /\ accounts[u].active
AdminSignedIn(u) == accounts[u].admin /\ \E t \in Tokens : SignedIn(u, t)
-----------------------------------------------------------------------------
(* POST /api/auth/login: the row and the password, and later the session,  *)
(* with a random token.                                                    *)
ReceiveLogin(r, u, password) ==
    /\ u \in DOMAIN accounts
    /\ accounts[u].active /\ accounts[u].password = password
    /\ Begin(r, [Idle EXCEPT !.kind = "login", !.user = u])
    /\ UNCHANGED <<accounts, sessions, applications, events, scope>>

CommitLogin(r, t) ==
    /\ request[r].kind = "login"
    /\ t \notin DOMAIN sessions /\ \A other \in Requests : request[other].token # t
    /\ Done(r)
    /\ sessions' = Put(sessions, t, request[r].user)
    /\ UNCHANGED <<accounts, applications, events, scope>>

(* POST /api/auth/logout, or PREVIEW_SESSION_SECONDS have passed.          *)
EndSession(t) ==
    /\ t \in DOMAIN sessions
    /\ sessions' = Without({t})
    /\ UNCHANGED <<accounts, applications, events, request, scope>>

-----------------------------------------------------------------------------
(* The audit row of a batch, whoever the actor.                            *)
Audit(target, action, version) == [target |-> target, action |-> action, version |-> version]

(* An account with its first audit row, which tells an account made by an  *)
(* administrator from an applicant's.  Mutant: versions start at zero.     *)
CreatedUnversioned(login, password, admin, action) ==
    /\ accounts' = Put(accounts, login, [password |-> password, active |-> TRUE,
                                         admin |-> admin, version |-> 0])
    /\ events' = events \cup {Audit(login, action, 1)}
Created(login, password, admin, action) ==
    /\ accounts' = Put(accounts, login, [password |-> password, active |-> TRUE,
                                         admin |-> admin, version |-> 1])
    /\ events' = events \cup {Audit(login, action, 1)}

(* login_id is UNIQUE.                                                     *)
LoginFree(login) == login \notin DOMAIN accounts

(* POST /api/admin/users.                                                  *)
ReceiveCreate(r, u, login, password, admin) ==
    /\ u \in DOMAIN accounts /\ AdminSignedIn(u)
    /\ Begin(r, [Idle EXCEPT !.kind = "create", !.user = u, !.target = login,
                             !.new = password, !.admin = admin])
    /\ UNCHANGED <<accounts, sessions, applications, events, scope>>

CommitCreate(r) ==
    LET q == request[r] IN
    /\ q.kind = "create"
    /\ Done(r)
    /\ IF LoginFree(q.target)
             THEN Created(q.target, q.new, q.admin, "CREATE")
             ELSE UNCHANGED <<accounts, events>>
    /\ UNCHANGED <<sessions, applications, scope>>
-----------------------------------------------------------------------------
Pending(login) == {a \in DOMAIN applications : /\ applications[a].login = login
                                               /\ applications[a].status = "PENDING"}

(* POST /api/auth/registration-requests, from anyone.                      *)
ReceiveApply(r, a, login, password) ==
    /\ a \notin DOMAIN applications
    /\ \A other \in Requests : request[other].application # a
    /\ login \notin DOMAIN accounts /\ Pending(login) = {}
    /\ Begin(r, [Idle EXCEPT !.kind = "apply", !.target = login, !.application = a,
                             !.new = password])
    /\ UNCHANGED <<accounts, sessions, applications, events, scope>>

(* idx_preview_registration_pending_login: one PENDING per login; and the  *)
(* id is the PRIMARY KEY.                                                  *)
CommitApply(r) ==
    LET q == request[r] IN
    /\ q.kind = "apply"
    /\ Done(r)
    /\ applications' = IF Pending(q.target) = {} /\ q.application \notin DOMAIN applications
         THEN Put(applications, q.application,
                  [login |-> q.target, password |-> q.new, status |-> "PENDING"])
         ELSE applications
    /\ UNCHANGED <<accounts, sessions, events, scope>>

(* PUT /api/admin/registration-requests/<id>.                              *)
ReceiveVerdict(r, u, a, status) ==
    /\ u \in DOMAIN accounts /\ AdminSignedIn(u)
    /\ a \in DOMAIN applications /\ applications[a].status = "PENDING"
    /\ status = "APPROVED" => applications[a].login \notin DOMAIN accounts
    /\ Begin(r, [Idle EXCEPT !.kind = status, !.user = u, !.application = a])
    /\ UNCHANGED <<accounts, sessions, applications, events, scope>>

(* UPDATE ... WHERE status = 'PENDING' AND version = ?.                    *)
VerdictAfter(a, status) ==
    IF applications[a].status = "PENDING"
      THEN [applications EXCEPT ![a].status = status] ELSE applications

(* The batch: for an approval the account and its audit row, which commit  *)
(* also when the application is found decided and the answer is 409.       *)
CommitVerdict(r) ==
    LET q == request[r]
        row == applications[q.application]
    IN  /\ q.kind \in {"APPROVED", "REJECTED"}
        /\ Done(r)
        /\ IF q.kind = "APPROVED" /\ ~LoginFree(row.login)
             THEN UNCHANGED <<accounts, applications, events, scope>>
             ELSE /\ applications' = VerdictAfter(q.application, q.kind)
                  /\ IF q.kind = "APPROVED"
                       THEN Created(row.login, row.password, FALSE, "ADMIT")
                       ELSE UNCHANGED <<accounts, events>>
        /\ UNCHANGED <<sessions, scope>>
-----------------------------------------------------------------------------
(* PUT /api/admin/users/<id>: not to deactivate oneself.                   *)
ReceiveAction(r, u, target, action, password) ==
    /\ u \in DOMAIN accounts /\ AdminSignedIn(u)
    /\ target \in DOMAIN accounts /\ accounts[target].version < MaxVersion
    /\ action = "DEACTIVATE" => target # u
    /\ (action = "RESET") <=> (password # NoPassword)
    /\ Begin(r, [Idle EXCEPT !.kind = action, !.user = u, !.target = target,
                             !.new = password, !.version = accounts[target].version])
    /\ UNCHANGED <<accounts, sessions, applications, events, scope>>

ActiveAdmins == {u \in DOMAIN accounts : accounts[u].admin /\ accounts[u].active}

(* preview_users_last_admin_guard.  Mutant: there is no such trigger.      *)
LastAdminGuardNone(target, active) == TRUE
LastAdminGuard(target, active) ==
    target \in ActiveAdmins /\ ~active => ActiveAdmins # {target}

(* UPDATE preview_users ... WHERE version = ?.                             *)
(* Mutant: the version is not compared.                                    *)
AccountHitAny(u, version) == accounts[u].version < MaxVersion
AccountHit(u, version) == accounts[u].version = version

(* INSERT ... WHERE EXISTS a row with the next version: that of this       *)
(* batch, or of another that was faster.  Mutant: with the version read.   *)
LoggedIfUnmoved(rows, u, version) == rows[u].version = version
Logged(rows, u, version) == rows[u].version = version + 1

(* The batch: account, its sessions (whatever the UPDATE did), audit row.  *)
CommitAction(r) ==
    LET q == request[r]
        row == accounts[q.target]
        active == IF q.kind = "RESET" THEN row.active ELSE q.kind = "ACTIVATE"
        password == IF q.kind = "RESET" THEN q.new ELSE row.password
        hit == AccountHit(q.target, q.version)
        after == IF hit
            THEN [accounts EXCEPT ![q.target] =
                    [row EXCEPT !.active = active, !.password = password, !.version = @ + 1]]
            ELSE accounts
    IN  /\ q.kind \in Action
        /\ Done(r)
        /\ IF hit /\ ~LastAdminGuard(q.target, active)
             THEN UNCHANGED <<accounts, sessions, events>>
             ELSE /\ accounts' = after
                  /\ sessions' = Without(SessionsOf(q.target))
                  /\ events' = IF Logged(after, q.target, q.version)
                       THEN events \cup {Audit(q.target, q.kind, q.version + 1)}
                       ELSE events
        /\ UNCHANGED <<applications, scope>>
-----------------------------------------------------------------------------
(* PUT /api/auth/password: an active user who knows the password.          *)
ReceivePassword(r, u, t, old, new) ==
    /\ u \in DOMAIN accounts /\ SignedIn(u, t)
    /\ accounts[u].version < MaxVersion
    /\ accounts[u].password = old /\ old # new
    /\ Begin(r, [Idle EXCEPT !.kind = "password", !.user = u, !.token = t, !.target = u,
                             !.old = old, !.new = new, !.version = accounts[u].version])
    /\ UNCHANGED <<accounts, sessions, applications, events, scope>>

(* The batch: as above, WHERE the account is active, and without the       *)
(* session that asks.                                                      *)
CommitPassword(r) ==
    LET q == request[r]
        row == accounts[q.user]
        after == IF AccountHit(q.user, q.version) /\ row.active
            THEN [accounts EXCEPT ![q.user] =
                    [row EXCEPT !.password = q.new, !.version = @ + 1]]
            ELSE accounts
    IN  /\ q.kind = "password"
        /\ Done(r)
        /\ accounts' = after
        /\ sessions' = Without(SessionsOf(q.user) \ {q.token})
        /\ events' = IF Logged(after, q.user, q.version)
             THEN events \cup {Audit(q.user, "RESET", q.version + 1)} ELSE events
        /\ UNCHANGED <<applications, scope>>
-----------------------------------------------------------------------------
(* The administrators there are, each with a session.                      *)
Init ==
    /\ \E password \in Passwords :
          accounts = [u \in Admins |-> [password |-> password, active |-> TRUE,
                                        admin |-> TRUE, version |-> 1]]
    /\ \E tokens \in [Admins -> Tokens] :
          /\ \A u, v \in Admins : tokens[u] = tokens[v] => u = v
          /\ sessions = [t \in {tokens[u] : u \in Admins} |->
                            CHOOSE u \in Admins : tokens[u] = t]
    /\ applications = [a \in {} |-> NoLogin]
    /\ events = {}
    /\ request = [r \in Requests |-> Idle]
    /\ scope \in Scopes

ReceiveAdmin(r, u) ==
    \/ \E login \in Logins, password \in Passwords, admin \in BOOLEAN :
          ReceiveCreate(r, u, login, password, admin)
    \/ \E a \in Applications, status \in {"APPROVED", "REJECTED"} :
          ReceiveVerdict(r, u, a, status)
    \/ \E target \in Logins, action \in Action, password \in Passwords \cup {NoPassword} :
          ReceiveAction(r, u, target, action, password)

Receive(r, u) ==
    /\ request[r] = Idle
    /\ \/ \E password \in Passwords : ReceiveLogin(r, u, password)
       \/ \E a \in Applications, password \in Passwords : ReceiveApply(r, a, u, password)
       \/ \E t \in Tokens, old, new \in Passwords : ReceivePassword(r, u, t, old, new)
       \/ ReceiveAdmin(r, u)

Commit(r) ==
    \/ \E t \in Tokens : CommitLogin(r, t)
    \/ CommitCreate(r) \/ CommitApply(r) \/ CommitVerdict(r)
    \/ CommitAction(r) \/ CommitPassword(r)

Next ==
    \/ \E r \in Requests : (\E u \in Logins : Receive(r, u)) \/ Commit(r)
    \/ \E t \in Tokens : EndSession(t)

Spec == Init /\ [][Next]_vars
-----------------------------------------------------------------------------
(* Type correctness of the tables and of the requests in flight.           *)
TypeOK ==
    /\ DOMAIN accounts \subseteq Logins
    /\ \A u \in DOMAIN accounts : accounts[u] \in Account
    /\ DOMAIN sessions \subseteq Tokens
    /\ \A t \in DOMAIN sessions : sessions[t] \in DOMAIN accounts
    /\ DOMAIN applications \subseteq Applications
    /\ \A a \in DOMAIN applications : applications[a] \in Application
    /\ events \subseteq Event
    /\ request \in [Requests -> Request]
    /\ scope \in Scopes

(* Two administrators deactivate each other at once: whatever they do, one *)
(* active administrator is left to undo it.                                *)
AdminRemains == ActiveAdmins # {}

(* Every version an account went through since it was there has its audit  *)
(* row.                                                                    *)
EveryVersionIsLogged ==
    \A u \in DOMAIN accounts : \A n \in 1..accounts[u].version :
        n > 1 \/ u \notin Admins => \E e \in events : e.target = u /\ e.version = n

(* An approved applicant has the account of the application's login, and   *)
(* it was made by the approval: not by an administrator who was entering   *)
(* the same login at that time.                                            *)
ApprovedHasAccount ==
    \A a \in DOMAIN applications :
        applications[a].status = "APPROVED" =>
            /\ applications[a].login \in DOMAIN accounts
            /\ {e.action : e \in {e \in events : /\ e.target = applications[a].login
                                                 /\ e.version = 1}} = {"ADMIT"}

(* And back: an audit row is of a version its account went through, and an *)
(* account that came from an application belongs to a decided one.         *)
EventsOfAccounts ==
    \A e \in events :
        /\ e.target \in DOMAIN accounts /\ e.version <= accounts[e.target].version
        /\ e.action = "ADMIT" => \E a \in DOMAIN applications :
               applications[a].login = e.target /\ applications[a].status # "PENDING"

(* Audit log, applications and accounts agree while batches race.  What    *)
(* they do not say is who won: an approval that finds the application just *)
(* rejected answers 409, and its account and audit row are there all the   *)
(* same; and an update that missed may add a row for the version another   *)
(* handler made.                                                           *)
RecordsAgree == EveryVersionIsLogged /\ ApprovedHasAccount /\ EventsOfAccounts

(* A user changes a password while an administrator resets it or closes    *)
(* the account: a password is only replaced on proof of the one it         *)
(* replaces, of an active account, or by an administrator's reset.  So a   *)
(* change that was asked for before a reset does not undo it.              *)
ProvenPassword ==
    [][\A u \in DOMAIN accounts :
          accounts'[u].password # accounts[u].password =>
              \E r \in Requests :
                  LET q == request[r] IN
                  /\ request'[r] # q /\ q.target = u
                  /\ q.new = accounts'[u].password
                  /\ \/ q.kind = "RESET"
                     \/ /\ q.kind = "password"
                        /\ q.old = accounts[u].password /\ accounts[u].active]_vars
=============================================================================
