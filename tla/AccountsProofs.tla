--------------------------- MODULE AccountsProofs ---------------------------
(***************************************************************************)
(* Theorems of Accounts for every set of logins, passwords, tokens,        *)
(* applications and handlers, every bound and every set of handlers called *)
(* together: an administrator always remains, the records tell how every   *)
(* account came to be, and no password changes without proof.              *)
(***************************************************************************)
EXTENDS Accounts, TLAPS

Tables == <<accounts, sessions, applications, events>>

(* What a handler has read.  Versions of an account only grow, and with    *)
(* the version a password change has read the password is the proved one.  *)
Flight(q) ==
    /\ q.kind = "login" => q.user \in DOMAIN accounts
    /\ q.kind \in {"create", "apply"} => q.target \in Logins /\ q.new \in Passwords
    /\ q.kind = "apply" => q.application \in Applications
    /\ q.kind \in {"APPROVED", "REJECTED"} => q.application \in DOMAIN applications
    /\ q.kind \in Action \cup {"password"} =>
          /\ q.target \in DOMAIN accounts
          /\ q.version \in 1..accounts[q.target].version /\ q.version < MaxVersion
    /\ q.kind = "RESET" => q.new \in Passwords
    /\ q.kind = "password" =>
          /\ q.user = q.target /\ q.new \in Passwords
          /\ accounts[q.target].version = q.version => accounts[q.target].password = q.old

RequestsOK == /\ request \in [Requests -> Request]
              /\ \A r \in Requests : Flight(request[r])

(* The types of all but the requests.                                      *)
TablesOK ==
    /\ DOMAIN accounts \subseteq Logins
    /\ \A u \in DOMAIN accounts : accounts[u] \in Account
    /\ DOMAIN sessions \subseteq Tokens
    /\ \A t \in DOMAIN sessions : sessions[t] \in DOMAIN accounts
    /\ DOMAIN applications \subseteq Applications
    /\ \A a \in DOMAIN applications : applications[a] \in Application
    /\ events \subseteq Event
    /\ scope \in Scopes

Inv == TablesOK /\ RequestsOK /\ AdminRemains /\ RecordsAgree

(* Accounts and applications stay, versions grow, and a password changes   *)
(* with the version.                                                       *)
Grows ==
    /\ \A u \in DOMAIN accounts :
          /\ u \in DOMAIN accounts' /\ accounts[u].version <= accounts'[u].version
          /\ accounts'[u].version = accounts[u].version =>
                accounts'[u].password = accounts[u].password
    /\ DOMAIN applications \subseteq DOMAIN applications'

-----------------------------------------------------------------------------
LEMMA IdleFacts == Idle \in Request /\ Idle.kind = "none"
  BY AccountsAssumption DEF Idle, Request, Kind, Action

LEMMA FlightGrows ==
    ASSUME TablesOK, TablesOK', Grows, NEW q \in Request, Flight(q)
    PROVE  Flight(q)'
  <1>1. ASSUME NEW u \in DOMAIN accounts, NEW v \in 1..accounts[u].version
        PROVE  /\ u \in DOMAIN accounts' /\ v \in 1..accounts'[u].version
               /\ accounts'[u].version = v => accounts[u].version = v
    <2>1. accounts[u].version \in Int /\ accounts'[u].version \in Int
      BY AccountsAssumption DEF Grows, TablesOK, Account
    <2> QED BY <2>1 DEF Grows
  <1>2. q.kind \in Action \cup {"password"} =>
          /\ q.target \in DOMAIN accounts'
          /\ q.version \in 1..accounts'[q.target].version /\ q.version < MaxVersion
    BY <1>1 DEF Flight
  <1>3. q.kind = "password" /\ accounts'[q.target].version = q.version =>
          accounts'[q.target].password = q.old
    BY <1>1 DEF Flight, Grows
  <1>4. q.kind = "login" => q.user \in DOMAIN accounts'
    BY DEF Flight, Grows
  <1>5. q.kind \in {"APPROVED", "REJECTED"} => q.application \in DOMAIN applications'
    BY DEF Flight, Grows
  <1> QED BY <1>2, <1>3, <1>4, <1>5 DEF Flight

(* One request moves on, the others still know what they have read.        *)
LEMMA RequestMoves ==
    ASSUME RequestsOK, TablesOK, TablesOK', Grows, NEW r \in Requests, NEW n \in Request,
           request' = [request EXCEPT ![r] = n], Flight(n)'
    PROVE  RequestsOK'
  <1>1. /\ request' \in [Requests -> Request] /\ request'[r] = n
        /\ \A s \in Requests : s # r => request'[s] = request[s]
    BY DEF RequestsOK
  <1>2. ASSUME NEW s \in Requests PROVE Flight(request[s])'
    <2>1. CASE s = r
      BY <1>1, <2>1 DEF Flight
    <2>2. CASE s # r
      <3>1. PICK q \in Request : q = request[s]
        BY DEF RequestsOK
      <3>2. Flight(q)'
        BY <3>1, FlightGrows DEF RequestsOK
      <3>3. request'[s] = q
        BY <1>1, <2>2, <3>1
      <3> QED BY <3>2, <3>3 DEF Flight
    <2> QED BY <2>1, <2>2
  <1> QED BY <1>1, <1>2 DEF RequestsOK

LEMMA RequestEnds ==
    ASSUME RequestsOK, TablesOK, TablesOK', Grows, NEW r \in Requests, Done(r)
    PROVE  RequestsOK'
  <1>1. PICK n \in Request : n = Idle
    BY IdleFacts
  <1>2. Flight(n)'
    BY <1>1, IdleFacts DEF Flight, Action
  <1> QED BY <1>1, <1>2, RequestMoves DEF Done

LEMMA Still ==
    ASSUME TablesOK, UNCHANGED accounts, DOMAIN applications \subseteq DOMAIN applications'
    PROVE  Grows
  <1>1. \A u \in DOMAIN accounts : accounts[u].version \in Int
    BY DEF TablesOK, Account
  <1> QED BY <1>1 DEF Grows

(* A step that reads: a request begins, the tables stay.                   *)
LEMMA Reading ==
    ASSUME Inv, NEW r \in Requests, NEW n \in Request,
           request' = [request EXCEPT ![r] = n], Flight(n), UNCHANGED <<Tables, scope>>
    PROVE  Inv'
  <1>1. TablesOK' /\ AdminRemains' /\ RecordsAgree'
    BY DEF Inv, TablesOK, AdminRemains, ActiveAdmins, RecordsAgree, EventsOfAccounts,
           EveryVersionIsLogged, ApprovedHasAccount, Tables
  <1>2. Flight(n)' /\ Grows
    BY Still DEF Flight, Inv, Tables
  <1> QED BY <1>1, <1>2, RequestMoves DEF Inv

-----------------------------------------------------------------------------
LEMMA InvInit == Init => Inv
  <1> SUFFICES ASSUME Init PROVE Inv
    OBVIOUS
  <1>1. PICK p \in Passwords : accounts = [u \in Admins |->
             [password |-> p, active |-> TRUE, admin |-> TRUE, version |-> 1]]
    BY DEF Init
  <1>2. PICK tokens \in [Admins -> Tokens] :
             sessions = [t \in {tokens[u] : u \in Admins} |->
                            CHOOSE u \in Admins : tokens[u] = t]
    BY DEF Init
  <1>3. \A u \in DOMAIN accounts : accounts[u] \in Account /\ accounts[u].version = 1
    BY <1>1, AccountsAssumption DEF Account
  <1>4. ASSUME NEW t \in DOMAIN sessions PROVE sessions[t] \in Admins
    <2>1. PICK u \in Admins : tokens[u] = t
      BY <1>2
    <2>2. (CHOOSE w \in Admins : tokens[w] = t) \in Admins
      BY <2>1
    <2> QED BY <1>2, <2>2
  <1>5. TablesOK
    <2>1. DOMAIN sessions \subseteq Tokens
      BY <1>2
    <2>2. DOMAIN accounts = Admins
      BY <1>1
    <2> QED BY <1>3, <1>4, <2>1, <2>2, AccountsAssumption DEF Init, TablesOK
  <1>6. RequestsOK
    BY IdleFacts DEF Init, RequestsOK, Flight, Action
  <1>7. AdminRemains
    BY <1>1, AccountsAssumption DEF AdminRemains, ActiveAdmins
  <1>8. RecordsAgree
    BY <1>1, <1>3, AccountsAssumption
       DEF Init, RecordsAgree, EventsOfAccounts, EveryVersionIsLogged, ApprovedHasAccount
  <1> QED BY <1>5, <1>6, <1>7, <1>8 DEF Inv

LEMMA InvReceive ==
    ASSUME Inv, NEW r \in Requests, NEW u \in Logins, Receive(r, u)
    PROVE  Inv'
  <1>1. UNCHANGED <<Tables, scope>>
    BY DEF Receive, ReceiveLogin, ReceiveApply, ReceivePassword, ReceiveAdmin, ReceiveCreate,
           ReceiveVerdict, ReceiveAction, Tables
  <1>2. ASSUME NEW n \in Request, Begin(r, n), Flight(n) PROVE Inv'
    BY <1>1, <1>2, Reading DEF Begin
  <1>3. \A w \in DOMAIN accounts : accounts[w] \in Account /\ w \in Logins
    BY DEF Inv, TablesOK
  <1>4. ASSUME NEW password \in Passwords, ReceiveLogin(r, u, password)
        PROVE  Inv'
    <2> DEFINE n == [Idle EXCEPT !.kind = "login", !.user = u]
    <2>1. n \in Request /\ Flight(n)
      BY <1>4, IdleFacts DEF ReceiveLogin, Request, Kind, Action, Flight
    <2>2. Begin(r, n)
      BY <1>4 DEF ReceiveLogin
    <2> QED BY <1>2, <2>1, <2>2
  <1>5. ASSUME NEW a \in Applications, NEW password \in Passwords,
               ReceiveApply(r, a, u, password)
        PROVE  Inv'
    <2> DEFINE n == [Idle EXCEPT !.kind = "apply", !.target = u, !.application = a,
                                 !.new = password]
    <2>1. n \in Request /\ Flight(n)
      BY <1>5, IdleFacts DEF ReceiveApply, Request, Kind, Action, Flight
    <2>2. Begin(r, n)
      BY <1>5 DEF ReceiveApply
    <2> QED BY <1>2, <2>1, <2>2
  <1>6. ASSUME NEW t \in Tokens, NEW old \in Passwords, NEW new \in Passwords,
               ReceivePassword(r, u, t, old, new)
        PROVE  Inv'
    <2> DEFINE n == [Idle EXCEPT !.kind = "password", !.user = u, !.token = t, !.target = u,
                             !.old = old, !.new = new, !.version = accounts[u].version]
    <2>0. PICK v \in 0..MaxVersion : v = accounts[u].version /\ v >= 1
      BY <1>3, <1>6, AccountsAssumption DEF ReceivePassword, Account
    <2>1. /\ u \in DOMAIN accounts /\ accounts[u].password = old
          /\ accounts[u].version \in 1..MaxVersion /\ accounts[u].version < MaxVersion
      BY <1>3, <1>6 DEF ReceivePassword, Account
    <2>2. n \in Request
      BY <2>0, <2>1, IdleFacts DEF Request, Kind, Action
    <2>3. Flight(n)
      BY <2>0, <2>1, <2>2, AccountsAssumption DEF Action, Flight
    <2>4. Begin(r, n)
      BY <1>6 DEF ReceivePassword
    <2> QED BY <1>2, <2>2, <2>3, <2>4
  <1>7. ASSUME NEW login \in Logins, NEW password \in Passwords, NEW admin \in BOOLEAN,
               ReceiveCreate(r, u, login, password, admin)
        PROVE  Inv'
    <2> DEFINE n == [Idle EXCEPT !.kind = "create", !.user = u, !.target = login,
                                 !.new = password, !.admin = admin]
    <2>1. n \in Request /\ Flight(n)
      BY <1>7, IdleFacts DEF Request, Kind, Action, Flight
    <2>2. Begin(r, n)
      BY <1>7 DEF ReceiveCreate
    <2> QED BY <1>2, <2>1, <2>2
  <1>8. ASSUME NEW a \in Applications, NEW status \in {"APPROVED", "REJECTED"},
               ReceiveVerdict(r, u, a, status)
        PROVE  Inv'
    <2> DEFINE n == [Idle EXCEPT !.kind = status, !.user = u, !.application = a]
    <2>1. n \in Request /\ Flight(n)
      BY <1>8, IdleFacts DEF ReceiveVerdict, Request, Kind, Action, Flight
    <2>2. Begin(r, n)
      BY <1>8 DEF ReceiveVerdict
    <2> QED BY <1>2, <2>1, <2>2
  <1>9. ASSUME NEW target \in Logins, NEW action \in Action,
               NEW password \in Passwords \cup {NoPassword},
               ReceiveAction(r, u, target, action, password)
        PROVE  Inv'
    <2> DEFINE n == [Idle EXCEPT !.kind = action, !.user = u, !.target = target,
                             !.new = password, !.version = accounts[target].version]
    <2>0. PICK v \in 0..MaxVersion : v = accounts[target].version /\ v >= 1
      BY <1>3, <1>9, AccountsAssumption DEF ReceiveAction, Account
    <2>1. /\ target \in DOMAIN accounts
          /\ action = "RESET" => password \in Passwords
          /\ accounts[target].version \in 1..MaxVersion /\ accounts[target].version < MaxVersion
      BY <1>3, <1>9 DEF ReceiveAction, Account
    <2>2. n \in Request
      BY <2>0, <2>1, IdleFacts DEF Request, Kind, Action
    <2>3. Flight(n)
      <3>1. n.kind = action /\ n.target = target /\ n.new = password /\ n.version = v
        BY <2>0, IdleFacts DEF Request
      <3>2. action \notin {"login", "create", "apply", "APPROVED", "REJECTED", "password"}
        BY DEF Action
      <3>3. v \in 1..accounts[target].version /\ v < MaxVersion
        BY <2>0, <2>1, AccountsAssumption
      <3> HIDE DEF n
      <3> QED BY <2>1, <3>1, <3>2, <3>3 DEF Flight
    <2>4. Begin(r, n)
      BY <1>9 DEF ReceiveAction
    <2> QED BY <1>2, <2>2, <2>3, <2>4
  <1> QED BY <1>4, <1>5, <1>6, <1>7, <1>8, <1>9 DEF Receive, ReceiveAdmin

-----------------------------------------------------------------------------
(* An audit row e of a later version, of an account that is there: what    *)
(* the records say stays true, also of the account that just got there.    *)
LEMMA RecordsMore ==
    ASSUME TablesOK, RecordsAgree, NEW e \in Event, e.version # 1, e.action # "ADMIT",
           e.target \in DOMAIN accounts, UNCHANGED applications,
           events' \in {events, events \cup {e}},
           e \in events' => e.version <= accounts'[e.target].version,
           DOMAIN accounts' = DOMAIN accounts,
           \A u \in DOMAIN accounts :
              \/ accounts'[u].version = accounts[u].version
              \/ /\ u = e.target /\ e \in events' /\ e.version = accounts'[u].version
                 /\ accounts'[u].version = accounts[u].version + 1
    PROVE  RecordsAgree'
  <1>1. EventsOfAccounts'
    <2> SUFFICES ASSUME NEW x \in events'
                 PROVE  /\ x.target \in DOMAIN accounts
                        /\ x.version <= accounts'[x.target].version
                        /\ x.action = "ADMIT" => \E a \in DOMAIN applications :
                              applications[a].login = x.target /\ applications[a].status # "PENDING"
      BY DEF EventsOfAccounts
    <2>1. CASE x = e
      BY <2>1
    <2>2. CASE x \in events
      <3>1. /\ x.target \in DOMAIN accounts /\ x.version <= accounts[x.target].version
            /\ x.action = "ADMIT" => \E a \in DOMAIN applications :
                  applications[a].login = x.target /\ applications[a].status # "PENDING"
        BY <2>2 DEF RecordsAgree, EventsOfAccounts
      <3>2. x.version \in Int /\ accounts[x.target].version \in Int
        BY <2>2, <3>1 DEF TablesOK, Event, Account
      <3>3. \/ accounts'[x.target].version = accounts[x.target].version
            \/ accounts'[x.target].version = accounts[x.target].version + 1
        BY <3>1
      <3> QED BY <3>1, <3>2, <3>3
    <2> QED BY <2>1, <2>2
  <1>2. EveryVersionIsLogged'
    <2> SUFFICES ASSUME NEW u \in DOMAIN accounts, NEW n \in 1..accounts'[u].version,
                        n > 1 \/ u \notin Admins
                 PROVE  \E x \in events' : x.target = u /\ x.version = n
      BY DEF EveryVersionIsLogged
    <2>1. accounts[u].version \in Nat
      BY AccountsAssumption DEF TablesOK, Account
    <2>2. n \in 1..accounts[u].version => \E x \in events : x.target = u /\ x.version = n
      BY DEF RecordsAgree, EveryVersionIsLogged
    <2>3. n \notin 1..accounts[u].version => u = e.target /\ e \in events' /\ e.version = n
      BY <2>1
    <2> QED BY <2>2, <2>3
  <1>3. ApprovedHasAccount'
    <2>1. \A login : {x \in events' : x.target = login /\ x.version = 1}
                       = {x \in events : x.target = login /\ x.version = 1}
      OBVIOUS
    <2> QED BY <2>1 DEF RecordsAgree, ApprovedHasAccount
  <1> QED BY <1>1, <1>2, <1>3 DEF RecordsAgree

(* A new account has its first audit row, and no other of version 1.       *)
LEMMA RecordsCreated ==
    ASSUME TablesOK, RecordsAgree, NEW login \in Logins, login \notin DOMAIN accounts,
           NEW password \in Passwords, NEW admin \in BOOLEAN, NEW action \in {"CREATE", "ADMIT"},
           Created(login, password, admin, action),
           \A a \in DOMAIN applications' : applications'[a].status = "APPROVED" =>
              \/ a \in DOMAIN applications /\ applications'[a] = applications[a]
              \/ action = "ADMIT" /\ applications'[a].login = login,
           \A a \in DOMAIN applications : applications[a].status # "PENDING" =>
              /\ a \in DOMAIN applications' /\ applications'[a].status # "PENDING"
              /\ applications'[a].login = applications[a].login,
           action = "ADMIT" => \E a \in DOMAIN applications' :
              applications'[a].login = login /\ applications'[a].status # "PENDING"
    PROVE  RecordsAgree'
  <1> DEFINE e == Audit(login, action, 1)
  <1>1. /\ DOMAIN accounts' = DOMAIN accounts \cup {login}
        /\ accounts'[login].version = 1
        /\ \A u \in DOMAIN accounts : accounts'[u] = accounts[u]
        /\ events' = events \cup {e}
        /\ e.target = login /\ e.version = 1 /\ e.action = action
    BY DEF Created, Put, Audit
  <1> HIDE DEF e
  <1>2. EventsOfAccounts'
    <2> SUFFICES ASSUME NEW x \in events'
                 PROVE  /\ x.target \in DOMAIN accounts'
                        /\ x.version <= accounts'[x.target].version
                        /\ x.action = "ADMIT" => \E a \in DOMAIN applications' :
                              /\ applications'[a].login = x.target
                              /\ applications'[a].status # "PENDING"
      BY DEF EventsOfAccounts
    <2>1. CASE x = e
      BY <1>1, <2>1
    <2>2. CASE x \in events
      <3>1. /\ x.target \in DOMAIN accounts /\ x.version <= accounts[x.target].version
            /\ x.action = "ADMIT" => \E a \in DOMAIN applications :
                  applications[a].login = x.target /\ applications[a].status # "PENDING"
        BY <2>2 DEF RecordsAgree, EventsOfAccounts
      <3> QED BY <1>1, <3>1
    <2> QED BY <1>1, <2>1, <2>2
  <1>3. EveryVersionIsLogged'
    <2> SUFFICES ASSUME NEW u \in DOMAIN accounts', NEW n \in 1..accounts'[u].version,
                        n > 1 \/ u \notin Admins
                 PROVE  \E x \in events' : x.target = u /\ x.version = n
      BY DEF EveryVersionIsLogged
    <2>1. CASE u = login
      BY <1>1, <2>1
    <2>2. CASE u # login
      BY <1>1, <2>2 DEF RecordsAgree, EveryVersionIsLogged
    <2> QED BY <2>1, <2>2
  <1>4. ApprovedHasAccount'
    <2> SUFFICES ASSUME NEW a \in DOMAIN applications', applications'[a].status = "APPROVED"
                 PROVE  /\ applications'[a].login \in DOMAIN accounts'
                        /\ {x.action : x \in {x \in events' :
                               x.target = applications'[a].login /\ x.version = 1}} = {"ADMIT"}
      BY DEF ApprovedHasAccount
    <2>1. CASE a \in DOMAIN applications /\ applications'[a] = applications[a]
      <3>1. /\ applications[a].login \in DOMAIN accounts
            /\ {x.action : x \in {x \in events :
                   x.target = applications[a].login /\ x.version = 1}} = {"ADMIT"}
        BY <2>1 DEF RecordsAgree, ApprovedHasAccount
      <3>2. {x \in events' : x.target = applications[a].login /\ x.version = 1}
              = {x \in events : x.target = applications[a].login /\ x.version = 1}
        BY <1>1, <3>1
      <3> QED BY <1>1, <2>1, <3>1, <3>2
    <2>2. CASE action = "ADMIT" /\ applications'[a].login = login
      <3>1. {x \in events' : x.target = login /\ x.version = 1} = {e}
        BY <1>1 DEF RecordsAgree, EventsOfAccounts
      <3> QED BY <1>1, <2>2, <3>1
    <2> QED BY <2>1, <2>2
  <1> QED BY <1>2, <1>3, <1>4 DEF RecordsAgree

(* The tables and the administrators after an account was created.         *)
LEMMA CreatedFacts ==
    ASSUME TablesOK, AdminRemains, NEW login \in Logins, login \notin DOMAIN accounts,
           NEW password \in Passwords, NEW admin \in BOOLEAN, NEW action \in {"CREATE", "ADMIT"},
           Created(login, password, admin, action), UNCHANGED <<sessions, scope>>,
           DOMAIN applications' \subseteq Applications,
           \A a \in DOMAIN applications' : applications'[a] \in Application,
           DOMAIN applications \subseteq DOMAIN applications'
    PROVE  TablesOK' /\ AdminRemains' /\ Grows
  <1> DEFINE row == [password |-> password, active |-> TRUE, admin |-> admin, version |-> 1]
  <1>1. /\ DOMAIN accounts' = DOMAIN accounts \cup {login}
        /\ accounts'[login] = row
        /\ \A u \in DOMAIN accounts : accounts'[u] = accounts[u]
        /\ events' = events \cup {Audit(login, action, 1)}
    BY DEF Created, Put
  <1>2. row \in Account /\ Audit(login, action, 1) \in Event
    BY AccountsAssumption DEF Account, Audit, Event
  <1> HIDE DEF row
  <1>3. TablesOK'
    BY <1>1, <1>2 DEF TablesOK
  <1>4. AdminRemains'
    BY <1>1 DEF AdminRemains, ActiveAdmins
  <1>5. Grows
    <2>1. \A u \in DOMAIN accounts : accounts[u].version \in Int
      BY DEF TablesOK, Account
    <2> QED BY <1>1, <2>1 DEF Grows
  <1> QED BY <1>3, <1>4, <1>5

(* The tables after the row of account u was updated.                      *)
LEMMA UpdatedFacts ==
    ASSUME TablesOK, NEW u \in DOMAIN accounts, NEW row \in Account,
           accounts' = [accounts EXCEPT ![u] = row],
           row.version = accounts[u].version + 1, UNCHANGED <<applications, scope>>,
           DOMAIN sessions' \subseteq DOMAIN sessions,
           \A t \in DOMAIN sessions' : sessions'[t] = sessions[t],
           events' \subseteq Event
    PROVE  TablesOK' /\ Grows
  <1>1. /\ DOMAIN accounts' = DOMAIN accounts /\ accounts'[u] = row
        /\ \A w \in DOMAIN accounts : w # u => accounts'[w] = accounts[w]
    OBVIOUS
  <1>2. TablesOK'
    BY <1>1 DEF TablesOK
  <1>3. \A w \in DOMAIN accounts : accounts[w].version \in Int
    BY DEF TablesOK, Account
  <1> QED BY <1>1, <1>2, <1>3 DEF Grows

-----------------------------------------------------------------------------
LEMMA InvCommitLogin ==
    ASSUME Inv, NEW r \in Requests, NEW t \in Tokens, CommitLogin(r, t)
    PROVE  Inv'
  <1>1. request[r].user \in DOMAIN accounts
    BY DEF CommitLogin, Inv, RequestsOK, Flight
  <1>2. /\ DOMAIN sessions' = DOMAIN sessions \cup {t} /\ sessions'[t] = request[r].user
        /\ \A x \in DOMAIN sessions : x # t => sessions'[x] = sessions[x]
        /\ Done(r) /\ UNCHANGED <<accounts, applications, events, scope>>
    BY DEF CommitLogin, Put
  <1>3. TablesOK'
    BY <1>1, <1>2 DEF Inv, TablesOK
  <1>4. AdminRemains' /\ RecordsAgree'
    BY <1>2 DEF Inv, AdminRemains, ActiveAdmins, RecordsAgree, EventsOfAccounts,
                EveryVersionIsLogged, ApprovedHasAccount
  <1> QED BY <1>2, <1>3, <1>4, Still, RequestEnds DEF Inv

LEMMA InvEndSession ==
    ASSUME Inv, NEW t \in Tokens, EndSession(t)
    PROVE  Inv'
  <1>1. /\ DOMAIN sessions' \subseteq DOMAIN sessions
        /\ \A x \in DOMAIN sessions' : sessions'[x] = sessions[x]
        /\ UNCHANGED <<accounts, applications, events, request, scope>>
    BY DEF EndSession, Without
  <1>2. TablesOK'
    BY <1>1 DEF Inv, TablesOK
  <1>3. RequestsOK' /\ AdminRemains'
    BY <1>1 DEF Inv, RequestsOK, Flight, AdminRemains, ActiveAdmins
  <1>4. RecordsAgree'
    BY <1>1 DEF Inv, RecordsAgree, EventsOfAccounts, EveryVersionIsLogged,
                ApprovedHasAccount
  <1> QED BY <1>2, <1>3, <1>4 DEF Inv

(* A batch that changes nothing but the request.                           *)
LEMMA NothingWritten ==
    ASSUME Inv, NEW r \in Requests, Done(r), UNCHANGED <<Tables, scope>>
    PROVE  Inv'
  <1>1. PICK n \in Request : n = Idle
    BY IdleFacts
  <1>2. Flight(n)
    BY <1>1, IdleFacts DEF Flight, Action
  <1> QED BY <1>1, <1>2, Reading DEF Done

LEMMA InvCommitCreate ==
    ASSUME Inv, NEW r \in Requests, CommitCreate(r)
    PROVE  Inv'
  <1>1. PICK q \in Request : q = request[r]
    BY DEF Inv, RequestsOK
  <1>2. /\ q.kind = "create" /\ q.target \in Logins /\ q.new \in Passwords
        /\ q.admin \in BOOLEAN
        /\ Done(r) /\ UNCHANGED <<sessions, applications, scope>>
    BY <1>1 DEF CommitCreate, Inv, RequestsOK, Flight, Request
  <1>3. CASE q.target \notin DOMAIN accounts /\ Created(q.target, q.new, q.admin, "CREATE")
    <2>1. RecordsAgree'
      BY <1>2, <1>3, RecordsCreated DEF Inv
    <2>2. TablesOK' /\ AdminRemains' /\ Grows
      <3>1. \A a \in DOMAIN applications : applications[a] \in Application
        BY DEF Inv, TablesOK
      <3>2. DOMAIN applications \subseteq Applications
        BY DEF Inv, TablesOK
      <3> QED BY <1>2, <1>3, <3>1, <3>2, CreatedFacts DEF Inv
    <2> QED BY <1>2, <2>1, <2>2, RequestEnds DEF Inv
  <1>4. CASE UNCHANGED <<accounts, events>>
    BY <1>2, <1>4, NothingWritten DEF Tables
  <1> QED BY <1>1, <1>3, <1>4 DEF CommitCreate, LoginFree

LEMMA InvCommitApply ==
    ASSUME Inv, NEW r \in Requests, CommitApply(r)
    PROVE  Inv'
  <1>1. PICK q \in Request : q = request[r]
    BY DEF Inv, RequestsOK
  <1> DEFINE row == [login |-> q.target, password |-> q.new, status |-> "PENDING"]
  <1>2. /\ row \in Application /\ q.application \in Applications
        /\ Done(r) /\ UNCHANGED <<accounts, sessions, events, scope>>
        /\ \/ applications' = applications
           \/ /\ q.application \notin DOMAIN applications
              /\ applications' = Put(applications, q.application, row)
    BY <1>1 DEF CommitApply, Inv, RequestsOK, Flight, Application
  <1>3. row.status = "PENDING"
    OBVIOUS
  <1> HIDE DEF row
  <1>4. /\ DOMAIN applications' \subseteq DOMAIN applications \cup {q.application}
        /\ DOMAIN applications \subseteq DOMAIN applications'
        /\ \A a \in DOMAIN applications : applications'[a] = applications[a]
        /\ \A a \in DOMAIN applications' :
              \/ a \in DOMAIN applications /\ applications'[a] = applications[a]
              \/ applications'[a] = row
    BY <1>2 DEF Put
  <1>5. TablesOK' /\ Grows
    <2>1. TablesOK'
      BY <1>2, <1>4 DEF Inv, TablesOK
    <2> QED BY <1>2, <1>4, <2>1, Still DEF Inv
  <1>6. AdminRemains'
    BY <1>2 DEF Inv, AdminRemains, ActiveAdmins
  <1>7. RecordsAgree'
    <2>1. EventsOfAccounts' /\ EveryVersionIsLogged'
      BY <1>2, <1>4 DEF Inv, RecordsAgree, EventsOfAccounts, EveryVersionIsLogged
    <2>2. \A a \in DOMAIN applications' : applications'[a].status = "APPROVED" =>
             a \in DOMAIN applications /\ applications'[a] = applications[a]
      BY <1>3, <1>4
    <2>3. ApprovedHasAccount'
      <3> SUFFICES ASSUME NEW a \in DOMAIN applications', applications'[a].status = "APPROVED"
                   PROVE  /\ applications'[a].login \in DOMAIN accounts'
                          /\ {x.action : x \in {x \in events' :
                                 x.target = applications'[a].login /\ x.version = 1}} = {"ADMIT"}
        BY DEF ApprovedHasAccount
      <3>1. a \in DOMAIN applications /\ applications'[a] = applications[a]
        BY <2>2
      <3>2. events' = events /\ accounts' = accounts
        BY <1>2
      <3> QED BY <3>1, <3>2 DEF Inv, RecordsAgree, ApprovedHasAccount
    <2> QED BY <2>1, <2>3 DEF RecordsAgree
  <1> QED BY <1>2, <1>5, <1>6, <1>7, RequestEnds DEF Inv

LEMMA InvCommitVerdict ==
    ASSUME Inv, NEW r \in Requests, CommitVerdict(r)
    PROVE  Inv'
  <1>1. PICK q \in Request : q = request[r]
    BY DEF Inv, RequestsOK
  <1>2. PICK a \in DOMAIN applications : a = q.application
    BY <1>1 DEF CommitVerdict, Inv, RequestsOK, Flight
  <1>3. PICK row \in Application : row = applications[a]
    BY DEF Inv, TablesOK
  <1>4. /\ q.kind \in {"APPROVED", "REJECTED"} /\ Done(r) /\ UNCHANGED <<sessions, scope>>
    BY <1>1 DEF CommitVerdict
  <1>5. CASE UNCHANGED <<accounts, applications, events>>
    BY <1>4, <1>5, NothingWritten DEF Tables
  <1>6. CASE applications' = VerdictAfter(a, q.kind)
    <2>1. /\ DOMAIN applications' = DOMAIN applications
          /\ \A b \in DOMAIN applications : b # a => applications'[b] = applications[b]
          /\ applications'[a] \in {row, [row EXCEPT !.status = q.kind]}
      BY <1>3, <1>6 DEF VerdictAfter
    <2>2. [row EXCEPT !.status = q.kind] \in Application
      BY <1>4 DEF Application
    <2>3. /\ DOMAIN applications' \subseteq Applications
          /\ \A b \in DOMAIN applications' : applications'[b] \in Application
      BY <2>1, <2>2 DEF Inv, TablesOK
    <2>4. applications'[a].login = row.login
      BY <2>1 DEF Application
    <2>5. \A b \in DOMAIN applications' : b # a => applications'[b] = applications[b]
      BY <2>1
    <2>6. CASE /\ q.kind = "APPROVED" /\ row.login \notin DOMAIN accounts
               /\ Created(row.login, row.password, FALSE, "ADMIT")
      <3>1. row.login \in Logins /\ row.password \in Passwords
        BY DEF Application
      <3>2. \A b \in DOMAIN applications' : applications'[b].status = "APPROVED" =>
               \/ b \in DOMAIN applications /\ applications'[b] = applications[b]
               \/ "ADMIT" = "ADMIT" /\ applications'[b].login = row.login
        BY <2>1, <2>4
      <3>3. applications'[a].status # "PENDING"
        BY <1>3, <1>6, <2>6 DEF VerdictAfter, Application
      <3>4. \A b \in DOMAIN applications : applications[b].status # "PENDING" =>
               /\ b \in DOMAIN applications' /\ applications'[b].status # "PENDING"
               /\ applications'[b].login = applications[b].login
        BY <1>3, <2>1, <2>4, <3>3
      <3>5. \E b \in DOMAIN applications' :
               applications'[b].login = row.login /\ applications'[b].status # "PENDING"
        BY <2>1, <2>4, <3>3
      <3>6. RecordsAgree'
        BY <2>6, <3>1, <3>2, <3>4, <3>5, RecordsCreated DEF Inv
      <3>7. TablesOK' /\ AdminRemains' /\ Grows
        BY <1>4, <2>1, <2>3, <2>6, <3>1, CreatedFacts DEF Inv
      <3> QED BY <1>4, <3>6, <3>7, RequestEnds DEF Inv
    <2>7. CASE q.kind = "REJECTED" /\ UNCHANGED <<accounts, events>>
      <3>1. TablesOK' /\ AdminRemains'
        BY <1>4, <2>3, <2>7 DEF Inv, TablesOK, AdminRemains, ActiveAdmins
      <3>2. RecordsAgree'
        <4>1. \A b \in DOMAIN applications' : applications'[b].status = "APPROVED" =>
                 applications'[b] = applications[b]
          BY <1>3, <2>1, <2>7 DEF Application
        <4>2. \A b \in DOMAIN applications : applications[b].status # "PENDING" =>
                 /\ applications'[b].status # "PENDING"
                 /\ applications'[b].login = applications[b].login
          BY <1>3, <1>6, <2>1, <2>4, <2>7 DEF VerdictAfter, Application
        <4>3. EventsOfAccounts'
          <5> SUFFICES ASSUME NEW x \in events
                       PROVE  /\ x.target \in DOMAIN accounts
                              /\ x.version <= accounts[x.target].version
                              /\ x.action = "ADMIT" => \E b \in DOMAIN applications' :
                                    /\ applications'[b].login = x.target
                                    /\ applications'[b].status # "PENDING"
            BY <2>7 DEF EventsOfAccounts
          <5> QED BY <2>1, <4>2 DEF Inv, RecordsAgree, EventsOfAccounts
        <4>4. EveryVersionIsLogged' /\ ApprovedHasAccount'
          BY <2>1, <2>7, <4>1 DEF Inv, RecordsAgree, EveryVersionIsLogged, ApprovedHasAccount
        <4> QED BY <4>3, <4>4 DEF RecordsAgree
      <3>3. Grows
        BY <2>1, <2>7, Still DEF Inv
      <3> QED BY <1>4, <3>1, <3>2, <3>3, RequestEnds DEF Inv
    <2>8. \/ /\ q.kind = "APPROVED" /\ row.login \notin DOMAIN accounts
             /\ Created(row.login, row.password, FALSE, "ADMIT")
          \/ q.kind = "REJECTED" /\ UNCHANGED <<accounts, events>>
          \/ UNCHANGED <<accounts, applications, events>>
      BY <1>1, <1>2, <1>3 DEF CommitVerdict, LoginFree
    <2> QED BY <1>5, <2>6, <2>7, <2>8
  <1> QED BY <1>1, <1>2, <1>5, <1>6 DEF CommitVerdict

(* The version changes by one, the administrators as the guard allows, and *)
(* the audit row of the new version is there.                              *)
LEMMA InvCommitAction ==
    ASSUME Inv, NEW r \in Requests, CommitAction(r)
    PROVE  Inv'
  <1>1. PICK q \in Request : q = request[r]
    BY DEF Inv, RequestsOK
  <1>2. /\ q.kind \in Action /\ Done(r) /\ UNCHANGED <<applications, scope>>
        /\ q.target \in DOMAIN accounts /\ q.version \in Nat \ {0} /\ q.version < MaxVersion
        /\ q.kind = "RESET" => q.new \in Passwords
    BY <1>1, AccountsAssumption DEF CommitAction, Inv, RequestsOK, Flight
  <1>3. PICK u \in DOMAIN accounts : u = q.target
    BY <1>2
  <1>4. PICK row \in Account : row = accounts[u]
    BY DEF Inv, TablesOK
  <1> DEFINE activeAfter == IF q.kind = "RESET" THEN row.active ELSE q.kind = "ACTIVATE"
             password == IF q.kind = "RESET" THEN q.new ELSE row.password
             e == Audit(u, q.kind, q.version + 1)
  <1>5. CASE UNCHANGED <<accounts, sessions, events>>
    BY <1>2, <1>5, NothingWritten DEF Tables
  <1>6. /\ e \in Event /\ e.version = q.version + 1 /\ e.target = u
        /\ e.version # 1 /\ e.action # "ADMIT"
    <2>1. u \in Logins /\ q.version + 1 \in 1..MaxVersion
      BY <1>2, AccountsAssumption DEF Inv, TablesOK
    <2> QED BY <1>2, <2>1 DEF Audit, Event, Action
  <1>7. ASSUME sessions' = Without(SessionsOf(u))
        PROVE  /\ DOMAIN sessions' \subseteq DOMAIN sessions
               /\ \A t \in DOMAIN sessions' : sessions'[t] = sessions[t]
    BY <1>7 DEF Without
  <1>8. CASE /\ row.version = q.version /\ LastAdminGuard(u, activeAfter)
             /\ accounts' = [accounts EXCEPT ![u] =
                               [row EXCEPT !.active = activeAfter, !.password = password,
                                           !.version = @ + 1]]
             /\ sessions' = Without(SessionsOf(u)) /\ events' = events \cup {e}
    <2>0. PICK new : new = [row EXCEPT !.active = activeAfter, !.password = password,
                                       !.version = q.version + 1]
      OBVIOUS
    <2>1. /\ accounts' = [accounts EXCEPT ![u] = new] /\ new \in Account
          /\ new.version = row.version + 1 /\ new.active = activeAfter
          /\ new.admin = row.admin
      <3>1. activeAfter \in BOOLEAN /\ password \in Passwords
        BY <1>2 DEF Account
      <3>2. q.version + 1 \in 1..MaxVersion
        BY <1>2, AccountsAssumption
      <3> HIDE DEF activeAfter, password
      <3>3. /\ new \in Account /\ new.version = q.version + 1 /\ new.active = activeAfter
            /\ new.admin = row.admin
        BY <2>0, <3>1, <3>2 DEF Account
      <3>4. accounts' = [accounts EXCEPT ![u] = new]
        BY <1>8, <2>0
      <3> QED BY <1>8, <3>3, <3>4
    <2>2. events' \subseteq Event
      BY <1>6, <1>8 DEF Inv, TablesOK
    <2>3. TablesOK' /\ Grows
      <3>1. /\ DOMAIN sessions' \subseteq DOMAIN sessions
            /\ \A t \in DOMAIN sessions' : sessions'[t] = sessions[t]
        BY <1>7, <1>8
      <3> HIDE DEF activeAfter, password, e
      <3>2. /\ accounts' = [accounts EXCEPT ![u] = new] /\ new \in Account
            /\ new.version = accounts[u].version + 1
        BY <1>4, <2>1
      <3> QED BY <1>2, <2>2, <3>1, <3>2, UpdatedFacts DEF Inv
    <2>4. /\ DOMAIN accounts' = DOMAIN accounts /\ accounts'[u] = new
          /\ \A w \in DOMAIN accounts : w # u => accounts'[w] = accounts[w]
      BY <2>1
    <2>5. AdminRemains'
      <3>1. CASE u \in ActiveAdmins /\ ~activeAfter
        <4>1. ActiveAdmins # {u}
          BY <1>8, <3>1 DEF LastAdminGuard
        <4>2. PICK w \in ActiveAdmins : w # u
          BY <3>1, <4>1
        <4> QED BY <2>4, <4>2 DEF AdminRemains, ActiveAdmins
      <3>2. CASE u \in ActiveAdmins /\ activeAfter
        BY <1>4, <2>1, <2>4, <3>2 DEF AdminRemains, ActiveAdmins
      <3>3. CASE u \notin ActiveAdmins
        BY <2>4, <3>3 DEF Inv, AdminRemains, ActiveAdmins
      <3> QED BY <3>1, <3>2, <3>3
    <2>6. RecordsAgree'
      <3>1. e \in events' /\ e.version = accounts'[u].version
            /\ accounts'[u].version = accounts[u].version + 1
        BY <1>4, <1>6, <1>8, <2>1, <2>4
      <3> HIDE DEF e
      <3>2. \A w \in DOMAIN accounts :
               \/ accounts'[w].version = accounts[w].version
               \/ /\ w = e.target /\ e \in events' /\ e.version = accounts'[w].version
                  /\ accounts'[w].version = accounts[w].version + 1
        BY <1>6, <2>4, <3>1
      <3>3. events' = events \cup {e}
        BY <1>8 DEF e
      <3>4. e.version <= accounts'[e.target].version
        BY <1>4, <1>6, <1>8, <2>1, <2>4 DEF Event
      <3> QED BY <1>2, <1>6, <2>4, <3>2, <3>3, <3>4, RecordsMore DEF Inv
    <2> QED BY <1>2, <2>3, <2>5, <2>6, RequestEnds DEF Inv
  <1>9. CASE /\ accounts' = accounts /\ sessions' = Without(SessionsOf(u))
             /\ \/ events' = events
                \/ row.version = q.version + 1 /\ events' = events \cup {e}
    <2> HIDE DEF e
    <2>1. TablesOK'
      BY <1>2, <1>6, <1>7, <1>9 DEF Inv, TablesOK
    <2>2. RecordsAgree'
      <3>1. CASE events' = events
        BY <1>2, <1>9, <3>1
           DEF Inv, RecordsAgree, EventsOfAccounts, EveryVersionIsLogged, ApprovedHasAccount
      <3>2. CASE row.version = q.version + 1 /\ events' = events \cup {e}
        <4>1. e.version <= accounts'[e.target].version
          BY <1>2, <1>4, <1>6, <1>9, <3>2
        <4> QED BY <1>2, <1>6, <1>9, <3>2, <4>1, RecordsMore DEF Inv
      <3> QED BY <1>9, <3>1, <3>2
    <2>3. Grows /\ AdminRemains'
      BY <1>2, <1>9, Still DEF Inv, AdminRemains, ActiveAdmins
    <2> QED BY <1>2, <2>1, <2>2, <2>3, RequestEnds DEF Inv
  <1>10. CASE ~AccountHit(q.target, q.version)
    BY <1>1, <1>3, <1>4, <1>5, <1>9, <1>10 DEF CommitAction, Logged
  <1>11. CASE AccountHit(q.target, q.version)
    <2> DEFINE after == [accounts EXCEPT ![u] = [row EXCEPT !.active = activeAfter,
                             !.password = password, !.version = @ + 1]]
    <2>1. row.version = q.version
      BY <1>3, <1>4, <1>11 DEF AccountHit
    <2>2. after[u].version = q.version + 1
      <3>1. after[u] = [row EXCEPT !.active = activeAfter, !.password = password,
                                   !.version = row.version + 1]
        OBVIOUS
      <3> HIDE DEF after, activeAfter, password
      <3> QED BY <2>1, <3>1 DEF Account
    <2>3. CASE LastAdminGuard(u, activeAfter)
      <3>1. /\ accounts' = after /\ sessions' = Without(SessionsOf(u))
            /\ events' = IF Logged(after, u, q.version) THEN events \cup {e} ELSE events
        BY <1>1, <1>3, <1>4, <1>11, <2>3 DEF CommitAction
      <3> QED BY <1>8, <2>1, <2>2, <2>3, <3>1 DEF Logged
    <2>4. CASE ~LastAdminGuard(u, activeAfter)
      BY <1>1, <1>3, <1>4, <1>5, <1>11, <2>4 DEF CommitAction
    <2> QED BY <2>3, <2>4
  <1> QED BY <1>10, <1>11

(* The same for a password change, which an account that was closed or     *)
(* moved on meanwhile ignores.                                             *)
LEMMA InvCommitPassword ==
    ASSUME Inv, NEW r \in Requests, CommitPassword(r)
    PROVE  Inv'
  <1>1. PICK q \in Request : q = request[r]
    BY DEF Inv, RequestsOK
  <1>2. /\ q.kind = "password" /\ Done(r) /\ UNCHANGED <<applications, scope>>
        /\ q.target \in DOMAIN accounts /\ q.version \in Nat \ {0} /\ q.version < MaxVersion
        /\ q.new \in Passwords /\ q.user = q.target
    BY <1>1, AccountsAssumption DEF CommitPassword, Inv, RequestsOK, Flight
  <1>3. PICK u \in DOMAIN accounts : u = q.user
    BY <1>2
  <1>4. PICK row \in Account : row = accounts[u]
    BY DEF Inv, TablesOK
  <1>5. PICK e \in Event : e = Audit(u, "RESET", q.version + 1)
    <2>1. u \in Logins /\ q.version + 1 \in 1..MaxVersion
      BY <1>2, AccountsAssumption DEF Inv, TablesOK
    <2> QED BY <2>1 DEF Audit, Event, Action
  <1>6. /\ e.version = q.version + 1 /\ e.version # 1 /\ e.target = u
        /\ e.action # "ADMIT"
    BY <1>2, <1>5 DEF Audit
  <1>7. /\ DOMAIN sessions' \subseteq DOMAIN sessions
        /\ \A t \in DOMAIN sessions' : sessions'[t] = sessions[t]
    BY <1>1 DEF CommitPassword, Without
  <1>8. PICK new : new = [row EXCEPT !.password = q.new, !.version = row.version + 1]
    OBVIOUS
  <1>9. CASE row.version = q.version /\ row.active
    <2>1. /\ new \in Account /\ new.version = q.version + 1 /\ new.active = row.active
          /\ new.admin = row.admin
      <3>1. row.version + 1 \in 1..MaxVersion
        BY <1>2, <1>9, AccountsAssumption
      <3> QED BY <1>2, <1>8, <1>9, <3>1 DEF Account
    <2>2. accounts' = [accounts EXCEPT ![u] = new] /\ events' = events \cup {e}
      <3>1. AccountHit(q.user, q.version) /\ accounts[q.user].active
        BY <1>3, <1>4, <1>9 DEF AccountHit
      <3>3. accounts' = [accounts EXCEPT ![u] = new]
        BY <1>1, <1>3, <1>4, <1>8, <3>1 DEF CommitPassword
      <3>4. Logged(accounts', q.user, q.version)
        BY <1>3, <2>1, <3>3 DEF Logged
      <3> QED BY <1>1, <1>3, <1>5, <3>3, <3>4 DEF CommitPassword
    <2>3. events' \subseteq Event
      BY <2>2 DEF Inv, TablesOK
    <2>4. TablesOK' /\ Grows
      BY <1>2, <1>4, <1>7, <1>9, <2>1, <2>2, <2>3, UpdatedFacts DEF Inv
    <2>5. /\ DOMAIN accounts' = DOMAIN accounts /\ accounts'[u] = new
          /\ \A w \in DOMAIN accounts : w # u => accounts'[w] = accounts[w]
      BY <2>2
    <2>6. AdminRemains'
      BY <1>4, <2>1, <2>5 DEF Inv, AdminRemains, ActiveAdmins
    <2>7. RecordsAgree'
      <3>1. \A w \in DOMAIN accounts :
               \/ accounts'[w].version = accounts[w].version
               \/ /\ w = e.target /\ e \in events' /\ e.version = accounts'[w].version
                  /\ accounts'[w].version = accounts[w].version + 1
        BY <1>4, <1>6, <1>9, <2>1, <2>2, <2>5
      <3>2. e.version <= accounts'[e.target].version
        BY <1>4, <1>6, <1>9, <2>1, <2>5 DEF Event
      <3> QED BY <1>2, <1>6, <2>2, <2>5, <3>1, <3>2, RecordsMore DEF Inv
    <2> QED BY <1>2, <2>4, <2>6, <2>7, RequestEnds DEF Inv
  <1>10. CASE ~(row.version = q.version /\ row.active)
    <2>1. /\ accounts' = accounts
          /\ \/ events' = events
             \/ row.version = q.version + 1 /\ events' = events \cup {e}
      BY <1>1, <1>3, <1>4, <1>5, <1>10 DEF CommitPassword, AccountHit, Logged
    <2>2. TablesOK'
      BY <1>2, <1>7, <2>1 DEF Inv, TablesOK
    <2>3. RecordsAgree'
      <3>1. CASE events' = events
        BY <1>2, <2>1, <3>1
           DEF Inv, RecordsAgree, EventsOfAccounts, EveryVersionIsLogged, ApprovedHasAccount
      <3>2. CASE row.version = q.version + 1 /\ events' = events \cup {e}
        <4>1. e.version <= accounts'[e.target].version
          BY <1>2, <1>4, <1>6, <2>1, <3>2
        <4> QED BY <1>2, <1>6, <2>1, <3>2, <4>1, RecordsMore DEF Inv
      <3> QED BY <2>1, <3>1, <3>2
    <2>4. Grows /\ AdminRemains'
      BY <1>2, <2>1, Still DEF Inv, AdminRemains, ActiveAdmins
    <2> QED BY <1>2, <2>2, <2>3, <2>4, RequestEnds DEF Inv
  <1> QED BY <1>9, <1>10

LEMMA InvNext == Inv /\ [Next]_vars => Inv'
  <1> SUFFICES ASSUME Inv, [Next]_vars PROVE Inv'
    OBVIOUS
  <1>1. CASE UNCHANGED vars
    <2>1. TablesOK' /\ RequestsOK'
      BY <1>1 DEF vars, Inv, TablesOK, RequestsOK, Flight
    <2>2. AdminRemains' /\ RecordsAgree'
      BY <1>1 DEF vars, Inv, AdminRemains, ActiveAdmins, RecordsAgree, EventsOfAccounts,
         RecordsAgree, EveryVersionIsLogged, ApprovedHasAccount
    <2> QED BY <2>1, <2>2 DEF Inv
  <1>2. ASSUME NEW r \in Requests, Commit(r) PROVE Inv'
    BY <1>2, InvCommitLogin, InvCommitCreate, InvCommitApply, InvCommitVerdict,
       InvCommitAction, InvCommitPassword DEF Commit
  <1> QED BY <1>1, <1>2, InvReceive, InvEndSession DEF Next

LEMMA Invariance == Spec => []Inv
  BY InvInit, InvNext, PTL DEF Spec

(* Accounts, sessions, applications, audit rows and requests keep their    *)
(* types; a session is always that of an account.                          *)
THEOREM Typed == Spec => []TypeOK
  <1>1. Inv => TypeOK
    BY DEF Inv, TablesOK, RequestsOK, TypeOK
  <1> QED BY <1>1, Invariance, PTL

(* However many administrators act on each other, one that is active is    *)
(* left.                                                                   *)
THEOREM SomeAdmin == Spec => []AdminRemains
  <1>1. Inv => AdminRemains
    BY DEF Inv
  <1> QED BY <1>1, Invariance, PTL

(* Every version of an account has its audit row and every row its         *)
(* version, an approved applicant has the account the approval made, and   *)
(* an account from an application belongs to a decided one.                *)
THEOREM Audited == Spec => []RecordsAgree
  <1>1. Inv => RecordsAgree
    BY DEF Inv
  <1> QED BY <1>1, Invariance, PTL

-----------------------------------------------------------------------------
(* What has to be shown of a request for a password that changes.          *)
Proven(r, u) ==
    /\ request'[r] # request[r] /\ request[r].target = u
    /\ request[r].new = accounts'[u].password
    /\ \/ request[r].kind = "RESET"
       \/ /\ request[r].kind = "password"
          /\ request[r].old = accounts[u].password /\ accounts[u].active

LEMMA EndedIsSeen ==
    ASSUME Inv, NEW r \in Requests, Done(r), request[r].kind # "none"
    PROVE  request'[r] # request[r]
  <1>1. request'[r] = Idle
    BY DEF Inv, RequestsOK, Done
  <1> QED BY <1>1, IdleFacts

(* The two updates of an account that exists, of the target of the         *)
(* request and of nothing else.                                            *)
LEMMA ActionProves ==
    ASSUME Inv, NEW r \in Requests, CommitAction(r), NEW u \in DOMAIN accounts,
           accounts'[u].password # accounts[u].password
    PROVE  Proven(r, u)
  <1>1. PICK q \in Request : q = request[r]
    BY DEF Inv, RequestsOK
  <1>2. q.kind \in Action /\ Done(r) /\ q.target \in DOMAIN accounts
    BY <1>1 DEF CommitAction, Inv, RequestsOK, Flight
  <1>3. PICK row \in Account : row = accounts[q.target]
    BY <1>2 DEF Inv, TablesOK
  <1> DEFINE active == IF q.kind = "RESET" THEN row.active ELSE q.kind = "ACTIVATE"
             password == IF q.kind = "RESET" THEN q.new ELSE row.password
             new == [row EXCEPT !.active = active, !.password = password, !.version = @ + 1]
  <1>4. accounts' = [accounts EXCEPT ![q.target] = new]
    <2>1. accounts' # accounts
      OBVIOUS
    <2> QED BY <1>1, <1>3, <2>1 DEF CommitAction
  <1>5. new.password = password
    <2> HIDE DEF active, password
    <2> QED BY DEF Account
  <1> HIDE DEF new
  <1>6. u = q.target /\ accounts'[u] = new
    BY <1>2, <1>4
  <1>7. password # row.password
    BY <1>3, <1>5, <1>6
  <1>8. q.kind = "RESET" /\ accounts'[u].password = q.new
    BY <1>5, <1>6, <1>7
  <1> QED BY <1>1, <1>2, <1>6, <1>8, EndedIsSeen DEF Proven

LEMMA ChangeProves ==
    ASSUME Inv, NEW r \in Requests, CommitPassword(r), NEW u \in DOMAIN accounts,
           accounts'[u].password # accounts[u].password
    PROVE  Proven(r, u)
  <1>1. PICK q \in Request : q = request[r]
    BY DEF Inv, RequestsOK
  <1>2. /\ q.kind = "password" /\ Done(r) /\ q.user = q.target
        /\ q.target \in DOMAIN accounts
        /\ accounts[q.target].version = q.version => accounts[q.target].password = q.old
    BY <1>1 DEF CommitPassword, Inv, RequestsOK, Flight
  <1>3. PICK row \in Account : row = accounts[q.target]
    BY <1>2 DEF Inv, TablesOK
  <1> DEFINE new == [row EXCEPT !.password = q.new, !.version = @ + 1]
  <1>4. /\ accounts' = [accounts EXCEPT ![q.target] = new]
        /\ AccountHit(q.target, q.version) /\ row.active
    <2>1. accounts' # accounts
      OBVIOUS
    <2> QED BY <1>1, <1>2, <1>3, <2>1 DEF CommitPassword
  <1>5. new.password = q.new
    BY DEF Account
  <1> HIDE DEF new
  <1>6. u = q.target /\ accounts'[u] = new
    BY <1>2, <1>4
  <1>7. accounts[u].password = q.old /\ accounts[u].active
    BY <1>2, <1>3, <1>4, <1>6 DEF AccountHit
  <1> QED BY <1>1, <1>2, <1>5, <1>6, <1>7, EndedIsSeen DEF Proven

(* Everything else leaves the accounts there are alone.                    *)
LEMMA OthersKeepAccounts ==
    ASSUME Inv, NEW r \in Requests,
           CommitCreate(r) \/ CommitVerdict(r) \/ CommitApply(r) \/ (\E t \in Tokens : CommitLogin(r, t)),
           NEW u \in DOMAIN accounts
    PROVE  accounts'[u] = accounts[u]
  <1>1. ASSUME NEW login, NEW password, NEW admin, NEW action,
               LoginFree(login), Created(login, password, admin, action)
        PROVE  accounts'[u] = accounts[u]
    BY <1>1 DEF LoginFree, Created, Put
  <1>2. CASE CommitCreate(r)
    BY <1>1, <1>2 DEF CommitCreate
  <1>3. CASE CommitVerdict(r)
    BY <1>1, <1>3 DEF CommitVerdict
  <1>4. CASE CommitApply(r) \/ \E t \in Tokens : CommitLogin(r, t)
    BY <1>4 DEF CommitApply, CommitLogin
  <1> QED BY <1>2, <1>3, <1>4

(* A password is replaced on proof of the one it replaces, of an active    *)
(* account, or by an administrator's reset: the version a change carries   *)
(* is worth the proof, because a password moves with the version only.     *)
THEOREM PasswordsAreProven == Spec => ProvenPassword
  <1>1. ASSUME Inv, [Next]_vars, NEW u \in DOMAIN accounts,
               accounts'[u].password # accounts[u].password
        PROVE  \E r \in Requests : Proven(r, u)
    <2>1. CASE UNCHANGED accounts
      BY <1>1, <2>1
    <2>2. ASSUME NEW r \in Requests, Commit(r) PROVE \E s \in Requests : Proven(s, u)
      BY <1>1, <2>2, ActionProves, ChangeProves, OthersKeepAccounts DEF Commit
    <2>3. ASSUME NEW r \in Requests, NEW w \in Logins, Receive(r, w) PROVE UNCHANGED accounts
      BY <2>3 DEF Receive, ReceiveAdmin, ReceiveLogin, ReceiveApply, ReceivePassword,
         ReceiveCreate, ReceiveVerdict, ReceiveAction
    <2>4. ASSUME NEW t \in Tokens, EndSession(t) PROVE UNCHANGED accounts
      BY <2>4 DEF EndSession
    <2>5. CASE UNCHANGED vars
      BY <2>1, <2>5 DEF vars
    <2> QED BY <1>1, <2>1, <2>2, <2>3, <2>4, <2>5 DEF Next
  <1>2. Inv /\ [Next]_vars =>
          [\A u \in DOMAIN accounts :
              accounts'[u].password # accounts[u].password =>
                  \E r \in Requests :
                      LET q == request[r] IN
                      /\ request'[r] # q /\ q.target = u
                      /\ q.new = accounts'[u].password
                      /\ \/ q.kind = "RESET"
                         \/ /\ q.kind = "password"
                            /\ q.old = accounts[u].password /\ accounts[u].active]_vars
    BY <1>1 DEF Proven
  <1> QED BY <1>2, Invariance, PTL DEF Spec, ProvenPassword
=============================================================================
