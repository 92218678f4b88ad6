--------------------------- MODULE CaseDeskProofs ---------------------------
(***************************************************************************)
(* Theorems of ProjectSchedule and of CaseDesk, which extends it with the  *)
(* case desk's own tables, for every set of people, stages, changes,       *)
(* texts, keys and requests, every bound and every set of handlers called  *)
(* together.  First the schedule, under its own Spec; then the desk, whose *)
(* specification implements it, so that the theorems of the schedule are   *)
(* theorems of the desk.                                                   *)
(***************************************************************************)
EXTENDS CaseDesk, FiniteSetTheorems, TLAPS

TablesOK ==
    /\ active \subseteq Users /\ assigned \subseteq Users
    /\ profile \in Profile
    /\ profile.version > 0 => profile.pm \in Users
    /\ stages \in [Stages -> Stage]
    /\ DOMAIN changes \subseteq Changes
    /\ \A c \in DOMAIN changes : changes[c] \in Change /\ changes[c].expected < MaxVersion
    /\ notices \subseteq Notice
    /\ visibility \in [version : 0..MaxHides, hide : Hide \cup {NoHide}]
    /\ hides \subseteq (0..MaxHides) \X Hide
    /\ scope \in Scopes

(* What a handler that was let in still knows of the tables: as long as    *)
(* the version it will ask for is there, nobody has written since.         *)
Flight(q, prof, rows, asked) ==
    /\ q.kind # "none" => q.user \in Users
    /\ q.kind = "profile" =>
          /\ q.pm \in Users
          /\ q.version \in 0..(MaxProfile - 1) /\ q.version <= prof.version
          /\ q.version = prof.version /\ prof.version > 0 =>
                q.user \in Admins \/ prof.pm = q.user
    /\ q.kind = "save" =>
          /\ q.dates \in Dates
          /\ \A s \in q.items :
                /\ q.read[s] < MaxVersion /\ q.read[s] <= rows[s].version
                /\ q.read[s] = rows[s].version =>
                      q.expected[s] = q.read[s] \/ rows[s].by = q.user
    /\ q.kind = "change" =>
          /\ q.pm \in Users /\ q.change \in Changes /\ q.dates \in Dates
          /\ \A s \in q.items : q.expected[s] < MaxVersion
    /\ q.kind \in Decision => q.change \in asked
    /\ q.kind = "hide" => q.reason \in Reason /\ q.version \in 0..(MaxHides - 1)

FlightInv == \A r \in Requests : Flight(request[r], profile, stages, DOMAIN changes)
RequestsOK == request \in [Requests -> Request] /\ FlightInv

(* ToldAsDecided, with the one notice of a request by name.                *)
About(c, types) == {n \in notices : n[2] = c /\ n[3] \in types}
Told(c) ==
    IF c \notin DOMAIN changes THEN About(c, Decision \cup {"REQUESTED"}) = {}
    ELSE /\ \E u \in Users : About(c, {"REQUESTED"}) = {<<u, c, "REQUESTED">>}
         /\ About(c, Decision) = IF changes[c].status = "PENDING" THEN {}
                                 ELSE {<<changes[c].by, c, changes[c].status>>}
ToldInv == \A c \in Changes : Told(c)

Inv == TablesOK /\ RequestsOK /\ ToldInv /\ HidesAreLogged

-----------------------------------------------------------------------------
LEMMA IdleType ==
    /\ Idle \in Request /\ Idle.kind = "none"
    /\ \A prof, rows, asked : Flight(Idle, prof, rows, asked)
  <1>1. Idle \in Request /\ Idle.kind = "none"
    BY ScheduleAssumption DEF Idle, NoVersions, Request, Kind
  <1> QED BY <1>1 DEF Flight, Decision

(* Versions only grow, and what is written under a handler's feet is       *)
(* another version than the one it has read.                               *)
Growing ==
    /\ profile' = profile \/ (profile.version \in Nat /\ profile'.version = profile.version + 1)
    /\ \A s \in Stages :
          \/ stages'[s] = stages[s]
          \/ stages[s].version \in Nat /\ stages'[s].version = stages[s].version + 1
    /\ DOMAIN changes \subseteq DOMAIN changes'

LEMMA FlightGrows ==
    ASSUME Growing, NEW q \in Request, Flight(q, profile, stages, DOMAIN changes)
    PROVE  Flight(q, profile', stages', DOMAIN changes')
  <1>1. q.kind = "profile" =>
          /\ q.pm \in Users
          /\ q.version \in 0..(MaxProfile - 1) /\ q.version <= profile'.version
          /\ q.version = profile'.version /\ profile'.version > 0 =>
                q.user \in Admins \/ profile'.pm = q.user
    BY DEF Growing, Flight
  <1>2. ASSUME q.kind = "save", NEW s \in q.items
        PROVE  /\ q.read[s] < MaxVersion /\ q.read[s] <= stages'[s].version
               /\ q.read[s] = stages'[s].version =>
                     q.expected[s] = q.read[s] \/ stages'[s].by = q.user
    <2>1. s \in Stages /\ q.read[s] \in Nat
      BY <1>2 DEF Request
    <2>2. /\ q.read[s] < MaxVersion /\ q.read[s] <= stages[s].version
          /\ q.read[s] = stages[s].version =>
                q.expected[s] = q.read[s] \/ stages[s].by = q.user
      BY <1>2 DEF Flight
    <2> QED BY <2>1, <2>2 DEF Growing
  <1>3. /\ q.kind # "none" => q.user \in Users
        /\ q.kind = "save" => q.dates \in Dates
        /\ q.kind = "change" =>
              /\ q.pm \in Users /\ q.change \in Changes /\ q.dates \in Dates
              /\ \A s \in q.items : q.expected[s] < MaxVersion
        /\ q.kind \in Decision => q.change \in DOMAIN changes'
        /\ q.kind = "hide" => q.reason \in Reason /\ q.version \in 0..(MaxHides - 1)
    BY DEF Growing, Flight
  <1> QED BY <1>1, <1>2, <1>3 DEF Flight

LEMMA RequestMoves ==
    ASSUME RequestsOK, Growing, NEW r \in Requests, NEW n \in Request,
           request' = [request EXCEPT ![r] = n],
           Flight(n, profile', stages', DOMAIN changes')
    PROVE  RequestsOK'
  <1>1. request' \in [Requests -> Request]
    BY DEF RequestsOK
  <1>2. ASSUME NEW s \in Requests
        PROVE  Flight(request'[s], profile', stages', DOMAIN changes')
    <2>1. CASE s = r
      BY <2>1 DEF RequestsOK
    <2>2. CASE s # r
      <3>1. request'[s] = request[s] /\ request[s] \in Request
        BY <2>2 DEF RequestsOK
      <3> QED BY <3>1, FlightGrows DEF RequestsOK, FlightInv
    <2> QED BY <2>1, <2>2
  <1> QED BY <1>1, <1>2 DEF RequestsOK, FlightInv

LEMMA RequestEnds ==
    ASSUME RequestsOK, Growing, NEW r \in Requests, Done(r)
    PROVE  RequestsOK'
  BY IdleType, RequestMoves DEF Done

LEMMA ToldStays ==
    ASSUME ToldInv, UNCHANGED <<changes, notices>>
    PROVE  ToldInv'
  BY DEF ToldInv, Told, About

LEMMA HidesStay ==
    ASSUME HidesAreLogged, UNCHANGED hiding
    PROVE  HidesAreLogged'
  BY DEF HidesAreLogged, hiding

-----------------------------------------------------------------------------
LEMMA InvInit == Init => Inv
  <1> SUFFICES ASSUME Init PROVE Inv
    OBVIOUS
  <1>1. TablesOK
    BY ScheduleAssumption DEF Init, TablesOK, Profile, Stage, NotHidden
  <1>2. RequestsOK
    BY IdleType DEF Init, RequestsOK, FlightInv
  <1>3. ToldInv /\ HidesAreLogged
    BY ScheduleAssumption DEF Init, ToldInv, Told, About, HidesAreLogged, NotHidden
  <1> QED BY <1>1, <1>2, <1>3 DEF Inv

(* A handler begins: it knows what it has read.                            *)
LEMMA InvBegin ==
    ASSUME Inv, NEW r \in Requests, NEW kind \in Kind \ {"none"}, NEW u \in Users,
           NEW q \in Request, Begin(r, kind, u, q),
           Flight([q EXCEPT !.kind = kind, !.user = u], profile, stages, DOMAIN changes),
           UNCHANGED <<people, profile, agreed, hiding, scope>>
    PROVE  Inv'
  <1> DEFINE n == [q EXCEPT !.kind = kind, !.user = u]
  <1>1. n \in Request /\ request' = [request EXCEPT ![r] = n]
    BY DEF Begin, Request
  <1>2. Growing
    BY DEF Growing, agreed
  <1>3. Flight(n, profile', stages', DOMAIN changes')
    BY DEF agreed
  <1>4. RequestsOK'
    <2> HIDE DEF n
    <2> QED BY <1>1, <1>2, <1>3, RequestMoves DEF Inv
  <1> QED BY <1>4, ToldStays, HidesStay DEF Inv, TablesOK, people, agreed, hiding

LEMMA InvReceive ==
    ASSUME Inv, NEW r \in Requests, NEW u \in Users, Receive(r, u)
    PROVE  Inv'
  <1>1. ASSUME NEW pm \in Users, ReceiveProfile(r, u, pm) PROVE Inv'
    <2> DEFINE q == [Idle EXCEPT !.pm = pm, !.version = profile.version]
               n == [q EXCEPT !.kind = "profile", !.user = u]
    <2>1. /\ profile.version \in 0..(MaxProfile - 1)
          /\ profile.version > 0 => u \in Admins \/ profile.pm = u
          /\ Begin(r, "profile", u, q)
          /\ UNCHANGED <<people, profile, agreed, hiding, scope>>
      BY <1>1, ScheduleAssumption DEF ReceiveProfile, CanManage, Inv, TablesOK, Profile
    <2>2. q \in Request
      <3>1. profile.version \in 0..(MaxProfile + MaxHides)
        BY <2>1, ScheduleAssumption
      <3> QED BY <3>1, IdleType DEF Request
    <2>3. n.kind = "profile" /\ n.user = u /\ n.pm = pm /\ n.version = profile.version
      BY IdleType DEF Request
    <2>4. Flight(n, profile, stages, DOMAIN changes)
      BY <2>1, <2>3 DEF Flight, Decision
    <2> HIDE DEF q
    <2> QED BY <2>1, <2>2, <2>4, InvBegin DEF Kind
  <1>2. ASSUME NEW items \in SUBSET Stages, NEW dates \in Dates,
               NEW expected \in [Stages -> 0..MaxVersion],
               ReceiveSave(r, u, items, dates, expected)
        PROVE  Inv'
    <2> DEFINE read == [s \in Stages |-> IF s \in items THEN stages[s].version ELSE 0]
               q == [Idle EXCEPT !.items = items, !.dates = dates, !.expected = expected,
                                 !.read = read]
               n == [q EXCEPT !.kind = "save", !.user = u]
    <2>1. /\ \A s \in items : /\ stages[s].version < MaxVersion
                              /\ expected[s] # stages[s].version => stages[s].by = u
          /\ Begin(r, "save", u, q)
          /\ UNCHANGED <<people, profile, agreed, hiding, scope>>
      BY <1>2 DEF ReceiveSave
    <2>2. /\ read \in [Stages -> 0..MaxVersion]
          /\ \A s \in items : read[s] = stages[s].version /\ stages[s].version \in Nat
      BY ScheduleAssumption DEF Inv, TablesOK, Stage
    <2> HIDE DEF read
    <2>3. q \in Request
      BY <2>2, IdleType DEF Request
    <2>4. /\ n.kind = "save" /\ n.user = u /\ n.items = items /\ n.dates = dates
          /\ n.expected = expected /\ n.read = read
      BY IdleType DEF Request
    <2>5. Flight(n, profile, stages, DOMAIN changes)
      BY <2>1, <2>2, <2>4 DEF Flight, Decision
    <2> HIDE DEF q
    <2> QED BY <2>1, <2>3, <2>5, InvBegin DEF Kind
  <1>3. ASSUME NEW c \in Changes, NEW s \in Stages, NEW dates \in Dates,
               NEW version \in 0..MaxVersion, ReceiveChange(r, u, c, s, dates, version)
        PROVE  Inv'
    <2> DEFINE expected == [NoVersions EXCEPT ![s] = version]
               q == [Idle EXCEPT !.pm = profile.pm, !.change = c, !.items = {s},
                                 !.dates = dates, !.expected = expected]
               n == [q EXCEPT !.kind = "change", !.user = u]
    <2>1. /\ profile.pm \in Users /\ version < MaxVersion
          /\ Begin(r, "change", u, q)
          /\ UNCHANGED <<people, profile, agreed, hiding, scope>>
      BY <1>3 DEF ReceiveChange, Inv, TablesOK
    <2>2. expected \in [Stages -> 0..MaxVersion] /\ expected[s] = version
      BY ScheduleAssumption DEF NoVersions
    <2> HIDE DEF expected
    <2>3. q \in Request
      BY <2>1, <2>2, IdleType DEF Request
    <2>4. /\ n.kind = "change" /\ n.user = u /\ n.items = {s} /\ n.dates = dates
          /\ n.expected = expected /\ n.change = c /\ n.pm = profile.pm
      BY IdleType DEF Request
    <2>5. Flight(n, profile, stages, DOMAIN changes)
      BY <2>1, <2>2, <2>4 DEF Flight, Decision
    <2> HIDE DEF q
    <2> QED BY <2>1, <2>3, <2>5, InvBegin DEF Kind
  <1>4. ASSUME NEW c \in Changes, NEW decision \in Decision, ReceiveDecision(r, u, c, decision)
        PROVE  Inv'
    <2> DEFINE q == [Idle EXCEPT !.change = c]
               n == [q EXCEPT !.kind = decision, !.user = u]
    <2>1. /\ c \in DOMAIN changes
          /\ Begin(r, decision, u, q)
          /\ UNCHANGED <<people, profile, agreed, hiding, scope>>
      BY <1>4 DEF ReceiveDecision
    <2>2. q \in Request
      BY IdleType DEF Request
    <2>3. n.kind = decision /\ n.user = u /\ n.change = c
      BY IdleType DEF Request
    <2>4. Flight(n, profile, stages, DOMAIN changes)
      BY <2>1, <2>3 DEF Flight, Decision
    <2> HIDE DEF q
    <2> QED BY <2>1, <2>2, <2>4, InvBegin DEF Kind, Decision
  <1>5. ASSUME NEW reason \in Reason, ReceiveHide(r, u, reason) PROVE Inv'
    <2> DEFINE q == [Idle EXCEPT !.reason = reason, !.version = visibility.version]
               n == [q EXCEPT !.kind = "hide", !.user = u]
    <2>1. /\ visibility.version \in 0..(MaxHides - 1)
          /\ Begin(r, "hide", u, q)
          /\ UNCHANGED <<people, profile, agreed, hiding, scope>>
      BY <1>5, ScheduleAssumption DEF ReceiveHide, Inv, TablesOK
    <2>2. q \in Request
      <3>1. visibility.version \in 0..(MaxProfile + MaxHides)
        BY <2>1, ScheduleAssumption
      <3> QED BY <3>1, IdleType DEF Request
    <2>3. n.kind = "hide" /\ n.user = u /\ n.reason = reason /\ n.version = visibility.version
      BY IdleType DEF Request
    <2>4. Flight(n, profile, stages, DOMAIN changes)
      BY <2>1, <2>3 DEF Flight, Decision
    <2> HIDE DEF q
    <2> QED BY <2>1, <2>2, <2>4, InvBegin DEF Kind
  <1> QED BY <1>1, <1>2, <1>3, <1>4, <1>5 DEF Receive

(* The PM's row: a new version names an account.                           *)
LEMMA InvCommitProfile ==
    ASSUME Inv, NEW r \in Requests, CommitProfile(r)
    PROVE  Inv'
  <1> DEFINE q == request[r]
  <1>1. /\ q \in Request /\ q.kind = "profile" /\ Done(r)
        /\ Flight(q, profile, stages, DOMAIN changes)
        /\ UNCHANGED <<active, agreed, hiding, scope>>
    BY DEF CommitProfile, Inv, RequestsOK, FlightInv
  <1>2. q.pm \in Users /\ q.version \in 0..(MaxProfile - 1)
    BY <1>1 DEF Flight
  <1>3. profile.version \in Nat
    BY DEF Inv, TablesOK, Profile
  <1>4. \/ profile' = profile
        \/ /\ profile.version = q.version
           /\ profile' = [pm |-> q.pm, version |-> profile.version + 1]
    BY DEF CommitProfile, ProfileAfter
  <1>5. assigned' \subseteq Users
    BY <1>2 DEF CommitProfile, Inv, TablesOK
  <1>6. profile' \in Profile /\ (profile'.version > 0 => profile'.pm \in Users)
    BY <1>2, <1>3, <1>4, ScheduleAssumption DEF Inv, TablesOK, Profile
  <1>7. Growing
    BY <1>1, <1>3, <1>4 DEF Growing, agreed
  <1>8. RequestsOK'
    BY <1>1, <1>7, RequestEnds DEF Inv
  <1> QED BY <1>1, <1>5, <1>6, <1>8, ToldStays, HidesStay DEF Inv, TablesOK, agreed, hiding

LEMMA RewrittenType ==
    ASSUME Inv, NEW s \in Stages, NEW d \in Dates, NEW u \in Users,
           stages[s].version < MaxVersion
    PROVE  /\ Rewritten(s, d, u) \in Stage
           /\ Rewritten(s, d, u).version = stages[s].version + 1
           /\ Rewritten(s, d, u).by = u /\ stages[s].version \in Nat
  BY ScheduleAssumption DEF Rewritten, Stage, Inv, TablesOK

LEMMA InvCommitSave ==
    ASSUME Inv, NEW r \in Requests, CommitSave(r)
    PROVE  Inv'
  <1> DEFINE q == request[r]
  <1>1. /\ q \in Request /\ q.kind = "save" /\ Done(r)
        /\ Flight(q, profile, stages, DOMAIN changes)
        /\ UNCHANGED <<people, profile, changes, notices, hiding, scope>>
    BY DEF CommitSave, Inv, RequestsOK, FlightInv
  <1>2. /\ q.user \in Users /\ q.dates \in Dates
        /\ \A s \in q.items : q.read[s] < MaxVersion
    BY <1>1 DEF Flight
  <1>3. ASSUME NEW s \in Stages
        PROVE  \/ stages'[s] = stages[s]
               \/ /\ stages'[s] = Rewritten(s, q.dates, q.user)
                  /\ stages[s].version < MaxVersion
    <2>1. CASE stages' = stages
      BY <2>1
    <2>2. CASE stages' = [t \in Stages |-> IF t \in q.items /\ StageHit(t, q.read[t])
                                             THEN Rewritten(t, q.dates, q.user) ELSE stages[t]]
      BY <1>2, <2>2 DEF StageHit
    <2> QED BY <2>1, <2>2 DEF CommitSave
  <1>4. stages' \in [Stages -> Stage]
    <2>1. \A s \in Stages : stages'[s] \in Stage
      BY <1>2, <1>3, RewrittenType DEF Inv, TablesOK
    <2>2. stages' = [s \in Stages |-> stages'[s]]
      BY DEF CommitSave, Inv, TablesOK
    <2> QED BY <2>1, <2>2
  <1>5. Growing
    BY <1>1, <1>2, <1>3, RewrittenType DEF Growing
  <1>6. RequestsOK'
    BY <1>1, <1>5, RequestEnds DEF Inv
  <1> QED BY <1>1, <1>4, <1>6, ToldStays, HidesStay DEF Inv, TablesOK, people, hiding

(* A change is stored with the one notice of its request.                  *)
LEMMA InvCommitChange ==
    ASSUME Inv, NEW r \in Requests, NEW s \in Stages, CommitChange(r, s)
    PROVE  Inv'
  <1> DEFINE q == request[r]
             c == q.change
             row == [stage |-> s, dates |-> q.dates, expected |-> q.expected[s],
                     by |-> q.user, status |-> "PENDING", reviewer |-> NoUser]
             rows == [x \in DOMAIN changes \cup {c} |-> IF x = c THEN row ELSE changes[x]]
             notice == <<q.pm, c, "REQUESTED">>
  <1>1. /\ q \in Request /\ q.kind = "change" /\ q.items = {s} /\ Done(r)
        /\ Flight(q, profile, stages, DOMAIN changes)
        /\ UNCHANGED <<people, profile, stages, hiding, scope>>
    BY DEF CommitChange, Inv, RequestsOK, FlightInv
  <1>2. /\ q.user \in Users /\ q.pm \in Users /\ c \in Changes /\ q.dates \in Dates
        /\ q.expected[s] \in 0..MaxVersion /\ q.expected[s] < MaxVersion
    BY <1>1 DEF Flight, Request
  <1>3. CASE UNCHANGED <<changes, notices>>
    <2>1. Growing
      BY <1>1, <1>3 DEF Growing
    <2>2. RequestsOK'
      BY <1>1, <2>1, RequestEnds DEF Inv
    <2> QED BY <1>1, <1>3, <2>2, ToldStays, HidesStay DEF Inv, TablesOK, people, hiding
  <1>4. CASE ~UNCHANGED <<changes, notices>>
    <2>1. /\ c \notin DOMAIN changes /\ changes' = rows
          /\ notices' = notices \cup {notice}
      BY <1>4 DEF CommitChange, ChangeGuard
    <2>2. row \in Change /\ row.expected < MaxVersion /\ row.status = "PENDING"
      BY <1>2 DEF Change
    <2>3. /\ DOMAIN changes' = DOMAIN changes \cup {c}
          /\ \A x \in DOMAIN changes : changes'[x] = changes[x]
          /\ changes'[c] = row
      BY <2>1
    <2>4. TablesOK'
      <3>1. notices' \subseteq Notice
        BY <1>2, <2>1 DEF Notice, Inv, TablesOK
      <3>2. DOMAIN changes' \subseteq Changes
        BY <1>2, <2>3 DEF Inv, TablesOK
      <3>3. \A x \in DOMAIN changes' : changes'[x] \in Change /\ changes'[x].expected < MaxVersion
        BY <2>2, <2>3 DEF Inv, TablesOK
      <3> QED BY <1>1, <3>1, <3>2, <3>3 DEF Inv, TablesOK, people, hiding
    <2>5. RequestsOK'
      <3>1. Growing
        BY <1>1, <2>3 DEF Growing
      <3> QED BY <1>1, <3>1, RequestEnds DEF Inv
    <2>6. ToldInv'
      <3> SUFFICES ASSUME NEW x \in Changes PROVE Told(x)'
        BY DEF ToldInv
      <3>1. Told(x)
        BY DEF Inv, ToldInv
      <3>2. CASE x # c
        <4>1. /\ About(x, {"REQUESTED"})' = About(x, {"REQUESTED"})
              /\ About(x, Decision)' = About(x, Decision)
              /\ About(x, Decision \cup {"REQUESTED"})' = About(x, Decision \cup {"REQUESTED"})
          BY <2>1, <3>2 DEF About
        <4>2. /\ x \in DOMAIN changes' <=> x \in DOMAIN changes
              /\ x \in DOMAIN changes => changes'[x] = changes[x]
          BY <2>3, <3>2
        <4> HIDE DEF rows
        <4> QED BY <3>1, <4>1, <4>2 DEF Told
      <3>3. CASE x = c
        <4>1. About(x, Decision \cup {"REQUESTED"}) = {}
          BY <2>1, <3>1, <3>3 DEF Told
        <4>2. /\ About(x, {"REQUESTED"})' = {<<q.pm, x, "REQUESTED">>}
              /\ About(x, Decision)' = {}
          BY <2>1, <3>3, <4>1 DEF About, Decision
        <4> QED BY <1>2, <2>2, <2>3, <3>3, <4>2 DEF Told
      <3> QED BY <3>2, <3>3
    <2> QED BY <1>1, <2>4, <2>5, <2>6, HidesStay DEF Inv
  <1> QED BY <1>3, <1>4

(* A decision: what its batch writes.  The change is decided by who is in  *)
(* charge, an approval has given the stage its dates, and the notice is of *)
(* this decision and was not there.                                        *)
Decides(q, refused) ==
    LET c == q.change
        row == changes[c]
        hit == q.kind = "APPROVED" /\ StageHit(row.stage, row.expected)
        pending == row.status = "PENDING"
    IN  /\ stages' = IF hit THEN [stages EXCEPT ![row.stage] = Rewritten(row.stage, row.dates, q.user)]
                             ELSE stages
        /\ changes' = IF pending THEN [changes EXCEPT ![c].status = q.kind,
                                                      ![c].reviewer = q.user]
                                 ELSE changes
        /\ notices' = notices \cup {<<row.by, c, q.kind>>}
        /\ q.kind = "APPROVED" => InCharge(q.user)
        /\ pending => DecisionGuard(q.user, c, q.kind, stages')
        /\ NoticeGuard(row.by, c, q.kind, changes')

LEMMA DecisionStep ==
    ASSUME Inv, NEW r \in Requests, NEW refused \in BOOLEAN, CommitDecision(r, refused)
    PROVE  /\ request[r] \in Request /\ request[r].kind \in Decision /\ Done(r)
           /\ request[r].user \in Users /\ request[r].change \in DOMAIN changes
           /\ changes[request[r].change] \in Change
           /\ changes[request[r].change].expected < MaxVersion
           /\ UNCHANGED <<people, profile, hiding, scope>>
           /\ UNCHANGED agreed \/ Decides(request[r], refused)
  <1>1. /\ request[r] \in Request /\ request[r].kind \in Decision /\ Done(r)
        /\ UNCHANGED <<people, profile, hiding, scope>>
    BY DEF CommitDecision, Inv, RequestsOK
  <1>2. request[r].user \in Users /\ request[r].change \in DOMAIN changes
    <2>1. Flight(request[r], profile, stages, DOMAIN changes)
      BY DEF Inv, RequestsOK, FlightInv
    <2> QED BY <1>1, <2>1 DEF Flight, Decision
  <1>3. UNCHANGED agreed \/ Decides(request[r], refused)
    BY DEF CommitDecision, Decides
  <1> QED BY <1>1, <1>2, <1>3 DEF Inv, TablesOK

LEMMA InvCommitDecision ==
    ASSUME Inv, NEW r \in Requests, NEW refused \in BOOLEAN, CommitDecision(r, refused)
    PROVE  Inv'
  <1> DEFINE q == request[r]
             row == changes[q.change]
             hit == q.kind = "APPROVED" /\ StageHit(row.stage, row.expected)
  <1>1. /\ q \in Request /\ q.kind \in Decision /\ Done(r) /\ q.user \in Users
        /\ q.change \in DOMAIN changes /\ row \in Change /\ row.expected < MaxVersion
        /\ UNCHANGED <<people, profile, hiding, scope>>
        /\ UNCHANGED agreed \/ Decides(q, refused)
    BY DecisionStep
  <1>2. CASE UNCHANGED agreed
    <2>1. Growing
      BY <1>1, <1>2 DEF Growing, agreed
    <2>2. RequestsOK'
      BY <1>1, <2>1, RequestEnds DEF Inv
    <2> QED BY <1>1, <1>2, <2>2, ToldStays, HidesStay DEF Inv, TablesOK, people, agreed, hiding
  <1>3. ASSUME Decides(q, refused) PROVE Inv'
    <2>0. PICK c \in DOMAIN changes, kind \in Decision, u \in Users :
             c = q.change /\ kind = q.kind /\ u = q.user
      BY <1>1
    <2>1. \/ stages' = stages
          \/ /\ stages[row.stage].version = row.expected
             /\ stages' = [stages EXCEPT ![row.stage] = Rewritten(row.stage, row.dates, q.user)]
      BY <1>3 DEF Decides, StageHit
    <2>2. row.stage \in Stages /\ row.dates \in Dates /\ row.by \in Users
      BY <1>1 DEF Change
    <2>3. \A s \in Stages :
             \/ stages'[s] = stages[s]
             \/ /\ stages'[s] \in Stage /\ stages'[s].version = stages[s].version + 1
                /\ stages[s].version \in Nat
      BY <1>1, <2>1, <2>2, RewrittenType DEF Inv, TablesOK
    <2>4. stages' \in [Stages -> Stage]
      BY <1>1, <2>1, <2>2, RewrittenType DEF Inv, TablesOK
    <2>5. /\ DOMAIN changes' = DOMAIN changes
          /\ \A x \in DOMAIN changes : x # c => changes'[x] = changes[x]
          /\ IF changes[c].status = "PENDING"
                THEN changes'[c] = [changes[c] EXCEPT !.status = kind, !.reviewer = u]
                ELSE changes'[c] = changes[c]
      BY <1>3, <2>0 DEF Decides
    <2>6. /\ changes'[c] \in Change /\ changes'[c].expected < MaxVersion
          /\ changes'[c].by = changes[c].by
          /\ changes[c].status = "PENDING" => changes'[c].status = kind
          /\ changes[c].status # "PENDING" => changes'[c].status = changes[c].status
      <3>1. PICK w \in Change : w = changes[c]
        BY <1>1, <2>0
      <3>2. CASE w.status = "PENDING"
        <4>1. changes'[c] = [w EXCEPT !.status = kind, !.reviewer = u]
          BY <2>5, <3>1, <3>2
        <4>2. w.expected < MaxVersion
          BY <1>1, <2>0, <3>1
        <4> QED BY <3>1, <3>2, <4>1, <4>2 DEF Change
      <3>3. CASE w.status # "PENDING"
        BY <1>1, <2>0, <2>5, <3>1, <3>3
      <3> QED BY <3>2, <3>3
    <2>7. /\ notices' = notices \cup {<<changes[c].by, c, kind>>}
          /\ <<changes[c].by, c, kind>> \notin notices
          /\ changes'[c].status = kind
      BY <1>3, <2>0 DEF Decides, NoticeGuard, Decision
    <2>8. TablesOK'
      <3>1. notices' \subseteq Notice
        BY <2>0, <2>2, <2>7 DEF Notice, Inv, TablesOK
      <3>2. \A x \in DOMAIN changes' : changes'[x] \in Change /\ changes'[x].expected < MaxVersion
        BY <2>5, <2>6 DEF Inv, TablesOK
      <3> QED BY <1>1, <2>4, <2>5, <3>1, <3>2 DEF Inv, TablesOK, people, hiding
    <2>9. RequestsOK'
      <3>1. Growing
        BY <1>1, <2>3, <2>5 DEF Growing
      <3> QED BY <1>1, <3>1, RequestEnds DEF Inv
    <2>10. ToldInv'
      <3> SUFFICES ASSUME NEW x \in Changes PROVE Told(x)'
        BY DEF ToldInv
      <3>1. Told(x)
        BY DEF Inv, ToldInv
      <3>2. CASE x # c
        <4>1. /\ About(x, {"REQUESTED"})' = About(x, {"REQUESTED"})
              /\ About(x, Decision)' = About(x, Decision)
              /\ About(x, Decision \cup {"REQUESTED"})' = About(x, Decision \cup {"REQUESTED"})
          BY <2>7, <3>2 DEF About
        <4>2. /\ x \in DOMAIN changes' <=> x \in DOMAIN changes
              /\ x \in DOMAIN changes => changes'[x] = changes[x]
          BY <2>5, <3>2
        <4> QED BY <3>1, <4>1, <4>2 DEF Told
      <3>3. CASE x = c
        <4>1. /\ \E v \in Users : About(c, {"REQUESTED"}) = {<<v, c, "REQUESTED">>}
              /\ About(c, Decision) = IF changes[c].status = "PENDING" THEN {}
                                      ELSE {<<changes[c].by, c, changes[c].status>>}
          BY <3>1, <3>3 DEF Told
        <4>2. changes[c].status = "PENDING"
          <5>1. CASE changes[c].status # "PENDING"
            <6>1. changes[c].status = kind
              BY <2>6, <2>7, <5>1
            <6>2. <<changes[c].by, c, kind>> \in About(c, Decision)
              BY <4>1, <5>1, <6>1
            <6> QED BY <2>7, <6>2 DEF About
          <5> QED BY <5>1
        <4>3. /\ About(c, {"REQUESTED"})' = About(c, {"REQUESTED"})
              /\ About(c, Decision)' = {<<changes[c].by, c, kind>>}
          BY <2>0, <2>7, <4>1, <4>2 DEF About, Decision
        <4>4. changes'[c].status # "PENDING"
          BY <2>7 DEF Decision
        <4> QED BY <2>5, <2>6, <2>7, <3>3, <4>1, <4>3, <4>4 DEF Told
      <3> QED BY <3>2, <3>3
    <2> QED BY <1>1, <2>8, <2>9, <2>10, HidesStay DEF Inv
  <1> QED BY <1>1, <1>2, <1>3

LEMMA InvCommitHide ==
    ASSUME Inv, NEW r \in Requests, CommitHide(r)
    PROVE  Inv'
  <1> DEFINE q == request[r]
             hide == [reason |-> q.reason, by |-> q.user]
             version == visibility.version
  <1>1. /\ q \in Request /\ q.kind = "hide" /\ Done(r)
        /\ Flight(q, profile, stages, DOMAIN changes)
        /\ UNCHANGED <<people, profile, agreed, scope>>
    BY DEF CommitHide, Inv, RequestsOK, FlightInv
  <1>2. /\ q.user \in Users /\ q.reason \in Reason /\ q.version \in 0..(MaxHides - 1)
        /\ hide \in Hide
    BY <1>1 DEF Flight, Hide
  <1>3. version \in 0..MaxHides
    BY DEF Inv, TablesOK
  <1>4. /\ hides' = hides \/ hides' = hides \cup {<<q.version, hide>>}
        /\ \/ visibility' = visibility
           \/ /\ version = q.version /\ hides' = hides \cup {<<version, hide>>}
              /\ visibility' = [version |-> version + 1, hide |-> hide]
    BY DEF CommitHide, HideHit
  <1>5. hides' \subseteq (0..MaxHides) \X Hide
    BY <1>2, <1>4, ScheduleAssumption DEF Inv, TablesOK
  <1>6. visibility' \in [version : 0..MaxHides, hide : Hide \cup {NoHide}]
    BY <1>2, <1>3, <1>4, ScheduleAssumption DEF Inv, TablesOK
  <1>7. HidesAreLogged'
    <2>1. /\ \A k \in 0..(version - 1) : \E e \in hides : e[1] = k
          /\ version > 0 => <<version - 1, visibility.hide>> \in hides
      BY DEF Inv, HidesAreLogged
    <2>2. CASE visibility' = visibility
      BY <1>4, <2>1, <2>2 DEF HidesAreLogged
    <2>3. CASE /\ version = q.version /\ hides' = hides \cup {<<version, hide>>}
               /\ visibility' = [version |-> version + 1, hide |-> hide]
      <3>1. visibility'.version = version + 1 /\ visibility'.hide = hide
        BY <2>3
      <3>2. visibility'.version - 1 = version
        BY <1>3, <3>1
      <3>3. \A k \in 0..version : k = version \/ k \in 0..(version - 1)
        BY <1>3
      <3>6. \E e \in hides' : e[1] = version
        <4>1. <<version, hide>>[1] = version
          OBVIOUS
        <4>2. <<version, hide>> \in hides'
          BY <2>3
        <4> QED BY <4>1, <4>2, Zenon
      <3>7. hides \subseteq hides'
        BY <2>3
      <3>4. \A k \in 0..version : \E e \in hides' : e[1] = k
        <4> HIDE DEF version, hide
        <4> QED BY <2>1, <3>3, <3>6, <3>7, Zenon
      <3>5. <<version, hide>> \in hides'
        BY <2>3
      <3> QED BY <3>1, <3>2, <3>4, <3>5 DEF HidesAreLogged
    <2> QED BY <1>4, <2>2, <2>3
  <1>8. Growing
    BY <1>1 DEF Growing, agreed
  <1>9. RequestsOK'
    BY <1>1, <1>8, RequestEnds DEF Inv
  <1> QED BY <1>1, <1>5, <1>6, <1>7, <1>9, ToldStays DEF Inv, TablesOK, people, agreed

LEMMA InvNext ==
    ASSUME Inv, [Next]_vars
    PROVE  Inv'
  <1>1. ASSUME NEW u \in Users, SetActive(u) PROVE Inv'
    <2>1. Growing
      BY <1>1 DEF SetActive, Growing, agreed
    <2>2. RequestsOK'
      BY <1>1, <2>1, FlightGrows DEF SetActive, Inv, RequestsOK, FlightInv
    <2>3. active' \subseteq Users
      BY <1>1 DEF SetActive, Inv, TablesOK
    <2> QED BY <1>1, <2>2, <2>3, ToldStays, HidesStay
            DEF SetActive, Inv, TablesOK, agreed, hiding
  <1>2. CASE UNCHANGED vars
    <2>1. Growing
      BY <1>2 DEF vars, Growing, agreed
    <2>2. RequestsOK'
      BY <1>2, <2>1, FlightGrows DEF vars, Inv, RequestsOK, FlightInv
    <2> QED BY <1>2, <2>2, ToldStays, HidesStay DEF vars, Inv, TablesOK, people, agreed, hiding
  <1> QED BY <1>1, <1>2, InvReceive, InvCommitProfile, InvCommitSave, InvCommitChange,
             InvCommitDecision, InvCommitHide DEF Next, Commit

LEMMA Invariance == Spec => []Inv
  BY InvInit, InvNext, PTL DEF Spec

(* Every reachable state of the schedule, its log and its handlers is well *)
(* typed.                                                                  *)
THEOREM Typed == Spec => []TypeOK
  <1>1. Inv => TypeOK
    BY DEF Inv, TablesOK, RequestsOK, TypeOK
  <1> QED BY <1>1, Invariance, PTL

(* A change is decided once and its requester told of that decision and of *)
(* no other, whoever decides at the same time.                             *)
THEOREM ToldOnce == Spec => []ToldAsDecided
  <1>1. ASSUME ToldInv PROVE ToldAsDecided
    <2> SUFFICES ASSUME NEW c \in Changes
                 PROVE  IF c \notin DOMAIN changes THEN About(c, Decision \cup {"REQUESTED"}) = {}
                        ELSE /\ Cardinality(About(c, {"REQUESTED"})) = 1
                             /\ About(c, Decision) = IF changes[c].status = "PENDING" THEN {}
                                   ELSE {<<changes[c].by, c, changes[c].status>>}
      BY DEF ToldAsDecided, About
    <2>1. Told(c)
      BY <1>1 DEF ToldInv
    <2>2. \A u : Cardinality({<<u, c, "REQUESTED">>}) = 1
      BY FS_Singleton
    <2> QED BY <2>1, <2>2 DEF Told
  <1>2. Inv => ToldInv
    BY DEF Inv
  <1> QED BY <1>1, <1>2, Invariance, PTL

(* Every version of the visibility row has its event in the log.           *)
THEOREM HidesLogged == Spec => []HidesAreLogged
  <1>1. Inv => HidesAreLogged
    BY DEF Inv
  <1> QED BY <1>1, Invariance, PTL

(* Notices and log tell what was done, whoever else is at the schedule.    *)
THEOREM Traces == Spec => []TracesAreTrue
  <1>1. ToldAsDecided /\ HidesAreLogged => TracesAreTrue
    BY DEF TracesAreTrue
  <1> QED BY <1>1, ToldOnce, HidesLogged, PTL

-----------------------------------------------------------------------------
(* What the tables' steps write, and that nothing else writes them.        *)
LEMMA RequestDone ==
    ASSUME Inv, NEW r \in Requests, request[r].kind # "none", Done(r)
    PROVE  request'[r] # request[r]
  BY IdleType DEF Done, Inv, RequestsOK

LEMMA Elsewhere ==
    ASSUME Inv, [Next]_vars
    PROVE  /\ stages' # stages =>
                 \/ \E r \in Requests : CommitSave(r)
                 \/ \E r \in Requests, refused \in BOOLEAN : CommitDecision(r, refused)
           /\ (\E c \in DOMAIN changes : changes'[c] # changes[c]) =>
                 \E r \in Requests, refused \in BOOLEAN : CommitDecision(r, refused)
           /\ visibility' # visibility => \E r \in Requests : CommitHide(r)
           /\ profile' # profile => \E r \in Requests : CommitProfile(r)
  <1>1. ASSUME NEW r \in Requests, NEW u \in Users, Receive(r, u)
        PROVE  UNCHANGED <<stages, changes, visibility, profile>>
    BY <1>1 DEF Receive, ReceiveProfile, ReceiveSave, ReceiveChange, ReceiveDecision,
                ReceiveHide, agreed, hiding
  <1>2. ASSUME NEW r \in Requests, NEW s \in Stages, CommitChange(r, s)
        PROVE  /\ UNCHANGED <<stages, visibility, profile>>
               /\ \A c \in DOMAIN changes : changes'[c] = changes[c]
    BY <1>2 DEF CommitChange, ChangeGuard, hiding
  <1>3. ASSUME NEW r \in Requests, CommitSave(r)
        PROVE  UNCHANGED <<changes, visibility, profile>>
    BY <1>3 DEF CommitSave, hiding
  <1>4. ASSUME NEW r \in Requests, NEW refused \in BOOLEAN, CommitDecision(r, refused)
        PROVE  UNCHANGED <<visibility, profile>>
    BY <1>4 DEF CommitDecision, hiding
  <1>5. ASSUME NEW r \in Requests, CommitHide(r)
        PROVE  UNCHANGED <<stages, changes, profile>>
    BY <1>5 DEF CommitHide, agreed
  <1>6. ASSUME NEW r \in Requests, CommitProfile(r)
        PROVE  UNCHANGED <<stages, changes, visibility>>
    BY <1>6 DEF CommitProfile, agreed, hiding
  <1>7. CASE (\E u \in Users : SetActive(u)) \/ UNCHANGED vars
    BY <1>7 DEF SetActive, vars, agreed, hiding
  <1> QED BY <1>1, <1>2, <1>3, <1>4, <1>5, <1>6, <1>7 DEF Next, Commit

(* An approved change is in the schedule the moment it is approved, by     *)
(* hand-edited stages and concurrent decisions alike.                      *)
THEOREM ApprovedScheduled == Spec => ApprovedIsScheduled
  <1>1. Inv /\ [Next]_vars =>
          [\A c \in DOMAIN changes :
             changes[c].status = "PENDING" /\ changes'[c].status = "APPROVED" =>
                 stages'[changes[c].stage] =
                     [dates |-> changes[c].dates, version |-> changes[c].expected + 1,
                      by |-> changes'[c].reviewer]]_vars
    <2> SUFFICES ASSUME Inv, [Next]_vars, NEW c \in DOMAIN changes,
                        changes[c].status = "PENDING", changes'[c].status = "APPROVED"
                 PROVE  stages'[changes[c].stage] =
                           [dates |-> changes[c].dates, version |-> changes[c].expected + 1,
                            by |-> changes'[c].reviewer]
      OBVIOUS
    <2>1. PICK r \in Requests, refused \in BOOLEAN : CommitDecision(r, refused)
      BY Elsewhere
    <2>2. Decides(request[r], refused)
      BY <2>1, DecisionStep DEF agreed
    <2>3. c = request[r].change
      BY <2>2 DEF Decides
    <2>4. changes[c] \in Change
      BY DEF Inv, TablesOK
    <2>5. /\ changes'[c].status = request[r].kind /\ changes'[c].reviewer = request[r].user
          /\ DecisionGuard(request[r].user, c, request[r].kind, stages')
      BY <2>2, <2>3, <2>4 DEF Decides, Change
    <2> QED BY <2>5 DEF DecisionGuard
  <1> QED BY <1>1, Invariance, PTL DEF Spec, ApprovedIsScheduled

(* Whoever loses the project or the account while a handler runs writes    *)
(* nothing: stages, decisions and visibility are written by who is in      *)
(* charge at that moment, and only they replace a PM.                      *)
THEOREM InChargeWrites == Spec => WrittenInCharge
  <1>1. Inv /\ [Next]_vars =>
          [LET InChargeNow(u) == u \in active /\ (u \in Admins \/ profile.pm = u) IN
           /\ \A s \in Stages : stages'[s] # stages[s] => InChargeNow(stages'[s].by)
           /\ \A c \in DOMAIN changes :
                 changes'[c] # changes[c] => InChargeNow(changes'[c].reviewer)
           /\ visibility' # visibility => InChargeNow(visibility'.hide.by)
           /\ profile' # profile /\ profile.version > 0 =>
                 \E r \in Requests : /\ request'[r] # request[r]
                                     /\ InChargeNow(request[r].user)]_vars
    <2> SUFFICES ASSUME Inv, [Next]_vars
                 PROVE  /\ \A s \in Stages : stages'[s] # stages[s] => InCharge(stages'[s].by)
                        /\ \A c \in DOMAIN changes :
                              changes'[c] # changes[c] => InCharge(changes'[c].reviewer)
                        /\ visibility' # visibility => InCharge(visibility'.hide.by)
                        /\ profile' # profile /\ profile.version > 0 =>
                              \E r \in Requests : /\ request'[r] # request[r]
                                                  /\ InCharge(request[r].user)
      BY DEF InCharge, CanManage
    <2>1. ASSUME NEW s \in Stages, stages'[s] # stages[s] PROVE InCharge(stages'[s].by)
      <3>1. CASE \E r \in Requests : CommitSave(r)
        BY <2>1, <3>1 DEF CommitSave, Rewritten, Inv, TablesOK
      <3>2. CASE \E r \in Requests, refused \in BOOLEAN : CommitDecision(r, refused)
        <4>1. PICK r \in Requests, refused \in BOOLEAN : CommitDecision(r, refused)
          BY <3>2
        <4>2. Decides(request[r], refused)
          BY <2>1, <4>1, DecisionStep DEF agreed
        <4> QED BY <2>1, <4>2 DEF Decides, Rewritten, Inv, TablesOK
      <3> QED BY <2>1, <3>1, <3>2, Elsewhere
    <2>2. ASSUME NEW c \in DOMAIN changes, changes'[c] # changes[c]
          PROVE  InCharge(changes'[c].reviewer)
      <3>1. PICK r \in Requests, refused \in BOOLEAN : CommitDecision(r, refused)
        BY <2>2, Elsewhere
      <3>2. Decides(request[r], refused)
        BY <2>2, <3>1, DecisionStep DEF agreed
      <3>3. c = request[r].change
        BY <2>2, <3>2 DEF Decides
      <3>4. changes[c] \in Change
        BY DEF Inv, TablesOK
      <3>5. /\ changes'[c].reviewer = request[r].user
            /\ DecisionGuard(request[r].user, c, request[r].kind, stages')
        BY <2>2, <3>2, <3>3, <3>4 DEF Decides, Change
      <3> QED BY <3>5 DEF DecisionGuard
    <2>3. ASSUME visibility' # visibility PROVE InCharge(visibility'.hide.by)
      <3>1. PICK r \in Requests : CommitHide(r)
        BY <2>3, Elsewhere
      <3> QED BY <2>3, <3>1 DEF CommitHide
    <2>4. ASSUME profile' # profile, profile.version > 0
          PROVE  \E r \in Requests : request'[r] # request[r] /\ InCharge(request[r].user)
      <3>1. PICK r \in Requests : CommitProfile(r)
        BY <2>4, Elsewhere
      <3>2. /\ request[r].kind = "profile" /\ Done(r) /\ request[r].user \in active
            /\ request[r].version = profile.version
        BY <2>4, <3>1 DEF CommitProfile, ProfileAfter
      <3>3. request[r].user \in Admins \/ profile.pm = request[r].user
        BY <2>4, <3>2 DEF Inv, RequestsOK, FlightInv, Flight
      <3> QED BY <3>2, <3>3, RequestDone DEF InCharge, CanManage
    <2> QED BY <2>1, <2>2, <2>3, <2>4
  <1> QED BY <1>1, Invariance, PTL DEF Spec, WrittenInCharge

(* Nobody replaces what another has written to a stage since they looked.  *)
THEOREM OthersKept == Spec => NothingOverwritten
  <1>1. Inv /\ [Next]_vars =>
          [\A s \in Stages : stages'[s] # stages[s] =>
             \E r \in Requests :
                 /\ request'[r] # request[r]
                 /\ \/ stages[s].version = MadeFor(request[r], s)
                    \/ stages[s].by = request[r].user]_vars
    <2> SUFFICES ASSUME Inv, [Next]_vars, NEW s \in Stages, stages'[s] # stages[s]
                 PROVE  \E r \in Requests :
                           /\ request'[r] # request[r]
                           /\ \/ stages[s].version = MadeFor(request[r], s)
                              \/ stages[s].by = request[r].user
      OBVIOUS
    <2>1. ASSUME NEW r \in Requests, CommitSave(r)
          PROVE  /\ request'[r] # request[r]
                 /\ \/ stages[s].version = MadeFor(request[r], s)
                    \/ stages[s].by = request[r].user
      <3>1. /\ request[r].kind = "save" /\ Done(r) /\ s \in request[r].items
            /\ stages[s].version = request[r].read[s]
        BY <2>1 DEF CommitSave, StageHit, Inv, TablesOK
      <3>2. request[r].expected[s] = request[r].read[s] \/ stages[s].by = request[r].user
        BY <3>1 DEF Inv, RequestsOK, FlightInv, Flight
      <3> QED BY <3>1, <3>2, RequestDone DEF MadeFor, Decision
    <2>2. ASSUME NEW r \in Requests, NEW refused \in BOOLEAN, CommitDecision(r, refused)
          PROVE  /\ request'[r] # request[r]
                 /\ stages[s].version = MadeFor(request[r], s)
      <3>1. /\ request[r].kind \in Decision /\ Done(r)
            /\ Decides(request[r], refused)
        BY <2>2, DecisionStep DEF agreed
      <3>2. stages[s].version = MadeFor(request[r], s)
        BY <3>1 DEF Decides, StageHit, MadeFor, Inv, TablesOK
      <3> QED BY <3>1, <3>2, RequestDone DEF Decision
    <2> QED BY <2>1, <2>2, Elsewhere
  <1> QED BY <1>1, Invariance, PTL DEF Spec, NothingOverwritten
-----------------------------------------------------------------------------
(* What a handler in flight still knows of the tables, and what one that   *)
(* has answered promises: versions only grow, and as long as the version   *)
(* it asks for is there the row is the one it has read.                    *)
CallOK(q) ==
    /\ q \in Call
    /\ q.kind # "none" => q.user \in Users
    /\ q.kind \in {"kickoff", "minutes"} => q.version < MaxNotes /\ q.version <= kickoff.version
    /\ q.kind = "kickoff" /\ q.answered => q.version < kickoff.version
    /\ q.kind = "survey" => q.text \in Texts /\ q.version < MaxNotes
    /\ q.kind \in {"survey", "summary", "confirm"} =>
          q.other < MaxNotes /\ q.other <= output.version
    /\ q.kind = "summary" /\ ~q.answered /\ output.version = q.other => output.notes = q.text
    /\ q.kind \in {"allocate", "case"} => q.key \in Keys /\ q.text \in Texts
    /\ q.kind = "catalog" =>
          q.found.version < MaxCatalog /\ q.found.version <= catalog.version
    /\ q.kind = "catalog" /\ ~q.answered /\ catalog.version = q.found.version =>
          catalog = q.found
    /\ q.kind # "catalog" => q.action = "none"
    /\ q.kind = "status" => q.version < MaxCase /\ q.version <= file.version
    /\ q.kind = "status" /\ q.answered => q.version < file.version
    /\ q.kind = "status" => q.other \in CaseStatus /\ q.other + 1 \in CaseStatus
    /\ q.answered => Kept(q)

TablesTyped ==
    /\ kickoff \in Kickoff /\ survey \in 0..MaxNotes /\ output \in Output
    /\ saves \subseteq Save
    /\ DOMAIN allocations \subseteq Keys /\ \A k \in DOMAIN allocations : allocations[k] \in Texts
    /\ DOMAIN cases \subseteq Keys
    /\ \A k \in DOMAIN cases : cases[k] \in [text : Texts, by : Users]
    /\ file \in File
    /\ catalog \in Catalog

LogOK ==
    \A e \in saves :
        /\ e.output <= output.version
        /\ "tie" \notin desk /\ output.version = e.output => output.notes = e.text

CallsOK ==
    /\ DOMAIN call = Requests /\ call = [r \in Requests |-> call[r]]
    /\ \A r \in Requests : CallOK(call[r])

DeskInv == TablesTyped /\ LogOK /\ SummaryOfNotes /\ CallsOK /\ <<scope, desk>> \in Worlds

(* Rows only grow, and one whose version stays is left as it was.          *)
Grows(old, new) == old.version <= new.version /\ (old.version = new.version => old = new)
Keeps(old, new) == \A k \in DOMAIN old : k \in DOMAIN new /\ new[k] = old[k]
DeskGrows ==
    /\ Grows(kickoff, kickoff') /\ Grows(output, output') /\ Grows(catalog, catalog')
    /\ catalog.deleted => catalog'.deleted
    /\ catalog.archived => catalog'.archived
    /\ Keeps(allocations, allocations') /\ Keeps(cases, cases')
    /\ Grows(file, file')
    /\ desk' = desk

-----------------------------------------------------------------------------
LEMMA NoCallOK == CallOK(NoCall) /\ NoCall.kind = "none" /\ NotCatalogued \in Catalog
  <1>1. NotCatalogued \in Catalog
    BY DeskAssumption DEF NotCatalogued, Catalog
  <1>2. NoCall \in Call
    BY <1>1, DeskAssumption DEF NoCall, Call, CallKind, Version, Text
  <1> QED BY <1>1, <1>2 DEF CallOK, NoCall

LEMMA RowTypes ==
  ASSUME DeskInv
  PROVE  /\ {kickoff.version, survey, output.version, file.version} \subseteq Version
         /\ file.status \in CaseStatus
         /\ kickoff.notes \in Text /\ output.notes \in Text /\ catalog \in Catalog
  BY DeskAssumption DEF DeskInv, TablesTyped, Kickoff, Output, File, Version

(* Whatever others do, a call's knowledge and its promise stay true.       *)
LEMMA CallStays ==
  ASSUME NEW q, CallOK(q), TablesTyped, TablesTyped', DeskGrows
  PROVE  CallOK(q)'
  <1>1. q.answered => Kept(q)'
    <2> SUFFICES ASSUME q.answered PROVE Kept(q)'
      OBVIOUS
    <2>1. Kept(q)
      BY DEF CallOK
    <2>2. q.kind = "kickoff" /\ kickoff'.version = q.version + 1 /\ "tie" \notin desk' =>
            kickoff'.notes = q.text
      BY <2>1, DeskAssumption
      DEF CallOK, Kept, DeskGrows, Grows, TablesTyped, Kickoff, Call, Version
    <2>3. q.kind = "allocate" => q.key \in DOMAIN allocations' /\ allocations'[q.key] = q.text
      BY <2>1 DEF Kept, DeskGrows, Keeps
    <2>4. q.kind = "case" => q.key \in DOMAIN cases' /\ cases'[q.key].text = q.text
      BY <2>1 DEF Kept, DeskGrows, Keeps
    <2>5. /\ q.action = "ADMIN_DELETE" => catalog'.deleted
          /\ q.action = "ARCHIVE_TO_DRIVE" => catalog'.archived
      BY <2>1 DEF Kept, DeskGrows
    <2>6. q.kind = "status" /\ file'.version = q.version + 1 => file'.status = q.other + 1
      BY <2>1, DeskAssumption DEF CallOK, Kept, DeskGrows, Grows, TablesTyped, File, Call, Version
    <2> QED BY <2>2, <2>3, <2>4, <2>5, <2>6 DEF Kept
  <1>2. q.kind \in {"kickoff", "minutes"} => q.version <= kickoff'.version
    BY DeskAssumption DEF CallOK, DeskGrows, Grows, TablesTyped, Kickoff, Call, Version
  <1>3. q.kind = "kickoff" /\ q.answered => q.version < kickoff'.version
    BY DeskAssumption DEF CallOK, DeskGrows, Grows, TablesTyped, Kickoff, Call, Version
  <1>4. q.kind \in {"survey", "summary", "confirm"} => q.other <= output'.version
    BY DeskAssumption DEF CallOK, DeskGrows, Grows, TablesTyped, Output, Call, Version, CaseStatus
  <1>5. q.kind = "summary" /\ ~q.answered /\ output'.version = q.other =>
          output'.notes = q.text
    BY DeskAssumption DEF CallOK, DeskGrows, Grows, TablesTyped, Output, Call, Version, CaseStatus
  <1>6. q.kind = "catalog" => q.found.version <= catalog'.version
    BY DeskAssumption DEF CallOK, DeskGrows, Grows, TablesTyped, Catalog, Call
  <1>7. q.kind = "catalog" /\ ~q.answered /\ catalog'.version = q.found.version =>
          catalog' = q.found
    BY DeskAssumption DEF CallOK, DeskGrows, Grows, TablesTyped, Catalog, Call
  <1>8. /\ q.kind = "status" => q.version <= file'.version
        /\ q.kind = "status" /\ q.answered => q.version < file'.version
    BY DeskAssumption DEF CallOK, DeskGrows, Grows, TablesTyped, File, Call, Version
  <1> QED BY <1>1, <1>2, <1>3, <1>4, <1>5, <1>6, <1>7, <1>8 DEF CallOK

(* A step that only moves the call r and lets the tables grow.             *)
LEMMA CallMoves ==
  ASSUME DeskInv, TablesTyped', LogOK', SummaryOfNotes', DeskGrows, scope' = scope,
         NEW r \in Requests, NEW q, call' = [call EXCEPT ![r] = q], CallOK(q)'
  PROVE  DeskInv'
  <1>1. ASSUME NEW x \in Requests PROVE CallOK(call[x])'
    <2>1. CASE x = r
      <3>1. call'[x] = q
        BY <2>1 DEF DeskInv, CallsOK
      <3> QED BY <3>1 DEF CallOK, Kept
    <2>2. CASE x # r
      <3>1. PICK c : c = call[x]
        OBVIOUS
      <3>2. CallOK(c)
        BY <3>1 DEF DeskInv, CallsOK
      <3>3. CallOK(c)'
        BY <3>2, CallStays DEF DeskInv
      <3>4. call'[x] = c
        BY <2>2, <3>1 DEF DeskInv, CallsOK
      <3> QED BY <3>3, <3>4 DEF CallOK, Kept
    <2> QED BY <2>1, <2>2
  <1>2. CallsOK'
    BY <1>1 DEF DeskInv, CallsOK
  <1> QED BY <1>2 DEF DeskInv, DeskGrows

(* Nothing but the calls moves.                                            *)
LEMMA NothingMoves ==
  ASSUME DeskInv, UNCHANGED <<field, keyed, file, catalog, desk>>, scope' = scope
  PROVE  TablesTyped' /\ LogOK' /\ SummaryOfNotes' /\ DeskGrows
  BY DEF DeskInv, TablesTyped, LogOK, SummaryOfNotes, DeskGrows, Grows, Keeps,
         field, keyed, Kickoff, Output, Catalog, File

(* A handler that is let in knows the rows it has read.                    *)
LEMMA Received ==
  ASSUME DeskInv, NEW r \in Requests, NEW u \in Users, ReceiveCall(r, u), UNCHANGED vars
  PROVE  DeskInv'
  <1> USE DeskAssumption
  <1>1. /\ UNCHANGED <<field, keyed, file, catalog, desk>> /\ scope' = scope
    BY DEF ReceiveCall, ReceiveKickoff, ReceiveSurvey, ReceiveMinutes, ReceiveSummary,
           ReceiveConfirm, ReceiveAllocation, ReceiveCase, ReceiveCatalog, ReceiveStatus, vars
  <1>2. TablesTyped' /\ LogOK' /\ SummaryOfNotes' /\ DeskGrows
    BY <1>1, NothingMoves
  <1>3. \E q : call' = [call EXCEPT ![r] = q] /\ CallOK(q)
    <2>1. CASE \E t \in Texts : ReceiveKickoff(r, u, t)
      <3>1. PICK t \in Texts : ReceiveKickoff(r, u, t)
        BY <2>1
      <3> DEFINE q == [[NoCall EXCEPT !.version = kickoff.version, !.text = t]
                         EXCEPT !.kind = "kickoff", !.user = u]
      <3>2. call' = [call EXCEPT ![r] = q]
        BY <3>1 DEF ReceiveKickoff, Take
      <3>3. q \in Call
        BY <3>1, RowTypes, NoCallOK DEF CallOK, Call, CallKind, Text
      <3>4. CallOK(q)
        BY <3>1, <3>3 DEF ReceiveKickoff, NoCall, CallOK, Kept, DeskInv, TablesTyped, Kickoff
      <3> QED BY <3>2, <3>4
    <2>2. CASE \E t \in Texts : ReceiveSurvey(r, u, t)
      <3>1. PICK t \in Texts : ReceiveSurvey(r, u, t)
        BY <2>2
      <3> DEFINE q == [[NoCall EXCEPT !.version = survey, !.other = output.version, !.text = t]
                         EXCEPT !.kind = "survey", !.user = u]
      <3>2. call' = [call EXCEPT ![r] = q]
        BY <3>1 DEF ReceiveSurvey, Take
      <3>3. q \in Call
        BY <3>1, RowTypes, NoCallOK DEF CallOK, Call, CallKind, Text
      <3>4. CallOK(q)
        BY <3>1, <3>3 DEF ReceiveSurvey, NoCall, CallOK, Kept, DeskInv, TablesTyped, Output
      <3> QED BY <3>2, <3>4
    <2>3. CASE ReceiveMinutes(r, u)
      <3> DEFINE q == [[NoCall EXCEPT !.version = kickoff.version, !.text = kickoff.notes]
                         EXCEPT !.kind = "minutes", !.user = u]
      <3>2. call' = [call EXCEPT ![r] = q]
        BY <2>3 DEF ReceiveMinutes, Take
      <3>3. q \in Call
        BY <2>3, RowTypes, NoCallOK DEF CallOK, Call, CallKind, Text
      <3>4. CallOK(q)
        BY <2>3, <3>3 DEF ReceiveMinutes, NoCall, CallOK, Kept, DeskInv, TablesTyped, Kickoff
      <3> QED BY <3>2, <3>4
    <2>4. CASE ReceiveSummary(r, u)
      <3> DEFINE q == [[NoCall EXCEPT !.other = output.version, !.text = output.notes]
                         EXCEPT !.kind = "summary", !.user = u]
      <3>2. call' = [call EXCEPT ![r] = q]
        BY <2>4 DEF ReceiveSummary, Take
      <3>3. q \in Call
        BY <2>4, RowTypes, NoCallOK DEF CallOK, Call, CallKind, Text
      <3>4. CallOK(q)
        BY <2>4, <3>3 DEF ReceiveSummary, NoCall, CallOK, Kept, DeskInv, TablesTyped, Output
      <3> QED BY <3>2, <3>4
    <2>5. CASE ReceiveConfirm(r, u)
      <3> DEFINE q == [[NoCall EXCEPT !.other = output.version]
                         EXCEPT !.kind = "confirm", !.user = u]
      <3>2. call' = [call EXCEPT ![r] = q]
        BY <2>5 DEF ReceiveConfirm, Take
      <3>3. q \in Call
        BY <2>5, RowTypes, NoCallOK DEF CallOK, Call, CallKind, Text
      <3>4. CallOK(q)
        BY <2>5, <3>3 DEF ReceiveConfirm, NoCall, CallOK, Kept, DeskInv, TablesTyped, Output
      <3> QED BY <3>2, <3>4
    <2>6. CASE \E k \in Keys, t \in Texts : ReceiveAllocation(r, u, k, t)
      <3>1. PICK k \in Keys, t \in Texts : ReceiveAllocation(r, u, k, t)
        BY <2>6
      <3>2. PICK known \in BOOLEAN : known = (k \in DOMAIN allocations)
        <4>1. (k \in DOMAIN allocations) \in BOOLEAN
          BY SMT
        <4> QED BY <4>1, Zenon
      <3> DEFINE q == [[NoCall EXCEPT !.key = k, !.text = t, !.answered = known]
                         EXCEPT !.kind = "allocate", !.user = u]
      <3>3. call' = [call EXCEPT ![r] = q]
        BY <3>1, <3>2 DEF ReceiveAllocation, Take
      <3>4. q \in Call
        BY NoCallOK DEF CallOK, Call, CallKind, Text
      <3>5. CallOK(q)
        BY <3>1, <3>2, <3>4 DEF ReceiveAllocation, NoCall, CallOK, Kept, DeskInv, TablesTyped
      <3> QED BY <3>3, <3>5
    <2>7. CASE \E k \in Keys, t \in Texts : ReceiveCase(r, u, k, t)
      <3>1. PICK k \in Keys, t \in Texts : ReceiveCase(r, u, k, t)
        BY <2>7
      <3>2. PICK known \in BOOLEAN : known = (k \in DOMAIN cases)
        <4>1. (k \in DOMAIN cases) \in BOOLEAN
          BY SMT
        <4> QED BY <4>1, Zenon
      <3> DEFINE q == [[NoCall EXCEPT !.key = k, !.text = t, !.answered = known]
                         EXCEPT !.kind = "case", !.user = u]
      <3>3. call' = [call EXCEPT ![r] = q]
        BY <3>1, <3>2 DEF ReceiveCase, Take
      <3>4. q \in Call
        BY NoCallOK DEF CallOK, Call, CallKind, Text
      <3>5. CallOK(q)
        BY <3>1, <3>2, <3>4 DEF ReceiveCase, NoCall, CallOK, Kept, DeskInv, TablesTyped
      <3> QED BY <3>3, <3>5
    <2>8. CASE \E action \in CaseAction : ReceiveCatalog(r, u, action)
      <3>1. PICK action \in CaseAction : ReceiveCatalog(r, u, action)
        BY <2>8
      <3> DEFINE q == [[NoCall EXCEPT !.action = action, !.found = catalog]
                         EXCEPT !.kind = "catalog", !.user = u]
      <3>2. call' = [call EXCEPT ![r] = q]
        BY <3>1 DEF ReceiveCatalog, Take
      <3>3. q \in Call
        BY <3>1, RowTypes, NoCallOK DEF CallOK, Call, CallKind, Text
      <3>4. CallOK(q)
        BY <3>1, <3>3 DEF ReceiveCatalog, NoCall, CallOK, Kept, DeskInv, TablesTyped, Catalog
      <3> QED BY <3>2, <3>4
    <2>9. CASE ReceiveStatus(r, u)
      <3> DEFINE q == [[NoCall EXCEPT !.version = file.version, !.other = file.status]
                         EXCEPT !.kind = "status", !.user = u]
      <3>2. call' = [call EXCEPT ![r] = q]
        BY <2>9 DEF ReceiveStatus, Take
      <3>3. q \in Call
        BY <2>9, RowTypes, NoCallOK DEF CallOK, Call, CallKind, Text
      <3>4. CallOK(q)
        BY <2>9, <3>3 DEF ReceiveStatus, NoCall, CallOK, Kept, DeskInv, TablesTyped, File
      <3> QED BY <3>2, <3>4
    <2> QED BY <2>1, <2>2, <2>3, <2>4, <2>5, <2>6, <2>7, <2>8, <2>9 DEF ReceiveCall
  <1>4. PICK q : call' = [call EXCEPT ![r] = q] /\ CallOK(q)
    BY <1>3
  <1>5. CallOK(q)'
    BY <1>2, <1>4, CallStays DEF DeskInv
  <1> QED BY <1>1, <1>2, <1>4, <1>5, CallMoves

-----------------------------------------------------------------------------
(* A handler ends, with 200 if the tables hold what that promises.         *)
LEMMA CallEnds ==
  ASSUME DeskInv, TablesTyped', LogOK', SummaryOfNotes', DeskGrows, scope' = scope,
         NEW r \in Requests, NEW c, c = call[r],
         \/ call' = [call EXCEPT ![r] = NoCall]
         \/ /\ call' = [call EXCEPT ![r] = [c EXCEPT !.answered = TRUE]]
            /\ c.kind = "kickoff" => c.version < kickoff'.version
            /\ c.kind = "status" => c.version < file'.version
            /\ Kept(c)'
  PROVE  DeskInv'
  <1>1. CASE call' = [call EXCEPT ![r] = NoCall]
    <2>1. CallOK(NoCall)'
      BY NoCallOK, CallStays DEF DeskInv
    <2> QED BY <1>1, <2>1, CallMoves
  <1>2. CASE /\ call' = [call EXCEPT ![r] = [c EXCEPT !.answered = TRUE]]
             /\ c.kind = "kickoff" => c.version < kickoff'.version
             /\ c.kind = "status" => c.version < file'.version
             /\ Kept(c)'
    <2> DEFINE q == [c EXCEPT !.answered = TRUE]
    <2>1. CallOK(c)
      BY DEF DeskInv, CallsOK
    <2>2. CallOK(c)'
      BY <2>1, CallStays DEF DeskInv
    <2>3. q \in Call
      BY <2>1 DEF CallOK, Call
    <2>4. CallOK(q)'
      BY <1>2, <2>1, <2>2, <2>3 DEF CallOK, Kept, Call
    <2> QED BY <1>2, <2>4, CallMoves
  <1> QED BY <1>1, <1>2

LEMMA KickoffWritten ==
  ASSUME NEW k \in Kickoff, k.version < MaxNotes, NEW t \in Text, NEW n,
         \/ n = [k EXCEPT !.version = @ + 1, !.notes = t]
         \/ n = [k EXCEPT !.version = @ + 1, !.minutes = t]
  PROVE  n \in Kickoff /\ Grows(k, n) /\ n.version = k.version + 1
  <1>1. k.version \in 0..MaxNotes /\ k.version + 1 \in 0..MaxNotes
    BY DeskAssumption DEF Kickoff
  <1>2. n.version = k.version + 1
    BY DEF Kickoff
  <1>3. n \in Kickoff
    BY <1>1 DEF Kickoff
  <1>4. Grows(k, n)
    BY DeskAssumption, <1>1, <1>2 DEF Grows
  <1> QED BY <1>2, <1>3, <1>4

LEMMA KickoffGrows ==
  ASSUME DeskInv, UNCHANGED <<survey, output, saves, keyed, file, catalog, desk>>,
         kickoff' \in Kickoff, Grows(kickoff, kickoff')
  PROVE  TablesTyped' /\ LogOK' /\ SummaryOfNotes' /\ DeskGrows
  <1>1. TablesTyped'
    BY DEF DeskInv, TablesTyped, keyed
  <1>2. LogOK' /\ SummaryOfNotes'
    BY DEF DeskInv, LogOK, SummaryOfNotes
  <1>3. DeskGrows
    BY DeskAssumption
    DEF DeskInv, TablesTyped, keyed, DeskGrows, Grows, Keeps, Output, Catalog, File
  <1> QED BY <1>1, <1>2, <1>3

LEMMA KickoffKept ==
  ASSUME DeskInv, UNCHANGED vars, NEW r \in Requests, NEW tie \in BOOLEAN,
         tie => "tie" \in desk, CommitKickoff(r, tie)
  PROVE  DeskInv'
  <1> USE DeskAssumption
  <1>1. PICK c : c = call[r]
    OBVIOUS
  <1>2. /\ CallOK(c) /\ scope' = scope
        /\ UNCHANGED <<survey, output, saves, keyed, file, catalog, desk>>
        /\ c.kind = "kickoff" /\ kickoff \in Kickoff
    BY <1>1 DEF DeskInv, CallsOK, TablesTyped, vars, CommitKickoff, Pending
  <1>3. /\ c.text \in Text /\ c.version \in Nat /\ c.version < MaxNotes /\ c.action = "none"
        /\ kickoff.version \in Nat
    BY <1>2 DEF CallOK, Call, Version, Kickoff
  <1>4. CASE KickoffHit(c) /\ kickoff' = [kickoff EXCEPT !.version = @ + 1, !.notes = c.text]
    <2>1. kickoff' \in Kickoff /\ Grows(kickoff, kickoff') /\ kickoff'.version = c.version + 1
      BY <1>2, <1>3, <1>4, KickoffWritten DEF KickoffHit
    <2>2. kickoff'.notes = c.text
      BY <1>2, <1>4 DEF Kickoff
    <2>3. Kept(c)'
      BY <1>2, <1>3, <2>2 DEF Kept
    <2>4. \/ call' = [call EXCEPT ![r] = NoCall]
          \/ call' = [call EXCEPT ![r] = [c EXCEPT !.answered = TRUE]]
      BY <1>1 DEF CommitKickoff, Answer, DeskInv, CallsOK
    <2>5. c.version < kickoff'.version
      BY <1>3, <2>1
    <2> QED BY <1>1, <1>2, <2>1, <2>3, <2>4, <2>5, KickoffGrows, CallEnds
  <1>5. CASE kickoff' = kickoff /\ ~(c.user \in active /\ KickoffHit(c))
    <2>1. \/ call' = [call EXCEPT ![r] = NoCall]
          \/ /\ call' = [call EXCEPT ![r] = [c EXCEPT !.answered = TRUE]]
             /\ tie /\ kickoff.version = c.version + 1
      BY <1>1, <1>5 DEF CommitKickoff, Answer, DeskInv, CallsOK
    <2>2. tie => Kept(c)'
      BY <1>2, <1>3 DEF Kept
    <2>3. kickoff.version = c.version + 1 => c.version < kickoff'.version
      BY <1>3, <1>5
    <2>4. kickoff' \in Kickoff /\ Grows(kickoff, kickoff')
      BY <1>2, <1>3, <1>5 DEF Grows
    <2> QED BY <1>1, <1>2, <2>1, <2>2, <2>3, <2>4, KickoffGrows, CallEnds
  <1> QED BY <1>1, <1>4, <1>5 DEF CommitKickoff

LEMMA MinutesKept ==
  ASSUME DeskInv, UNCHANGED vars, NEW r \in Requests, CommitMinutes(r)
  PROVE  DeskInv'
  <1> USE DeskAssumption
  <1>1. PICK c : c = call[r]
    OBVIOUS
  <1>2. /\ CallOK(c) /\ scope' = scope
        /\ UNCHANGED <<survey, output, saves, keyed, file, catalog, desk>>
        /\ c.kind = "minutes" /\ kickoff \in Kickoff
    BY <1>1 DEF DeskInv, CallsOK, TablesTyped, vars, CommitMinutes, Pending
  <1>3. /\ c.text \in Text /\ c.version < MaxNotes /\ c.action = "none"
        /\ kickoff.version \in Nat
    BY <1>2 DEF CallOK, Call, Kickoff
  <1>4. kickoff' \in Kickoff /\ Grows(kickoff, kickoff')
    <2>1. CASE kickoff' = [kickoff EXCEPT !.version = @ + 1, !.minutes = c.text] /\ KickoffHit(c)
      BY <1>2, <1>3, <2>1, KickoffWritten DEF KickoffHit
    <2>2. CASE kickoff' = kickoff
      BY <1>2, <1>3, <2>2 DEF Grows
    <2> QED BY <1>1, <2>1, <2>2 DEF CommitMinutes
  <1>5. \/ call' = [call EXCEPT ![r] = NoCall]
        \/ call' = [call EXCEPT ![r] = [c EXCEPT !.answered = TRUE]]
    BY <1>1 DEF CommitMinutes, Answer, DeskInv, CallsOK
  <1>6. Kept(c)'
    BY <1>2, <1>3 DEF Kept
  <1> QED BY <1>1, <1>2, <1>4, <1>5, <1>6, KickoffGrows, CallEnds
-----------------------------------------------------------------------------
(* Writing an output: what it needs to know of its version.                *)
LEMMA OutputNext ==
  ASSUME NEW o \in Output, o.version < MaxNotes
  PROVE  o.version \in 0..MaxNotes /\ o.version + 1 \in 0..MaxNotes /\ o.version + 1 > o.version
  BY DeskAssumption DEF Output

LEMMA OutputGrows ==
  ASSUME DeskInv, UNCHANGED <<kickoff, keyed, file, catalog, desk>>,
         survey' \in 0..MaxNotes, saves' \subseteq Save,
         output' \in Output, Grows(output, output')
  PROVE  /\ TablesTyped' /\ DeskGrows
         /\ saves' = saves => LogOK'
  <1>1. TablesTyped'
    BY DEF DeskInv, TablesTyped, keyed
  <1>2. DeskGrows
    BY DeskAssumption
    DEF DeskInv, TablesTyped, keyed, DeskGrows, Grows, Keeps, Kickoff, Catalog, File
  <1>3. ASSUME saves' = saves, NEW e \in saves
        PROVE  /\ e.output <= output'.version
               /\ "tie" \notin desk' /\ output'.version = e.output => output'.notes = e.text
    <2>1. /\ e.output \in Nat /\ output.version \in Nat /\ output'.version \in Nat
          /\ e.output <= output.version
      BY DeskAssumption DEF DeskInv, TablesTyped, LogOK, Save, Output
    <2> QED BY <2>1 DEF Grows, DeskInv, LogOK
  <1> QED BY <1>1, <1>2, <1>3 DEF LogOK

LEMMA SummaryKept ==
  ASSUME DeskInv, UNCHANGED vars, NEW r \in Requests, CommitSummary(r) \/ CommitConfirm(r)
  PROVE  DeskInv'
  <1> USE DeskAssumption
  <1>1. PICK c : c = call[r]
    OBVIOUS
  <1>2. /\ CallOK(c) /\ scope' = scope
        /\ UNCHANGED <<kickoff, survey, saves, keyed, file, catalog, desk>>
        /\ c.kind \in {"summary", "confirm"} /\ ~c.answered
        /\ output \in Output /\ survey \in 0..MaxNotes /\ saves \subseteq Save
    BY <1>1 DEF DeskInv, CallsOK, TablesTyped, vars, CommitSummary, CommitConfirm, Pending
  <1>3. c.text \in Text /\ c.other < MaxNotes /\ c.action = "none" /\ output.version \in Nat
    BY <1>2 DEF CallOK, Call, Output
  <1>4. output' \in Output /\ Grows(output, output') /\ SummaryOfNotes'
    <2>1. CASE output' = output
      BY <1>2, <1>3, <2>1 DEF Grows, DeskInv, SummaryOfNotes
    <2>2. CASE /\ c.kind = "summary" /\ OutputHit(c.other)
               /\ output' = [output EXCEPT !.version = @ + 1, !.summary = c.text,
                                           !.confirmed = FALSE]
      <3>1. output.version < MaxNotes /\ c.text = output.notes
        BY <1>2, <1>3, <2>2 DEF OutputHit, CallOK
      <3>2. /\ output'.version = output.version + 1 /\ output'.notes = output.notes
            /\ output'.summary = c.text /\ output'.confirmed = FALSE
        BY <1>2, <2>2 DEF Output
      <3>3. output' \in Output
        BY <1>2, <1>3, <2>2, <3>1, OutputNext DEF Output
      <3> QED BY <1>2, <3>1, <3>2, <3>3, OutputNext DEF Grows, SummaryOfNotes
    <2>3. CASE /\ OutputHit(c.other) /\ output.summary # NoText
               /\ output' = [output EXCEPT !.version = @ + 1, !.confirmed = TRUE]
      <3>1. output.version < MaxNotes
        BY <1>3, <2>3 DEF OutputHit
      <3>2. /\ output'.version = output.version + 1 /\ output'.notes = output.notes
            /\ output'.summary = output.summary
        BY <1>2, <2>3 DEF Output
      <3>3. output' \in Output
        BY <1>2, <2>3, <3>1, OutputNext DEF Output
      <3> QED BY <1>2, <2>3, <3>1, <3>2, <3>3, OutputNext DEF Grows, SummaryOfNotes, DeskInv
    <2> QED BY <1>1, <2>1, <2>2, <2>3 DEF CommitSummary, CommitConfirm, Pending
  <1>5. \/ call' = [call EXCEPT ![r] = NoCall]
        \/ call' = [call EXCEPT ![r] = [c EXCEPT !.answered = TRUE]]
    BY <1>1 DEF CommitSummary, CommitConfirm, Answer, DeskInv, CallsOK
  <1>6. Kept(c)'
    BY <1>2, <1>3 DEF Kept
  <1> QED BY <1>1, <1>2, <1>4, <1>5, <1>6, OutputGrows, CallEnds

LEMMA SurveyKept ==
  ASSUME DeskInv, UNCHANGED vars, NEW r \in Requests, NEW tie \in BOOLEAN,
         tie => "tie" \in desk, CommitSurvey(r, tie)
  PROVE  DeskInv'
  <1> USE DeskAssumption
  <1>1. PICK c : c = call[r]
    OBVIOUS
  <1>2. /\ CallOK(c) /\ scope' = scope
        /\ UNCHANGED <<kickoff, keyed, file, catalog, desk>>
        /\ c.kind = "survey" /\ ~c.answered
        /\ output \in Output /\ survey \in 0..MaxNotes /\ saves \subseteq Save
    BY <1>1 DEF DeskInv, CallsOK, TablesTyped, vars, CommitSurvey, Pending
  <1>3. /\ c.text \in Texts /\ c.version \in Nat /\ c.version < MaxNotes /\ c.action = "none"
        /\ c.other \in Nat /\ c.other < MaxNotes
        /\ output.version \in Nat /\ survey \in Nat
    BY <1>2 DEF CallOK, Call, Version, Output, CaseStatus
  <1>4. survey' \in 0..MaxNotes
    BY <1>1, <1>2, <1>3 DEF CommitSurvey
  <1>5. \/ output' = output
        \/ OutputHit(c.other) /\ output' = WithNotes(c.text)
    BY <1>1 DEF CommitSurvey
  <1>6. ASSUME OutputHit(c.other), output' = WithNotes(c.text)
        PROVE  /\ output' \in Output /\ SummaryOfNotes'
               /\ output'.version = output.version + 1 /\ output'.notes = c.text
    <2>1. output.version < MaxNotes
      BY <1>3, <1>6 DEF OutputHit
    <2>2. CASE output.notes = c.text /\ output' = [output EXCEPT !.version = @ + 1]
      <3>1. /\ output'.version = output.version + 1 /\ output'.notes = output.notes
            /\ output'.summary = output.summary /\ output'.confirmed = output.confirmed
        BY <1>2, <2>2 DEF Output
      <3>2. output' \in Output
        BY <1>2, <2>1, <2>2, OutputNext DEF Output
      <3> QED BY <2>2, <3>1, <3>2 DEF SummaryOfNotes, DeskInv
    <2>3. CASE output' = [version |-> output.version + 1, notes |-> c.text,
                          summary |-> NoText, confirmed |-> FALSE]
      <3>1. output' \in Output
        BY <1>2, <1>3, <2>1, <2>3, OutputNext DEF Output, Text
      <3> QED BY <2>3, <3>1 DEF SummaryOfNotes
    <2> QED BY <1>6, <2>2, <2>3 DEF WithNotes
  <1>7. output' \in Output /\ Grows(output, output') /\ SummaryOfNotes'
    <2>1. CASE output' = output
      BY <1>2, <1>3, <2>1 DEF Grows, DeskInv, SummaryOfNotes
    <2>2. CASE OutputHit(c.other) /\ output' = WithNotes(c.text)
      BY <1>3, <1>6, <2>2 DEF Grows
    <2> QED BY <1>5, <2>1, <2>2
  <1>8. \/ saves' = saves
        \/ /\ saves' = saves \cup {[output |-> c.other + 1, text |-> c.text]}
           /\ output'.version = c.other + 1
           /\ ~tie => output'.notes = c.text
    <2>1. saves' # saves =>
            /\ saves' = saves \cup {[output |-> c.other + 1, text |-> c.text]}
            /\ \/ OutputHit(c.other) /\ output' = WithNotes(c.text)
               \/ tie /\ output'.version = c.other + 1
      BY <1>1 DEF CommitSurvey
    <2> QED BY <1>3, <1>6, <2>1 DEF OutputHit
  <1>9. saves' \subseteq Save
    BY <1>2, <1>3, <1>8 DEF Save
  <1>10. TablesTyped' /\ DeskGrows /\ (saves' = saves => LogOK')
    BY <1>2, <1>4, <1>7, <1>9, OutputGrows
  <1>11. LogOK'
    <2> SUFFICES ASSUME NEW e \in saves'
                 PROVE  /\ e.output <= output'.version
                        /\ "tie" \notin desk' /\ output'.version = e.output =>
                              output'.notes = e.text
      BY DEF LogOK
    <2>1. CASE e \in saves
      <3>1. /\ e.output \in Nat /\ output'.version \in Nat /\ e.output <= output.version
        BY <1>2, <1>7, <2>1 DEF DeskInv, LogOK, Save, Output
      <3> QED BY <1>2, <1>3, <1>7, <2>1, <3>1 DEF Grows, DeskInv, LogOK
    <2>2. CASE e \notin saves
      BY <1>2, <1>3, <1>8, <2>2
    <2> QED BY <2>1, <2>2
  <1>12. \/ call' = [call EXCEPT ![r] = NoCall]
         \/ call' = [call EXCEPT ![r] = [c EXCEPT !.answered = TRUE]]
    BY <1>1 DEF CommitSurvey, Answer, DeskInv, CallsOK
  <1>13. Kept(c)'
    BY <1>2, <1>3 DEF Kept
  <1> QED BY <1>1, <1>2, <1>7, <1>10, <1>11, <1>12, <1>13, CallEnds
-----------------------------------------------------------------------------
LEMMA KeyedKept ==
  ASSUME DeskInv, UNCHANGED vars, NEW r \in Requests, CommitAllocation(r) \/ CommitCase(r)
  PROVE  DeskInv'
  <1> USE DeskAssumption
  <1>1. PICK c : c = call[r]
    OBVIOUS
  <1>2. /\ CallOK(c) /\ scope' = scope
        /\ UNCHANGED <<field, file, catalog, desk>>
        /\ c.kind \in {"allocate", "case"} /\ ~c.answered
    BY <1>1 DEF DeskInv, CallsOK, vars, CommitAllocation, CommitCase, Pending
  <1>3. c.key \in Keys /\ c.text \in Texts /\ c.user \in Users /\ c.action = "none"
    BY <1>2 DEF CallOK
  <1>4. /\ DOMAIN allocations' \subseteq Keys
        /\ \A k \in DOMAIN allocations' : allocations'[k] \in Texts
        /\ Keeps(allocations, allocations')
    BY <1>1, <1>3 DEF CommitAllocation, CommitCase, Allocatable, Keeps, DeskInv, TablesTyped
  <1>5. /\ DOMAIN cases' \subseteq Keys
        /\ \A k \in DOMAIN cases' : cases'[k] \in [text : Texts, by : Users]
        /\ Keeps(cases, cases')
    BY <1>1, <1>3 DEF CommitAllocation, CommitCase, Keeps, DeskInv, TablesTyped
  <1>6. TablesTyped' /\ LogOK' /\ SummaryOfNotes' /\ DeskGrows
    <2>1. TablesTyped'
      BY <1>2, <1>4, <1>5 DEF DeskInv, TablesTyped, field
    <2>2. LogOK' /\ SummaryOfNotes'
      BY <1>2 DEF DeskInv, LogOK, SummaryOfNotes, field
    <2>3. DeskGrows
      BY <1>2, <1>4, <1>5
      DEF DeskInv, TablesTyped, DeskGrows, Grows, field, Kickoff, Output, Catalog, File
    <2> QED BY <2>1, <2>2, <2>3
  <1>7. \/ call' = [call EXCEPT ![r] = NoCall]
        \/ /\ call' = [call EXCEPT ![r] = [c EXCEPT !.answered = TRUE]]
           /\ c.kind = "allocate" => c.key \in DOMAIN allocations' /\ allocations'[c.key] = c.text
           /\ c.kind = "case" => c.key \in DOMAIN cases' /\ cases'[c.key].text = c.text
    BY <1>1, <1>2 DEF CommitAllocation, CommitCase, Answer, DeskInv, CallsOK, Allocatable, Pending
  <1>8. \/ call' = [call EXCEPT ![r] = NoCall]
        \/ call' = [call EXCEPT ![r] = [c EXCEPT !.answered = TRUE]] /\ Kept(c)'
    BY <1>2, <1>3, <1>7 DEF Kept
  <1> QED BY <1>1, <1>2, <1>6, <1>8, CallEnds

LEMMA CatalogKept ==
  ASSUME DeskInv, UNCHANGED vars, NEW r \in Requests, CommitCatalog(r)
  PROVE  DeskInv'
  <1> USE DeskAssumption
  <1>1. PICK c : c = call[r]
    OBVIOUS
  <1>2. /\ CallOK(c) /\ scope' = scope
        /\ UNCHANGED <<field, keyed, file, desk>>
        /\ c.kind = "catalog" /\ ~c.answered /\ catalog \in Catalog
    BY <1>1 DEF DeskInv, CallsOK, TablesTyped, vars, CommitCatalog, Pending
  <1>3. /\ c.found.version \in Nat /\ c.found.version < MaxCatalog
        /\ catalog.version \in Nat
    BY <1>2 DEF CallOK, Call, Catalog
  <1>4. /\ catalog' \in Catalog /\ Grows(catalog, catalog')
        /\ catalog.deleted => catalog'.deleted
        /\ catalog.archived => catalog'.archived
    <2>1. CASE ~CatalogHit(c)
      BY <1>1, <1>2, <1>3, <2>1 DEF CommitCatalog, Grows
    <2>2. CASE CatalogHit(c)
      <3>1. catalog = c.found /\ catalog' = Recorded(c)
        BY <1>1, <1>2, <2>2 DEF CommitCatalog, CatalogHit, CallOK
      <3>2. catalog'.version = catalog.version + 1 /\ catalog.version + 1 \in 0..MaxCatalog
        BY <1>3, <3>1 DEF Recorded
      <3>3. /\ catalog.deleted => catalog'.deleted
            /\ catalog.archived => catalog'.archived
        BY <3>1 DEF Recorded
      <3>4. c.action \in CaseAction \cup {"none"}
        BY <1>2 DEF CallOK, Call
      <3>5. catalog'.hidden \in BOOLEAN
        <4>1. catalog'.hidden = IF c.action \in {"HIDE_FROM_LIST", "RESTORE_TO_LIST"}
                                  THEN c.action = "HIDE_FROM_LIST" ELSE catalog.hidden
          BY <3>1 DEF Recorded
        <4> QED BY <1>2, <4>1 DEF Catalog
      <3>6. catalog'.deleted \in BOOLEAN /\ catalog'.archived \in BOOLEAN
        BY <3>1 DEF Recorded
      <3>7. catalog' \in Catalog
        BY <3>1, <3>2, <3>5, <3>6 DEF Recorded, Catalog
      <3> QED BY <1>3, <3>2, <3>3, <3>7 DEF Grows
    <2> QED BY <2>1, <2>2
  <1>5. TablesTyped' /\ LogOK' /\ SummaryOfNotes' /\ DeskGrows
    <2>1. TablesTyped'
      BY <1>2, <1>4 DEF DeskInv, TablesTyped, field, keyed
    <2>2. LogOK' /\ SummaryOfNotes'
      BY <1>2 DEF DeskInv, LogOK, SummaryOfNotes, field
    <2>3. DeskGrows
      BY <1>2, <1>4
      DEF DeskInv, TablesTyped, DeskGrows, Grows, Keeps, field, keyed, Kickoff, Output, File
    <2> QED BY <2>1, <2>2, <2>3
  <1>6. \/ call' = [call EXCEPT ![r] = NoCall]
        \/ call' = [call EXCEPT ![r] = [c EXCEPT !.answered = TRUE]] /\ catalog' = Recorded(c)
    BY <1>1 DEF CommitCatalog, Answer, DeskInv, CallsOK
  <1>7. ASSUME catalog' = Recorded(c) PROVE Kept(c)'
    <2>1. c.action = "ADMIN_DELETE" => catalog'.deleted
      BY <1>7 DEF Recorded
    <2>2. c.action = "ARCHIVE_TO_DRIVE" => catalog'.archived
      BY <1>7 DEF Recorded
    <2> QED BY <1>2, <2>1, <2>2 DEF Kept
  <1> QED BY <1>1, <1>2, <1>5, <1>6, <1>7, CallEnds

LEMMA FileGrows ==
  ASSUME DeskInv, UNCHANGED <<field, keyed, catalog, desk>>,
         file' \in File, Grows(file, file')
  PROVE  TablesTyped' /\ LogOK' /\ SummaryOfNotes' /\ DeskGrows
  <1>1. TablesTyped'
    BY DEF DeskInv, TablesTyped, field, keyed
  <1>2. LogOK' /\ SummaryOfNotes'
    BY DEF DeskInv, LogOK, SummaryOfNotes, field
  <1>3. DeskGrows
    <2>1. /\ Grows(kickoff, kickoff') /\ Grows(output, output') /\ Grows(catalog, catalog')
      BY DeskAssumption DEF DeskInv, TablesTyped, Grows, field, Kickoff, Output, Catalog
    <2> QED BY <2>1 DEF DeskGrows, Keeps, keyed
  <1> QED BY <1>1, <1>2, <1>3

LEMMA StatusKept ==
  ASSUME DeskInv, UNCHANGED vars, NEW r \in Requests, CommitStatus(r)
  PROVE  DeskInv'
  <1> USE DeskAssumption
  <1>1. PICK c : c = call[r]
    OBVIOUS
  <1>2. /\ CallOK(c) /\ scope' = scope
        /\ UNCHANGED <<field, keyed, catalog, desk>>
        /\ c.kind = "status" /\ file \in File
    BY <1>1 DEF DeskInv, CallsOK, TablesTyped, vars, CommitStatus, Pending
  <1>3. /\ c.version \in Nat /\ c.version < MaxCase /\ c.action = "none"
        /\ file.version \in Nat /\ c.other \in CaseStatus /\ c.other + 1 \in CaseStatus
    BY <1>2 DEF CallOK, Call, Version, File
  <1>4. \/ /\ file' = file /\ call' = [call EXCEPT ![r] = NoCall]
        \/ /\ file.version = c.version /\ file.status = c.other
           /\ file' = [status |-> file.status + 1, version |-> file.version + 1]
           /\ call' = [call EXCEPT ![r] = [c EXCEPT !.answered = TRUE]]
    BY <1>1 DEF CommitStatus, Answer, DeskInv, CallsOK
  <1>5. file' \in File /\ Grows(file, file')
    <2>1. CASE file' = file
      BY <1>2, <1>3, <2>1 DEF Grows
    <2>2. CASE /\ file.version = c.version /\ file.status = c.other
               /\ file' = [status |-> file.status + 1, version |-> file.version + 1]
      <3>1. file.version + 1 \in 0..MaxCase /\ file.status + 1 \in CaseStatus
        BY <1>2, <1>3, <2>2
      <3> QED BY <1>2, <1>3, <2>2, <3>1 DEF File, Grows
    <2> QED BY <1>4, <2>1, <2>2
  <1>6. \/ call' = [call EXCEPT ![r] = NoCall]
        \/ /\ call' = [call EXCEPT ![r] = [c EXCEPT !.answered = TRUE]] /\ Kept(c)'
           /\ c.version < file'.version
    BY <1>2, <1>3, <1>4 DEF Kept
  <1> QED BY <1>1, <1>2, <1>5, <1>6, FileGrows, CallEnds

LEMMA CallsStay ==
  ASSUME DeskInv, TablesTyped', LogOK', SummaryOfNotes', DeskGrows, scope' = scope, call' = call
  PROVE  DeskInv'
  <1>1. ASSUME NEW r \in Requests PROVE CallOK(call[r])'
    <2>1. PICK c : c = call[r]
      OBVIOUS
    <2>2. CallOK(c)'
      BY <2>1, CallStays DEF DeskInv, CallsOK
    <2> QED BY <2>1, <2>2 DEF CallOK, Kept
  <1> QED BY <1>1 DEF DeskInv, CallsOK, DeskGrows

LEMMA EditKept ==
  ASSUME DeskInv, UNCHANGED vars, NEW status \in CaseStatus, EditCase(status)
  PROVE  DeskInv'
  <1>1. file \in File /\ file.version < MaxCase
    BY DEF DeskInv, TablesTyped, EditCase
  <1>2. file.version + 1 \in 0..MaxCase /\ file.version # file.version + 1
    BY <1>1, DeskAssumption DEF File
  <1>3. file' \in File /\ Grows(file, file')
    BY <1>1, <1>2, DeskAssumption DEF EditCase, File, Grows
  <1> QED BY <1>3, FileGrows, CallsStay DEF EditCase, vars

(* Steps of the schedule, and stuttering.                                  *)
LEMMA ScheduleKept ==
  ASSUME DeskInv, UNCHANGED deskVars, scope' = scope
  PROVE  DeskInv'
  BY NothingMoves, CallsStay DEF deskVars

LEMMA DeskInvariance == DeskSpec => []DeskInv
  <1>1. DeskInit => DeskInv
    <2> SUFFICES ASSUME DeskInit PROVE DeskInv
      OBVIOUS
    <2>1. TablesTyped
      BY DeskAssumption
      DEF DeskInit, TablesTyped, Kickoff, Output, Text, File, CaseStatus, Catalog, NotCatalogued, Save
    <2>2. LogOK /\ SummaryOfNotes
      BY DEF DeskInit, LogOK, SummaryOfNotes
    <2>3. CallsOK
      BY NoCallOK DEF DeskInit, CallsOK
    <2>4. <<scope, desk>> \in Worlds
      <3>1. PICK w \in Worlds : scope = w[1] /\ desk = w[2]
        BY DEF DeskInit
      <3>2. w \in Scopes \X SUBSET {"kickoff", "survey", "keyed", "catalog", "status", "tie"}
        BY DeskAssumption
      <3> QED BY <3>1, <3>2
    <2> QED BY <2>1, <2>2, <2>3, <2>4 DEF DeskInv
  <1>2. DeskInv /\ [DeskNext]_<<vars, deskVars>> => DeskInv'
    <2> SUFFICES ASSUME DeskInv, [DeskNext]_<<vars, deskVars>> PROVE DeskInv'
      OBVIOUS
    <2>1. CASE Next /\ UNCHANGED deskVars
      <3>1. scope' = scope
        <4>1. ASSUME NEW r \in Requests, NEW u \in Users, Receive(r, u) PROVE scope' = scope
          BY <4>1 DEF Receive, ReceiveProfile, ReceiveSave, ReceiveChange, ReceiveDecision,
                      ReceiveHide
        <4>2. ASSUME NEW r \in Requests, Commit(r) PROVE scope' = scope
          BY <4>2 DEF Commit, CommitProfile, CommitSave, CommitChange, CommitDecision, CommitHide
        <4>3. ASSUME NEW u \in Users, SetActive(u) PROVE scope' = scope
          BY <4>3 DEF SetActive
        <4> QED BY <2>1, <4>1, <4>2, <4>3 DEF Next
      <3> QED BY <2>1, <3>1, ScheduleKept
    <2>2. CASE DeskStep /\ UNCHANGED vars
      <3>1. ASSUME NEW r \in Requests, NEW u \in Users, ReceiveCall(r, u) PROVE DeskInv'
        BY <2>2, <3>1, Received
      <3>2. ASSUME NEW r \in Requests, CommitCall(r) PROVE DeskInv'
        <4>1. ASSUME NEW tie \in (IF "tie" \in desk THEN BOOLEAN ELSE {FALSE}),
                     CommitKickoff(r, tie) \/ CommitSurvey(r, tie)
              PROVE  DeskInv'
          <5>1. tie \in BOOLEAN /\ (tie => "tie" \in desk)
            OBVIOUS
          <5> QED BY <2>2, <4>1, <5>1, KickoffKept, SurveyKept
        <4> QED BY <2>2, <3>2, <4>1, MinutesKept, SummaryKept, KeyedKept, CatalogKept, StatusKept
            DEF CommitCall
      <3> QED BY <2>2, <3>1, <3>2, EditKept DEF DeskStep
    <2>3. CASE UNCHANGED <<vars, deskVars>>
      BY <2>3, ScheduleKept DEF vars
    <2> QED BY <2>1, <2>2, <2>3 DEF DeskNext
  <1> QED BY <1>1, <1>2, PTL DEF DeskSpec
-----------------------------------------------------------------------------
(* The desk adds tables and handlers and takes nothing away: seen without  *)
(* them every behaviour is one of the schedule alone, so all that is       *)
(* proved of the schedule holds of the page.                               *)
THEOREM ScheduleOfDesk == DeskSpec => Spec
  <1>1. DeskInit => Init
    BY DEF DeskInit
  <1>2. [DeskNext]_<<vars, deskVars>> => [Next]_vars
    BY DEF DeskNext
  <1> QED BY <1>1, <1>2, PTL DEF DeskSpec, Spec

(* So in the page too the notices and the log tell what was done, an       *)
(* approved change is in the schedule, and stages, decisions, visibility   *)
(* and PM are only written by who is in charge and has seen the last row.  *)
THEOREM PageKeepsSchedule ==
    DeskSpec => /\ []TypeOK /\ []TracesAreTrue
                /\ ApprovedIsScheduled /\ WrittenInCharge /\ NothingOverwritten
  BY ScheduleOfDesk, Typed, Traces, ApprovedScheduled, InChargeWrites, OthersKept, PTL

(* The desk's tables and calls keep their types.                           *)
THEOREM DeskTyped == DeskSpec => []DeskTypeOK
  <1>1. DeskInv => DeskTypeOK
    <2> SUFFICES ASSUME DeskInv PROVE DeskTypeOK
      OBVIOUS
    <2>1. call \in [Requests -> Call]
      BY DEF DeskInv, CallsOK, CallOK
    <2> QED BY <2>1 DEF DeskInv, TablesTyped, DeskTypeOK
  <1> QED BY <1>1, DeskInvariance, PTL

(* What is shown as the summary of a survey is always that of its notes,   *)
(* and only a summary is confirmed.                                        *)
THEOREM SummaryTrue == DeskSpec => []SummaryOfNotes
  <1>1. DeskInv => SummaryOfNotes
    BY DEF DeskInv
  <1> QED BY <1>1, DeskInvariance, PTL

(* What a handler answered 200 is what is stored.                          *)
THEOREM AnswersKept == DeskSpec => []AnsweredIsKept
  <1>1. DeskInv => AnsweredIsKept
    BY DEF DeskInv, CallsOK, CallOK, LogOK, AnsweredIsKept
  <1> QED BY <1>1, DeskInvariance, PTL
=============================================================================
