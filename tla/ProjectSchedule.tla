--------------------------- MODULE ProjectSchedule ---------------------------
(***************************************************************************)
(* The schedule of one project in the Worker (apps/cloudflare): who is its *)
(* responsible PM, the dates of its stages, the changes others ask for and *)
(* the PM decides, and hiding the project from the schedule.               *)
(*                                                                         *)
(* A handler checks who asks and what is there, awaits, and writes with    *)
(* one D1 batch.  A trigger's ABORT or a broken UNIQUE key undoes the      *)
(* batch; an upsert or UPDATE whose WHERE version = ? finds another        *)
(* version writes nothing, and the rest of its batch commits.              *)
(*                                                                         *)
(* A handler that is lost before its batch is one that takes no step.      *)
(***************************************************************************)
EXTENDS Integers, FiniteSets

CONSTANTS
    Users, NoUser,      \* accounts of the organization
    Admins,             \* role admin
    Managers,           \* roles admin, ceo, director or pm
    Candidates,         \* the five named responsible PMs
    FirstMembers,       \* accounts assigned to the case at the start
    Leaving,            \* accounts an administrator may deactivate in the model
    Stages,             \* PROJECT_STAGE_CODES
    Dates, NoDates,     \* a start and an end date
    Changes, NoChange,  \* change requests, each with its own Idempotency-Key
    Requests,           \* handlers that may run at the same time
    Scopes,             \* the sets of handlers to look at together
    MaxProfile,         \* bound: versions of the profile
    MaxVersion,         \* bound: versions of a stage
    MaxHides            \* bound: versions of the visibility row

ASSUME ScheduleAssumption ==
    /\ NoUser \notin Users /\ NoDates \notin Dates /\ NoChange \notin Changes
    /\ Admins \subseteq Managers /\ Managers \subseteq Users
    /\ Candidates \cup FirstMembers \cup Leaving \subseteq Users
    /\ Scopes \subseteq SUBSET {"profile", "save", "change", "APPROVED", "REJECTED", "hide"}
    /\ MaxProfile \in Nat /\ MaxVersion \in Nat /\ MaxHides \in Nat

VARIABLES
    active, assigned,   \* preview_users.is_active; preview_case_assignments
    profile,            \* preview_project_schedule_profiles: PM and version
    stages,             \* preview_project_stage_schedules: stage -> row
    changes,            \* preview_schedule_change_requests: id -> row
    notices,            \* preview_project_notifications: <<user, change, type>>
    visibility, hides,  \* preview_project_schedule_visibility and ..._events
    request,            \* the handlers in flight
    scope               \* the handlers people call

people == <<active, assigned>>
agreed == <<stages, changes, notices>>
hiding == <<visibility, hides>>
vars == <<people, profile, agreed, hiding, request, scope>>
-----------------------------------------------------------------------------
(* Version 0 stands for no row.                                            *)
Profile == [pm : Users \cup {NoUser}, version : 0..MaxProfile]
Stage == [dates : Dates \cup {NoDates}, version : 0..MaxVersion, by : Users \cup {NoUser}]
Decision == {"APPROVED", "REJECTED"}
Change == [stage : Stages, dates : Dates, expected : 0..MaxVersion, by : Users,
           status : Decision \cup {"PENDING"}, reviewer : Users \cup {NoUser}]
Reason == {"CANCELLED", "DELIVERED_ARCHIVED"}
Notice == Users \X Changes \X (Decision \cup {"REQUESTED"})
Hide == [reason : Reason, by : Users]
NoHide == [reason |-> "none", by |-> NoUser]
NotHidden == [version |-> 0, hide |-> NoHide]

Kind == {"none", "profile", "save", "change", "hide"} \cup Decision
Request == [kind : Kind, user : Users \cup {NoUser},
            pm : Users \cup {NoUser},            \* the candidate, or the PM to notify
            version : 0..(MaxProfile + MaxHides), \* expected, of profile or visibility
            items : SUBSET Stages, dates : Dates \cup {NoDates},
            expected : [Stages -> 0..MaxVersion], \* what the client had seen
            read : [Stages -> 0..MaxVersion],     \* what the handler found
            change : Changes \cup {NoChange},
            reason : Reason \cup {"none"}]

NoVersions == [s \in Stages |-> 0]
Idle == [kind |-> "none", user |-> NoUser, pm |-> NoUser, version |-> 0, items |-> {},
         dates |-> NoDates, expected |-> NoVersions, read |-> NoVersions,
         change |-> NoChange, reason |-> "none"]

HasAccess(u) == u \in active /\ (u \in Admins \/ u \in assigned)

(* A handler is called by an account with access to the case.              *)
Begin(r, kind, u, q) ==
    /\ kind \in scope /\ HasAccess(u)
    /\ request' = [request EXCEPT ![r] = [q EXCEPT !.kind = kind, !.user = u]]
Done(r) == request' = [request EXCEPT ![r] = Idle]
-----------------------------------------------------------------------------
CanManage(u) == u \in Admins \/ profile.pm = u

(* Who the triggers let write stages, decisions and visibility, at the     *)
(* moment of the batch.  Mutant: they trust the check made before.         *)
InChargeTrusting(u) == TRUE
InCharge(u) == u \in active /\ CanManage(u)
-----------------------------------------------------------------------------
(* PUT .../profile: a manager, who must be in charge once there is a PM,   *)
(* names a candidate.                                                      *)
ReceiveProfile(r, u, pm) ==
    /\ u \in Managers
    /\ profile.version > 0 => CanManage(u)
    /\ profile.version < MaxProfile
    /\ pm \in Candidates \cap active
    /\ Begin(r, "profile", u, [Idle EXCEPT !.pm = pm, !.version = profile.version])
    /\ UNCHANGED <<people, profile, agreed, hiding, scope>>

(* ON CONFLICT DO UPDATE ... WHERE version = ?.                            *)
(* Mutant: the last writer wins.                                           *)
ProfileAfterAny(q) == [pm |-> q.pm, version |-> profile.version + 1]
ProfileAfter(q) ==
    IF profile.version = q.version
      THEN [pm |-> q.pm, version |-> profile.version + 1] ELSE profile

(* The batch: the candidate joins the case, also when the profile has      *)
(* moved on.                                                               *)
CommitProfile(r) ==
    LET q == request[r] IN
    /\ q.kind = "profile"
    /\ Done(r)
    /\ IF q.user \in active /\ q.pm \in active
         THEN /\ assigned' = assigned \cup {q.pm}
              /\ profile' = ProfileAfter(q)
         ELSE UNCHANGED <<assigned, profile>>
    /\ UNCHANGED <<active, agreed, hiding, scope>>
-----------------------------------------------------------------------------
(* PUT .../stages and .../stages/<code>.  The client sends the versions it *)
(* has seen; the handler takes the one it finds when the sender wrote it.  *)
ReceiveSave(r, u, items, dates, expected) ==
    /\ profile.version > 0 /\ CanManage(u)
    /\ items # {}
    /\ \A s \in Stages :
          IF s \in items
            THEN /\ stages[s].version < MaxVersion
                 /\ expected[s] <= stages[s].version
                 /\ expected[s] # stages[s].version => stages[s].by = u
            ELSE expected[s] = 0
    /\ Begin(r, "save", u,
             [Idle EXCEPT !.items = items, !.dates = dates, !.expected = expected,
                          !.read = [s \in Stages |->
                                      IF s \in items THEN stages[s].version ELSE 0]])
    /\ UNCHANGED <<people, profile, agreed, hiding, scope>>

Rewritten(s, dates, u) == [dates |-> dates, version |-> stages[s].version + 1, by |-> u]

(* The stage's upsert finds the version the handler has read.              *)
(* Mutant: the version is not compared.                                    *)
StageHitAny(s, version) == stages[s].version < MaxVersion
StageHit(s, version) == stages[s].version = version

(* The batch: one upsert per item, each on its own.  409 if one missed.    *)
CommitSave(r) ==
    LET q == request[r] IN
    /\ q.kind = "save"
    /\ Done(r)
    /\ stages' = IF InCharge(q.user)
         THEN [s \in Stages |-> IF s \in q.items /\ StageHit(s, q.read[s])
                                  THEN Rewritten(s, q.dates, q.user) ELSE stages[s]]
         ELSE stages
    /\ UNCHANGED <<people, profile, changes, notices, hiding, scope>>
-----------------------------------------------------------------------------
(* POST .../change-requests: whoever has access to the case asks for other *)
(* dates.  A key already stored is answered from its row.                  *)
ReceiveChange(r, u, c, s, dates, version) ==
    /\ profile.version > 0
    /\ c \notin DOMAIN changes
    /\ version <= stages[s].version /\ version < MaxVersion
    /\ Begin(r, "change", u,
             [Idle EXCEPT !.pm = profile.pm, !.change = c, !.items = {s}, !.dates = dates,
                          !.expected = [NoVersions EXCEPT ![s] = version]])
    /\ UNCHANGED <<people, profile, agreed, hiding, scope>>

(* preview_schedule_request_insert_guard, UNIQUE (case_id, request_key).   *)
ChangeGuard(q, s) ==
    /\ q.user \in active \cap assigned
    /\ stages[s].version = q.expected[s]
    /\ q.change \notin DOMAIN changes

(* preview_project_notification_insert_guard and its UNIQUE key, for a     *)
(* notice that goes with the rows of the batch.                            *)
(* Mutant: the change's status is not compared.                            *)
NoticeGuardAnyStatus(u, c, type, rows) ==
    u \in active /\ <<u, c, type>> \notin notices
NoticeGuard(u, c, type, rows) ==
    /\ u \in active
    /\ rows[c].status = IF type = "REQUESTED" THEN "PENDING" ELSE type
    /\ <<u, c, type>> \notin notices

CommitChange(r, s) ==
    LET q == request[r]
        row == [stage |-> s, dates |-> q.dates, expected |-> q.expected[s], by |-> q.user,
                status |-> "PENDING", reviewer |-> NoUser]
        rows == [c \in DOMAIN changes \cup {q.change} |->
                   IF c = q.change THEN row ELSE changes[c]]
    IN  /\ q.kind = "change" /\ q.items = {s}
        /\ Done(r)
        /\ IF ChangeGuard(q, s) /\ NoticeGuard(q.pm, q.change, "REQUESTED", rows)
             THEN /\ changes' = rows
                  /\ notices' = notices \cup {<<q.pm, q.change, "REQUESTED">>}
             ELSE UNCHANGED <<changes, notices>>
        /\ UNCHANGED <<people, profile, stages, hiding, scope>>
-----------------------------------------------------------------------------
(* POST .../change-requests/<id>/decision.                                 *)
ReceiveDecision(r, u, c, decision) ==
    /\ CanManage(u)
    /\ c \in DOMAIN changes /\ changes[c].status = "PENDING"
    /\ stages[changes[c].stage].version = changes[c].expected
    /\ Begin(r, decision, u, [Idle EXCEPT !.change = c])
    /\ UNCHANGED <<people, profile, agreed, hiding, scope>>

(* preview_schedule_request_update_guard: an approval is only for a stage  *)
(* that the batch has just given the proposed dates.                       *)
(* Mutant: the stage is not looked at.                                     *)
DecisionGuardAnyStage(u, c, decision, rows) == InCharge(u)
DecisionGuard(u, c, decision, rows) ==
    /\ InCharge(u)
    /\ decision = "APPROVED" =>
          rows[changes[c].stage] = [dates |-> changes[c].dates,
                                    version |-> changes[c].expected + 1, by |-> u]

(* The batch, all or nothing by its triggers: the stage of an approved     *)
(* change, the change if it is still PENDING, the notice to its requester. *)
(* refused: the stage's row carries the same time stamp or a later one.    *)
CommitDecision(r, refused) ==
    LET q == request[r]
        c == q.change
        row == changes[c]
        hit == q.kind = "APPROVED" /\ StageHit(row.stage, row.expected)
        stagesAfter == IF hit
            THEN [stages EXCEPT ![row.stage] = Rewritten(row.stage, row.dates, q.user)]
            ELSE stages
        pending == row.status = "PENDING"
        changesAfter == IF pending
            THEN [changes EXCEPT ![c].status = q.kind, ![c].reviewer = q.user]
            ELSE changes
        accepted ==
            /\ q.kind = "APPROVED" => InCharge(q.user)
            /\ pending => DecisionGuard(q.user, c, q.kind, stagesAfter)
            /\ NoticeGuard(row.by, c, q.kind, changesAfter)
            /\ ~(hit /\ refused)
    IN  /\ q.kind \in Decision
        /\ Done(r)
        /\ IF accepted
             THEN /\ stages' = stagesAfter /\ changes' = changesAfter
                  /\ notices' = notices \cup {<<row.by, c, q.kind>>}
             ELSE UNCHANGED <<agreed>>
        /\ UNCHANGED <<people, profile, hiding, scope>>
-----------------------------------------------------------------------------
(* POST .../schedule-visibility: a delivered project for which             *)
(* projectArchiveReadiness finds everything in Drive, or a cancelled one:  *)
(* that is for other tables to say, and either may be.                     *)
ReceiveHide(r, u, reason) ==
    /\ CanManage(u)
    /\ visibility.version < MaxHides
    /\ Begin(r, "hide", u, [Idle EXCEPT !.reason = reason, !.version = visibility.version])
    /\ UNCHANGED <<people, profile, agreed, hiding, scope>>

(* INSERT, or UPDATE ... WHERE version = ?.                                *)
HideHit(q) == visibility.version = q.version

(* The batch: the row, if it is at the handler's version, and the event in *)
(* any case.  Two first hides break the row's PRIMARY KEY.                 *)
CommitHide(r) ==
    LET q == request[r]
        hide == [reason |-> q.reason, by |-> q.user]
        accepted == IF HideHit(q) THEN InCharge(q.user) ELSE q.version > 0
    IN  /\ q.kind = "hide"
        /\ Done(r)
        /\ hides' = IF accepted THEN hides \cup {<<q.version, hide>>} ELSE hides
        /\ visibility' = IF accepted /\ HideHit(q)
              THEN [version |-> visibility.version + 1, hide |-> hide] ELSE visibility
        /\ UNCHANGED <<people, profile, agreed, scope>>

(* PATCH /api/admin/users: an administrator closes or reopens an account.  *)
SetActive(u) ==
    /\ u \in Leaving
    /\ active' = IF u \in active THEN active \ {u} ELSE active \cup {u}
    /\ UNCHANGED <<assigned, profile, agreed, hiding, request, scope>>
-----------------------------------------------------------------------------
Init ==
    /\ active = Users /\ assigned = FirstMembers
    /\ profile = [pm |-> NoUser, version |-> 0]
    /\ stages = [s \in Stages |-> [dates |-> NoDates, version |-> 0, by |-> NoUser]]
    /\ changes = [c \in {} |-> NoChange]
    /\ notices = {}
    /\ visibility = NotHidden /\ hides = {}
    /\ request = [r \in Requests |-> Idle]
    /\ scope \in Scopes

Receive(r, u) ==
    /\ request[r] = Idle
    /\ \/ \E pm \in Users : ReceiveProfile(r, u, pm)
       \/ \E items \in SUBSET Stages, dates \in Dates, expected \in [Stages -> 0..MaxVersion] :
             ReceiveSave(r, u, items, dates, expected)
       \/ \E c \in Changes, s \in Stages, dates \in Dates, version \in 0..MaxVersion :
             ReceiveChange(r, u, c, s, dates, version)
       \/ \E c \in Changes, decision \in Decision : ReceiveDecision(r, u, c, decision)
       \/ \E reason \in Reason : ReceiveHide(r, u, reason)

Commit(r) ==
    \/ CommitProfile(r)
    \/ CommitSave(r)
    \/ \E s \in Stages : CommitChange(r, s)
    \/ \E refused \in BOOLEAN : CommitDecision(r, refused)
    \/ CommitHide(r)

Next ==
    \/ \E r \in Requests : (\E u \in Users : Receive(r, u)) \/ Commit(r)
    \/ \E u \in Users : SetActive(u)

Spec == Init /\ [][Next]_vars
-----------------------------------------------------------------------------
(* Type correctness of the tables and of the requests in flight; the loser *)
(* of two concurrent profile updates does not raise the version.           *)
TypeOK ==
    /\ active \subseteq Users /\ assigned \subseteq Users
    /\ profile \in Profile
    /\ stages \in [Stages -> Stage]
    /\ DOMAIN changes \subseteq Changes
    /\ \A c \in DOMAIN changes : changes[c] \in Change
    /\ notices \subseteq Notice
    /\ visibility \in [version : 0..MaxHides, hide : Hide \cup {NoHide}]
    /\ hides \subseteq (0..MaxHides) \X Hide
    /\ request \in [Requests -> Request]
    /\ scope \in Scopes

(* The version of a stage the request was made for.                        *)
MadeFor(q, s) ==
    IF q.kind \in Decision THEN changes[q.change].expected ELSE q.expected[s]

(* Two people at the schedule: a write never replaces what another user    *)
(* has written since the writer, or for a change its requester, looked.    *)
(* Only one's own later version may be overwritten unseen.                 *)
NothingOverwritten ==
    [][\A s \in Stages : stages'[s] # stages[s] =>
          \E r \in Requests :
              /\ request'[r] # request[r]
              /\ \/ stages[s].version = MadeFor(request[r], s)
                 \/ stages[s].by = request[r].user]_vars

(* The PM hands over, or loses the account, while a handler of theirs is   *)
(* on its way: stages, decisions and visibility are still only written by  *)
(* who is in charge at that moment, and a PM is only replaced by the PM or *)
(* an administrator.                                                       *)
WrittenInCharge ==
    [][LET InChargeNow(u) == u \in active /\ (u \in Admins \/ profile.pm = u) IN
       /\ \A s \in Stages : stages'[s] # stages[s] => InChargeNow(stages'[s].by)
       /\ \A c \in DOMAIN changes :
             changes'[c] # changes[c] => InChargeNow(changes'[c].reviewer)
       /\ visibility' # visibility => InChargeNow(visibility'.hide.by)
       /\ profile' # profile /\ profile.version > 0 =>
             \E r \in Requests : /\ request'[r] # request[r]
                                 /\ InChargeNow(request[r].user)]_vars

(* A change approved while the PM edits the stage by hand: the moment it   *)
(* is APPROVED the stage has the dates asked for, at the version after the *)
(* one they were asked for.                                                *)
ApprovedIsScheduled ==
    [][\A c \in DOMAIN changes :
          changes[c].status = "PENDING" /\ changes'[c].status = "APPROVED" =>
              stages'[changes[c].stage] =
                  [dates |-> changes[c].dates, version |-> changes[c].expected + 1,
                   by |-> changes'[c].reviewer]]_vars

(* Two decisions at once: a change is decided once, its requester is told  *)
(* of that decision and of no other, and one PM was told of the request.   *)
ToldAsDecided ==
    \A c \in Changes :
        LET told(types) == {n \in notices : n[2] = c /\ n[3] \in types} IN
        IF c \notin DOMAIN changes THEN told(Decision \cup {"REQUESTED"}) = {}
        ELSE /\ Cardinality(told({"REQUESTED"})) = 1
             /\ told(Decision) = IF changes[c].status = "PENDING" THEN {}
                                 ELSE {<<changes[c].by, c, changes[c].status>>}

(* Every version of the visibility row has an event that says who hid the  *)
(* project and why, the row's own among them.  (The log may hold more: an  *)
(* event is written for an UPDATE that missed.)                            *)
HidesAreLogged ==
    /\ \A n \in 0..(visibility.version - 1) : \E e \in hides : e[1] = n
    /\ visibility.version > 0 => <<visibility.version - 1, visibility.hide>> \in hides

(* What people were told and what the log says is what was done, although  *)
(* the statements of a batch that write it look at rows other batches move.*)
TracesAreTrue == ToldAsDecided /\ HidesAreLogged
=============================================================================
