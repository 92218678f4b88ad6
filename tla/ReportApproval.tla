--------------------------- MODULE ReportApproval ---------------------------
(***************************************************************************)
(* Review, approval, delivery notice, finalization and final files of one  *)
(* case's report in the Worker (apps/cloudflare).  The report is its       *)
(* version number: its revisions are the business of ReportStudio.         *)
(*                                                                         *)
(* As in ReportStudio a request awaits between its checks, its reads and   *)
(* its D1 batch, and the batch is one transaction that an ABORT of a       *)
(* trigger or a broken UNIQUE key rolls back.  A handler that ended with   *)
(* nothing written and an answer nobody asks about is back to Idle.        *)
(*                                                                         *)
(* A request key stands for the Idempotency-Key header, and the version it *)
(* was sent with for the request fingerprint: a key sent with another      *)
(* version is a mismatch.                                                  *)
(***************************************************************************)
EXTENDS Integers, FiniteSets

CONSTANTS
    Users, NoUser,      \* accounts of the organization
    Admins, Executives, \* roles admin; ceo or director
    Reviewers, Pms,     \* roles reviewer; pm
    Staff,              \* role staff
    FirstMembers,       \* accounts assigned to the case at the start
    Joining,            \* accounts that may be assigned later
    Suspendable,        \* accounts an administrator (de)activates in the model
    BlankVersions,      \* versions saved with no text
    Formats,            \* "DOCX" and "PDF"
    Keys, NoKey,        \* Idempotency-Key values of review requests and finalizations
    Requests,           \* handlers that may run at the same time
    MaxVersion          \* bound: report versions

ASSUME ApprovalAssumption ==
    /\ NoUser \notin Users /\ NoKey \notin Keys
    /\ Admins \cup Executives \cup Reviewers \cup Pms \cup Staff \subseteq Users
    /\ FirstMembers \cup Joining \cup Suspendable \subseteq Users
    /\ MaxVersion \in Nat
    /\ Formats \subseteq {"DOCX", "PDF"}

VARIABLES
    draft,              \* version of preview_report_drafts, 0 for none
    reviews,            \* preview_report_reviews: version -> row
    events,             \* preview_report_review_events
    delivery,           \* preview_notifications with their preview_email_outbox row
    mailed,             \* notifications whose email the provider accepted
    finalizations,      \* preview_report_finalizations: version -> row
    outputs,            \* preview_report_outputs: <<version, format>> -> its creator
    generated,          \* OUTPUT_GENERATED rows of preview_report_output_events
    members, active,    \* preview_case_assignments; preview_users.is_active
    request             \* the handlers in flight, or their last answer

ledger == <<reviews, events, delivery>>
files == <<outputs, generated>>
people == <<members, active>>
vars == <<draft, reviews, events, delivery, mailed, finalizations, files,
          members, active, request>>
-----------------------------------------------------------------------------
Versions == 1..MaxVersion
Status == {"PENDING", "APPROVED", "CHANGES_REQUESTED"}
Review == [status : Status, requestedBy : Users, reviewedBy : Users \cup {NoUser},
           key : Keys]
Finalization == [by : Users, key : Keys]

(* One event row: a review's version, what happened and who did it.        *)
Event == Versions \X {"REVIEW_REQUESTED", "APPROVED", "CHANGES_REQUESTED"} \X Users
(* A notification is UNIQUE (user, review, type), and the one type there   *)
(* is carries exactly one outbox row, inserted in the same batch.          *)
Notice == Users \X Versions
OutboxStatus == {"PENDING", "SENT", "CONFIG_REQUIRED", "FAILED"}

RequestKind == {"none", "submit", "APPROVED", "CHANGES_REQUESTED", "finalize", "output"}
Request == [kind : RequestKind,
            phase : {"idle", "pick", "read", "dispatch", "posted", "answered"},
            user : Users \cup {NoUser}, version : 0..MaxVersion,
            key : Keys \cup {NoKey}, format : Formats \cup {"none"},
            recipient : Users \cup {NoUser},   \* pmRecipient, as read
            outcome : OutboxStatus,            \* what the mail bridge answered
            answer : {"none", "ok", "exists"}]

Idle == [kind |-> "none", phase |-> "idle", user |-> NoUser, version |-> 0,
         key |-> NoKey, format |-> "none", recipient |-> NoUser, outcome |-> "PENDING", answer |-> "none"]

Free(r) == request[r].phase \in {"idle", "answered"}
At(r, kinds, phase) == request[r].kind \in kinds /\ request[r].phase = phase

Begin(r, kind, phase, u, v, key) ==
    request' = [request EXCEPT ![r] = [Idle EXCEPT !.kind = kind, !.phase = phase,
                                       !.user = u, !.version = v, !.key = key]]
Done(r) == request' = [request EXCEPT ![r] = Idle]
AnswerTo(r, kind, v, key, answer) ==
    request' = [request EXCEPT ![r] = [Idle EXCEPT !.kind = kind, !.phase = "answered",
                                       !.version = v, !.key = key, !.answer = answer]]

(* A table keyed by version, with one more row.                            *)
(* Mutant: the row is stored under the version after it.                   *)
WithRowNext(table, v, row) ==
    [w \in DOMAIN table \cup {v + 1} |-> IF w = v + 1 THEN row ELSE table[w]]
WithRow(table, v, row) ==
    [w \in DOMAIN table \cup {v} |-> IF w = v THEN row ELSE table[w]]

(* The version whose row holds the key: UNIQUE (organization, request_key). *)
KeyUsed(table, key) == \E v \in DOMAIN table : table[v].key = key
(* The row found by key carries the fingerprint of this request.           *)
(* Mutant: the fingerprint is not compared.                                *)
SameRequestByKey(table, key, v) == KeyUsed(table, key)
SameRequest(table, key, v) == v \in DOMAIN table /\ table[v].key = key
-----------------------------------------------------------------------------
HasAccess(u) == u \in active /\ (u \in Admins \/ u \in members)

Editors == Admins \cup Executives \cup Pms \cup Staff
Deciders == Admins \cup Executives \cup Reviewers
Finalizers == Admins \cup Executives \cup Pms

(* preview_report_review_decision_guard and ..._executive_approval_guard   *)
(* let the UPDATE through.  Mutant: approval does not look at the draft.   *)
DecisionGuardAnyVersion(u, v, status) ==
    /\ HasAccess(u) /\ u \in Deciders
    /\ u # reviews[v].requestedBy
    /\ status = "APPROVED" => u \in Executives
(* Mutant: the trigger trusts the handler's check of the reviewer.         *)
DecisionGuardTrusting(u, v, status) ==
    /\ u # reviews[v].requestedBy
    /\ status = "APPROVED" => u \in Executives /\ draft = v
DecisionGuard(u, v, status) ==
    /\ HasAccess(u) /\ u \in Deciders
    /\ u # reviews[v].requestedBy
    /\ status = "APPROVED" => u \in Executives /\ draft = v

(* preview_notification_insert_guard, and the outbox guard's active        *)
(* recipient.                                                              *)
NoticeGuard(u, v) == u \in active /\ (u \in Pms \/ u = reviews[v].requestedBy)

(* preview_report_finalization_insert_guard.                               *)
FinalizationGuard(u, v) ==
    /\ reviews[v].status = "APPROVED" /\ draft = v
    /\ HasAccess(u) /\ u \in Finalizers

(* The row the handler may notify: an active member or the requester; with *)
(* the pm role before the requester.                                       *)
Recipients(v) ==
    LET requester == reviews[v].requestedBy
        candidates == {u \in active : /\ u \in members \/ u = requester
                                      /\ u \in Pms \/ u = requester}
    IN  IF candidates \cap Pms # {} THEN candidates \cap Pms ELSE candidates
-----------------------------------------------------------------------------
(* POST /api/report-reviews.  A key already stored is answered without     *)
(* looking at the report again; a new one must name the current version.   *)
ReceiveSubmit(r, u, key, v) ==
    /\ Free(r)
    /\ HasAccess(u) /\ u \in Editors
    /\ IF KeyUsed(reviews, key)
          THEN /\ SameRequest(reviews, key, v)
               /\ AnswerTo(r, "submit", v, key, "ok")
          ELSE /\ v = draft /\ v \notin BlankVersions
               /\ Begin(r, "submit", "read", u, v, key)
    /\ UNCHANGED <<draft, ledger, mailed, finalizations, files, people>>

(* The batch, and the catch that looks the key up again.  The trigger asks *)
(* for the revision and the requester, the keys for one review of the      *)
(* version, one of the key, and one pending review of the case.            *)
CommitSubmit(r) ==
    LET q == request[r]
        accepted == /\ HasAccess(q.user) /\ q.user \in Editors
                    /\ ~KeyUsed(reviews, q.key)
                    /\ q.version \notin DOMAIN reviews
                    /\ \A v \in DOMAIN reviews : reviews[v].status # "PENDING"
        row == [status |-> "PENDING", requestedBy |-> q.user, reviewedBy |-> NoUser,
                key |-> q.key]
    IN  /\ At(r, {"submit"}, "read")
        /\ IF accepted
              THEN /\ reviews' = WithRow(reviews, q.version, row)
                   /\ events' = events \cup {<<q.version, "REVIEW_REQUESTED", q.user>>}
              ELSE UNCHANGED <<reviews, events>>
        /\ AnswerTo(r, "submit", q.version, q.key,
                    IF accepted \/ SameRequest(reviews, q.key, q.version)
                      THEN "ok" ELSE "exists")
        /\ UNCHANGED <<draft, delivery, mailed, finalizations, files, people>>
-----------------------------------------------------------------------------
(* POST /api/report-reviews/<id>/decision: the checks of the reviewer, the *)
(* review and, for an approval, of the current version.                    *)
ReceiveDecision(r, u, status, v) ==
    /\ Free(r)
    /\ HasAccess(u)
    /\ u \in IF status = "APPROVED" THEN Executives ELSE Deciders
    /\ v \in DOMAIN reviews
    /\ reviews[v].requestedBy # u /\ reviews[v].status = "PENDING"
    /\ status = "APPROVED" => draft = v
    /\ Begin(r, status, IF status = "APPROVED" THEN "pick" ELSE "read", u, v, NoKey)
    /\ UNCHANGED <<draft, ledger, mailed, finalizations, files, people>>

(* An approval goes on to look up whom to notify.                          *)
PickRecipient(r) ==
    LET recipients == Recipients(request[r].version) IN
    /\ At(r, {"APPROVED"}, "pick")
    /\ \/ recipients = {} /\ Done(r)
       \/ \E u \in recipients :
             request' = [request EXCEPT ![r].phase = "read", ![r].recipient = u]
    /\ UNCHANGED <<draft, ledger, mailed, finalizations, files, people>>

(* After its batch only the request whose UPDATE hit the row goes on to    *)
(* the mail.  Mutant: it is not asked.                                     *)
AfterDecisionAlways(r, hit) ==
    IF request[r].kind = "APPROVED"
      THEN request' = [request EXCEPT ![r].phase = "dispatch"] ELSE Done(r)
AfterDecision(r, hit) ==
    IF hit /\ request[r].kind = "APPROVED"
      THEN request' = [request EXCEPT ![r].phase = "dispatch"] ELSE Done(r)

(* Which review the notice and its email are inserted for: one that is     *)
(* APPROVED after the UPDATE, whoever approved it.                         *)
(* Mutant: the notice waits for a review that was APPROVED before.         *)
NoticeDueLate(hit, v) == ~hit /\ reviews[v].status = "APPROVED"
NoticeDue(hit, v) == hit \/ reviews[v].status = "APPROVED"

(* The batch: the UPDATE WHERE the review is PENDING, its event WHERE the  *)
(* review now shows this decision of this reviewer, and for an approval    *)
(* the notice with its email.  Without a row to update the rest still      *)
(* runs.                                                                   *)
CommitDecision(r) ==
    LET q == request[r]
        v == q.version
        old == reviews[v]
        hit == old.status = "PENDING"
        mine == hit \/ (old.status = q.kind /\ old.reviewedBy = q.user)
        notifies == q.kind = "APPROVED" /\ NoticeDue(hit, v)
        aborts == \/ hit /\ ~DecisionGuard(q.user, v, q.kind)
                  \/ mine /\ \E u \in Users : <<v, q.kind, u>> \in events
                  \/ notifies /\ \/ ~NoticeGuard(q.recipient, v)
                                 \/ <<q.recipient, v>> \in DOMAIN delivery
    IN  /\ At(r, {"APPROVED", "CHANGES_REQUESTED"}, "read")
        /\ IF aborts
              THEN Done(r) /\ UNCHANGED ledger
              ELSE /\ reviews' = IF hit THEN [reviews EXCEPT ![v].status = q.kind,
                                                             ![v].reviewedBy = q.user]
                                        ELSE reviews
                   /\ events' = IF mine THEN events \cup {<<v, q.kind, q.user>>} ELSE events
                   /\ delivery' = IF notifies
                                    THEN WithRow(delivery, <<q.recipient, v>>, "PENDING")
                                    ELSE delivery
                   /\ AfterDecision(r, hit)
        /\ UNCHANGED <<draft, mailed, finalizations, files, people>>

(* dispatchPreviewEmailOutbox: without a configured bridge nothing is      *)
(* sent.  Otherwise the bridge accepts and says so, or it refuses, or its  *)
(* answer is lost after it accepted: fetch throws and counts as 503.       *)
Post(r, outcome, accepted) ==
    LET q == request[r] IN
    /\ At(r, {"APPROVED"}, "dispatch")
    /\ outcome \in {"SENT", "CONFIG_REQUIRED", "FAILED"}
    /\ outcome = "SENT" => accepted
    /\ outcome = "CONFIG_REQUIRED" => ~accepted
    /\ IF <<q.recipient, q.version>> \in DOMAIN delivery
          THEN /\ mailed' = IF accepted THEN mailed \cup {<<q.recipient, q.version>>}
                                        ELSE mailed
               /\ request' = [request EXCEPT ![r].phase = "posted", ![r].outcome = outcome]
          ELSE Done(r) /\ UNCHANGED mailed
    /\ UNCHANGED <<draft, ledger, finalizations, files, people>>

(* The outcome is written WHERE the row is still PENDING.  Nothing ever    *)
(* dispatches a row again: attempt_count is 1 from here on.                *)
Record(r) ==
    LET q == request[r]
        row == <<q.recipient, q.version>>
    IN  /\ At(r, {"APPROVED"}, "posted")
        /\ Done(r)
        /\ delivery' = IF delivery[row] = "PENDING"
                         THEN [delivery EXCEPT ![row] = q.outcome] ELSE delivery
        /\ UNCHANGED <<draft, reviews, events, mailed, finalizations, files, people>>
-----------------------------------------------------------------------------
(* POST /api/report-finalizations: a key already stored is answered from   *)
(* the row; a new one must name an approved review of the current version. *)
ReceiveFinalize(r, u, key, v) ==
    /\ Free(r)
    /\ HasAccess(u) /\ u \in Finalizers
    /\ IF KeyUsed(finalizations, key)
          THEN /\ SameRequest(finalizations, key, v)
               /\ AnswerTo(r, "finalize", v, key, "ok")
          ELSE /\ v \in DOMAIN reviews /\ reviews[v].status = "APPROVED" /\ v = draft
               /\ Begin(r, "finalize", "read", u, v, key)
    /\ UNCHANGED <<draft, ledger, mailed, finalizations, files, people>>

(* The batch, and the catch that accepts a row of the same request.        *)
CommitFinalize(r) ==
    LET q == request[r]
        accepted == /\ FinalizationGuard(q.user, q.version)
                    /\ q.version \notin DOMAIN finalizations
                    /\ ~KeyUsed(finalizations, q.key)
    IN  /\ At(r, {"finalize"}, "read")
        /\ finalizations' = IF accepted
                              THEN WithRow(finalizations, q.version,
                                           [by |-> q.user, key |-> q.key])
                              ELSE finalizations
        /\ IF accepted \/ SameRequest(finalizations, q.key, q.version)
              THEN AnswerTo(r, "finalize", q.version, q.key, "ok")
              ELSE Done(r)
        /\ UNCHANGED <<draft, ledger, mailed, files, people>>

(* POST /api/report-finalizations/<id>/outputs: the bytes are made from    *)
(* the immutable revision; a format the SELECT finds is only verified.     *)
ReceiveOutput(r, u, v, format) ==
    /\ Free(r)
    /\ HasAccess(u) /\ u \in Finalizers
    /\ v \in DOMAIN finalizations
    /\ <<v, format>> \notin DOMAIN outputs
    /\ request' = [request EXCEPT ![r] = [Idle EXCEPT !.kind = "output", !.phase = "read",
                                         !.user = u, !.version = v, !.format = format]]
    /\ UNCHANGED <<draft, ledger, mailed, finalizations, files, people>>

(* The batch: UNIQUE (finalization_id, format), and the insert trigger,    *)
(* which migration 0009 replaced: it asks for the access and the role of   *)
(* the moment again.                                                       *)
OutputGuard(u) == HasAccess(u) /\ u \in Finalizers
OutputMissing(v, format) == <<v, format>> \notin DOMAIN outputs
CommitOutput(r) ==
    LET q == request[r]
        n == <<q.version, q.format>>
    IN  /\ At(r, {"output"}, "read")
        /\ IF OutputGuard(q.user) /\ OutputMissing(q.version, q.format)
              THEN /\ outputs' = WithRow(outputs, n, q.user)
                   /\ generated' = generated \cup {<<q.version, q.format, q.user>>}
              ELSE UNCHANGED files
        /\ Done(r)
        /\ UNCHANGED <<draft, ledger, mailed, finalizations, people>>
-----------------------------------------------------------------------------
(* The report moves on: every save or apply of ReportStudio is one version *)
(* more (VersionedDocument!Save, seen from here).                          *)
SaveDraft ==
    /\ draft < MaxVersion
    /\ draft' = draft + 1
    /\ UNCHANGED <<ledger, mailed, finalizations, files, people, request>>

(* Accounts are assigned to the case, deactivated and activated again; no  *)
(* handler takes an assignment back.                                       *)
Join(u) ==
    /\ u \in Joining \ members
    /\ members' = members \cup {u}
    /\ UNCHANGED <<draft, ledger, mailed, finalizations, files, active, request>>

Suspend(u) ==
    /\ u \in Suspendable
    /\ active' = IF u \in active THEN active \ {u} ELSE active \cup {u}
    /\ UNCHANGED <<draft, ledger, mailed, finalizations, files, members, request>>

(* The isolate is evicted in the middle of a request, or its client goes   *)
(* away: what was committed stays, the rest never runs.                    *)
Lose(r) ==
    /\ ~Free(r)
    /\ Done(r)
    /\ UNCHANGED <<draft, ledger, mailed, finalizations, files, people>>
-----------------------------------------------------------------------------
Init ==
    /\ draft = 0
    /\ reviews = [v \in {} |-> Idle]
    /\ events = {}
    /\ delivery = [n \in {} |-> "PENDING"]
    /\ mailed = {}
    /\ finalizations = [v \in {} |-> Idle]
    /\ outputs = [n \in {} |-> NoUser] /\ generated = {}
    /\ members = FirstMembers
    /\ active = Users
    /\ request = [r \in Requests |-> Idle]

Receive(r, u, v) ==
    \/ \E key \in Keys : ReceiveSubmit(r, u, key, v) \/ ReceiveFinalize(r, u, key, v)
    \/ \E status \in {"APPROVED", "CHANGES_REQUESTED"} : ReceiveDecision(r, u, status, v)
    \/ \E format \in Formats : ReceiveOutput(r, u, v, format)

Progress(r) ==
    \/ PickRecipient(r)
    \/ CommitSubmit(r) \/ CommitDecision(r) \/ CommitFinalize(r) \/ CommitOutput(r)
    \/ \E outcome \in OutboxStatus, accepted \in BOOLEAN : Post(r, outcome, accepted)
    \/ Record(r)

Next ==
    \/ \E r \in Requests :
          (\E u \in Users, v \in 1..draft : Receive(r, u, v)) \/ Progress(r) \/ Lose(r)
    \/ SaveDraft
    \/ \E u \in Users : Join(u) \/ Suspend(u)

Spec == Init /\ [][Next]_vars
-----------------------------------------------------------------------------
(* Type correctness of the tables and of the requests in flight.           *)
TypeOK ==
    /\ draft \in 0..MaxVersion
    /\ DOMAIN reviews \subseteq Versions
    /\ \A v \in DOMAIN reviews : reviews[v] \in Review
    /\ events \subseteq Event
    /\ DOMAIN delivery \subseteq Notice
    /\ \A n \in DOMAIN delivery : delivery[n] \in OutboxStatus
    /\ mailed \subseteq DOMAIN delivery
    /\ DOMAIN finalizations \subseteq Versions
    /\ \A v \in DOMAIN finalizations : finalizations[v] \in Finalization
    /\ DOMAIN outputs \subseteq Versions \X Formats
    /\ \A n \in DOMAIN outputs : outputs[n] \in Users
    /\ generated \subseteq Versions \X Formats \X Users
    /\ members \subseteq Users /\ active \subseteq Users
    /\ request \in [Requests -> Request]

(* A verdict is given by somebody other than the requester who holds the   *)
(* role and the assignment at that moment, an approval by an executive on  *)
(* the version that is current at that moment, however long ago the        *)
(* handler looked.  A verdict once given never changes.                    *)
DecisionIndependent ==
    [][\A v \in DOMAIN reviews : reviews'[v] # reviews[v] =>
         LET u == reviews'[v].reviewedBy IN
         /\ reviews[v].status = "PENDING"
         /\ u # reviews[v].requestedBy
         /\ HasAccess(u) /\ u \in Deciders
         /\ reviews'[v].status = "APPROVED" => u \in Executives /\ draft = v]_vars

(* The append-only log tells exactly what the reviews say, whatever        *)
(* decisions raced, and every approved review has told somebody to         *)
(* deliver: there is no approval without its notice, no notice without an  *)
(* approval.                                                               *)
DecisionRecorded ==
    /\ events = {<<v, "REVIEW_REQUESTED", reviews[v].requestedBy>> : v \in DOMAIN reviews}
                \cup {<<v, reviews[v].status, reviews[v].reviewedBy>> :
                        v \in {w \in DOMAIN reviews : reviews[w].status # "PENDING"}}
    /\ {n[2] : n \in DOMAIN delivery} =
          {v \in DOMAIN reviews : reviews[v].status = "APPROVED"}

(* Nobody is asked twice by mail to deliver one approved version, even     *)
(* when two executives approve at the same time and a second notice row    *)
(* slips in.                                                               *)
OneEmailPerReview ==
    \A m, n \in mailed : m[2] = n[2] => m = n

(* Each final file is generated once, of a finalized version, and the      *)
(* append-only log names who generated it, also when two requests for the  *)
(* same format pass their lookup before either has inserted.               *)
OutputLogged ==
    /\ generated = {<<n[1], n[2], outputs[n]>> : n \in DOMAIN outputs}
    /\ {n[1] : n \in DOMAIN outputs} \subseteq DOMAIN finalizations

(* Reviews with their events and notices, and final files with their log,  *)
(* never disagree: each pair is written by one batch, and a batch that     *)
(* lost its race, or commits half of its statements, must not part them.   *)
LogsAreTrue == DecisionRecorded /\ OutputLogged

(* A request that was told 200 or 201 is stored under its key, with the    *)
(* version it asked for: retrying after a lost answer is safe, and a key   *)
(* used for something else is never taken for success.                     *)
AcceptedIsStored ==
    \A r \in Requests : request[r].answer = "ok" =>
        LET q == request[r]
            table == IF q.kind = "submit" THEN reviews ELSE finalizations
        IN  q.version \in DOMAIN table /\ table[q.version].key = q.key

(* Review and finalization keep what ApprovalLedger promises.              *)
Ledger == INSTANCE ApprovalLedger
            WITH latest <- draft,
                 verdict <- [v \in DOMAIN reviews |-> reviews[v].status],
                 final <- DOMAIN finalizations
LedgerSpec == Ledger!Spec
=============================================================================
