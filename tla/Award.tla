------------------------------- MODULE Award -------------------------------
(***************************************************************************)
(* From a proposal to a project in the Worker (apps/cloudflare): the       *)
(* proposals linked to one case, the decision on each of them, later       *)
(* corrections of a decision, and the registration of the accepted one     *)
(* with the ERP through an outbox row.                                     *)
(*                                                                         *)
(* A handler reads, awaits, and writes with one D1 batch.  The batch is a  *)
(* transaction, but its UPDATE of the case, WHERE version = ?, may match   *)
(* no row while everything else in it commits.  A batch may also be        *)
(* refused for what is not in the state: the actor lost the role or the    *)
(* assignment, or two stamps of updated_at tie.                            *)
(*                                                                         *)
(* A repeated Idempotency-Key is answered from the row it finds and        *)
(* changes nothing, except that its first sending may still be in flight:  *)
(* that is a second request here.                                          *)
(***************************************************************************)
EXTENDS Integers, FiniteSets

CONSTANTS
    Proposals, NoProposal,  \* (proposal_number, revision_label) of the case
    Requests,               \* handlers that may run at the same time
    FirstStatuses,          \* statuses the case may start with
    Worlds,                 \* the values of <<configured, steady>> to look at
    MaxCaseVersion,         \* bound: versions of the case
    MaxStateVersion         \* bound: versions of an effective state

ASSUME AwardAssumption ==
    /\ NoProposal \notin Proposals
    /\ FirstStatuses \subseteq {"INQUIRY", "PROPOSAL", "ESTIMATE"}
    /\ Worlds \subseteq BOOLEAN \X BOOLEAN
    /\ MaxCaseVersion \in Nat \ {0} /\ MaxStateVersion \in Nat \ {0}

VARIABLES
    case,           \* preview_cases: status and version
    links,          \* preview_proposal_links: proposal -> award_status
    decisions,      \* preview_award_decisions: <<proposal, decision>>
    effective,      \* preview_award_effective_states: proposal -> status, version
    adjustments,    \* preview_award_adjustments: <<proposal, previous_status, version>>
    sync,           \* preview_erp_project_syncs: the one row of the case
    erp,            \* the proposal whose project the ERP holds
    request,        \* the handlers in flight
    configured,     \* the ERP bridge has a URL and a secret
    steady          \* no handler is lost in the middle of its request

awards == <<links, decisions, effective, adjustments>>
world == <<configured, steady>>
vars == <<case, awards, sync, erp, request, world>>
-----------------------------------------------------------------------------
(* PREVIEW_CASE_STATUSES; what follows MATERIAL_RECEIVED is like it here.  *)
PreContract == {"INQUIRY", "PROPOSAL", "ESTIMATE"}
Stages == PreContract \cup {"CONTRACT", "MATERIAL_RECEIVED"}
Following == [INQUIRY |-> "PROPOSAL", PROPOSAL |-> "ESTIMATE", ESTIMATE |-> "CONTRACT",
              CONTRACT |-> "MATERIAL_RECEIVED", MATERIAL_RECEIVED |-> "none"]

Decision == {"WON", "LOST"}
Opposite(d) == IF d = "WON" THEN "LOST" ELSE "WON"
Decided == {p \in DOMAIN links : links[p] # "PENDING"}

Effective == [status : Decision, version : 1..MaxStateVersion]
SyncStatus == {"PENDING", "FAILED", "SYNCED"}
NoSync == [status |-> "none", link |-> NoProposal]
Sync == {NoSync} \cup [status : SyncStatus, link : Proposals]

RequestKind == {"none", "link", "decide", "receive", "adjust", "retry"}
Request == [kind : RequestKind,
            phase : {"idle", "read", "check", "dispatch", "post", "posted"},
            proposal : Proposals \cup {NoProposal},
            decision : Decision \cup {"none"},  \* what is decided or corrected to
            status : Stages \cup {"none"},      \* of the case, as read
            caseVersion : 0..MaxCaseVersion,    \* expectedCaseVersion
            stateVersion : 0..MaxStateVersion,  \* expectedStateVersion
            accepted : BOOLEAN]                 \* what the ERP answered

Idle == [kind |-> "none", phase |-> "idle", proposal |-> NoProposal, decision |-> "none",
         status |-> "none", caseVersion |-> 0, stateVersion |-> 0, accepted |-> FALSE]

Free(r) == request[r].phase = "idle"
At(r, kinds, phase) == request[r].kind \in kinds /\ request[r].phase = phase
Done(r) == request' = [request EXCEPT ![r] = Idle]
Goto(r, phase) == request' = [request EXCEPT ![r].phase = phase]

(* The client sends the versions it has seen, and the handler's reads find *)
(* them unchanged: otherwise it answers 409 and is no step.                *)
Begin(r, kind, p, decision, stateVersion) ==
    /\ Free(r)
    /\ case.version < MaxCaseVersion
    /\ request' = [request EXCEPT ![r] =
         [Idle EXCEPT !.kind = kind, !.phase = "read", !.proposal = p,
                      !.decision = decision, !.status = case.status,
                      !.caseVersion = case.version, !.stateVersion = stateVersion]]

Put(table, p, row) == [x \in DOMAIN table \cup {p} |-> IF x = p THEN row ELSE table[x]]

(* UPDATE preview_cases SET status WHERE version = expected: nothing       *)
(* happens when the version has moved.                                     *)
CaseAfter(expected, status) ==
    IF case.version = expected
      THEN [status |-> status, version |-> expected + 1] ELSE case
-----------------------------------------------------------------------------
(* POST .../links.                                                         *)
ReceiveLink(r, p) ==
    /\ Begin(r, "link", p, "none", 0)
    /\ UNCHANGED <<case, awards, sync, erp, world>>

(* The batch: the link, whose trigger asks for a case before its contract, *)
(* and the case WHERE its version is the expected one.                     *)
CommitLink(r, refused) ==
    LET q == request[r] IN
    /\ At(r, {"link"}, "read")
    /\ Done(r)
    /\ IF refused \/ case.status \notin PreContract \/ q.proposal \in DOMAIN links
         THEN UNCHANGED <<case, links>>
         ELSE /\ links' = Put(links, q.proposal, "PENDING")
              /\ case' = CaseAfter(q.caseVersion,
                                   IF q.status = "INQUIRY" THEN "PROPOSAL" ELSE q.status)
    /\ UNCHANGED <<decisions, effective, adjustments, sync, erp, world>>
-----------------------------------------------------------------------------
(* POST .../links/<id>/decision decides a linked proposal, POST            *)
(* .../receptions links a confirmed one and decides it in one batch.       *)
ReceiveDecision(r, kind, p, decision) ==
    /\ IF kind = "decide" THEN p \in DOMAIN links /\ links[p] = "PENDING"
                          ELSE p \notin DOMAIN links
    /\ Begin(r, kind, p, decision, 0)
    /\ UNCHANGED <<case, awards, sync, erp, world>>

(* preview_award_decision_insert_guard, and for a reception the link's own *)
(* trigger and UNIQUE key.                                                 *)
DecisionGuard(q) ==
    /\ case.status \in PreContract
    /\ IF q.kind = "decide" THEN links[q.proposal] = "PENDING"
                            ELSE q.proposal \notin DOMAIN links

(* preview_erp_project_syncs.case_id is UNIQUE.                            *)
(* Mutant: the row is replaced.                                            *)
SyncFreeAlways == TRUE
SyncFree == sync = NoSync

(* The batch: decision, link, effective state (one per link), case, and    *)
(* for WON the outbox row.                                                 *)
CommitDecision(r, refused) ==
    LET q == request[r]
        p == q.proposal
        won == q.decision = "WON"
    IN  /\ At(r, {"decide", "receive"}, "read")
        /\ IF \/ refused \/ ~DecisionGuard(q)
              \/ p \in DOMAIN effective \/ (won /\ ~SyncFree)
             THEN /\ Done(r)
                  /\ UNCHANGED <<case, links, decisions, effective, sync>>
             ELSE /\ decisions' = decisions \cup {<<p, q.decision>>}
                  /\ links' = Put(links, p, q.decision)
                  /\ effective' = Put(effective, p, [status |-> q.decision, version |-> 1])
                  /\ case' = CaseAfter(q.caseVersion, IF won THEN "CONTRACT" ELSE q.status)
                  /\ sync' = IF won THEN [status |-> "PENDING", link |-> p] ELSE sync
                  /\ Goto(r, "check")
        /\ UNCHANGED <<adjustments, erp, world>>

(* The handler reads the result back, and goes on to the ERP when the case *)
(* is at the next version.  A reception sees corrections made meanwhile.   *)
(* Mutant: a LOST goes on as well.                                         *)
GoesOnAnyDecision(q) == case.version = q.caseVersion + 1
GoesOn(q) ==
    /\ q.decision = "WON"
    /\ case.version = q.caseVersion + 1
    /\ q.kind = "receive" => effective[q.proposal].status = "WON"

CheckDecision(r) ==
    /\ At(r, {"decide", "receive"}, "check")
    /\ IF GoesOn(request[r]) THEN Goto(r, "dispatch") ELSE Done(r)
    /\ UNCHANGED <<case, awards, sync, erp, world>>
-----------------------------------------------------------------------------
(* POST .../receptions/<id>/status corrects a decision.                    *)
ReceiveAdjust(r, p) ==
    /\ p \in DOMAIN effective
    /\ effective[p].version < MaxStateVersion
    /\ Begin(r, "adjust", p, Opposite(effective[p].status), effective[p].version)
    /\ UNCHANGED <<case, awards, sync, erp, world>>

(* UPDATE ... WHERE version = ? AND effective_status = ?.                  *)
(* Mutant: the row is written whatever it holds.                           *)
StateHitAlways(q) == TRUE
StateHit(q) ==
    /\ effective[q.proposal].version = q.stateVersion
    /\ effective[q.proposal].status = Opposite(q.decision)

(* The batch: the adjustment, then the effective state and the case, each  *)
(* if its row is still the one that was read.  409 unless both were.       *)
CommitAdjust(r, refused) ==
    LET q == request[r]
        p == q.proposal
    IN  /\ At(r, {"adjust"}, "read")
        /\ Done(r)
        /\ IF refused \/ (StateHit(q) /\ effective[p].version = MaxStateVersion)
             THEN UNCHANGED <<case, effective, adjustments>>
             ELSE /\ adjustments' = adjustments \cup
                                      {<<p, Opposite(q.decision), q.stateVersion>>}
                  /\ effective' = IF StateHit(q)
                       THEN [effective EXCEPT ![p] = [status |-> q.decision,
                                                      version |-> @.version + 1]]
                       ELSE effective
                  /\ case' = CaseAfter(q.caseVersion, IF q.decision = "WON"
                                                        THEN "CONTRACT" ELSE "PROPOSAL")
        /\ UNCHANGED <<links, decisions, sync, erp, world>>
-----------------------------------------------------------------------------
(* POST .../erp-sync: the registration is dispatched again.                *)
Retry(r) ==
    /\ Free(r) /\ sync # NoSync
    /\ request' = [request EXCEPT ![r] = [Idle EXCEPT !.kind = "retry", !.phase = "dispatch"]]
    /\ UNCHANGED <<case, awards, sync, erp, world>>

(* UPDATE preview_erp_project_syncs ... WHERE id = ? AND status <> 'SYNCED'. *)
(* Mutant: the status is left out.                                         *)
SyncAfterAny(status) == [sync EXCEPT !.status = status]
SyncAfter(status) ==
    IF sync.status = "SYNCED" THEN sync ELSE [sync EXCEPT !.status = status]

(* dispatchErpProjectSync: without a bridge the row waits; a row that is   *)
(* SYNCED is answered; any other is sent.                                  *)
Dispatch(r) ==
    /\ At(r, RequestKind, "dispatch")
    /\ IF configured
         THEN /\ IF sync.status = "SYNCED" THEN Done(r) ELSE Goto(r, "post")
              /\ UNCHANGED sync
         ELSE Done(r) /\ sync' = SyncAfter("PENDING")
    /\ UNCHANGED <<case, awards, erp, world>>

(* registerProjectInErp: the ERP creates the project or knows it already   *)
(* by the Idempotency-Key of the case.  It says so, or refuses, or its     *)
(* answer comes after the timeout, malformed or not at all.                *)
Post(r, reached, accepted) ==
    /\ At(r, RequestKind, "post")
    /\ accepted => reached
    /\ erp' = IF reached /\ erp = NoProposal THEN sync.link ELSE erp
    /\ request' = [request EXCEPT ![r].phase = "posted", ![r].accepted = accepted]
    /\ UNCHANGED <<case, awards, sync, world>>

(* What the dispatch writes.  Mutant: a failure is not recorded.           *)
OutcomeSuccess(r) == IF request[r].accepted THEN SyncAfter("SYNCED") ELSE sync
Outcome(r) == SyncAfter(IF request[r].accepted THEN "SYNCED" ELSE "FAILED")

Record(r) ==
    /\ At(r, RequestKind, "posted")
    /\ Done(r)
    /\ sync' = Outcome(r)
    /\ UNCHANGED <<case, awards, erp, world>>
-----------------------------------------------------------------------------
(* POST /api/cases/<id>/status, WHERE the version and the status are those *)
(* that were read: one step or none.                                       *)
Advance ==
    /\ case.version < MaxCaseVersion
    /\ Following[case.status] # "none"
    /\ case' = [status |-> Following[case.status], version |-> case.version + 1]
    /\ UNCHANGED <<awards, sync, erp, request, world>>

(* A handler that edits the case and leaves its status alone; that of the  *)
(* intake summary does not even ask for a version.                         *)
EditCase ==
    /\ case.version < MaxCaseVersion
    /\ case' = [case EXCEPT !.version = @ + 1]
    /\ UNCHANGED <<awards, sync, erp, request, world>>

(* The isolate is evicted in the middle of a request.                      *)
Lose(r) ==
    /\ ~steady /\ ~Free(r)
    /\ Done(r)
    /\ UNCHANGED <<case, awards, sync, erp, world>>
-----------------------------------------------------------------------------
Init ==
    /\ \E status \in FirstStatuses : case = [status |-> status, version |-> 1]
    /\ links = [p \in {} |-> "PENDING"]
    /\ decisions = {} /\ adjustments = {}
    /\ effective = [p \in {} |-> NoSync]
    /\ sync = NoSync /\ erp = NoProposal
    /\ request = [r \in Requests |-> Idle]
    /\ \E w \in Worlds : configured = w[1] /\ steady = w[2]

Receive(r, p) ==
    \/ ReceiveLink(r, p)
    \/ \E kind \in {"decide", "receive"}, d \in Decision : ReceiveDecision(r, kind, p, d)
    \/ ReceiveAdjust(r, p)

Progress(r) ==
    \/ \E refused \in BOOLEAN :
          CommitLink(r, refused) \/ CommitDecision(r, refused) \/ CommitAdjust(r, refused)
    \/ CheckDecision(r)
    \/ Dispatch(r)
    \/ \E reached, accepted \in BOOLEAN : Post(r, reached, accepted)
    \/ Record(r)

Next ==
    \/ \E r \in Requests :
          (\E p \in Proposals : Receive(r, p)) \/ Retry(r) \/ Progress(r) \/ Lose(r)
    \/ Advance \/ EditCase

Spec == Init /\ [][Next]_vars

(* The Worker runs a request it has begun to its answer.                   *)
FairSpec == Spec /\ \A r \in Requests : WF_vars(Progress(r))
-----------------------------------------------------------------------------
(* Type correctness of the tables and of the requests in flight.           *)
TypeOK ==
    /\ case \in [status : Stages, version : 1..MaxCaseVersion]
    /\ DOMAIN links \subseteq Proposals
    /\ \A p \in DOMAIN links : links[p] \in Decision \cup {"PENDING"}
    /\ decisions \subseteq Proposals \X Decision
    /\ DOMAIN effective \subseteq Proposals
    /\ \A p \in DOMAIN effective : effective[p] \in Effective
    /\ adjustments \subseteq Proposals \X Decision \X (1..MaxStateVersion)
    /\ sync \in Sync /\ erp \in Proposals \cup {NoProposal}
    /\ request \in [Requests -> Request]
    /\ configured \in BOOLEAN /\ steady \in BOOLEAN

(* A proposal is decided once: the append-only decision, the link and the  *)
(* effective state say the same of it, whatever handlers decided at once.  *)
(* Every WON, and nothing else, has the outbox row: a case is not awarded  *)
(* twice.                                                                  *)
DecidedOnce ==
    /\ decisions = {<<p, links[p]>> : p \in Decided}
    /\ DOMAIN effective = Decided
    /\ {p \in Decided : links[p] = "WON"} =
          IF sync = NoSync THEN {} ELSE {sync.link}

(* The status in force can be told from the append-only records alone: it  *)
(* is the decision, turned around once for each version after the first,   *)
(* and each of these turns has its adjustment, whoever made it.            *)
CorrectionsAreRecorded ==
    \A p \in DOMAIN effective :
        LET StatusAt(n) == IF n % 2 = 1 THEN links[p] ELSE Opposite(links[p])
            last == effective[p].version
        IN  /\ effective[p].status = StatusAt(last)
            /\ \A n \in 1..(last - 1) : <<p, StatusAt(n), n>> \in adjustments

(* A dispatch that has begun leaves its mark on the outbox row: a failed   *)
(* or unanswered registration is not left looking untried.  It takes a     *)
(* handler that is not lost and a D1 that takes the UPDATE of the row; a   *)
(* row whose dispatch never began waits for POST erp-sync.                 *)
DispatchSettles ==
    steady /\ configured =>
        \A r \in Requests : At(r, RequestKind, "dispatch") ~> sync.status \in {"FAILED", "SYNCED"}

(* Decision, outbox and ERP keep what ErpRegistration promises.            *)
Registration == INSTANCE ErpRegistration
                  WITH awarded <- sync.link,
                       registered <- erp,
                       confirmed <- sync.status = "SYNCED"
RegistrationSpec == Registration!Spec

(* What the handler's own comment says, and the code does not keep: an     *)
(* accepted proposal makes the case a CONTRACT project.  When the handler  *)
(* has accepted and gone on to the ERP, the case at the version it checked *)
(* is the contract it wrote.                                               *)
AcceptedIsContract ==
    \A r \in Requests :
        LET q == request[r] IN
        /\ At(r, {"decide", "receive"}, "dispatch")
        /\ case.version = q.caseVersion + 1
        => case.status = "CONTRACT"
=============================================================================
