------------------------------ MODULE CaseDesk ------------------------------
(***************************************************************************)
(* The rest of a case's page, over the same accounts and assignments as    *)
(* its schedule: the minutes of the kickoff meeting, one site survey with  *)
(* the output an AI writes from its notes, workforce allocations, the      *)
(* creation of cases, the status of the case and its catalog record.       *)
(*                                                                         *)
(* Handlers work as in ProjectSchedule: checks, awaits, one batch.  Most   *)
(* find out by a read after the batch whether it did what they asked; that *)
(* read is one step with the batch here, because versions only grow: a     *)
(* later read could only turn a 200 into a 409.                            *)
(***************************************************************************)
EXTENDS ProjectSchedule

CONSTANTS
    Texts, NoText,  \* notes of a meeting or a survey; bodies of a keyed request
    Keys, NoKey,    \* Idempotency-Key values
    Worlds,         \* pairs <<scope, desk>> to look at together
    MaxNotes,       \* bound: versions of kickoff, survey and output
    MaxCatalog,     \* bound: versions of the catalog record
    MaxCase         \* bound: versions of the case

ASSUME DeskAssumption ==
    /\ NoText \notin Texts /\ NoKey \notin Keys
    /\ Worlds \subseteq Scopes \X SUBSET {"kickoff", "survey", "keyed", "catalog", "status", "tie"}
    /\ MaxNotes \in Nat \ {0} /\ MaxCatalog \in Nat /\ MaxCase \in Nat \ {0}

VARIABLES
    kickoff,        \* preview_workflow_kickoffs
    survey,         \* preview_site_surveys, of one date: its version
    output,         \* preview_site_survey_outputs of that survey
    saves,          \* SITE_SURVEY_SAVED in preview_workflow_events
    allocations,    \* preview_workforce_allocations: key -> body
    cases,          \* preview_cases by key -> body and creator
    file,           \* preview_cases, this case: status and version
    catalog,        \* preview_catalog_records, INTAKE, of this case
    call,           \* the handlers in flight or answered 200
    desk            \* the handlers people call; "tie": two batches may carry
                    \* the same millisecond

field == <<kickoff, survey, output, saves>>
keyed == <<allocations, cases>>
deskVars == <<field, keyed, file, catalog, call, desk>>
-----------------------------------------------------------------------------
Text == Texts \cup {NoText}
Kickoff == [version : 0..MaxNotes, notes : Text, minutes : Text]
(* A text in summary stands for the summary made of it.                    *)
Output == [version : 0..MaxNotes, notes : Text, summary : Text, confirmed : BOOLEAN]
Save == [output : 1..MaxNotes, text : Texts]
CaseAction == {"HIDE_FROM_LIST", "RESTORE_TO_LIST", "ARCHIVE_TO_DRIVE", "ADMIN_DELETE"}
Catalog == [version : 0..MaxCatalog, hidden : BOOLEAN, deleted : BOOLEAN, archived : BOOLEAN]
(* INQUIRY is 0, CLOSED is 10.                                             *)
CaseStatus == 0..10
PROPOSAL == 1
ESTIMATE == 2
CONTRACT == 3
File == [status : CaseStatus, version : 0..MaxCase]

CallKind == {"none", "kickoff", "minutes", "survey", "summary", "confirm", "allocate",
             "case", "catalog", "status"}
Version == 0..(MaxNotes + MaxCatalog + MaxCase)
Call == [kind : CallKind, user : Users \cup {NoUser},
         version : Version,     \* the version read, and expected by the batch
         other : Version \cup CaseStatus,  \* version of the survey's output; status read
         text : Text, key : Keys \cup {NoKey},
         action : CaseAction \cup {"none"}, found : Catalog,
         answered : BOOLEAN]    \* 200

NotCatalogued == [version |-> 0, hidden |-> FALSE, deleted |-> FALSE, archived |-> FALSE]
NoCall == [kind |-> "none", user |-> NoUser, version |-> 0, other |-> 0, text |-> NoText,
           key |-> NoKey, action |-> "none", found |-> NotCatalogued, answered |-> FALSE]

Take(r, kind, u, q) == call' = [call EXCEPT ![r] = [q EXCEPT !.kind = kind, !.user = u]]
Answer(r, ok) ==
    call' = [call EXCEPT ![r] = IF ok THEN [@ EXCEPT !.answered = TRUE] ELSE NoCall]
Pending(r, kind) == call[r].kind = kind /\ ~call[r].answered

(* The workflow, catalog and later statuses of a case are for its managers. *)
Works(u) == HasAccess(u) /\ u \in Managers
-----------------------------------------------------------------------------
(* PUT .../workflow/kickoff.                                               *)
ReceiveKickoff(r, u, t) ==
    /\ "kickoff" \in desk /\ Works(u)
    /\ kickoff.version < MaxNotes
    /\ Take(r, "kickoff", u, [NoCall EXCEPT !.version = kickoff.version, !.text = t])
    /\ UNCHANGED <<field, keyed, file, catalog, desk>>

(* ON CONFLICT DO UPDATE ... WHERE version = ?.                            *)
KickoffHit(q) == kickoff.version = q.version

(* tie: the version was taken by a batch with this handler's time stamp,   *)
(* and the check after the batch takes it for its own.                     *)
CommitKickoff(r, tie) ==
    LET q == call[r]
        stored == q.user \in active /\ KickoffHit(q)
        taken == tie /\ q.user \in active /\ kickoff.version = q.version + 1
    IN  /\ Pending(r, "kickoff")
        /\ kickoff' = IF stored
              THEN [kickoff EXCEPT !.version = @ + 1, !.notes = q.text] ELSE kickoff
        /\ Answer(r, stored \/ taken)
        /\ UNCHANGED <<survey, output, saves, keyed, file, catalog, desk>>

(* POST .../kickoff-summary: the AI writes the minutes from the notes.     *)
ReceiveMinutes(r, u) ==
    /\ "kickoff" \in desk /\ Works(u)
    /\ kickoff.version \in 1..(MaxNotes - 1)
    /\ Take(r, "minutes", u,
            [NoCall EXCEPT !.version = kickoff.version, !.text = kickoff.notes])
    /\ UNCHANGED <<field, keyed, file, catalog, desk>>

(* 200 whoever has brought the row to the next version.                    *)
CommitMinutes(r) ==
    LET q == call[r] IN
    /\ Pending(r, "minutes")
    /\ kickoff' = IF KickoffHit(q)
          THEN [kickoff EXCEPT !.version = @ + 1, !.minutes = q.text] ELSE kickoff
    /\ Answer(r, kickoff'.version = q.version + 1)
    /\ UNCHANGED <<survey, output, saves, keyed, file, catalog, desk>>
-----------------------------------------------------------------------------
(* PUT .../workflow/site-survey: two versions, both as the client saw them. *)
ReceiveSurvey(r, u, t) ==
    /\ "survey" \in desk /\ Works(u)
    /\ survey < MaxNotes /\ output.version < MaxNotes
    /\ Take(r, "survey", u,
            [NoCall EXCEPT !.version = survey, !.other = output.version, !.text = t])
    /\ UNCHANGED <<field, keyed, file, catalog, desk>>

(* UPDATE of the output WHERE version = ?.                                 *)
OutputHit(version) == output.version = version

(* A summary of other notes is thrown away with its confirmation.          *)
(* Mutant: it is kept, as in the kickoff.                                  *)
WithNotesKept(t) == [output EXCEPT !.version = @ + 1, !.notes = t]
WithNotes(t) ==
    IF output.version > 0 /\ output.notes = t
      THEN [output EXCEPT !.version = @ + 1]
      ELSE [version |-> output.version + 1, notes |-> t, summary |-> NoText,
            confirmed |-> FALSE]

(* The batch: each of the two upserts finds its version or not, the event  *)
(* is for both.  The loser of two first saves has an id of its own, which  *)
(* the output's trigger does not know: ABORT.  The answer compares the     *)
(* versions only, so it is 200 also when another handler took one of them. *)
CommitSurvey(r, tie) ==
    LET q == call[r]
        accepted == q.user \in active /\ (q.version = 0 => survey = 0)
        surveyHit == accepted /\ survey = q.version
        outputHit == accepted /\ OutputHit(q.other)
        logged == \/ surveyHit /\ outputHit
                  \/ tie /\ accepted /\ survey' = q.version + 1 /\ output'.version = q.other + 1
    IN  /\ Pending(r, "survey")
        /\ survey' = IF surveyHit THEN survey + 1 ELSE survey
        /\ output' = IF outputHit THEN WithNotes(q.text) ELSE output
        /\ saves' = IF logged THEN saves \cup {[output |-> q.other + 1, text |-> q.text]} ELSE saves
        /\ Answer(r, /\ accepted
                     /\ survey' = q.version + 1 /\ output'.version = q.other + 1)
        /\ UNCHANGED <<kickoff, keyed, file, catalog, desk>>

(* POST .../site-survey-summary, for up to 90 seconds with the AI.         *)
ReceiveSummary(r, u) ==
    /\ "survey" \in desk /\ Works(u)
    /\ output.version \in 1..(MaxNotes - 1)
    /\ Take(r, "summary", u,
            [NoCall EXCEPT !.other = output.version, !.text = output.notes])
    /\ UNCHANGED <<field, keyed, file, catalog, desk>>

CommitSummary(r) ==
    LET q == call[r] IN
    /\ Pending(r, "summary")
    /\ output' = IF OutputHit(q.other)
          THEN [output EXCEPT !.version = @ + 1, !.summary = q.text, !.confirmed = FALSE]
          ELSE output
    /\ Answer(r, output'.version = q.other + 1)
    /\ UNCHANGED <<kickoff, survey, saves, keyed, file, catalog, desk>>

(* POST .../site-survey-confirm.                                           *)
ReceiveConfirm(r, u) ==
    /\ "survey" \in desk /\ Works(u)
    /\ output.version \in 1..(MaxNotes - 1) /\ output.summary # NoText
    /\ Take(r, "confirm", u, [NoCall EXCEPT !.other = output.version])
    /\ UNCHANGED <<field, keyed, file, catalog, desk>>

CommitConfirm(r) ==
    LET q == call[r] IN
    /\ Pending(r, "confirm")
    /\ output' = IF OutputHit(q.other) /\ output.summary # NoText
          THEN [output EXCEPT !.version = @ + 1, !.confirmed = TRUE] ELSE output
    /\ Answer(r, output'.version = q.other + 1 /\ output'.confirmed)
    /\ UNCHANGED <<kickoff, survey, saves, keyed, file, catalog, desk>>
-----------------------------------------------------------------------------
(* POST .../workflow/allocations under a key.  A stored key is answered    *)
(* from its row when the body is the same, and refused otherwise.          *)
ReceiveAllocation(r, u, k, t) ==
    /\ "keyed" \in desk /\ Works(u)
    /\ k \in DOMAIN allocations => allocations[k] = t
    /\ Take(r, "allocate", u, [NoCall EXCEPT !.key = k, !.text = t,
                                             !.answered = k \in DOMAIN allocations])
    /\ UNCHANGED <<field, keyed, file, catalog, desk>>

(* UNIQUE (case_id, idempotency_key) and the insert trigger.               *)
Allocatable(q) == q.user \in active /\ q.key \notin DOMAIN allocations

CommitAllocation(r) ==
    LET q == call[r] IN
    /\ Pending(r, "allocate")
    /\ allocations' = IF Allocatable(q)
          THEN [k \in DOMAIN allocations \cup {q.key} |->
                  IF k = q.key THEN q.text ELSE allocations[k]]
          ELSE allocations
    /\ Answer(r, Allocatable(q))
    /\ UNCHANGED <<field, cases, file, catalog, desk>>

(* POST /api/cases: every active account may file a case, under a key.     *)
ReceiveCase(r, u, k, t) ==
    /\ "keyed" \in desk /\ u \in active
    /\ k \in DOMAIN cases => cases[k].text = t
    /\ Take(r, "case", u, [NoCall EXCEPT !.key = k, !.text = t,
                                         !.answered = k \in DOMAIN cases])
    /\ UNCHANGED <<field, keyed, file, catalog, desk>>

(* The batch breaks UNIQUE (idempotency_key) when another handler has used *)
(* the key; the catch answers from its row if the body is the same.        *)
CommitCase(r) ==
    LET q == call[r]
        new == q.key \notin DOMAIN cases
    IN  /\ Pending(r, "case")
        /\ cases' = IF new
              THEN [k \in DOMAIN cases \cup {q.key} |->
                      IF k = q.key THEN [text |-> q.text, by |-> q.user] ELSE cases[k]]
              ELSE cases
        /\ Answer(r, cases'[q.key].text = q.text)
        /\ UNCHANGED <<field, allocations, file, catalog, desk>>
-----------------------------------------------------------------------------
(* POST /api/cases/<id>/catalog.  The Drive upload of an archive comes     *)
(* first; one that fails ends the handler.                                 *)
ReceiveCatalog(r, u, action) ==
    /\ "catalog" \in desk /\ Works(u)
    /\ action \in {"ARCHIVE_TO_DRIVE", "ADMIN_DELETE"} => u \in Admins
    /\ catalog.version < MaxCatalog
    /\ Take(r, "catalog", u, [NoCall EXCEPT !.action = action, !.found = catalog])
    /\ UNCHANGED <<field, keyed, file, catalog, desk>>

(* Every column is written, from the row that was read.                    *)
Recorded(q) ==
    [version |-> q.found.version + 1,
     hidden |-> IF q.action \in {"HIDE_FROM_LIST", "RESTORE_TO_LIST"}
                  THEN q.action = "HIDE_FROM_LIST" ELSE q.found.hidden,
     deleted |-> q.action = "ADMIN_DELETE" \/ q.found.deleted,
     archived |-> q.action = "ARCHIVE_TO_DRIVE" \/ q.found.archived]

(* INSERT into an empty place, or UPDATE ... WHERE version = ?.            *)
(* Mutant: the version of the row is not compared.                         *)
CatalogHitAny(q) == TRUE
CatalogHit(q) == catalog.version = q.found.version

CommitCatalog(r) ==
    LET q == call[r] IN
    /\ Pending(r, "catalog")
    /\ catalog' = IF CatalogHit(q) THEN Recorded(q) ELSE catalog
    /\ Answer(r, CatalogHit(q))
    /\ UNCHANGED <<field, keyed, file, desk>>

(* POST /api/cases/<id>/status: one step on, for everybody while the case  *)
(* is an inquiry, a proposal or an estimate, then for its managers.        *)
ReceiveStatus(r, u) ==
    /\ "status" \in desk /\ u \in active
    /\ file.status > ESTIMATE => Works(u)
    /\ file.status + 1 \in CaseStatus
    /\ file.version < MaxCase
    /\ Take(r, "status", u, [NoCall EXCEPT !.version = file.version, !.other = file.status])
    /\ UNCHANGED <<field, keyed, file, catalog, desk>>

CommitStatus(r) ==
    LET q == call[r]
        hit == file.version = q.version /\ file.status = q.other
    IN  /\ Pending(r, "status")
        /\ file' = IF hit THEN [status |-> file.status + 1, version |-> file.version + 1] ELSE file
        /\ Answer(r, hit)
        /\ UNCHANGED <<field, keyed, catalog, desk>>

(* The case is written by others: an intake source leaves its status, a    *)
(* proposal, an award or its correction set it, back if need be.           *)
EditCase(status) ==
    /\ "status" \in desk /\ file.version < MaxCase
    /\ status \in {file.status, PROPOSAL, CONTRACT}
    /\ file' = [status |-> status, version |-> file.version + 1]
    /\ UNCHANGED <<field, keyed, catalog, call, desk>>
-----------------------------------------------------------------------------
(* A survey of before migration 0048 has no output yet.                    *)
DeskInit ==
    /\ Init
    /\ kickoff = [version |-> 0, notes |-> NoText, minutes |-> NoText]
    /\ survey \in {0, 1}
    /\ output = [version |-> 0, notes |-> NoText, summary |-> NoText, confirmed |-> FALSE]
    /\ saves = {}
    /\ allocations = [k \in {} |-> NoText] /\ cases = [k \in {} |-> NoText]
    /\ file = [status |-> 0, version |-> 1]
    /\ catalog = NotCatalogued
    /\ call = [r \in Requests |-> NoCall]
    /\ \E w \in Worlds : scope = w[1] /\ desk = w[2]

ReceiveCall(r, u) ==
    /\ call[r] = NoCall \/ call[r].answered
    /\ \/ \E t \in Texts : ReceiveKickoff(r, u, t) \/ ReceiveSurvey(r, u, t)
       \/ ReceiveMinutes(r, u) \/ ReceiveSummary(r, u) \/ ReceiveConfirm(r, u)
       \/ \E k \in Keys, t \in Texts : ReceiveAllocation(r, u, k, t) \/ ReceiveCase(r, u, k, t)
       \/ \E action \in CaseAction : ReceiveCatalog(r, u, action)
       \/ ReceiveStatus(r, u)

CommitCall(r) ==
    \/ \E tie \in (IF "tie" \in desk THEN BOOLEAN ELSE {FALSE}) :
          CommitKickoff(r, tie) \/ CommitSurvey(r, tie)
    \/ CommitMinutes(r) \/ CommitSummary(r) \/ CommitConfirm(r)
    \/ CommitAllocation(r) \/ CommitCase(r)
    \/ CommitCatalog(r) \/ CommitStatus(r)

DeskStep ==
    \/ \E r \in Requests : (\E u \in Users : ReceiveCall(r, u)) \/ CommitCall(r)
    \/ \E status \in CaseStatus : EditCase(status)

(* The page: a step of the schedule, or one of the desk.                   *)
DeskNext ==
    \/ Next /\ UNCHANGED deskVars
    \/ DeskStep /\ UNCHANGED vars

DeskSpec == DeskInit /\ [][DeskNext]_<<vars, deskVars>>
-----------------------------------------------------------------------------
(* Type correctness of the desk's tables and calls; those of the schedule  *)
(* are TypeOK.                                                             *)
DeskTypeOK ==
    /\ kickoff \in Kickoff /\ survey \in 0..MaxNotes /\ output \in Output
    /\ saves \subseteq Save
    /\ DOMAIN allocations \subseteq Keys /\ \A k \in DOMAIN allocations : allocations[k] \in Texts
    /\ DOMAIN cases \subseteq Keys
    /\ \A k \in DOMAIN cases : cases[k] \in [text : Texts, by : Users]
    /\ file \in File /\ catalog \in Catalog
    /\ call \in [Requests -> Call]
    /\ <<scope, desk>> \in Worlds

(* The notes are saved again while the AI summarises the old ones for up   *)
(* to 90 seconds, and a summary is confirmed meanwhile: what is shown as   *)
(* the summary of a survey is always that of the notes next to it, and     *)
(* only such a summary is confirmed.                                       *)
SummaryOfNotes ==
    /\ output.summary # NoText => output.summary = output.notes
    /\ output.confirmed => output.summary # NoText

(* What an answer 200 promises of the tables.                              *)
Kept(q) ==
    /\ q.kind = "kickoff" /\ kickoff.version = q.version + 1 /\ "tie" \notin desk =>
          kickoff.notes = q.text
    /\ q.kind = "allocate" => q.key \in DOMAIN allocations /\ allocations[q.key] = q.text
    /\ q.kind = "case" => q.key \in DOMAIN cases /\ cases[q.key].text = q.text
    /\ q.action = "ADMIN_DELETE" => catalog.deleted
    /\ q.action = "ARCHIVE_TO_DRIVE" => catalog.archived
    /\ q.kind = "status" /\ file.version = q.version + 1 => file.status = q.other + 1

(* Whatever races it, what a handler answered 200 is what is stored: the   *)
(* notes of a kickoff at their version, an allocation or a case under its  *)
(* key, a deletion or an archive of the catalog, a step of the status at   *)
(* its version (an award may take it back later).                          *)
(* A survey may be answered 200 and lost (SurveySaved); for it the log     *)
(* tells the truth.  Kickoff and log rely on time stamps that differ.      *)
AnsweredIsKept ==
    /\ \A r \in Requests : call[r].answered => Kept(call[r])
    /\ "tie" \notin desk =>
          \A e \in saves : output.version = e.output => output.notes = e.text

(* What the error 'Concurrent site survey update detected' is there for,   *)
(* and the code does not keep: a save of a survey that answers 200 is the  *)
(* one that is stored.                                                     *)
SurveySaved ==
    [][\A r \in Requests :
          Pending(r, "survey") /\ call'[r].answered => output'.notes = call[r].text]_<<vars, deskVars>>
=============================================================================
