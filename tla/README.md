# CONCOST Claim Center: a TLA+ verification project

The repository is a claim-case platform: cases come in, proposals are written and
awarded, a report is written chapter by chapter, reviewed, approved, finalized and
delivered. The live system is one Cloudflare Worker (`apps/cloudflare/src/index.ts`)
over a D1 (SQLite) database whose triggers repeat many of the handlers' checks
(`apps/cloudflare/migrations`). This directory models what runs concurrently in it,
checks it with TLC on small instances and proves its safety with TLAPS for all of them.
PROJECT.json lists components, runs, hazards, findings and theorems, and for every
definition of a module the lines of the code it stands for.

## The system

| Part | State | Operations | Where |
|---|---|---|---|
| Report studio | `preview_report_drafts` (one row per case with a version), `preview_report_revisions` (append-only), `preview_report_chapter_assignments`, `preview_report_chapter_revisions` | save the whole report; assign a chapter; save, submit and apply a chapter | index.ts 3849-4236, migrations 0006, 0050 |
| Review and approval | `preview_report_reviews`, `..._review_events`, `preview_notifications`, `preview_email_outbox` | request, approve, send back, notify by mail | 6108-6314, 0007, 0028 |
| Final output | `preview_report_finalizations`, `..._outputs`, `..._output_events` | finalize, generate, download | 6316-6452, 0008, 0009 |
| Accounts | `preview_users`, `preview_sessions`, registration requests | login, sessions, activate, deactivate, reset | 211-425, 632-1010, 0030 |
| Project workflow | PM profile, stages, schedule change requests, visibility | name a PM, plan, propose and decide changes, archive | 3171-3633 |
| Cases and intake | `preview_cases`, assignments, activities, intake drafts | create, edit, move through the workflow | 1087-1387, 3058-3164, 3644-3845 |
| Proposals, award, ERP | proposals, ERP sync outbox | write, award, hand over, register with the ERP, retry | 1477-1850, 2607-2993 |
| Evidence | upload records, Google Drive, OAuth credential | connect, upload, replay, disconnect | 6574-7098 |
| Authoring | outline, prompts, generation runs, learning memory | generate a chapter, learn from reviews | 4334-4375, 5697-6106 |
| Settings and reference data | workspace settings, templates, prompts, AI credentials, business cards | single-row edits with a version check | 1851-2275, 4740-5606, 7194- |
| Node API | Prisma over SQLite: the earlier implementation of most of the above, fees and backup as well | | apps/api/src |
| Web client, document engine, collaboration kit | React screens, DOCX/PDF rendering, Hocuspocus deployment | | apps/web, packages, docs/vietnam-server-kit |

The parts share the database and nothing else: a handler reads rows, awaits, and writes
with one `DB.batch`. What makes this hard:

- between the reads and the batch any other request may run, in the same or another
  isolate, and accounts may be suspended or replaced;
- the batch is one transaction, but a statement `UPDATE ... WHERE version = ?` that matches no row
  is *not* an error: the other statements still commit. Only a trigger's `RAISE(ABORT)` or a broken
  key rolls the batch back;
- the answer of a request may be lost, so clients retry with the same `Idempotency-Key`;
- an isolate may be evicted after its batch and before what follows it (the mail);
- mail bridge, ERP, Drive and AI providers answer late, twice or never.

## Modules

Each part of the Worker has one module, an MC module that instantiates it for TLC, and
a module of proofs. Five parts have an abstract specification of what they promise and are
shown to implement it; one module extends another where two parts share rows.

```
VersionedDocument <--refines--  ReportStudio      MCReportStudio      ReportStudioProofs
ApprovalLedger    <--refines--  ReportApproval    MCReportApproval    ReportApprovalProofs
RuleBook          <--refines--  ReportAuthoring   MCReportAuthoring   ReportAuthoringProofs
KeyedUpload       <--refines--  DriveUpload       MCDriveUpload       DriveUploadProofs
                                GoogleConnection  MCGoogleConnection  GoogleConnectionProofs
ErpRegistration   <--refines--  Award             MCAward             AwardProofs
ProjectSchedule   <--extends--  CaseDesk          MCCaseDesk          CaseDeskProofs (both)
                                Accounts          MCAccounts          AccountsProofs
```

All of them model a handler the same way. `request[r]` (in `CaseDesk` also `call[r]`) is a
handler that runs, with the fields it has read. `Receive...` is its session, access and role checks and
its read of the versioned rows; further awaits are steps of their own; `Commit...` is one D1
batch, statement by statement, with every trigger and key that can abort it: an UPDATE that
misses changes nothing and the rest commits, an ABORT undoes all. The triggers' guards are
operators named `...Guard`. A request that is refused before it writes anything changes
nothing and is no step. A key stands for the `Idempotency-Key`, and the version or file sent with it for the request fingerprint.
Accounts are suspended, members and PMs replaced by actions of their own, between any
two steps of a handler: that is what makes a checked right stale. The lines of every
definition are in PROJECT.json, "map"; the tables below give the handlers.

### ReportStudio: drafts, revisions, chapters

| Definition | Code (index.ts unless said otherwise) |
|---|---|
| `ReceiveSave`, `CommitSave` | `handlePreviewReportDraft` (3957-4035) |
| `ReceiveAssign`, `CommitAssign` | `handlePreviewReportChapterCollaboration`, PUT (4122-4176) |
| `ReceiveChapter`, `CommitChapterText` | the same, POST SAVE and MARK_READY (4178-4210) |
| `ReceiveChapter`, `ReadReport`, `CommitApply` | the same, POST APPLY (4178-4236) |
| `ReplaceChapter` | `replacePreviewReportChapter` (4115-4120) |
| `InsertGuard`, `UpdateGuard`, `RevisionGuard` | triggers of migration 0050 (117-184) |
| `NamePm`, `Deactivate`, `Activate` | PUT profile (3475-3491), PUT admin user (707-746) |

A content is a function from chapters to blocks, a text is a model value. `PatternTexts`
are the texts with a `$` pattern, and `Garbled` is what `String.replace` makes of them.
`tie` stands for two batches with the same `updated_at` stamp. `VersionedDocument`: the
report is a sequence of contents, a save appends one, nothing saved is changed or removed.

### ReportApproval: review, approval, mail, finalization, files

| Definition | Code |
|---|---|
| `ReceiveSubmit`, `CommitSubmit` | `handlePreviewReportReviews`, POST (6222-6264) |
| `ReceiveDecision`, `PickRecipient`, `CommitDecision` | the same, decision (6266-6310) |
| `Post`, `Record` | `dispatchPreviewEmailOutbox` (6155-6170) |
| `ReceiveFinalize`, `CommitFinalize`, `ReceiveOutput`, `CommitOutput` | `handlePreviewFinalOutput` (6382-6434) |
| `DecisionGuard`, `NoticeGuard`, `FinalizationGuard` | triggers of 0007, 0028, 0008 |

The report is its version number. `delivery` joins a notification to its one outbox row,
`mailed` is what the bridge has accepted, `Lose` is an isolate evicted in the
middle of a request. `ApprovalLedger`: one review per version and one open review, only the
latest version is approved or finalized, nothing is taken back.

### ReportAuthoring: prompts, outline, generation, memory

| Definition | Code |
|---|---|
| `ReceivePrompt`, `CommitPrompt` | PUT report-prompts (4949-4972) |
| `ReceiveOutline`, `CommitOutline` | PUT outline (5951-5994) |
| `ReceiveGenerate`, `Recall`, `CommitGeneration`, `KeepSnapshot`, `KeepEvidence` | POST generate (5996-6073), `previewReportMemoryContext` (5697-5755) |
| `ReceiveFeedback`, `CommitFeedback`, `ReceiveVerdict`, `CommitVerdict` | `handlePreviewReportMemory` (5773-5839) |
| `TemplateGuard`, `OutlineGuard`, `Turns`, `Usable` | triggers of 0016, 0021, 0026 |

The provider is the time between two steps. `world` says what else happens: prompts or feedback
are edited, the outline cannot be read and the generation goes on without it (4369-4372), the private bridge ranks the rules,
handlers are lost, accounts are suspended. `RuleLimit` is the LIMIT of the rules recalled (8). `RuleBook`: a rule is proposed once, approved
or rejected by a reviewer, switched off for good; a use is recorded once and only of active rules.

### DriveUpload: evidence files on three routes

| Definition | Code |
|---|---|
| `ReceiveDraft`, `ReceiveCase`, `Known`, `Replayable` | `handlePreviewEvidence` (6744-6800), `handleCaseEvidence` (6956-7022) |
| `Reserve`, `ReserveAnswerLost`, `NotReserved` | reservation of the operation row (6804, 7024-7039) |
| `HasFolder`, `NoFolder`, `Uploaded`, `UploadAnswerLost`, `NotUploaded` | the upload (6808-6820, 7041-7049; google-drive.ts 110-142, 515-550) |
| `Store`, `StoreAnswerLost`, `NotStored`, `Settle`, `StoreInD1`, `StoreInD1AnswerLost` | the batches and their catch (6821-6833, 7050-7094) |
| `DatabaseFails` | a failed reservation, folder SELECT (6808) or settling UPDATE (6818, 6830, 7066), caught and answered without settling |
| `Bind`, `Unbind`, `Leave`, `Rejoin`, `Crash` | folder binding, membership, an evicted isolate |

`route` is chosen at the start: the three share no table. So is `faults`: which of "crash" (a
handler dies between two steps), "body" (a 200 of Drive with its body cut off) and "database" (D1 fails a statement
outside the batch, or loses its answer) may happen; the properties name the faults they exclude. `Registered`
holds in all of them: what is registered is in Drive. Its way back, that a file in Drive is registered, undecided or set aside, holds
for drafts; the case route gives such a file up as FAILED when its D1 batch fails (7064). `KeyedUpload`: a key is reserved once, ends registered with its file, failed or set aside, and the end is final.

### GoogleConnection: the organization's Drive account

| Definition | Code |
|---|---|
| `Start`, `Expire`, `Callback` | oauth/start and the claim of a state (6653-6677) |
| `Read`, `ReadPrevious` | the previous credential; a failed read is taken for none (6551-6565, 6679) |
| `Exchange`, `ExchangeFails`, `ScopeMissing`, `CheckAccount` | 6680-6686, google-drive.ts 144-191 |
| `StoreCredential`, `SwitchFails`, `StoreAnswerLost`, `Retire`, `Undo` | the switch and its catch (6687-6704) |
| `Disconnect`, `Revoke...`, `DeleteCredential`, `DeleteFails` | disconnect (6707-6720) |
| `Bind`, `Verify`, `StoreBinding` | folders/bind (6723-6739) |
| `Crash` | an evicted isolate |

Google's side is `issued` and `live`; `stored` is a history variable, the tokens the row ever held. `faults`
(scope, read, revoke, batch, answer, crash) are chosen at the start; handlers always overlap as they like. What
holds: one exchange per consent, only allowed accounts stored, a failed switch revokes what it got
(`GrantsAreConsented`), and no handler revokes the token that another has stored (`StoredIsLive`). What does
not, and is a behaviour of the model: a grant that was stored and replaced may stay valid, when two callbacks
read the same previous credential, when that read fails, or when the handler dies between the batch and the
revocation; and a folder may be bound with a credential that has just been replaced (`StoreBinding`). The
hazards at index.ts:6680 and 6728 quote what the documents say of these.

### Award: links, decisions, corrections, ERP

| Definition | Code |
|---|---|
| `ReceiveLink`, `CommitLink` | POST links (1738-1780) |
| `ReceiveDecision`, `CommitDecision`, `CheckDecision` | decision and receptions (1784-1845) |
| `ReceiveAdjust`, `CommitAdjust` | correction of an award (1621-1645) |
| `Retry`, `Dispatch`, `Post`, `Record` | erp-sync (3466-3473), `dispatchErpProjectSync` (1502-1534) |
| `Advance`, `EditCase` | the other writers of the case (3810-3822, 3125) |

`configured` (there is an ERP bridge) and `steady` (no handler is lost) are chosen from `Worlds`.
`ErpRegistration`: a case is awarded to one proposal for good, the ERP learns of that one only,
and a registration is confirmed only after the ERP has it.

### ProjectSchedule and CaseDesk: the page of a case

| Definition | Code |
|---|---|
| `ReceiveProfile`, `CommitProfile` | PUT profile (3475-3491) |
| `ReceiveSave`, `CommitSave` | PUT stages (3493-3553) |
| `ReceiveChange`, `CommitChange`, `ReceiveDecision`, `CommitDecision` | change requests and decisions (3582-3624) |
| `ReceiveHide`, `CommitHide` | schedule visibility (3418-3464) |
| `InCharge`, `ChangeGuard`, `DecisionGuard`, `NoticeGuard` | triggers of 0032 (197-240) |
| `...Kickoff`, `...Minutes`, `...Survey`, `...Summary`, `...Confirm`, `...Allocation` | `handlePreviewCaseWorkflow` (1163-1347) |
| `...Case`, `...Catalog`, `...Status`, `EditCase` | `handlePreviewCases` (3664-3820) |

`ProjectSchedule` is the schedule of one project: PM, stages, changes, notices, visibility. `CaseDesk` extends it with the other tables of the page over
the same accounts and assignments: a handler of either may run between two steps of one
of the other, and `DeskNext` is a step of the schedule or one of the desk. `Worlds` says which handlers people call together.

### Accounts: sessions, passwords, registration

| Definition | Code |
|---|---|
| `ReceiveLogin`, `CommitLogin`, `EndSession` | login, logout and expiry (279-338) |
| `ReceiveApply`, `CommitApply`, `ReceiveVerdict`, `CommitVerdict` | registration requests (244-263, 645-667) |
| `ReceiveCreate`, `CommitCreate`, `ReceiveAction`, `CommitAction` | `handlePreviewAdminUsers` (683-746) |
| `ReceivePassword`, `CommitPassword` | `handlePreviewPasswordChange` (748-782) |
| `LastAdminGuard`, `LoginFree`, `Pending` | 0030, 0003, 0047 |

## What the runs check

Two handlers at a time are enough for every race listed as a hazard: each is between one
handler's reads and its batch, and one other batch. The bounds on versions leave room for
the version that is read and for the one or two that overtake it; a request that would pass
a bound is not received, so a bound cuts behaviours short and changes no step. Where the proofs below cover
a property they hold for all values; the run then shows that the cases occur (every action fires in some run)
and guards the model against later changes.

| Run | Asks | Instance |
|---|---|---|
| `ReportStudio` | `HistoryComplete`, `AcknowledgedIsKept`, `AppliedIsReviewed`, `ChapterChangeAuthorised`, `DocSpec` | admin, pm, staff; the PM is named in the run and suspendable; 1 chapter, 2 texts (one with a `$` pattern); 2 report and 3 chapter versions; the requests of the pm, whose rights are those that go stale (`Callers`; the proofs cover all others) |
| `ReportApproval` | `LogsAreTrue`, `OneEmailPerReview`, `AcceptedIsStored`, `DecisionIndependent`, `LedgerSpec` | ceo, director (suspendable), pm (joins in the run), staff; 1 key, 2 versions, one format |
| `ReportAuthoring` | `OnlyReleasedRules`, `GenerationsTraceable`, `RuleBookSpec` | admin (not assigned) and a suspendable pm; 1 chapter, 1 rule (the LIMIT of 8 is not reached; the proofs hold for any); 2 versions of prompt and outline, 2 generations; 3 worlds |
| `DriveUpload` | `DraftFileOnce`, `Registered`, `UploadSpec`, `ReservationSettles` | 3 routes, 8 sets of faults, 2 keys, 2 files, one account that leaves and returns |
| `GoogleConnection` | `GrantsAreConsented`, `StoredIsLive` | 3 consents, 2 allowed tokens and one of a foreign account, all 64 sets of faults |
| `Award` | `DecidedOnce`, `CorrectionsAreRecorded`, `RegistrationSpec`, `DispatchSettles` | 2 proposals, 3 versions of case and state, 3 worlds |
| `CaseDesk` | `TracesAreTrue`, `NothingOverwritten`, `WrittenInCharge`, `ApprovedIsScheduled`, `SummaryOfNotes`, `AnsweredIsKept` | admin, two PMs of whom one leaves; 1 stage, 2 dates, 1 change; 2 texts, 1 key; 9 worlds |
| `Accounts` | `AdminRemains`, `RecordsAgree`, `ProvenPassword` | two administrators, one login, 3 passwords, 2 tokens, 2 applications, 4 sets of handlers |

Each run also checks its type invariant. `CHECK_DEADLOCK FALSE` stands where the bounds or the code may stop
the system: no version or generation left (`Award`, `CaseDesk`, `Accounts`, `ReportAuthoring`), no consent or token left (`GoogleConnection`).

Symmetry: handlers are interchangeable everywhere; so are states and allowed tokens, dates and texts,
administrators, applications and passwords of `Accounts`. The accounts of the other modules differ in their roles. The two runs with a
liveness property, `DriveUpload` and `Award`, use no symmetry.

Fairness: a Worker runs a request to its answer unless its isolate is evicted, so the liveness
properties assume weak fairness of each handler's next step (`Handle(r)`, `Progress(r)`) and of
nothing else: nobody has to send a request. Evictions are excluded by the worlds the properties name
("crash" not in `faults`, `steady`): with them a reservation stays PENDING, because nothing in the code
takes it up again. `ReservationSettles` excludes failed D1 statements too ("database" not in `faults`): the
UPDATE that settles is tried once and its failure is swallowed, and a folder SELECT that throws ends in a
catch that does not settle. `DispatchSettles` likewise takes a D1 that answers.

Four runs expect a violation; each states what a text of the repository says and finds the code
doing otherwise (PROJECT.json, "findings", quotes both):

- `ReportStudioReviewedTextIsApplied`: APPLY loses the race for the report, the chapter is recorded
  APPLIED all the same, and no version of the report has the text; or it loses the race for the
  chapter, and a text nobody marked READY is in the report.
- `AwardAcceptedIsContract`: an acceptance whose case UPDATE misses is taken for success when the
  other writer moved the case by exactly one version: the ERP gets a project whose case is no contract.
- `CaseDeskSurveySaved`: two saves of a survey that read the same versions are both answered 200,
  and one of the two is stored nowhere.
- `ReportAuthoringApprovedOutlineIsTaken`: with an archived chapter in the prompt set, the handler
  asks for the outline of the approved chapters and the trigger for that of all: none can be stored.

The first three come from one mistake: a batch is read as all-or-nothing, or a version found after
it as one's own, although a missed UPDATE does not fail a batch.

## What is proved

TLAPS proves the theorems below for every value of the constants: any number of accounts, handlers,
versions, keys, files and tokens. The only assumptions are those the modules name
(`StudioAssumption`, `ApprovalAssumption`, `AuthoringAssumption`, `UploadAssumption`,
`ConnectionAssumption`, `AwardAssumption`, `ScheduleAssumption`, `DeskAssumption`,
`AccountsAssumption`): the null values are no members of the sets, roles are subsets of the accounts,
bounds are positive. TLC evaluates each of them in the runs.

Every safety property of every passing run is a theorem. The proofs have one shape: an
inductive invariant `Inv`, `InvInit`, one lemma per action, `InvNext`, and the theorems from it. What makes the
properties inductive is, in every module, a statement of *what a handler in flight knows*
(`Flight(q)`, `CallOK`, `KeysOK`): the rows it has read only grow in a way that keeps what it
concluded, so nothing has to be said about who else runs.

| Theorems | Property | Argument |
|---|---|---|
| ReportStudioProofs `Typed`, `History`, `StoreIsDocument`, `PromisesKept` | `TypeOK`, `HistoryComplete`, `DocSpec`, `AcknowledgedIsKept` | a batch either finds the draft at the version it expects and writes the next into both tables, or it meets the UNIQUE key of the writer who was faster (`HistoryStep`); so the history only grows by one content. A request in flight has no answer yet (`Unanswered`) |
| `Authority` | `ChapterChangeAuthorised` | the handlers' checks are not used: the triggers repeat them against the people of the moment on the very row stored (`GuardAuthorises`) |
| `ReviewedBeforeApplied` | `AppliedIsReviewed` | not inductive alone: a batch whose UPDATE missed could add a revision to another's APPLIED row. `Logged`: such a row has its revision, so the batch meets its key |
| ReportApprovalProofs `Typed`, `LogsTrue`, `MailedOnce`, `Accepted`, `Independent`, `LedgerKept` | all six of the run | `Inv` = tables, requests, `MailInv` (at most one handler on its way to the mail of a version, none once it is mailed), `DecisionRecorded`, `OutputLogged` |
| ReportAuthoringProofs `Typed`, `ReleasedRules`, `Traceable`, `BookKept` | all four | `OwnersOK`: a generation belongs to one handler until its evidence is recorded; `PlanOK`: the history has the version of every prompt, and the outline names none that is not there yet; `Undisturbed` and `EvidenceKept` are proved by an induction of their own, over the worlds without bridge, losses and suspensions: whoever owns a generation is still assigned and active when its evidence is stored. A rule once released stays released or disabled, which is all a generation in flight needs |
| DriveUploadProofs `Typed`, `HeldOneTime`, `AnsweredRegistered`, `UploadKept` | all but the liveness | `OneWorker`: one handler at a time works for a key; `KeysOK`: what the state of a key says of the file in Drive; `FilesApart`: two keys that count have different files. None of the three is inductive without the others |
| GoogleConnectionProofs `Typed`, `Consented`, `StoredLive` | all three | `Counts`: tokens issued plus handlers about to exchange never exceed the consents taken up, over finite sets; `Knows`: what a handler may revoke was stored once and is in the row no more (or was read to be disconnected), and what it is about to store is new to the row |
| AwardProofs `Typed`, `DecidedOneTime`, `Corrections`, `ErpIsKeptPromise` | all but the liveness | `Records`: the two invariants; `ErpInv`: the ERP has heard of the awarded proposal or of none, and of it if the outbox row says so |
| CaseDeskProofs `Typed`, `Traces`, `ApprovedScheduled`, `InChargeWrites`, `OthersKept` | the schedule's, under `Spec` | `ToldInv`: which notices there are about a change; the guards of 0032 for who writes |
| `ScheduleOfDesk`, `PageKeepsSchedule` | the same, under `DeskSpec` | every step of the page is a step of the schedule or leaves its variables alone |
| `DeskTyped`, `SummaryTrue`, `AnswersKept` | `SummaryOfNotes`, `AnsweredIsKept` | `LogOK`: the save that gave the output its version is the text beside it; rows whose version stays are unchanged (`Grows`), so an answered call stays true |
| AccountsProofs `Typed`, `SomeAdmin`, `Audited`, `PasswordsAreProven` | all four | a password only moves with its account's version, so the version a request carries is worth the proof it gave; the trigger keeps the last administrator whoever else acts; `EventsOfAccounts` (the log knows only versions that were) makes the first row of a new account the only one |

Three things the proofs showed about the models: the type invariant of `GoogleConnection` said less than it meant (an
implication that swallowed the conjuncts after it), `KeyedUpload` had an action nested
in another's quantifier, and an outline of `ReportAuthoring` is only typed if there is a first prompt version
(`MaxPromptVersion` is positive). All three are corrected.

Only model-checked:

- `ReservationSettles` and `DispatchSettles`, liveness under fairness, which is out of the provers' reach;
- the four refuted statements, which are TLC's counterexamples.

What the code does not keep is no property here, and the models do it: a switch of the Drive account may leave the
old grant or a binding of the old account behind, a case file in Drive may be given up as FAILED, a
reservation may stay PENDING, a generation may lose its evidence, an approval that loses to a rejection still
makes the account. PROJECT.json, "hazards", names the line and the text of the repository, if there is one, for each.

## Not modelled

- *Within the modelled parts*: titles, editor JSON, wizard state, hashes and the text of prompts, notes
  and chapters (data no property tells apart); the activity log (written unconditionally, read by
  nobody); GET handlers; the fallbacks for databases on which a migration has not run (but a failed read of the outline,
  which is taken for such a database, is the element `unread` of `world` in `ReportAuthoring`). That a mail is
  delivered after an eviction is not promised by the code: nothing takes a PENDING row up again.
- *Evidence*: the lookup and creation of the folder path below the root (google-drive.ts:340-513);
  Drive has no unique names, and the files are found by their id.
- *Intake*: the upload of an intake source and its audio (index.ts:3058-3164), whose operation rows are those of
  the case route over a table of its own; the editing of parties; the import log of the AI.
- *Proposal studio* (2607-2993), *litigation records* (2001-2275), *workspace settings, templates, catalog, cards* and
  *AI settings*: single rows with a version check, the pattern `ReportStudio` and `CaseDesk` check.
- *Node API server, Node AI gateway, Google Workspace integration, backup and restore* (apps/api): the
  earlier implementation of the same workflows on Prisma, and external I/O; see the plan.
- *Web client, document engine, collaboration kit, database package*: screens, rendering and
  deployment without a protocol of their own; a client is the requests it may send.

## Plan

1. **Backup and restore** and the storage of the **Node API**: the signed snapshot, the staged restore and a
   crash between two of its steps; review, finalization and fees of the Node server (server.ts 4479-6797), as another
   implementation of `ApprovalLedger`.
2. **Proposal studio**: its drafts as a second implementation of `VersionedDocument`, composed with `Award`.
3. **Composition** of ReportStudio and ReportApproval over one report: what a chapter applied while a review is
   open means for the version the review decides.
4. Proofs with each of them, in the shape above.
