---------------------------- MODULE ReportStudio ----------------------------
(***************************************************************************)
(* The report of one case in the Worker (apps/cloudflare): its draft row,  *)
(* its append-only revisions, and the chapters its members write apart and *)
(* the responsible PM applies to the whole report.                         *)
(*                                                                         *)
(* A request is a handler running in the Worker.  It awaits between the    *)
(* checks, the reads and the D1 batch, so other requests run in between;   *)
(* the batch itself is one transaction.  A statement of a batch that       *)
(* matches no row is not an error: the rest of the batch still commits.    *)
(* Only a trigger's RAISE(ABORT) or a broken constraint rolls it back.     *)
(*                                                                         *)
(* A handler's session, access and role checks and its first read of the   *)
(* versioned row are one step.  Nothing is lost: versions only grow and a  *)
(* client sends one it has seen, so when the read finds the expected       *)
(* version the row has not moved since the request arrived.  A request     *)
(* with an older version, or without the right, is answered 409 or 403     *)
(* there and changes nothing: it is no step at all.                        *)
(*                                                                         *)
(* updated_at stamps are kept out of the state.  They matter only where a  *)
(* statement looks for the row this same batch wrote (version AND stamp):  *)
(* a row another request wrote can carry the same stamp, so `tie` chooses. *)
(***************************************************************************)
EXTENDS Integers, FiniteSets

CONSTANTS
    Users, NoUser,      \* accounts of the organization
    Admins,             \* accounts whose roles hold admin
    Leads,              \* accounts whose roles hold ceo, director or pm
    PmCandidates,       \* accounts a project may name as responsible PM
    FirstMembers,       \* accounts assigned to the case at the start
    FirstPm,            \* responsible PM at the start, NoUser: no profile yet
    Suspendable,        \* accounts an administrator (de)activates in the model
    Callers,            \* accounts whose requests the model looks at
    Chapters,           \* chapters of the active prompt set
    Texts,              \* non-blank chapter texts
    PatternTexts,       \* texts holding a $ pattern of String.replace
    Blank, Garbled,     \* an empty text; a block String.replace rewrote
    NoBlock,            \* a report without a block for the chapter
    Requests,           \* handlers that may run at the same time
    MaxVersion,         \* bound: report versions
    MaxChapterVersion   \* bound: versions of a chapter assignment

ASSUME StudioAssumption ==
    /\ NoUser \notin Users
    /\ Admins \subseteq Users /\ Leads \subseteq Users
    /\ PmCandidates \subseteq Users /\ FirstMembers \subseteq Users
    /\ FirstPm \in Users \cup {NoUser} /\ Suspendable \subseteq Users
    /\ Callers \subseteq Users
    /\ PatternTexts \subseteq Texts
    /\ Blank \notin Texts /\ "none" \notin Chapters
    /\ MaxVersion \in Nat /\ MaxChapterVersion \in Nat

VARIABLES
    draft,              \* preview_report_drafts: the row, version 0 for none
    revisions,          \* preview_report_revisions: version -> content
    chapter,            \* preview_report_chapter_assignments, version 0 for none
    chapterRevisions,   \* preview_report_chapter_revisions: version -> row
    members,            \* preview_case_assignments of the case
    responsiblePm,      \* preview_project_schedule_profiles.responsible_pm_id
    active,             \* preview_users.is_active
    request             \* the handlers in flight, or their last answer

store == <<draft, revisions>>
board == <<chapter, chapterRevisions>>
people == <<members, responsiblePm, active>>
vars == <<draft, revisions, chapter, chapterRevisions,
          members, responsiblePm, active, request>>
-----------------------------------------------------------------------------
(* A report is its chapter blocks, each between its CHAPTER markers.       *)
Blocks == Texts \cup {Blank, Garbled, NoBlock}
Content == [Chapters -> Blocks]
EmptyContent == [c \in Chapters |-> NoBlock]
(* What the inputs of a full-report save range over: the editor's texts.   *)
EditorContent == [Chapters -> Texts \cup {NoBlock}]

ChapterStatus == {"UNASSIGNED", "IN_PROGRESS", "READY", "APPLIED"}
ChapterTexts == Texts \cup {Blank}
Someone == Users \cup {NoUser}

ChapterRow == [version : Nat, assignee : Someone, status : ChapterStatus,
               text : ChapterTexts, updatedBy : Someone]
ChapterRevision == [status : ChapterStatus, text : ChapterTexts, savedBy : Users]

NoRow == [version |-> 0, assignee |-> NoUser, status |-> "UNASSIGNED",
          text |-> Blank, updatedBy |-> NoUser]

(* One request: what the client sent, what the handler has read so far,    *)
(* and what it answered and which tables it changed, as far as they are    *)
(* asked about later.                                                      *)
RequestKind == {"none", "save", "assign", "SAVE", "MARK_READY", "APPLY"}
Request == [kind : RequestKind,
            phase : {"idle", "reviewed", "read", "answered"},
            user : Someone, chapter : Chapters \cup {"none"},
            content : Content,          \* body of a full save; report read by APPLY
            text : ChapterTexts,        \* body.draftText
            assignee : Someone,         \* body.assigneeId
            expected : Nat,             \* body.expectedVersion
            expectedReport : Nat,       \* body.expectedReportVersion
            answer : {"none", "ok", "conflict"},
            wrote : SUBSET {"report", "chapter"}]

Idle == [kind |-> "none", phase |-> "idle", user |-> NoUser, chapter |-> "none",
         content |-> EmptyContent, text |-> Blank, assignee |-> NoUser,
         expected |-> 0, expectedReport |-> 0, answer |-> "none", wrote |-> {}]

Free(r) == request[r].phase \in {"idle", "answered"}
Reading(r, kinds) == request[r].kind \in kinds /\ request[r].phase = "read"

(* Request r goes on as q.                                                 *)
Begin(r, q) == request' = [request EXCEPT ![r] = q]
(* 409 or 500 with nothing written, and the answers nobody asks about.     *)
Done(r) == request' = [request EXCEPT ![r] = Idle]
Answer(r, answer, wrote) ==
    Begin(r, [request[r] EXCEPT !.phase = "answered", !.user = NoUser,
                                !.answer = answer, !.wrote = wrote])

(* What D1 asks of a statement: UPDATE ... WHERE version = expected finds  *)
(* its row, and UNIQUE (case, version) refuses a second row of a version.  *)
StillAt(row, v) == row.version = v

(* Mutant: the history tables have no UNIQUE key.                          *)
TakenNever(table, v) == FALSE
Taken(table, v) == v \in DOMAIN table

(* A table keyed by version, with one more row.                            *)
(* Mutant: a save prunes the versions before it.                           *)
WithRowOnly(table, v, row) == [w \in {v} |-> row]
WithRow(table, v, row) ==
    [w \in DOMAIN table \cup {v} |-> IF w = v THEN row ELSE table[w]]
-----------------------------------------------------------------------------
(* Who may do what.  CanManage is the handlers' check, ManagesNow what the *)
(* triggers ask of the actor when the batch commits.                       *)
HasAccess(u) == u \in active /\ (u \in Admins \/ u \in members)

CanManage(u) ==
    \/ u \in Admins
    \/ responsiblePm = u
    \/ responsiblePm = NoUser /\ u \in Leads /\ u \in members

ManagesNow(u) == u \in active /\ (u \in Admins \/ responsiblePm = u)

(* preview_report_chapter_assignment_insert_guard lets the INSERT through. *)
InsertGuard(u, assignee) ==
    /\ ManagesNow(u)
    /\ assignee # NoUser => assignee \in active

(* preview_report_chapter_assignment_update_guard lets the UPDATE through. *)
(* Mutant: the trigger trusts the handler's check of an unchanged row.     *)
UpdateGuardTrusting(u, old, new) ==
    /\ u \in active
    /\ new.assignee # old.assignee => ManagesNow(u)
    /\ new.status = "APPLIED" => ManagesNow(u)
UpdateGuard(u, old, new) ==
    /\ u \in active
    /\ new.assignee # old.assignee => ManagesNow(u)
    /\ new.assignee = old.assignee => u = old.assignee \/ ManagesNow(u)
    /\ new.status = "APPLIED" => ManagesNow(u)

(* preview_report_chapter_revision_insert_guard lets the INSERT through:   *)
(* the revision is a copy of the canonical assignment row.                 *)
(* Mutant: the trigger does not compare the texts.                         *)
RevisionGuardAnyText(row, rev) ==
    /\ row.status = rev.status
    /\ row.updatedBy = rev.savedBy
RevisionGuard(row, rev) ==
    /\ row.status = rev.status
    /\ row.text = rev.text
    /\ row.updatedBy = rev.savedBy

(* replacePreviewReportChapter: the chapter's block is replaced, or added  *)
(* at the end when the report has none.  Replacing goes through            *)
(* String.replace, which rewrites the $ patterns of the new block.         *)
ReplaceChapter(content, c, text) ==
    [content EXCEPT ![c] = IF @ # NoBlock /\ text \in PatternTexts
                           THEN Garbled ELSE text]
-----------------------------------------------------------------------------
(* PUT /api/report-drafts: save the whole report.                          *)
ReceiveSave(r, u, content) ==
    /\ Free(r)
    /\ HasAccess(u) /\ CanManage(u)
    /\ draft.version < MaxVersion
    /\ Begin(r, [Idle EXCEPT !.kind = "save", !.phase = "read", !.user = u,
                             !.content = content, !.expected = draft.version])
    /\ UNCHANGED <<store, board, people>>

(* The batch.  expected = 0 inserts the first row and catches the broken   *)
(* key; later saves update the row WHERE version = expected and insert the *)
(* revision WHERE the row has the next version, whoever gave it that.      *)
CommitSave(r) ==
    LET q == request[r]
        next == q.expected + 1
        hit == StillAt(draft, q.expected)
        inserts == hit \/ StillAt(draft, next)
        aborts == (q.expected = 0 /\ ~hit) \/ (inserts /\ Taken(revisions, next))
    IN  /\ Reading(r, {"save"})
        /\ IF aborts
              THEN Done(r) /\ UNCHANGED store
              ELSE /\ draft' = IF hit THEN [version |-> next, content |-> q.content]
                                     ELSE draft
                   /\ revisions' = IF inserts THEN WithRow(revisions, next, q.content)
                                             ELSE revisions
                   /\ IF hit THEN Answer(r, "ok", {"report"}) ELSE Done(r)
        /\ UNCHANGED <<board, people>>
-----------------------------------------------------------------------------
(* PUT /api/report-chapter-collaboration: name the chapter's assignee.     *)
ReceiveAssign(r, u, c, assignee) ==
    /\ Free(r)
    /\ HasAccess(u) /\ CanManage(u)
    /\ assignee # NoUser => assignee \in active
    /\ chapter[c].version < MaxChapterVersion
    /\ Begin(r, [Idle EXCEPT !.kind = "assign", !.phase = "read", !.user = u,
                             !.chapter = c, !.assignee = assignee,
                             !.expected = chapter[c].version])
    /\ UNCHANGED <<store, board, people>>

(* An assignment to nobody grants nothing.  Mutant: it is not asked.       *)
GrantUnasked(assignee) == {assignee}
Grant(assignee) == {assignee} \ {NoUser}

(* The batch: insert or update the row, then give the assignee access to   *)
(* the case.  The second statement does not ask whether the first one      *)
(* matched a row.                                                          *)
CommitAssign(r) ==
    LET q == request[r]
        old == chapter[q.chapter]
        hit == StillAt(old, q.expected)
        new == [old EXCEPT !.version = q.expected + 1, !.assignee = q.assignee,
                           !.status = IF q.assignee = NoUser THEN "UNASSIGNED"
                                                             ELSE "IN_PROGRESS",
                           !.updatedBy = q.user]
        aborts == IF q.expected = 0
                    THEN ~hit \/ ~InsertGuard(q.user, q.assignee)
                    ELSE hit /\ ~UpdateGuard(q.user, old, new)
    IN  /\ Reading(r, {"assign"})
        /\ Done(r)
        /\ IF aborts
              THEN UNCHANGED <<chapter, members>>
              ELSE /\ members' = members \cup Grant(q.assignee)
                   /\ chapter' = IF hit THEN [chapter EXCEPT ![q.chapter] = new]
                                        ELSE chapter
        /\ UNCHANGED <<store, chapterRevisions, responsiblePm, active>>
-----------------------------------------------------------------------------
(* POST /api/report-chapter-collaboration: SAVE and MARK_READY store the   *)
(* chapter's own text, APPLY puts it into the report.                      *)
ReceiveChapter(r, action, u, c, text) ==
    LET current == chapter[c] IN
    /\ Free(r)
    /\ HasAccess(u)
    /\ current.version > 0
    /\ CanManage(u) \/ current.assignee = u
    /\ action # "SAVE" => text # Blank
    /\ action = "APPLY" => /\ CanManage(u) /\ current.status = "READY"
                           /\ draft.version \in 1..(MaxVersion - 1)
    /\ current.version < MaxChapterVersion
    /\ Begin(r, [Idle EXCEPT !.kind = action, !.user = u, !.chapter = c, !.text = text,
                             !.phase = IF action = "APPLY" THEN "reviewed" ELSE "read",
                             !.expected = current.version,
                             !.expectedReport = IF action = "APPLY" THEN draft.version ELSE 0])
    /\ UNCHANGED <<store, board, people>>

(* APPLY goes on to read the report it is going to change.                 *)
ReadReport(r) ==
    /\ request[r].phase = "reviewed"
    /\ IF draft.version = request[r].expectedReport
          THEN Begin(r, [request[r] EXCEPT !.phase = "read", !.content = draft.content])
          ELSE Done(r)
    /\ UNCHANGED <<store, board, people>>

(* The batch of SAVE and MARK_READY: the row, then its revision WHERE the  *)
(* row has the next version and this batch's stamp.                        *)
CommitChapterText(r, tie) ==
    LET q == request[r]
        old == chapter[q.chapter]
        next == q.expected + 1
        hit == StillAt(old, q.expected)
        status == IF q.kind = "MARK_READY" THEN "READY" ELSE "IN_PROGRESS"
        new == IF hit THEN [old EXCEPT !.version = next, !.status = status,
                                       !.text = q.text, !.updatedBy = q.user]
                      ELSE old
        rev == [status |-> status, text |-> q.text, savedBy |-> q.user]
        inserts == hit \/ (StillAt(old, next) /\ tie)
        aborts == \/ hit /\ ~UpdateGuard(q.user, old, new)
                  \/ inserts /\ \/ ~RevisionGuard(new, rev)
                                \/ Taken(chapterRevisions[q.chapter], next)
    IN  /\ Reading(r, {"SAVE", "MARK_READY"})
        /\ Done(r)
        /\ IF aborts
              THEN UNCHANGED board
              ELSE /\ chapter' = [chapter EXCEPT ![q.chapter] = new]
                   /\ chapterRevisions' =
                        IF inserts THEN [chapterRevisions EXCEPT ![q.chapter] =
                                                                WithRow(@, next, rev)]
                                   ELSE chapterRevisions
        /\ UNCHANGED <<store, people>>

(* The batch of APPLY: the report and its revision, then the assignment    *)
(* WHERE it is still READY at the expected version, and its revision.  The *)
(* text is the one in the body, and each half may miss its row alone.      *)
CommitApply(r, reportTie, chapterTie) ==
    LET q == request[r]
        old == chapter[q.chapter]
        nextReport == q.expectedReport + 1
        next == q.expected + 1
        content == ReplaceChapter(q.content, q.chapter, q.text)
        reportHit == StillAt(draft, q.expectedReport)
        reportInserts == reportHit \/ (StillAt(draft, nextReport) /\ reportTie)
        chapterHit == StillAt(old, q.expected) /\ old.status = "READY"
        new == IF chapterHit THEN [old EXCEPT !.version = next, !.status = "APPLIED",
                                              !.updatedBy = q.user]
                             ELSE old
        rev == [status |-> "APPLIED", text |-> q.text, savedBy |-> q.user]
        chapterInserts == chapterHit \/ (StillAt(old, next) /\ chapterTie)
        aborts == \/ reportInserts /\ Taken(revisions, nextReport)
                  \/ chapterHit /\ ~UpdateGuard(q.user, old, new)
                  \/ chapterInserts /\ \/ ~RevisionGuard(new, rev)
                                       \/ Taken(chapterRevisions[q.chapter], next)
    IN  /\ Reading(r, {"APPLY"})
        /\ IF aborts
              THEN Done(r) /\ UNCHANGED <<store, board>>
              ELSE /\ draft' = IF reportHit
                                 THEN [version |-> nextReport, content |-> content]
                                 ELSE draft
                   /\ revisions' = IF reportInserts
                                     THEN WithRow(revisions, nextReport, content)
                                     ELSE revisions
                   /\ chapter' = [chapter EXCEPT ![q.chapter] = new]
                   /\ chapterRevisions' =
                        IF chapterInserts THEN [chapterRevisions EXCEPT ![q.chapter] =
                                                                       WithRow(@, next, rev)]
                                          ELSE chapterRevisions
                   /\ IF reportHit \/ chapterHit
                        THEN Answer(r, IF reportHit /\ chapterHit THEN "ok" ELSE "conflict",
                                    (IF reportHit THEN {"report"} ELSE {}) \cup
                                    (IF chapterHit THEN {"chapter"} ELSE {}))
                        ELSE Done(r)
        /\ UNCHANGED people
-----------------------------------------------------------------------------
(* PUT .../profile names the responsible PM and makes them a member.  Its  *)
(* own version race is not this module's subject: one step.                *)
NamePm(actor, pm) ==
    /\ HasAccess(actor) /\ actor \in Admins \cup Leads
    /\ responsiblePm # NoUser => actor \in Admins \/ actor = responsiblePm
    /\ pm \in PmCandidates \cap active
    /\ responsiblePm' = pm
    /\ members' = members \cup {pm}
    /\ UNCHANGED <<store, board, active, request>>

(* PUT /api/admin/users/<id>: an administrator deactivates another account *)
(* or activates one again; the last active administrator stays.            *)
Deactivate(admin, u) ==
    /\ admin \in Admins \cap active /\ admin # u
    /\ u \in Suspendable \cap active
    /\ active' = active \ {u}
    /\ UNCHANGED <<store, board, members, responsiblePm, request>>

Activate(admin, u) ==
    /\ admin \in Admins \cap active
    /\ u \in Suspendable \ active
    /\ active' = active \cup {u}
    /\ UNCHANGED <<store, board, members, responsiblePm, request>>
-----------------------------------------------------------------------------
Init ==
    /\ draft = [version |-> 0, content |-> EmptyContent]
    /\ revisions = [v \in {} |-> EmptyContent]
    /\ chapter = [c \in Chapters |-> NoRow]
    /\ chapterRevisions = [c \in Chapters |-> [v \in {} |-> NoRow]]
    /\ members = FirstMembers
    /\ responsiblePm = FirstPm
    /\ active = Users
    /\ request = [r \in Requests |-> Idle]

Receive(r, u) ==
    \/ \E content \in EditorContent : ReceiveSave(r, u, content)
    \/ \E c \in Chapters, a \in Someone : ReceiveAssign(r, u, c, a)
    \/ \E action \in {"SAVE", "MARK_READY", "APPLY"}, c \in Chapters, text \in ChapterTexts :
          ReceiveChapter(r, action, u, c, text)

Commit(r) ==
    \/ CommitSave(r)
    \/ CommitAssign(r)
    \/ \E tie \in BOOLEAN : CommitChapterText(r, tie)
    \/ \E reportTie, chapterTie \in BOOLEAN : CommitApply(r, reportTie, chapterTie)

Administer ==
    \/ \E actor \in Users, pm \in PmCandidates : NamePm(actor, pm)
    \/ \E admin \in Users, u \in Suspendable : Deactivate(admin, u) \/ Activate(admin, u)

Next ==
    \/ \E r \in Requests : (\E u \in Callers : Receive(r, u)) \/ ReadReport(r) \/ Commit(r)
    \/ Administer

Spec == Init /\ [][Next]_vars
-----------------------------------------------------------------------------
(* The requests are well formed: one in flight has a user, and a chapter   *)
(* unless it saves the whole report.                                       *)
RequestsOK ==
    /\ request \in [Requests -> Request]
    /\ \A r \in Requests : ~Free(r) =>
          /\ request[r].user \in Users
          /\ request[r].kind # "save" => request[r].chapter \in Chapters

(* Type correctness of the tables and of the requests in flight.           *)
TypeOK ==
    /\ draft \in [version : Nat, content : Content]
    /\ DOMAIN revisions \subseteq Nat
    /\ \A v \in DOMAIN revisions : revisions[v] \in Content
    /\ chapter \in [Chapters -> ChapterRow]
    /\ DOMAIN chapterRevisions = Chapters
    /\ \A c \in Chapters : /\ DOMAIN chapterRevisions[c] \subseteq Nat
                           /\ \A v \in DOMAIN chapterRevisions[c] :
                                 chapterRevisions[c][v] \in ChapterRevision
    /\ members \subseteq Users /\ responsiblePm \in Someone /\ active \subseteq Users
    /\ RequestsOK

(* No saved version is missing from the history, and the newest revision   *)
(* is what the draft row holds: whatever requests race, a backup can       *)
(* restore every version the editor was ever told about.                   *)
HistoryComplete ==
    /\ DOMAIN revisions = 1..draft.version
    /\ draft.version > 0 => revisions[draft.version] = draft.content

(* A save or an apply that was answered 200 is in the history at the       *)
(* version it was promised, with the content it was sent or computed: no   *)
(* racing writer took its place.                                           *)
AcknowledgedIsKept ==
    \A r \in Requests : request[r].answer = "ok" =>
        LET q == request[r] IN
        /\ q.kind = "save" => /\ q.expected + 1 \in DOMAIN revisions
                              /\ revisions[q.expected + 1] = q.content
        /\ q.kind = "APPLY" => /\ q.expectedReport + 1 \in DOMAIN revisions
                               /\ revisions[q.expectedReport + 1] =
                                     ReplaceChapter(q.content, q.chapter, q.text)

(* A chapter waiting for the PM is in the chapter history as the reviewed  *)
(* text, and what is recorded as APPLIED is, word for word, the text that  *)
(* was READY one version before: the PM's body cannot slip in another.     *)
AppliedIsReviewed ==
    \A c \in Chapters :
        LET log == chapterRevisions[c] IN
        /\ chapter[c].status = "READY" =>
              /\ chapter[c].version \in DOMAIN log
              /\ log[chapter[c].version].status = "READY"
              /\ log[chapter[c].version].text = chapter[c].text
        /\ \A v \in DOMAIN log : log[v].status = "APPLIED" =>
              /\ v - 1 \in DOMAIN log
              /\ log[v - 1].status = "READY"
              /\ log[v - 1].text = log[v].text

(* Whoever changes a chapter's row may do so when the row changes, not     *)
(* only when the handler looked: only an administrator or the PM of that   *)
(* moment moves an assignee or applies, and only they or the assignee      *)
(* write its text.  A suspended account changes nothing.                   *)
ChapterChangeAuthorised ==
    [][\A c \in Chapters : chapter'[c] # chapter[c] =>
         LET u == chapter'[c].updatedBy IN
         /\ u \in active
         /\ \/ u \in Admins \/ u = responsiblePm
            \/ /\ u = chapter[c].assignee /\ u = chapter'[c].assignee
               /\ chapter'[c].status # "APPLIED"]_vars

(* The store keeps what VersionedDocument promises.                        *)
Doc == INSTANCE VersionedDocument
         WITH history <- [v \in 1..draft.version |-> revisions[v]]
DocSpec == Doc!Spec
-----------------------------------------------------------------------------
(* What the studio's own texts say of APPLY, and the code does not keep.    *)

(* The PM applies reviewed chapters to the whole report: a chapter that an *)
(* apply marked APPLIED is, word for word, in some saved version, and a    *)
(* text that an apply brought into the report is on record as READY.       *)
ReviewedTextIsApplied ==
    \A r \in Requests :
        LET q == request[r] IN
        q.kind = "APPLY" =>
          /\ "chapter" \in q.wrote =>
                \E v \in DOMAIN revisions : revisions[v][q.chapter] = q.text
          /\ "report" \in q.wrote =>
                \E v \in DOMAIN chapterRevisions[q.chapter] :
                    LET rev == chapterRevisions[q.chapter][v]
                    IN  rev.status = "READY" /\ rev.text = q.text
=============================================================================
