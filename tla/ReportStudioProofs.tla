------------------------- MODULE ReportStudioProofs -------------------------
(***************************************************************************)
(* Theorems of ReportStudio for every set of users, chapters, texts and    *)
(* requests and every bound: first the drafts and their history, then who  *)
(* changes the chapters and what their history says of an applied one.     *)
(***************************************************************************)
EXTENDS ReportStudio, Sequences, TLAPS

LEMMA IdleType == Idle \in Request
  BY StudioAssumption DEF Idle, Request, RequestKind, Someone, EmptyContent,
     Content, Blocks, ChapterTexts

LEMMA ContentType ==
    /\ EmptyContent \in Content
    /\ EditorContent \subseteq Content
    /\ \A content \in Content, c \in Chapters, t \in ChapterTexts :
          ReplaceChapter(content, c, t) \in Content
  BY DEF EmptyContent, EditorContent, Content, Blocks, ChapterTexts, ReplaceChapter

LEMMA WithRowType ==
    ASSUME NEW table, NEW v \in Nat, NEW S, NEW row \in S,
           DOMAIN table \subseteq Nat, \A w \in DOMAIN table : table[w] \in S
    PROVE  /\ DOMAIN WithRow(table, v, row) \subseteq Nat
           /\ \A w \in DOMAIN WithRow(table, v, row) : WithRow(table, v, row)[w] \in S
  BY DEF WithRow

-----------------------------------------------------------------------------
(* How a handler moves its request on.                                     *)
LEMMA BeginType ==
    ASSUME RequestsOK, NEW r \in Requests, NEW n \in Request, n.user \in Users,
           n.kind # "save" => n.chapter \in Chapters, Begin(r, n)
    PROVE  RequestsOK'
  BY DEF RequestsOK, Begin, Free

LEMMA DoneType ==
    ASSUME RequestsOK, NEW r \in Requests
    PROVE  /\ Done(r) => RequestsOK'
           /\ \A a \in {"ok", "conflict"}, w \in SUBSET {"report", "chapter"} :
                Answer(r, a, w) => RequestsOK'
  <1>1. ASSUME Done(r) PROVE RequestsOK'
    BY <1>1, IdleType DEF RequestsOK, Done, Free, Idle
  <1>2. ASSUME NEW a \in {"ok", "conflict"}, NEW w \in SUBSET {"report", "chapter"},
               Answer(r, a, w)
        PROVE  RequestsOK'
    <2> DEFINE n == [request[r] EXCEPT !.phase = "answered", !.user = NoUser,
                                       !.answer = a, !.wrote = w]
    <2>1. n \in Request /\ n.phase = "answered"
      <3>1. request[r] \in Request
        BY DEF RequestsOK
      <3> QED BY <3>1 DEF Request, Someone
    <2>2. request' = [request EXCEPT ![r] = n]
      BY <1>2 DEF Answer, Begin
    <2> QED BY <2>1, <2>2 DEF RequestsOK, Free
  <1> QED BY <1>1, <1>2

LEMMA InFlightType ==
    ASSUME RequestsOK, NEW r \in Requests, NEW kinds, Reading(r, kinds)
    PROVE  /\ request[r] \in Request
           /\ request[r].user \in Users
           /\ request[r].expected + 1 \in Nat
           /\ request[r].expectedReport + 1 \in Nat
           /\ request[r].kind # "save" => request[r].chapter \in Chapters
  BY DEF RequestsOK, Reading, Free, Request

-----------------------------------------------------------------------------
(* TypeOK is inductive by itself: every handler keeps the tables and the   *)
(* requests well formed, whatever the others do meanwhile.                 *)
LEMMA TypeInit == Init => TypeOK
  BY IdleType, ContentType, StudioAssumption
     DEF Init, TypeOK, RequestsOK, Free, Idle, NoRow, ChapterRow, ChapterStatus,
         ChapterTexts, Someone

LEMMA TypeReceive ==
    ASSUME TypeOK, NEW r \in Requests, NEW u \in Users, Receive(r, u)
    PROVE  TypeOK'
  <1>1. draft.version \in Nat /\ \A c \in Chapters : chapter[c].version \in Nat
    BY DEF TypeOK, ChapterRow
  <1>2. ASSUME NEW content \in EditorContent, ReceiveSave(r, u, content)
        PROVE  TypeOK'
    <2> DEFINE n == [Idle EXCEPT !.kind = "save", !.phase = "read", !.user = u,
                                 !.content = content, !.expected = draft.version]
    <2>1. n \in Request /\ n.user \in Users /\ n.kind = "save"
      BY <1>1, IdleType, ContentType DEF Request, RequestKind, Someone, Idle
    <2>2. Begin(r, n)
      BY <1>2 DEF ReceiveSave
    <2>3. RequestsOK'
      BY <2>1, <2>2, BeginType DEF TypeOK
    <2> QED BY <1>2, <2>3 DEF TypeOK, ReceiveSave, store, board, people
  <1>3. ASSUME NEW c \in Chapters, NEW a \in Someone, ReceiveAssign(r, u, c, a)
        PROVE  TypeOK'
    <2> DEFINE n == [Idle EXCEPT !.kind = "assign", !.phase = "read", !.user = u,
                                 !.chapter = c, !.assignee = a,
                                 !.expected = chapter[c].version]
    <2>1. n \in Request
      BY <1>1, IdleType DEF Request, RequestKind, Someone
    <2>2. n.user \in Users /\ n.chapter \in Chapters
      BY DEF Idle
    <2>3. Begin(r, n)
      BY <1>3 DEF ReceiveAssign
    <2>4. RequestsOK'
      BY <2>1, <2>2, <2>3, BeginType DEF TypeOK
    <2> QED BY <1>3, <2>4 DEF TypeOK, ReceiveAssign, store, board, people
  <1>4. ASSUME NEW action \in {"SAVE", "MARK_READY", "APPLY"}, NEW c \in Chapters,
               NEW text \in ChapterTexts, ReceiveChapter(r, action, u, c, text)
        PROVE  TypeOK'
    <2> DEFINE n == [Idle EXCEPT !.kind = action, !.user = u, !.chapter = c, !.text = text,
                       !.phase = IF action = "APPLY" THEN "reviewed" ELSE "read",
                       !.expected = chapter[c].version,
                       !.expectedReport = IF action = "APPLY" THEN draft.version ELSE 0]
    <2>1. n \in Request
      <3>1. PICK phase \in {"reviewed", "read"}, report \in Nat :
              n = [Idle EXCEPT !.kind = action, !.user = u, !.chapter = c, !.text = text,
                               !.phase = phase, !.expected = chapter[c].version,
                               !.expectedReport = report]
        BY <1>1
      <3>2. chapter[c].version \in Nat
        BY <1>1
      <3>3. action \in RequestKind /\ u \in Someone /\ c \in Chapters \cup {"none"}
        BY DEF RequestKind, Someone
      <3> HIDE DEF n
      <3> QED BY <3>1, <3>2, <3>3, IdleType DEF Request
    <2>2. n.user \in Users /\ n.chapter \in Chapters
      BY DEF Idle
    <2>3. Begin(r, n)
      BY <1>4 DEF ReceiveChapter
    <2>4. RequestsOK'
      BY <2>1, <2>2, <2>3, BeginType DEF TypeOK
    <2> QED BY <1>4, <2>4 DEF TypeOK, ReceiveChapter, store, board, people
  <1> QED BY <1>2, <1>3, <1>4 DEF Receive

LEMMA TypeReadReport ==
    ASSUME TypeOK, NEW r \in Requests, ReadReport(r)
    PROVE  TypeOK'
  <1>1. CASE draft.version = request[r].expectedReport
    <2> DEFINE n == [request[r] EXCEPT !.phase = "read", !.content = draft.content]
    <2>1. n \in Request
      <3>1. request[r] \in Request /\ draft.content \in Content
        BY DEF TypeOK, RequestsOK
      <3> QED BY <3>1 DEF Request
    <2>2. n.user \in Users /\ (n.kind # "save" => n.chapter \in Chapters)
      BY DEF TypeOK, RequestsOK, ReadReport, Free, Request
    <2>3. Begin(r, n)
      BY <1>1 DEF ReadReport, Begin, TypeOK, RequestsOK
    <2>4. RequestsOK'
      BY <2>1, <2>2, <2>3, BeginType DEF TypeOK
    <2> QED BY <2>4 DEF TypeOK, ReadReport, store, board, people
  <1>2. CASE draft.version # request[r].expectedReport
    <2>1. RequestsOK'
      BY <1>2, DoneType DEF TypeOK, ReadReport
    <2> QED BY <2>1 DEF TypeOK, ReadReport, store, board, people
  <1> QED BY <1>1, <1>2

LEMMA TypeCommitSave ==
    ASSUME TypeOK, NEW r \in Requests, CommitSave(r)
    PROVE  TypeOK'
  <1> DEFINE q == request[r]
             next == q.expected + 1
  <1>1. q \in Request /\ next \in Nat /\ q.content \in Content
    BY InFlightType DEF TypeOK, CommitSave, Request
  <1>2. RequestsOK'
    BY DoneType DEF TypeOK, CommitSave
  <1>3. draft' \in [version : Nat, content : Content]
    <2>1. draft' = draft \/ draft' = [version |-> next, content |-> q.content]
      BY DEF CommitSave, store
    <2> QED BY <1>1, <2>1 DEF TypeOK
  <1>4. revisions' \in {revisions, WithRow(revisions, next, q.content)}
    BY DEF CommitSave, store
  <1>5. DOMAIN revisions' \subseteq Nat /\ \A v \in DOMAIN revisions' : revisions'[v] \in Content
    <2>1. CASE revisions' = revisions
      BY <2>1 DEF TypeOK
    <2>2. CASE revisions' = WithRow(revisions, next, q.content)
      BY <1>1, <2>2, WithRowType DEF TypeOK
    <2> QED BY <1>4, <2>1, <2>2
  <1> QED BY <1>2, <1>3, <1>5 DEF TypeOK, CommitSave, board, people

LEMMA TypeCommitAssign ==
    ASSUME TypeOK, NEW r \in Requests, CommitAssign(r)
    PROVE  TypeOK'
  <1> DEFINE q == request[r]
             old == chapter[q.chapter]
             new == [old EXCEPT !.version = q.expected + 1, !.assignee = q.assignee,
                                !.status = IF q.assignee = NoUser THEN "UNASSIGNED"
                                                                  ELSE "IN_PROGRESS",
                                !.updatedBy = q.user]
  <1>1. /\ q \in Request /\ q.expected + 1 \in Nat /\ q.user \in Users
        /\ q.chapter \in Chapters
    BY InFlightType DEF TypeOK, CommitAssign, Reading
  <1>2. RequestsOK'
    BY DoneType DEF TypeOK, CommitAssign
  <1>3. members' \subseteq Users
    BY <1>1 DEF CommitAssign, TypeOK, Request, Someone, Grant
  <1>4. chapter' \in [Chapters -> ChapterRow]
    <2>1. chapter' = chapter \/ chapter' = [chapter EXCEPT ![q.chapter] = new]
      BY DEF CommitAssign
    <2>2. old \in ChapterRow
      BY <1>1 DEF TypeOK
    <2>3. new \in ChapterRow
      BY <1>1, <2>2 DEF ChapterRow, ChapterStatus, Request, Someone
    <2> QED BY <2>1, <2>3 DEF TypeOK
  <1> QED BY <1>2, <1>3, <1>4 DEF TypeOK, CommitAssign, store

LEMMA BoardType ==
    ASSUME TypeOK, NEW c \in Chapters, NEW v \in Nat, NEW rev \in ChapterRevision,
           chapterRevisions' \in {chapterRevisions,
              [chapterRevisions EXCEPT ![c] = WithRow(@, v, rev)]}
    PROVE  /\ DOMAIN chapterRevisions' = Chapters
           /\ \A d \in Chapters : /\ DOMAIN chapterRevisions'[d] \subseteq Nat
                                  /\ \A w \in DOMAIN chapterRevisions'[d] :
                                        chapterRevisions'[d][w] \in ChapterRevision
  <1> DEFINE log == WithRow(chapterRevisions[c], v, rev)
  <1>1. DOMAIN log \subseteq Nat /\ \A w \in DOMAIN log : log[w] \in ChapterRevision
    BY WithRowType DEF TypeOK
  <1>2. CASE chapterRevisions' = chapterRevisions
    BY <1>2 DEF TypeOK
  <1>3. CASE chapterRevisions' = [chapterRevisions EXCEPT ![c] = log]
    <2> HIDE DEF log
    <2> QED BY <1>1, <1>3 DEF TypeOK
  <1> QED BY <1>2, <1>3

LEMMA TypeCommitChapterText ==
    ASSUME TypeOK, NEW r \in Requests, NEW tie \in BOOLEAN, CommitChapterText(r, tie)
    PROVE  TypeOK'
  <1> DEFINE q == request[r]
             c == q.chapter
             old == chapter[c]
             next == q.expected + 1
             status == IF q.kind = "MARK_READY" THEN "READY" ELSE "IN_PROGRESS"
             written == [old EXCEPT !.version = next, !.status = status,
                                    !.text = q.text, !.updatedBy = q.user]
             rev == [status |-> status, text |-> q.text, savedBy |-> q.user]
  <1>1. /\ q \in Request /\ next \in Nat /\ q.user \in Users /\ c \in Chapters
        /\ q.text \in ChapterTexts
    BY InFlightType DEF TypeOK, CommitChapterText, Reading, Request
  <1>2. RequestsOK'
    BY DoneType DEF TypeOK, CommitChapterText
  <1>3. chapter' \in [Chapters -> ChapterRow]
    <2>1. chapter' = chapter \/ chapter' = [chapter EXCEPT ![c] = written]
                             \/ chapter' = [chapter EXCEPT ![c] = old]
      BY DEF CommitChapterText, board
    <2>2. old \in ChapterRow
      BY <1>1 DEF TypeOK
    <2>3. written \in ChapterRow
      BY <1>1, <2>2 DEF ChapterRow, ChapterStatus, Someone
    <2> QED BY <2>1, <2>2, <2>3 DEF TypeOK
  <1>4. rev \in ChapterRevision
    BY <1>1 DEF ChapterRevision, ChapterStatus
  <1>5. chapterRevisions' \in {chapterRevisions,
           [chapterRevisions EXCEPT ![c] = WithRow(@, next, rev)]}
    BY DEF CommitChapterText, board
  <1>6. /\ DOMAIN chapterRevisions' = Chapters
        /\ \A d \in Chapters : /\ DOMAIN chapterRevisions'[d] \subseteq Nat
                               /\ \A w \in DOMAIN chapterRevisions'[d] :
                                     chapterRevisions'[d][w] \in ChapterRevision
    <2> HIDE DEF next, rev, c
    <2> QED BY <1>1, <1>4, <1>5, BoardType
  <1> QED BY <1>2, <1>3, <1>6 DEF TypeOK, CommitChapterText, store, people

LEMMA TypeCommitApply ==
    ASSUME TypeOK, NEW r \in Requests, NEW reportTie \in BOOLEAN, NEW chapterTie \in BOOLEAN,
           CommitApply(r, reportTie, chapterTie)
    PROVE  TypeOK'
  <1> DEFINE q == request[r]
             c == q.chapter
             old == chapter[c]
             nextReport == q.expectedReport + 1
             next == q.expected + 1
             content == ReplaceChapter(q.content, c, q.text)
             written == [old EXCEPT !.version = next, !.status = "APPLIED",
                                    !.updatedBy = q.user]
             rev == [status |-> "APPLIED", text |-> q.text, savedBy |-> q.user]
  <1>1. /\ q \in Request /\ next \in Nat /\ nextReport \in Nat
        /\ q.user \in Users /\ c \in Chapters
        /\ q.text \in ChapterTexts /\ q.content \in Content
    BY InFlightType DEF TypeOK, CommitApply, Reading, Request
  <1>2. content \in Content
    BY <1>1, ContentType
  <1>3. RequestsOK'
    <2>1. \/ Done(r)
          \/ \E a \in {"ok", "conflict"}, w \in SUBSET {"report", "chapter"} : Answer(r, a, w)
      BY DEF CommitApply
    <2> QED BY <2>1, DoneType DEF TypeOK
  <1>4. draft' \in [version : Nat, content : Content]
    <2>1. draft' = draft \/ draft' = [version |-> nextReport, content |-> content]
      BY DEF CommitApply, store
    <2> QED BY <1>1, <1>2, <2>1 DEF TypeOK
  <1>5. DOMAIN revisions' \subseteq Nat /\ \A v \in DOMAIN revisions' : revisions'[v] \in Content
    <2>1. CASE revisions' = revisions
      BY <2>1 DEF TypeOK
    <2>2. CASE revisions' = WithRow(revisions, nextReport, content)
      <3>1. DOMAIN revisions \subseteq Nat /\ \A v \in DOMAIN revisions : revisions[v] \in Content
        BY DEF TypeOK
      <3> HIDE DEF content, nextReport
      <3> QED BY <1>1, <1>2, <2>2, <3>1, WithRowType
    <2> QED BY <2>1, <2>2 DEF CommitApply, store
  <1>6. chapter' \in [Chapters -> ChapterRow]
    <2>1. chapter' = chapter \/ chapter' = [chapter EXCEPT ![c] = written]
                             \/ chapter' = [chapter EXCEPT ![c] = old]
      BY DEF CommitApply, board
    <2>2. old \in ChapterRow
      BY <1>1 DEF TypeOK
    <2>3. written \in ChapterRow
      BY <1>1, <2>2 DEF ChapterRow, ChapterStatus, Someone
    <2> QED BY <2>1, <2>2, <2>3 DEF TypeOK
  <1>7. rev \in ChapterRevision
    BY <1>1 DEF ChapterRevision, ChapterStatus
  <1>8. chapterRevisions' \in {chapterRevisions,
           [chapterRevisions EXCEPT ![c] = WithRow(@, next, rev)]}
    BY DEF CommitApply, board
  <1>9. /\ DOMAIN chapterRevisions' = Chapters
        /\ \A d \in Chapters : /\ DOMAIN chapterRevisions'[d] \subseteq Nat
                               /\ \A w \in DOMAIN chapterRevisions'[d] :
                                     chapterRevisions'[d][w] \in ChapterRevision
    <2> HIDE DEF next, rev, c
    <2> QED BY <1>1, <1>7, <1>8, BoardType
  <1> QED BY <1>3, <1>4, <1>5, <1>6, <1>9 DEF TypeOK, CommitApply, people

LEMMA TypeAdminister ==
    ASSUME TypeOK, Administer
    PROVE  TypeOK'
  <1>1. ASSUME NEW actor \in Users, NEW pm \in PmCandidates, NamePm(actor, pm)
        PROVE  TypeOK'
    BY <1>1, StudioAssumption
       DEF NamePm, TypeOK, RequestsOK, Free, Someone, store, board
  <1>2. ASSUME NEW admin \in Users, NEW u \in Suspendable, Deactivate(admin, u) \/ Activate(admin, u)
        PROVE  TypeOK'
    BY <1>2, StudioAssumption
       DEF Deactivate, Activate, TypeOK, RequestsOK, Free, store, board
  <1> QED BY <1>1, <1>2 DEF Administer

LEMMA TypeStep == TypeOK /\ [Next]_vars => TypeOK'
  <1> SUFFICES ASSUME TypeOK, [Next]_vars PROVE TypeOK'
    OBVIOUS
  <1>1. ASSUME NEW r \in Requests, NEW u \in Callers, Receive(r, u) PROVE TypeOK'
    BY <1>1, TypeReceive, StudioAssumption
  <1>2. ASSUME NEW r \in Requests, ReadReport(r) PROVE TypeOK'
    BY <1>2, TypeReadReport
  <1>3. ASSUME NEW r \in Requests, Commit(r) PROVE TypeOK'
    BY <1>3, TypeCommitSave, TypeCommitAssign, TypeCommitChapterText, TypeCommitApply
       DEF Commit
  <1>4. CASE Administer
    BY <1>4, TypeAdminister
  <1>5. CASE UNCHANGED vars
    BY <1>5 DEF vars, TypeOK, RequestsOK, Free
  <1> QED BY <1>1, <1>2, <1>3, <1>4, <1>5 DEF Next

(* Type correctness of the store, the board and the requests in flight.    *)
THEOREM Typed == Spec => []TypeOK
  BY TypeInit, TypeStep, PTL DEF Spec

-----------------------------------------------------------------------------
(* The history.  Only the batches of a save and of an apply write it, and  *)
(* each of them does one of three things: nothing, one version more with   *)
(* its revision, or an ABORT.  The case of a loser whose EXISTS clause is  *)
(* satisfied by the winner's row is the third: its revision is taken.      *)
Saved(content) ==
    /\ draft' = [version |-> draft.version + 1, content |-> content]
    /\ revisions' = WithRow(revisions, draft.version + 1, content)

LEMMA HistoryStep ==
    ASSUME TypeOK, HistoryComplete, [Next]_vars
    PROVE  UNCHANGED store \/ \E content \in Content : Saved(content)
  <1>1. draft.version \in Nat /\ DOMAIN revisions = 1..draft.version
    BY DEF TypeOK, HistoryComplete
  <1>2. ASSUME NEW r \in Requests, CommitSave(r)
        PROVE  UNCHANGED store \/ \E content \in Content : Saved(content)
    <2> DEFINE q == request[r]
    <2>1. q.expected \in Nat /\ q.content \in Content
      BY <1>2, InFlightType DEF CommitSave, TypeOK, Request
    <2>2. CASE draft.version = q.expected
      BY <1>1, <1>2, <2>1, <2>2 DEF CommitSave, Saved, StillAt, Taken, store
    <2>3. CASE draft.version # q.expected
      BY <1>1, <1>2, <2>1, <2>3 DEF CommitSave, StillAt, Taken, store
    <2> QED BY <2>2, <2>3
  <1>3. ASSUME NEW r \in Requests, NEW reportTie \in BOOLEAN, NEW chapterTie \in BOOLEAN,
               CommitApply(r, reportTie, chapterTie)
        PROVE  UNCHANGED store \/ \E content \in Content : Saved(content)
    <2> DEFINE q == request[r]
               content == ReplaceChapter(q.content, q.chapter, q.text)
    <2>1. q.expectedReport \in Nat /\ content \in Content
      BY <1>3, InFlightType, ContentType DEF CommitApply, TypeOK, Request, Reading
    <2>2. CASE draft.version = q.expectedReport
      BY <1>1, <1>3, <2>1, <2>2 DEF CommitApply, Saved, StillAt, Taken, store
    <2>3. CASE draft.version # q.expectedReport
      BY <1>1, <1>3, <2>1, <2>3 DEF CommitApply, StillAt, Taken, store
    <2> QED BY <2>2, <2>3
  <1>4. ASSUME NEW r \in Requests, NEW u \in Callers, Receive(r, u) PROVE UNCHANGED store
    BY <1>4 DEF Receive, ReceiveSave, ReceiveAssign, ReceiveChapter
  <1>5. ASSUME NEW r \in Requests, ReadReport(r) PROVE UNCHANGED store
    BY <1>5 DEF ReadReport
  <1>6. ASSUME NEW r \in Requests, NEW tie \in BOOLEAN,
               CommitAssign(r) \/ CommitChapterText(r, tie)
        PROVE  UNCHANGED store
    BY <1>6 DEF CommitAssign, CommitChapterText
  <1>7. ASSUME Administer PROVE UNCHANGED store
    BY <1>7 DEF Administer, NamePm, Deactivate, Activate
  <1>8. ASSUME UNCHANGED vars PROVE UNCHANGED store
    BY <1>8 DEF vars, store
  <1> QED BY <1>2, <1>3, <1>4, <1>5, <1>6, <1>7, <1>8 DEF Next, Commit

LEMMA HistoryInductive == TypeOK /\ HistoryComplete /\ [Next]_vars => HistoryComplete'
  <1> SUFFICES ASSUME TypeOK, HistoryComplete, [Next]_vars PROVE HistoryComplete'
    OBVIOUS
  <1>1. draft.version \in Nat /\ DOMAIN revisions = 1..draft.version
    BY DEF TypeOK, HistoryComplete
  <1>2. CASE UNCHANGED store
    BY <1>2 DEF HistoryComplete, store
  <1>3. CASE \E content \in Content : Saved(content)
    <2>1. PICK content \in Content : Saved(content)
      BY <1>3
    <2>2. draft'.version = draft.version + 1 /\ draft'.content = content
      BY <2>1 DEF Saved
    <2>3. DOMAIN revisions' = 1..(draft.version + 1) /\ revisions'[draft.version + 1] = content
      BY <1>1, <2>1 DEF Saved, WithRow
    <2> QED BY <2>2, <2>3 DEF HistoryComplete
  <1> QED BY <1>2, <1>3, HistoryStep

(* Whatever requests race: every version up to the current one is in the   *)
(* history, and its newest entry is what the draft row holds.              *)
THEOREM History == Spec => []HistoryComplete
  <1>1. Init => HistoryComplete
    BY DEF Init, HistoryComplete
  <1> QED BY <1>1, TypeInit, TypeStep, HistoryInductive, PTL DEF Spec

(* The store implements the append-only document: a step saves exactly one *)
(* version behind the last one or leaves the history alone.                *)
THEOREM StoreIsDocument == Spec => DocSpec
  <1> DEFINE history == [v \in 1..draft.version |-> revisions[v]]
  <1>1. Init => Doc!Init
    BY DEF Init, Doc!Init
  <1>2. TypeOK /\ HistoryComplete /\ [Next]_vars => [Doc!Next]_history
    <2> SUFFICES ASSUME TypeOK, HistoryComplete, [Next]_vars
                 PROVE  Doc!Next \/ history' = history
      OBVIOUS
    <2>1. draft.version \in Nat /\ DOMAIN revisions = 1..draft.version
      BY DEF TypeOK, HistoryComplete
    <2>2. CASE UNCHANGED store
      BY <2>2 DEF store
    <2>3. ASSUME NEW content \in Content, Saved(content) PROVE Doc!Save(content)
      <3>1. draft'.version = draft.version + 1
        BY <2>3 DEF Saved
      <3>2. \A v \in 1..(draft.version + 1) :
              revisions'[v] = IF v = draft.version + 1 THEN content ELSE revisions[v]
        BY <2>1, <2>3 DEF Saved, WithRow
      <3>3. history \in Seq(Content) /\ Len(history) = draft.version
        BY <2>1 DEF TypeOK
      <3>4. history' = Append(history, content)
        BY <2>1, <3>1, <3>2, <3>3
      <3> QED BY <3>4 DEF Doc!Save
    <2>4. ASSUME NEW content \in Content, Saved(content) PROVE Doc!Next
      BY <2>3, <2>4 DEF Doc!Next
    <2> QED BY <2>2, <2>4, HistoryStep
  <1> QED BY <1>1, <1>2, Typed, History, PTL DEF Spec, DocSpec, Doc!Spec

-----------------------------------------------------------------------------
(* What a client was promised.  The history only grows, and an answer is   *)
(* given by the batch that wrote the version it names; a request in flight *)
(* has no answer yet, so reading the report does not touch one.            *)
Promise(q, log) ==
    q.answer = "ok" =>
        /\ q.kind = "save" => /\ q.expected + 1 \in DOMAIN log
                              /\ log[q.expected + 1] = q.content
        /\ q.kind = "APPLY" => /\ q.expectedReport + 1 \in DOMAIN log
                               /\ log[q.expectedReport + 1] =
                                     ReplaceChapter(q.content, q.chapter, q.text)

Unanswered == \A r \in Requests : ~Free(r) => request[r].answer = "none"

(* What a step may do to one request: nothing, let it go on without an     *)
(* answer, or answer it truthfully.                                        *)
AnswerStep(r) ==
    \/ request'[r] = request[r]
    \/ request'[r].answer = "none"
    \/ request'[r].phase = "answered" /\ Promise(request'[r], revisions')

(* A handler that only begins or ends touches its own request alone.       *)
LEMMA BeginAnswer ==
    ASSUME TypeOK, NEW r \in Requests, NEW q, Begin(r, q),
           q.answer = "none" \/ (q.phase = "answered" /\ Promise(q, revisions')),
           NEW s \in Requests
    PROVE  AnswerStep(s)
  BY DEF TypeOK, RequestsOK, Begin, AnswerStep

LEMMA DoneAnswer ==
    ASSUME TypeOK, NEW r \in Requests, Done(r), NEW s \in Requests
    PROVE  AnswerStep(s)
  BY DEF TypeOK, RequestsOK, Done, Idle, AnswerStep

LEMMA ReceiveAnswer ==
    ASSUME TypeOK, NEW r \in Requests, NEW u \in Users, Receive(r, u), NEW s \in Requests
    PROVE  AnswerStep(s)
  <1>1. ASSUME NEW content, ReceiveSave(r, u, content) PROVE AnswerStep(s)
    <2> DEFINE n == [Idle EXCEPT !.kind = "save", !.phase = "read", !.user = u,
                                 !.content = content, !.expected = draft.version]
    <2>1. Begin(r, n) /\ n.answer = "none"
      BY <1>1 DEF ReceiveSave, Idle
    <2> HIDE DEF n
    <2> QED BY <2>1, BeginAnswer
  <1>2. ASSUME NEW c, NEW a, ReceiveAssign(r, u, c, a) PROVE AnswerStep(s)
    <2> DEFINE n == [Idle EXCEPT !.kind = "assign", !.phase = "read", !.user = u,
                                 !.chapter = c, !.assignee = a,
                                 !.expected = chapter[c].version]
    <2>1. Begin(r, n) /\ n.answer = "none"
      BY <1>2 DEF ReceiveAssign, Idle
    <2> HIDE DEF n
    <2> QED BY <2>1, BeginAnswer
  <1>3. ASSUME NEW action, NEW c, NEW text, ReceiveChapter(r, action, u, c, text)
        PROVE  AnswerStep(s)
    <2> DEFINE n == [Idle EXCEPT !.kind = action, !.user = u, !.chapter = c, !.text = text,
                       !.phase = IF action = "APPLY" THEN "reviewed" ELSE "read",
                       !.expected = chapter[c].version,
                       !.expectedReport = IF action = "APPLY" THEN draft.version ELSE 0]
    <2>1. Begin(r, n) /\ n.answer = "none"
      BY <1>3 DEF ReceiveChapter, Idle
    <2> HIDE DEF n
    <2> QED BY <2>1, BeginAnswer
  <1> QED BY <1>1, <1>2, <1>3 DEF Receive

LEMMA ReadAnswer ==
    ASSUME TypeOK, Unanswered, NEW r \in Requests, ReadReport(r), NEW s \in Requests
    PROVE  AnswerStep(s)
  <1> DEFINE n == [request[r] EXCEPT !.phase = "read", !.content = draft.content]
  <1>1. request[r] \in Request /\ request[r].answer = "none"
    BY DEF Unanswered, ReadReport, Free, TypeOK, RequestsOK
  <1>2. n.answer = "none"
    BY <1>1 DEF Request
  <1>3. Begin(r, n) \/ Done(r)
    BY DEF ReadReport
  <1> HIDE DEF n
  <1> QED BY <1>2, <1>3, BeginAnswer, DoneAnswer

(* An answer changes nothing the promise is about.                         *)
LEMMA AnswerPromise ==
    ASSUME TypeOK, NEW r \in Requests, NEW a, NEW w, Answer(r, a, w),
           Promise([request[r] EXCEPT !.answer = "ok"], revisions') \/ a # "ok",
           NEW s \in Requests
    PROVE  AnswerStep(s)
  <1> DEFINE n == [request[r] EXCEPT !.phase = "answered", !.user = NoUser,
                                     !.answer = a, !.wrote = w]
  <1>1. request[r] \in Request
    BY DEF TypeOK, RequestsOK
  <1>2. n.phase = "answered" /\ Promise(n, revisions')
    BY <1>1 DEF Request, Promise
  <1>3. Begin(r, n)
    BY DEF Answer
  <1> HIDE DEF n
  <1> QED BY <1>2, <1>3, BeginAnswer

LEMMA SaveAnswer ==
    ASSUME TypeOK, NEW r \in Requests, CommitSave(r), NEW s \in Requests
    PROVE  AnswerStep(s)
  <1> DEFINE q == request[r]
  <1>1. q \in Request /\ q.expected + 1 \in Nat /\ q.kind = "save"
    BY InFlightType DEF CommitSave, Reading, TypeOK
  <1>2. CASE Done(r)
    BY <1>2, DoneAnswer
  <1>3. CASE ~Done(r)
    <2>1. /\ revisions' = WithRow(revisions, q.expected + 1, q.content)
          /\ Answer(r, "ok", {"report"})
      BY <1>3 DEF CommitSave
    <2>2. Promise([q EXCEPT !.answer = "ok"], revisions')
      BY <1>1, <2>1 DEF Promise, WithRow, Request
    <2> QED BY <2>1, <2>2, AnswerPromise
  <1> QED BY <1>2, <1>3

LEMMA ApplyAnswer ==
    ASSUME TypeOK, NEW r \in Requests, NEW reportTie \in BOOLEAN, NEW chapterTie \in BOOLEAN,
           CommitApply(r, reportTie, chapterTie), NEW s \in Requests
    PROVE  AnswerStep(s)
  <1> DEFINE q == request[r]
             next == q.expectedReport + 1
             content == ReplaceChapter(q.content, q.chapter, q.text)
  <1>1. q \in Request /\ next \in Nat /\ q.kind = "APPLY"
    BY InFlightType DEF CommitApply, Reading, TypeOK
  <1>2. CASE Done(r)
    BY <1>2, DoneAnswer
  <1>3. CASE \E w : Answer(r, "conflict", w)
    BY <1>3, AnswerPromise
  <1>4. CASE ~Done(r) /\ ~\E w : Answer(r, "conflict", w)
    <2>1. revisions' = WithRow(revisions, next, content) /\ \E w : Answer(r, "ok", w)
      BY <1>4 DEF CommitApply
    <2>2. next \in DOMAIN revisions' /\ revisions'[next] = content
      BY <2>1 DEF WithRow
    <2>3. Promise([q EXCEPT !.answer = "ok"], revisions')
      BY <1>1, <2>2 DEF Promise, Request
    <2> QED BY <2>1, <2>3, AnswerPromise
  <1> QED BY <1>2, <1>3, <1>4

LEMMA EveryAnswer ==
    ASSUME TypeOK, Unanswered, [Next]_vars, NEW s \in Requests
    PROVE  AnswerStep(s)
  <1>1. ASSUME NEW r \in Requests, Commit(r) PROVE AnswerStep(s)
    <2>1. ASSUME NEW tie \in BOOLEAN, CommitAssign(r) \/ CommitChapterText(r, tie)
          PROVE  Done(r)
      BY <2>1 DEF CommitAssign, CommitChapterText
    <2> QED BY <1>1, <2>1, DoneAnswer, SaveAnswer, ApplyAnswer DEF Commit
  <1>2. ASSUME Administer \/ UNCHANGED vars PROVE UNCHANGED request
    BY <1>2 DEF Administer, NamePm, Deactivate, Activate, vars
  <1>3. ASSUME UNCHANGED request PROVE AnswerStep(s)
    BY <1>3 DEF AnswerStep
  <1> QED BY <1>1, <1>2, <1>3, ReceiveAnswer, ReadAnswer, StudioAssumption DEF Next

(* Whoever was answered 200 finds the version and its content in the       *)
(* history for ever.                                                       *)
THEOREM PromisesKept == Spec => []AcknowledgedIsKept
  <1>1. Init => Unanswered /\ AcknowledgedIsKept
    BY DEF Init, Unanswered, AcknowledgedIsKept, Idle, Free
  <1>2. TypeOK /\ HistoryComplete /\ Unanswered /\ AcknowledgedIsKept /\ [Next]_vars
          => (Unanswered /\ AcknowledgedIsKept)'
    <2> SUFFICES ASSUME TypeOK, HistoryComplete, Unanswered, AcknowledgedIsKept, [Next]_vars
                 PROVE  (Unanswered /\ AcknowledgedIsKept)'
      OBVIOUS
    <2>1. \A v \in DOMAIN revisions : v \in DOMAIN revisions' /\ revisions'[v] = revisions[v]
      <3>1. CASE UNCHANGED store
        BY <3>1 DEF store
      <3>2. CASE \E content \in Content : Saved(content)
        BY <3>2 DEF Saved, WithRow, HistoryComplete, TypeOK
      <3> QED BY <3>1, <3>2, HistoryStep
    <2>2. ASSUME NEW s \in Requests
          PROVE  /\ Promise(request'[s], revisions')
                 /\ request'[s].phase \notin {"idle", "answered"} => request'[s].answer = "none"
      <3>1. Promise(request[s], revisions)
        BY DEF AcknowledgedIsKept, Promise
      <3>2. request[s].phase \notin {"idle", "answered"} => request[s].answer = "none"
        BY DEF Unanswered, Free
      <3>3. Promise(request[s], revisions')
        BY <2>1, <3>1 DEF Promise
      <3>4. AnswerStep(s)
        BY EveryAnswer
      <3> QED BY <3>2, <3>3, <3>4 DEF AnswerStep, Promise
    <2> QED BY <2>2 DEF Unanswered, AcknowledgedIsKept, Promise, Free
  <1> QED BY <1>1, <1>2, Typed, History, PTL DEF Spec
-----------------------------------------------------------------------------
(* Only two batches and the assignment write a chapter's row, and each of  *)
(* them stores what the UPDATE or INSERT trigger has let through.          *)
Authorised(c) ==
    LET u == chapter'[c].updatedBy IN
    /\ u \in active
    /\ \/ u \in Admins \/ u = responsiblePm
       \/ /\ u = chapter[c].assignee /\ u = chapter'[c].assignee
          /\ chapter'[c].status # "APPLIED"

(* What UpdateGuard grants is what the property asks.                      *)
LEMMA GuardAuthorises ==
    ASSUME NEW c, NEW u, UpdateGuard(u, chapter[c], chapter'[c]), chapter'[c].updatedBy = u
    PROVE  Authorised(c)
  BY DEF UpdateGuard, ManagesNow, Authorised

(* The insert guard asks for a manager; both batches that update the row   *)
(* pass the update guard with the row they are about to store.             *)
LEMMA AuthorisedStep ==
    ASSUME TypeOK, [Next]_vars, NEW c \in Chapters, chapter'[c] # chapter[c]
    PROVE  Authorised(c)
  <1>1. ASSUME NEW r \in Requests, CommitAssign(r) PROVE Authorised(c)
    <2> DEFINE q == request[r]
               old == chapter[q.chapter]
               new == [old EXCEPT !.version = q.expected + 1, !.assignee = q.assignee,
                                  !.status = IF q.assignee = NoUser THEN "UNASSIGNED"
                                                                    ELSE "IN_PROGRESS",
                                  !.updatedBy = q.user]
    <2>1. q.chapter \in Chapters /\ old \in ChapterRow
      BY <1>1, InFlightType DEF CommitAssign, Reading, TypeOK
    <2>2. /\ chapter' = [chapter EXCEPT ![q.chapter] = new]
          /\ StillAt(old, q.expected)
          /\ IF q.expected = 0 THEN InsertGuard(q.user, q.assignee)
                               ELSE UpdateGuard(q.user, old, new)
      BY <1>1 DEF CommitAssign
    <2>3. c = q.chapter /\ chapter'[c] = new /\ new.updatedBy = q.user
      BY <2>1, <2>2 DEF TypeOK, ChapterRow
    <2>4. CASE q.expected = 0
      BY <2>2, <2>3, <2>4 DEF InsertGuard, ManagesNow, Authorised
    <2>5. CASE q.expected # 0
      BY <2>2, <2>3, <2>5, GuardAuthorises
    <2> QED BY <2>4, <2>5
  <1>2. ASSUME NEW r \in Requests, NEW tie \in BOOLEAN, CommitChapterText(r, tie)
        PROVE  Authorised(c)
    <2> DEFINE q == request[r]
               old == chapter[q.chapter]
               new == [old EXCEPT !.version = q.expected + 1,
                                  !.status = IF q.kind = "MARK_READY" THEN "READY"
                                                                     ELSE "IN_PROGRESS",
                                  !.text = q.text, !.updatedBy = q.user]
    <2>1. q.chapter \in Chapters /\ old \in ChapterRow
      BY <1>2, InFlightType DEF CommitChapterText, Reading, TypeOK
    <2>2. /\ chapter' = [chapter EXCEPT ![q.chapter] = new]
          /\ UpdateGuard(q.user, old, new)
      BY <1>2, <2>1 DEF CommitChapterText, board, TypeOK
    <2>3. c = q.chapter /\ chapter'[c] = new /\ new.updatedBy = q.user
      BY <2>1, <2>2 DEF TypeOK, ChapterRow
    <2> QED BY <2>2, <2>3, GuardAuthorises
  <1>3. ASSUME NEW r \in Requests, NEW reportTie \in BOOLEAN, NEW chapterTie \in BOOLEAN,
               CommitApply(r, reportTie, chapterTie)
        PROVE  Authorised(c)
    <2> DEFINE q == request[r]
               old == chapter[q.chapter]
               new == [old EXCEPT !.version = q.expected + 1, !.status = "APPLIED",
                                  !.updatedBy = q.user]
    <2>1. q.chapter \in Chapters /\ old \in ChapterRow
      BY <1>3, InFlightType DEF CommitApply, Reading, TypeOK
    <2>2. /\ chapter' = [chapter EXCEPT ![q.chapter] = new]
          /\ UpdateGuard(q.user, old, new)
      BY <1>3, <2>1 DEF CommitApply, board, TypeOK
    <2>3. c = q.chapter /\ chapter'[c] = new /\ new.updatedBy = q.user
      BY <2>1, <2>2 DEF TypeOK, ChapterRow
    <2> QED BY <2>2, <2>3, GuardAuthorises
  <1>4. ASSUME NEW r \in Requests, NEW u \in Callers, Receive(r, u) PROVE UNCHANGED chapter
    BY <1>4 DEF Receive, ReceiveSave, ReceiveAssign, ReceiveChapter, board
  <1>5. ASSUME NEW r \in Requests, ReadReport(r) \/ CommitSave(r) PROVE UNCHANGED chapter
    BY <1>5 DEF ReadReport, CommitSave, board
  <1>6. ASSUME Administer \/ UNCHANGED vars PROVE UNCHANGED chapter
    BY <1>6 DEF Administer, NamePm, Deactivate, Activate, board, vars
  <1> QED BY <1>1, <1>2, <1>3, <1>4, <1>5, <1>6 DEF Next, Commit

(* Whoever changes a chapter's row holds the right when it changes, however *)
(* stale the handler's own check has become.                               *)
THEOREM Authority == Spec => ChapterChangeAuthorised
  <1>1. TypeOK /\ [Next]_vars =>
          [\A c \in Chapters : chapter'[c] # chapter[c] =>
             LET u == chapter'[c].updatedBy IN
             /\ u \in active
             /\ \/ u \in Admins \/ u = responsiblePm
                \/ /\ u = chapter[c].assignee /\ u = chapter'[c].assignee
                   /\ chapter'[c].status # "APPLIED"]_vars
    BY AuthorisedStep DEF Authorised
  <1> QED BY <1>1, Typed, PTL DEF Spec, ChapterChangeAuthorised

-----------------------------------------------------------------------------
(* AppliedIsReviewed is inductive together with Logged: a row that is      *)
(* READY or APPLIED has its revision.  Without it a batch whose UPDATE     *)
(* missed could add the revision of another batch's APPLIED row.           *)
Logged(row, log) == row.status \in {"READY", "APPLIED"} => row.version \in DOMAIN log

Reviewed(row, log) ==
    /\ row.status = "READY" => /\ row.version \in DOMAIN log
                               /\ log[row.version].status = "READY"
                               /\ log[row.version].text = row.text
    /\ \A v \in DOMAIN log : log[v].status = "APPLIED" =>
          /\ v - 1 \in DOMAIN log
          /\ log[v - 1].status = "READY"
          /\ log[v - 1].text = log[v].text

BoardInv == \A c \in Chapters : /\ Logged(chapter[c], chapterRevisions[c])
                                /\ Reviewed(chapter[c], chapterRevisions[c])

(* What a step may do to the row and the history of one chapter: nothing,  *)
(* an assignment, or a revision that agrees with the row.                  *)
Reassigned(row, row2, log, log2) ==
    /\ log2 = log
    /\ row2.status \in {"UNASSIGNED", "IN_PROGRESS"}

Written(row, row2, log, log2) ==
    \E v \in Nat, rev \in ChapterRevision :
        /\ v \notin DOMAIN log
        /\ log2 = WithRow(log, v, rev)
        /\ row2.version = v /\ row2.status = rev.status /\ row2.text = rev.text
        /\ rev.status = "APPLIED" => /\ row.status = "READY" /\ row.version = v - 1
                                     /\ row.text = rev.text

(* Each of the three kinds of step keeps the invariant of a chapter.       *)
LEMMA ReviewedKept ==
    ASSUME NEW row, NEW row2, NEW log, NEW log2, DOMAIN log \subseteq Nat,
           Logged(row, log), Reviewed(row, log),
           \/ row2 = row /\ log2 = log
           \/ Reassigned(row, row2, log, log2)
           \/ Written(row, row2, log, log2)
    PROVE  Logged(row2, log2) /\ Reviewed(row2, log2)
  <1>1. CASE row2 = row /\ log2 = log
    BY <1>1
  <1>2. CASE Reassigned(row, row2, log, log2)
    BY <1>2 DEF Reassigned, Logged, Reviewed
  <1>3. CASE Written(row, row2, log, log2)
    <2>1. PICK v \in Nat, rev \in ChapterRevision :
            /\ v \notin DOMAIN log
            /\ log2 = WithRow(log, v, rev)
            /\ row2.version = v /\ row2.status = rev.status /\ row2.text = rev.text
            /\ rev.status = "APPLIED" => /\ row.status = "READY" /\ row.version = v - 1
                                         /\ row.text = rev.text
      BY <1>3 DEF Written
    <2>2. /\ DOMAIN log2 = DOMAIN log \cup {v} /\ log2[v] = rev
          /\ \A w \in DOMAIN log : log2[w] = log[w]
      BY <2>1 DEF WithRow
    <2>3. Logged(row2, log2)
      BY <2>1, <2>2 DEF Logged
    <2>4. ASSUME NEW w \in DOMAIN log2, log2[w].status = "APPLIED"
          PROVE  /\ w - 1 \in DOMAIN log2 /\ log2[w - 1].status = "READY"
                 /\ log2[w - 1].text = log2[w].text
      <3>1. CASE w = v
        BY <2>1, <2>2, <2>4, <3>1 DEF Reviewed
      <3>2. CASE w # v
        BY <2>1, <2>2, <2>4, <3>2 DEF Reviewed
      <3> QED BY <3>1, <3>2
    <2>5. row2.status = "READY" => /\ row2.version \in DOMAIN log2
                                   /\ log2[row2.version].status = "READY"
                                   /\ log2[row2.version].text = row2.text
      BY <2>1, <2>2
    <2> QED BY <2>3, <2>4, <2>5 DEF Reviewed
  <1> QED BY <1>1, <1>2, <1>3

BoardStep(c) ==
    LET row == chapter[c]
        log == chapterRevisions[c]
    IN  \/ chapter'[c] = row /\ chapterRevisions'[c] = log
        \/ Reassigned(row, chapter'[c], log, chapterRevisions'[c])
        \/ Written(row, chapter'[c], log, chapterRevisions'[c])

(* A batch that writes one chapter's row and adds rev to its history, each *)
(* if it does, leaves the other chapters alone.                            *)
LEMMA ChapterTextStep ==
    ASSUME TypeOK, BoardInv, NEW r \in Requests, NEW tie \in BOOLEAN,
           CommitChapterText(r, tie), NEW c \in Chapters
    PROVE  BoardStep(c)
  <1> DEFINE q == request[r]
             d == q.chapter
             old == chapter[d]
             next == q.expected + 1
             hit == StillAt(old, q.expected)
             status == IF q.kind = "MARK_READY" THEN "READY" ELSE "IN_PROGRESS"
             new == IF hit THEN [old EXCEPT !.version = next, !.status = status,
                                            !.text = q.text, !.updatedBy = q.user]
                           ELSE old
             rev == [status |-> status, text |-> q.text, savedBy |-> q.user]
             inserts == hit \/ (StillAt(old, next) /\ tie)
  <1>1. /\ q \in Request /\ next \in Nat /\ q.user \in Users /\ d \in Chapters
        /\ q.text \in ChapterTexts /\ old \in ChapterRow
    BY InFlightType DEF TypeOK, CommitChapterText, Reading, Request
  <1>2. rev \in ChapterRevision /\ rev.status # "APPLIED"
    BY <1>1 DEF ChapterRevision, ChapterStatus
  <1>3. CASE UNCHANGED board
    BY <1>3 DEF BoardStep, board
  <1>4. CASE ~UNCHANGED board
    <2>1. /\ chapter' = [chapter EXCEPT ![d] = new]
          /\ chapterRevisions' = IF inserts
                THEN [chapterRevisions EXCEPT ![d] = WithRow(@, next, rev)]
                ELSE chapterRevisions
          /\ inserts => RevisionGuard(new, rev) /\ ~Taken(chapterRevisions[d], next)
      BY <1>4 DEF CommitChapterText
    <2>2. CASE c # d
      BY <1>1, <2>1, <2>2 DEF BoardStep, TypeOK
    <2>3. CASE c = d /\ ~inserts
      BY <1>1, <2>1, <2>3 DEF BoardStep, TypeOK
    <2>4. CASE c = d /\ inserts
      <3>1. chapter'[c] = new /\ new.version = next
        BY <1>1, <2>1, <2>4 DEF TypeOK, ChapterRow, StillAt
      <3>2. new.status = rev.status /\ new.text = rev.text
        BY <2>1, <2>4 DEF RevisionGuard
      <3>3. /\ next \notin DOMAIN chapterRevisions[c]
            /\ chapterRevisions'[c] = WithRow(chapterRevisions[c], next, rev)
        BY <1>1, <2>1, <2>4 DEF Taken, TypeOK
      <3> HIDE DEF new, rev, next, inserts
      <3>4. Written(chapter[c], chapter'[c], chapterRevisions[c], chapterRevisions'[c])
        BY <1>1, <1>2, <3>1, <3>2, <3>3 DEF Written
      <3> QED BY <3>4 DEF BoardStep
    <2> QED BY <2>2, <2>3, <2>4
  <1> QED BY <1>3, <1>4

(* APPLY adds its revision only when it has moved the READY row: a row of  *)
(* another batch at the next version is APPLIED only with a revision, and  *)
(* then the key of this one is taken.                                      *)
LEMMA ApplyStep ==
    ASSUME TypeOK, BoardInv, NEW r \in Requests,
           NEW reportTie \in BOOLEAN, NEW chapterTie \in BOOLEAN,
           CommitApply(r, reportTie, chapterTie), NEW c \in Chapters
    PROVE  BoardStep(c)
  <1> DEFINE q == request[r]
             d == q.chapter
             old == chapter[d]
             next == q.expected + 1
             hit == StillAt(old, q.expected) /\ old.status = "READY"
             new == IF hit THEN [old EXCEPT !.version = next, !.status = "APPLIED",
                                            !.updatedBy = q.user]
                           ELSE old
             rev == [status |-> "APPLIED", text |-> q.text, savedBy |-> q.user]
             inserts == hit \/ (StillAt(old, next) /\ chapterTie)
  <1>1. /\ q \in Request /\ next \in Nat /\ q.user \in Users /\ d \in Chapters
        /\ q.text \in ChapterTexts /\ old \in ChapterRow
    BY InFlightType DEF TypeOK, CommitApply, Reading, Request
  <1>2. rev \in ChapterRevision
    BY <1>1 DEF ChapterRevision, ChapterStatus
  <1>3. CASE UNCHANGED board
    BY <1>3 DEF BoardStep, board
  <1>4. CASE ~UNCHANGED board
    <2>1. /\ chapter' = [chapter EXCEPT ![d] = new]
          /\ chapterRevisions' = IF inserts
                THEN [chapterRevisions EXCEPT ![d] = WithRow(@, next, rev)]
                ELSE chapterRevisions
          /\ inserts => RevisionGuard(new, rev) /\ ~Taken(chapterRevisions[d], next)
      BY <1>4 DEF CommitApply
    <2>2. CASE c # d
      BY <1>1, <2>1, <2>2 DEF BoardStep, TypeOK
    <2>3. CASE c = d /\ ~inserts
      BY <1>1, <2>1, <2>3 DEF BoardStep, TypeOK
    <2>4. CASE c = d /\ inserts
      <3>1. new.status = rev.status /\ new.text = rev.text
        BY <2>1, <2>4 DEF RevisionGuard
      <3>2. next \notin DOMAIN chapterRevisions[c]
        BY <2>1, <2>4 DEF Taken
      <3>3. hit
        <4>1. SUFFICES ASSUME ~hit PROVE FALSE
          OBVIOUS
        <4>2. old.status = "APPLIED" /\ old.version = next
          BY <2>4, <3>1, <4>1 DEF StillAt
        <4> QED BY <1>1, <2>4, <3>2, <4>2 DEF BoardInv, Logged
      <3>4. /\ chapter'[c] = new /\ new.version = next
            /\ old.status = "READY" /\ old.version = q.expected /\ new.text = old.text
        BY <1>1, <2>1, <2>4, <3>3 DEF TypeOK, ChapterRow, StillAt
      <3>5. chapterRevisions'[c] = WithRow(chapterRevisions[c], next, rev)
        BY <1>1, <2>1, <2>4 DEF TypeOK
      <3>6. q.expected = next - 1
        BY <1>1 DEF Request
      <3> HIDE DEF new, rev, next, inserts, hit
      <3>7. Written(chapter[c], chapter'[c], chapterRevisions[c], chapterRevisions'[c])
        BY <1>1, <1>2, <2>4, <3>1, <3>2, <3>4, <3>5, <3>6 DEF Written
      <3> QED BY <3>7 DEF BoardStep
    <2> QED BY <2>2, <2>3, <2>4
  <1> QED BY <1>3, <1>4

(* An assignment resets the status and writes no revision.                 *)
LEMMA AssignStep ==
    ASSUME TypeOK, NEW r \in Requests, CommitAssign(r), NEW c \in Chapters
    PROVE  BoardStep(c)
  <1> DEFINE q == request[r]
             old == chapter[q.chapter]
             new == [old EXCEPT !.version = q.expected + 1, !.assignee = q.assignee,
                                !.status = IF q.assignee = NoUser THEN "UNASSIGNED"
                                                                  ELSE "IN_PROGRESS",
                                !.updatedBy = q.user]
  <1>1. q.chapter \in Chapters /\ old \in ChapterRow
    BY InFlightType DEF CommitAssign, Reading, TypeOK
  <1>2. new.status \in {"UNASSIGNED", "IN_PROGRESS"}
    BY <1>1 DEF ChapterRow
  <1>3. /\ chapter' \in {chapter, [chapter EXCEPT ![q.chapter] = new]}
        /\ chapterRevisions' = chapterRevisions
    BY DEF CommitAssign
  <1> QED BY <1>1, <1>2, <1>3 DEF BoardStep, Reassigned, TypeOK

(* Every action, by the batch it belongs to.                               *)
LEMMA BoardInductive == TypeOK /\ BoardInv /\ [Next]_vars => BoardInv'
  <1> SUFFICES ASSUME TypeOK, BoardInv, [Next]_vars, NEW c \in Chapters
               PROVE  (Logged(chapter[c], chapterRevisions[c])
                       /\ Reviewed(chapter[c], chapterRevisions[c]))'
    BY DEF BoardInv
  <1>1. BoardStep(c)
    <2>1. ASSUME NEW r \in Requests, NEW u \in Callers, Receive(r, u) PROVE UNCHANGED board
      BY <2>1 DEF Receive, ReceiveSave, ReceiveAssign, ReceiveChapter
    <2>2. ASSUME NEW r \in Requests, ReadReport(r) \/ CommitSave(r) PROVE UNCHANGED board
      BY <2>2 DEF ReadReport, CommitSave
    <2>3. ASSUME Administer \/ UNCHANGED vars PROVE UNCHANGED board
      BY <2>3 DEF Administer, NamePm, Deactivate, Activate, board, vars
    <2>4. ASSUME UNCHANGED board PROVE BoardStep(c)
      BY <2>4 DEF board, BoardStep
    <2>5. ASSUME NEW r \in Requests, Commit(r) PROVE BoardStep(c)
      BY <2>2, <2>4, <2>5, AssignStep, ChapterTextStep, ApplyStep DEF Commit
    <2> QED BY <2>1, <2>2, <2>3, <2>4, <2>5 DEF Next
  <1>2. DOMAIN chapterRevisions[c] \subseteq Nat
    BY DEF TypeOK
  <1>3. Logged(chapter[c], chapterRevisions[c]) /\ Reviewed(chapter[c], chapterRevisions[c])
    BY DEF BoardInv
  <1>4. Logged(chapter'[c], chapterRevisions'[c]) /\ Reviewed(chapter'[c], chapterRevisions'[c])
    BY <1>1, <1>2, <1>3, ReviewedKept DEF BoardStep
  <1> QED BY <1>4 DEF Logged, Reviewed

(* A READY chapter is on record as the reviewed text, and what is recorded *)
(* as APPLIED is the text that was READY one version before.               *)
THEOREM ReviewedBeforeApplied == Spec => []AppliedIsReviewed
  <1>1. Init => BoardInv
    BY DEF Init, BoardInv, Logged, Reviewed, NoRow
  <1>2. BoardInv => AppliedIsReviewed
    BY DEF BoardInv, Reviewed, AppliedIsReviewed
  <1> QED BY <1>1, <1>2, TypeInit, TypeStep, BoardInductive, PTL DEF Spec
=============================================================================
