-------------------------- MODULE ReportAuthoring --------------------------
(***************************************************************************)
(* AI authoring of one case's report in the Worker (apps/cloudflare): the  *)
(* chapter prompts administrators edit, the outline plan that must be      *)
(* confirmed first, the chapters the AI provider writes, the feedback on   *)
(* them, and the memory rules approved from that feedback, which the next  *)
(* chapter is written with.                                                *)
(*                                                                         *)
(* As in ReportStudio a request awaits between its checks, its reads and   *)
(* its D1 batches; here the provider may write for 90 seconds in between.  *)
(* A batch is one transaction that an ABORT of a trigger rolls back.       *)
(*                                                                         *)
(* The text of prompts, notes, rules and chapters is left out, and so are  *)
(* the activity rows.  The draft version a generation names, the type      *)
(* guideline and the AI route are read and never written: they can only    *)
(* refuse a request, which changes nothing.  Every account here has one of *)
(* the PREVIEW_REPORT_EDIT_ROLES.                                          *)
(*                                                                         *)
(* A behaviour has a world, the things that may happen in it besides       *)
(* outlines and generations:                                               *)
(*   "prompt"    prompts are edited;                                       *)
(*   "feedback"  feedback is given, with rules made from it;               *)
(*   "unread"    a failed read of the outline lets a generation through;   *)
(*   "bridge"    the private Hermes bridge ranks the rules;                *)
(*   "lost"      handlers are lost or D1 fails in their statements;        *)
(*   "suspend"   accounts are closed and reopened.                         *)
(***************************************************************************)
EXTENDS Integers, FiniteSets

CONSTANTS
    Users, NoUser,      \* accounts of the organization
    Admins,             \* accounts whose roles hold admin
    Managers,           \* accounts canManagePreviewProjectReport may say yes to
    Members,            \* preview_case_assignments of the case
    Suspendable,        \* accounts an administrator (de)activates in the model
    Chapters,           \* chapters of the claim type's prompt set
    Archived,           \* those whose prompt is ARCHIVED
    NoChapter,
    Keys, NoKey,        \* Idempotency-Key values of feedback
    Requests,           \* handlers that may run at the same time
    Worlds,             \* the worlds to look at
    RuleLimit,          \* rules a prompt takes at most, LIMIT 8
    MaxPromptVersion,   \* bound: versions of a prompt
    MaxOutlineVersion,  \* bound: versions of the outline
    MaxGenerations      \* bound: chapters the AI writes

ASSUME AuthoringAssumption ==
    /\ NoUser \notin Users /\ NoChapter \notin Chapters /\ NoKey \notin Keys
    /\ Admins \cup Managers \cup Members \cup Suspendable \subseteq Users
    /\ Archived \subseteq Chapters
    /\ Worlds \subseteq SUBSET {"prompt", "feedback", "unread", "bridge", "lost", "suspend"}
    /\ RuleLimit \in Nat \ {0}
    /\ MaxPromptVersion \in Nat \ {0}   \* the migrations store version 1
    /\ MaxOutlineVersion \in Nat /\ MaxGenerations \in Nat

VARIABLES
    prompts,            \* preview_report_chapter_prompts: chapter -> version
    history,            \* preview_report_prompt_history: <<chapter, version>>
    outline,            \* preview_report_outline_plans: the row, version 0 for none
    generations,        \* preview_report_ai_generations: 1, 2, ... -> row
    snapshots,          \* generations with a preview_report_generation_snapshots row
    runs,               \* generations with a preview_memory_retrieval_runs row
    usage,              \* preview_memory_usage: <<generation, rule>>
    rules,              \* feedback key -> feedback with its preview_memory_candidates row
    active,             \* preview_users.is_active
    request,            \* the handlers in flight
    world               \* what may happen in this behaviour

plan == <<prompts, history, outline>>
record == <<generations, snapshots, runs, usage>>
vars == <<prompts, history, outline, generations, snapshots, runs, usage, rules,
          active, request, world>>
-----------------------------------------------------------------------------
Approved == Chapters \ Archived
PromptVersions == 1..MaxPromptVersion
Ids == 1..MaxGenerations

(* An outline names every approved chapter with the version of its prompt. *)
Items == [Approved -> PromptVersions]
NoItems == [c \in Approved |-> 1]
OutlineStatus == {"DRAFT", "CONFIRMED"}
Outline == [version : 0..MaxOutlineVersion, status : OutlineStatus, items : Items]
NoOutline == [version |-> 0, status |-> "DRAFT", items |-> NoItems]

(* GLOBAL, REPORT_TYPE and CLAIM_TYPE rules reach every chapter of a case: *)
(* within one case they are one scope, ORGANIZATION.                       *)
Scopes == {"ORGANIZATION", "CHAPTER", "USER_FEEDBACK"}
RuleStatus == {"PENDING", "ACTIVE", "REJECTED", "DISABLED"}
Rule == [by : Users, scope : Scopes, chapter : Chapters, source : Ids,
         status : RuleStatus, version : Nat]

(* What a generation was made of: its row names the version of the prompt, *)
(* and its input_sha256 covers the rules.                                  *)
Generation == [by : Users, chapter : Chapters, promptVersion : PromptVersions,
               rules : SUBSET Keys]

RequestKind == {"none", "prompt", "outline", "generate", "feedback", "verdict"}
Request == [kind : RequestKind,
            phase : {"idle", "read", "recalled", "written", "kept"},
            user : Users \cup {NoUser}, chapter : Chapters \cup {NoChapter},
            expected : Nat,             \* version sent or read
            status : {"none"} \cup OutlineStatus \cup RuleStatus,
            items : Items, scope : Scopes \cup {"none"},
            key : Keys \cup {NoKey},    \* Idempotency-Key; the candidate of a verdict
            rules : SUBSET Keys,        \* the rules in the prompt
            bridged : BOOLEAN,          \* ranked by the private Hermes bridge
            generation : Ids \cup {0}]

Idle == [kind |-> "none", phase |-> "idle", user |-> NoUser, chapter |-> NoChapter,
         expected |-> 0, status |-> "none", items |-> NoItems, scope |-> "none",
         key |-> NoKey, rules |-> {}, bridged |-> FALSE, generation |-> 0]

Free(r) == request[r].phase = "idle"
At(r, kind, phase) == request[r].kind = kind /\ request[r].phase = phase
Begin(r, q) == request' = [request EXCEPT ![r] = q]
Done(r) == request' = [request EXCEPT ![r] = Idle]

HasAccess(u) == u \in active /\ (u \in Admins \/ u \in Members)
AdminNow(u) == u \in active /\ u \in Admins
Manages(u) == HasAccess(u) /\ u \in Admins \cup Managers

Current == [c \in Approved |-> prompts[c]]
-----------------------------------------------------------------------------
(* PUT /api/admin/report-prompts/<type>/<chapter>.                         *)
ReceivePrompt(r, u, c) ==
    /\ "prompt" \in world /\ Free(r) /\ AdminNow(u) /\ prompts[c] < MaxPromptVersion
    /\ Begin(r, [Idle EXCEPT !.kind = "prompt", !.phase = "read", !.user = u,
                             !.chapter = c, !.expected = prompts[c]])
    /\ UNCHANGED <<plan, record, rules, active, world>>

(* The batch: UPDATE WHERE version, whose trigger asks for an active       *)
(* administrator, and the history row of the version the prompt has now.   *)
(* When the UPDATE misses, that row is there already and UNIQUE (prompt,   *)
(* version) rolls the batch back, or there is nothing to insert.           *)
(* Mutant: the prompt is edited without its history row.                   *)
HistoryAfterNone(c, v) == history
HistoryAfter(c, v) == history \cup {<<c, v>>}

CommitPrompt(r) ==
    LET q == request[r]
        c == q.chapter
    IN  /\ At(r, "prompt", "read")
        /\ IF prompts[c] = q.expected /\ AdminNow(q.user)
              THEN /\ prompts' = [prompts EXCEPT ![c] = q.expected + 1]
                   /\ history' = HistoryAfter(c, q.expected + 1)
              ELSE UNCHANGED <<prompts, history>>
        /\ Done(r)
        /\ UNCHANGED <<outline, record, rules, active, world>>
-----------------------------------------------------------------------------
(* PUT /api/report-authoring/outline: every ACTIVE chapter once, at the    *)
(* version of its prompt; a confirmed outline does not go back to draft.   *)
ReceiveOutline(r, u, status) ==
    /\ Free(r) /\ Manages(u) /\ outline.version < MaxOutlineVersion
    /\ outline.status = "CONFIRMED" => status = "CONFIRMED"
    /\ Begin(r, [Idle EXCEPT !.kind = "outline", !.phase = "read", !.user = u,
                             !.expected = outline.version, !.status = status,
                             !.items = Current])
    /\ UNCHANGED <<plan, record, rules, active, world>>

(* The triggers' template: each item at the version of its prompt, and as  *)
(* many items as the prompt set has chapters, the archived ones counted.   *)
TemplateGuard(items) == items = Current /\ Cardinality(DOMAIN items) = Cardinality(Chapters)

(* preview_report_outline_insert_guard, preview_report_outline_update_guard. *)
OutlineGuard(u, status, items) ==
    /\ HasAccess(u)
    /\ outline.status = "CONFIRMED" => status = "CONFIRMED"
    /\ TemplateGuard(items)

(* INSERT, whose primary key refuses a second row, or UPDATE WHERE version. *)
CommitOutline(r) ==
    LET q == request[r] IN
    /\ At(r, "outline", "read")
    /\ outline' = IF outline.version = q.expected /\ OutlineGuard(q.user, q.status, q.items)
                    THEN [version |-> q.expected + 1, status |-> q.status, items |-> q.items]
                    ELSE outline
    /\ Done(r)
    /\ UNCHANGED <<prompts, history, record, rules, active, world>>
-----------------------------------------------------------------------------
(* POST /api/report-authoring/generate asks for a confirmed outline that   *)
(* names the chapter at the version of its prompt.  An outline that cannot *)
(* be read counts as a database that has none: nothing is asked for.       *)
Planned(c) ==
    c \in Approved /\ outline.status = "CONFIRMED" /\ outline.items[c] = prompts[c]

ReceiveGenerate(r, u, c) ==
    /\ Free(r) /\ Manages(u)
    /\ Planned(c) \/ "unread" \in world
    /\ Begin(r, [Idle EXCEPT !.kind = "generate", !.phase = "read", !.user = u,
                             !.chapter = c, !.expected = prompts[c]])
    /\ UNCHANGED <<plan, record, rules, active, world>>

(* The approved rules in whose scope chapter c of author u is.             *)
(* Mutant: personal rules are read for everybody.                          *)
InScopeOfAll(k, c, u) ==
    rules[k].scope = "CHAPTER" => rules[k].chapter = c
InScope(k, c, u) ==
    /\ rules[k].scope = "CHAPTER" => rules[k].chapter = c
    /\ rules[k].scope = "USER_FEEDBACK" => rules[k].by = u
Recalled(c, u) == {k \in DOMAIN rules : rules[k].status = "ACTIVE" /\ InScope(k, c, u)}

(* previewReportMemoryContext: the rules as they are when they are read,   *)
(* the first RuleLimit of them, and none when the policy is off or the     *)
(* query fails.  When there are some, the private bridge may rank them.    *)
Recall(r, found, bridged) ==
    LET q == request[r]
        all == Recalled(q.chapter, q.user)
    IN  /\ At(r, "generate", "read")
        /\ found \subseteq all
        /\ \/ found = {} \/ Cardinality(found) = RuleLimit
           \/ found = all /\ Cardinality(all) < RuleLimit
        /\ bridged => found # {} /\ "bridge" \in world
        /\ Begin(r, [q EXCEPT !.phase = "recalled", !.rules = found, !.bridged = bridged])
        /\ UNCHANGED <<plan, record, rules, active, world>>

(* The provider has answered: the generation is logged, with no trigger.   *)
CommitGeneration(r) ==
    LET q == request[r]
        n == Cardinality(DOMAIN generations) + 1
        row == [by |-> q.user, chapter |-> q.chapter, promptVersion |-> q.expected,
                rules |-> q.rules]
    IN  /\ At(r, "generate", "recalled") /\ n \in Ids
        /\ generations' = [g \in DOMAIN generations \cup {n} |->
                             IF g = n THEN row ELSE generations[g]]
        /\ Begin(r, [q EXCEPT !.phase = "written", !.generation = n])
        /\ UNCHANGED <<plan, snapshots, runs, usage, rules, active, world>>

(* The snapshot: preview_generation_snapshot_insert_guard asks for an      *)
(* active author.  A failure is swallowed and skips the evidence as well.  *)
(* Mutant: the evidence is recorded all the same.                          *)
AfterSnapshotAlways(r, kept) == Begin(r, [request[r] EXCEPT !.phase = "kept"])
AfterSnapshot(r, kept) ==
    IF kept THEN Begin(r, [request[r] EXCEPT !.phase = "kept"]) ELSE Done(r)

KeepSnapshot(r) ==
    LET kept == request[r].user \in active IN
    /\ At(r, "generate", "written")
    /\ snapshots' = IF kept THEN snapshots \cup {request[r].generation} ELSE snapshots
    /\ AfterSnapshot(r, kept)
    /\ UNCHANGED <<plan, generations, runs, usage, rules, active, world>>

(* The evidence: the retrieval run with one usage row per rule, in one     *)
(* batch.  The CHECK of the table knows the engine of the database only,   *)
(* and the triggers ask for an active and assigned author and for rules    *)
(* that are still approved and in scope.  A failure is swallowed.          *)
(* Mutant: usage of a rule that was switched off meanwhile is accepted.    *)
UsableAnyhow(k, g) == InScope(k, generations[g].chapter, generations[g].by)
Usable(k, g) ==
    rules[k].status = "ACTIVE" /\ InScope(k, generations[g].chapter, generations[g].by)

KeepEvidence(r) ==
    LET q == request[r]
        g == q.generation
    IN  /\ At(r, "generate", "kept")
        /\ IF /\ ~q.bridged
              /\ q.user \in active /\ q.user \in Members
              /\ \A k \in q.rules : Usable(k, g)
              THEN /\ runs' = runs \cup {g}
                   /\ usage' = usage \cup {<<g, k>> : k \in q.rules}
              ELSE UNCHANGED <<runs, usage>>
        /\ Done(r)
        /\ UNCHANGED <<plan, generations, snapshots, rules, active, world>>
-----------------------------------------------------------------------------
(* POST /api/report-memory/feedback is about the newest snapshot of the    *)
(* chapter.  A key already stored is answered from its row.                *)
Newest(c) ==
    {g \in snapshots : /\ generations[g].chapter = c
                       /\ \A h \in snapshots : generations[h].chapter = c => h <= g}

ReceiveFeedback(r, u, key, c, scope) ==
    /\ "feedback" \in world /\ Free(r) /\ HasAccess(u) /\ key \notin DOMAIN rules
    /\ \E g \in Newest(c) :
          Begin(r, [Idle EXCEPT !.kind = "feedback", !.phase = "read", !.user = u,
                                !.chapter = c, !.scope = scope, !.key = key,
                                !.generation = g])
    /\ UNCHANGED <<plan, record, rules, active, world>>

(* The batch: the feedback, whose trigger asks for an active and assigned  *)
(* author, with the PENDING rule made from it; UNIQUE (case, request_key). *)
CommitFeedback(r) ==
    LET q == request[r]
        rule == [by |-> q.user, scope |-> q.scope, chapter |-> q.chapter,
                 source |-> q.generation, status |-> "PENDING", version |-> 1]
    IN  /\ At(r, "feedback", "read")
        /\ rules' = IF q.user \in active /\ q.user \in Members /\ q.key \notin DOMAIN rules
                      THEN [k \in DOMAIN rules \cup {q.key} |->
                              IF k = q.key THEN rule ELSE rules[k]]
                      ELSE rules
        /\ Done(r)
        /\ UNCHANGED <<plan, record, active, world>>

(* PUT /api/admin/report-memory/<id>: one UPDATE WHERE version.            *)
ReceiveVerdict(r, u, k, status) ==
    /\ Free(r) /\ AdminNow(u)
    /\ Begin(r, [Idle EXCEPT !.kind = "verdict", !.phase = "read", !.user = u, !.key = k,
                             !.expected = rules[k].version, !.status = status])
    /\ UNCHANGED <<plan, record, rules, active, world>>

(* preview_memory_candidate_update_guard lets the transition through.      *)
Turns(from, to) ==
    \/ from = "PENDING" /\ to \in {"ACTIVE", "REJECTED"}
    \/ from = "ACTIVE" /\ to = "DISABLED"

CommitVerdict(r) ==
    LET q == request[r] IN
    /\ At(r, "verdict", "read")
    /\ rules' = IF /\ rules[q.key].version = q.expected
                   /\ AdminNow(q.user) /\ Turns(rules[q.key].status, q.status)
                  THEN [rules EXCEPT ![q.key].status = q.status,
                                     ![q.key].version = q.expected + 1]
                  ELSE rules
    /\ Done(r)
    /\ UNCHANGED <<plan, record, active, world>>
-----------------------------------------------------------------------------
(* PUT /api/admin/users/<id>: an administrator closes or reopens an        *)
(* account.                                                                *)
SetActive(u) ==
    /\ u \in Suspendable /\ "suspend" \in world
    /\ active' = IF u \in active THEN active \ {u} ELSE active \cup {u}
    /\ UNCHANGED <<plan, record, rules, request, world>>

(* The provider refuses, times out or writes nothing, D1 fails (which the  *)
(* snapshot and the evidence swallow), the isolate is evicted, or the      *)
(* client goes away: what was committed stays.                             *)
Lose(r) ==
    /\ ~Free(r) /\ "lost" \in world
    /\ Done(r)
    /\ UNCHANGED <<plan, record, rules, active, world>>
-----------------------------------------------------------------------------
Init ==
    /\ prompts = [c \in Chapters |-> 1]
    /\ history = {<<c, 1>> : c \in Chapters}
    /\ outline = NoOutline
    /\ generations = [g \in {} |-> Idle]
    /\ snapshots = {} /\ runs = {} /\ usage = {}
    /\ rules = [k \in {} |-> Idle]
    /\ active = Users
    /\ request = [r \in Requests |-> Idle]
    /\ world \in Worlds

Receive(r, u) ==
    \/ \E c \in Chapters : ReceivePrompt(r, u, c) \/ ReceiveGenerate(r, u, c)
    \/ \E status \in OutlineStatus : ReceiveOutline(r, u, status)
    \/ \E key \in Keys, c \in Chapters, scope \in Scopes : ReceiveFeedback(r, u, key, c, scope)
    \/ \E k \in DOMAIN rules, status \in {"ACTIVE", "REJECTED", "DISABLED"} :
          ReceiveVerdict(r, u, k, status)

Progress(r) ==
    \/ CommitPrompt(r) \/ CommitOutline(r)
    \/ \E found \in SUBSET Keys, bridged \in BOOLEAN : Recall(r, found, bridged)
    \/ CommitGeneration(r) \/ KeepSnapshot(r) \/ KeepEvidence(r)
    \/ CommitFeedback(r) \/ CommitVerdict(r)

Next ==
    \/ \E r \in Requests : (\E u \in Users : Receive(r, u)) \/ Progress(r) \/ Lose(r)
    \/ \E u \in Users : SetActive(u)

Spec == Init /\ [][Next]_vars
-----------------------------------------------------------------------------
(* Type correctness of the tables and of the requests in flight.           *)
TypeOK ==
    /\ prompts \in [Chapters -> PromptVersions]
    /\ history \subseteq Chapters \X PromptVersions
    /\ outline \in Outline
    /\ \E n \in 0..MaxGenerations : DOMAIN generations = 1..n
    /\ \A g \in DOMAIN generations : generations[g] \in Generation
    /\ runs \subseteq snapshots /\ snapshots \subseteq DOMAIN generations
    /\ usage \subseteq runs \X Keys
    /\ DOMAIN rules \subseteq Keys
    /\ \A k \in DOMAIN rules : rules[k] \in Rule
    /\ active \subseteq Users
    /\ request \in [Requests -> Request]
    /\ world \in Worlds

(* Rule k was approved by an administrator (it is ACTIVE, or was before it *)
(* was switched off) and chapter c of author u is in its scope.            *)
Released(k, c, u) ==
    /\ k \in DOMAIN rules
    /\ rules[k].status \in {"ACTIVE", "DISABLED"}
    /\ rules[k].scope = "CHAPTER" => rules[k].chapter = c
    /\ rules[k].scope = "USER_FEEDBACK" => rules[k].by = u

(* Nothing unreleased steers the AI: every rule in the input of a          *)
(* generation, logged or still at the provider, was approved by an         *)
(* administrator, is in the scope of its chapter, and a personal one is    *)
(* the author's own.                                                       *)
OnlyReleasedRules ==
    /\ \A g \in DOMAIN generations : \A k \in generations[g].rules :
          Released(k, generations[g].chapter, generations[g].by)
    /\ \A r \in Requests : \A k \in request[r].rules :
          Released(k, request[r].chapter, request[r].user)

(* However prompts and outline move while the provider writes, the version *)
(* of the prompt a generation names is in the history; and unless a read   *)
(* of the outline failed, the outline is confirmed for good, with that     *)
(* chapter at that version or a later one.                                 *)
PlanTraceable ==
    \A g \in DOMAIN generations :
        LET row == generations[g] IN
        /\ <<row.chapter, row.promptVersion>> \in history
        /\ "unread" \notin world =>
              /\ row.chapter \in Approved /\ outline.status = "CONFIRMED"
              /\ outline.items[row.chapter] \in row.promptVersion..prompts[row.chapter]

(* A retrieval run lists exactly the rules that were in the input.         *)
RunsAreTrue ==
    \A g \in runs : {k \in Keys : <<g, k>> \in usage} = generations[g].rules

(* Its handler has yet to record the evidence of generation g.             *)
Owns(q, g) == q.phase \in {"written", "kept"} /\ q.generation = g
OnItsWay(g) == \E r \in Requests : Owns(request[r], g)

(* "The production migration makes snapshot/usage persistence mandatory"   *)
(* (index.ts, the catch of generate): a generation gets its retrieval run, *)
(* and with it its snapshot.  The code keeps that for an author who is     *)
(* assigned and stays active, as long as the rules of the input stay       *)
(* approved, the bridge has not ranked them and neither handler nor        *)
(* statement is lost; otherwise the evidence is missing without a word.    *)
EvidenceKept ==
    world \cap {"bridge", "lost", "suspend"} = {} =>
        \A g \in DOMAIN generations :
            /\ generations[g].by \in Members
            /\ \A k \in generations[g].rules : rules[k].status = "ACTIVE"
            => g \in runs \/ OnItsWay(g)

(* A generation can be traced back to what it was made from, as far as the *)
(* three parts say.                                                        *)
GenerationsTraceable == PlanTraceable /\ RunsAreTrue /\ EvidenceKept

(* The rules and their recorded use keep what RuleBook promises.           *)
Book == INSTANCE RuleBook
          WITH Rules <- Keys, Uses <- Ids,
               standing <- [k \in DOMAIN rules |-> rules[k].status],
               used <- [g \in runs |-> {k \in Keys : <<g, k>> \in usage}]
RuleBookSpec == Book!Spec

(* "The approved template remains authoritative; writers can add chapter   *)
(* planning notes and explicitly confirm the exact prompt version set"     *)
(* (migration 0016): an outline of exactly the approved chapters, each at  *)
(* the version of its prompt, is one the database takes.                   *)
ApprovedOutlineIsTaken ==
    \A r \in Requests :
        At(r, "outline", "read") /\ request[r].items = Current
          => TemplateGuard(request[r].items)
=============================================================================
