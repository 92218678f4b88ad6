------------------------ MODULE ReportAuthoringProofs ------------------------
(***************************************************************************)
(* Theorems of ReportAuthoring for every set of accounts, chapters, keys   *)
(* and handlers and every bound: only released rules reach the AI, a       *)
(* generation can be traced back as far as GenerationsTraceable says, and  *)
(* the rules with their recorded use implement RuleBook.                   *)
(***************************************************************************)
EXTENDS ReportAuthoring, FiniteSetTheorems, TLAPS

(* What a handler that generates knows and has done: its prompt version is *)
(* in the history and was confirmed with the outline, and a generation it  *)
(* has logged is the one it asked for.                                     *)
Writing(q) ==
    /\ q.user \in Users /\ q.chapter \in Chapters /\ q.expected \in PromptVersions
    /\ <<q.chapter, q.expected>> \in history
    /\ "unread" \notin world =>
          /\ q.chapter \in Approved /\ outline.status = "CONFIRMED"
          /\ outline.items[q.chapter] \in q.expected..prompts[q.chapter]
    /\ q.phase \in {"written", "kept"} =>
          /\ q.generation \in DOMAIN generations
          /\ generations[q.generation] = [by |-> q.user, chapter |-> q.chapter,
                                          promptVersion |-> q.expected, rules |-> q.rules]
    /\ q.phase = "kept" => q.generation \in snapshots

(* What a request in flight knows of the tables.                           *)
Flight(q) ==
    /\ q.phase \in {"written", "kept"} => q.kind = "generate"
    /\ q.kind = "prompt" => /\ q.chapter \in Chapters
                            /\ q.expected \in PromptVersions
                            /\ q.expected < MaxPromptVersion
    /\ q.kind = "outline" => /\ q.expected < MaxOutlineVersion
                             /\ q.status \in OutlineStatus
    /\ q.kind = "generate" => Writing(q)
    /\ q.kind = "feedback" => /\ q.user \in Users /\ q.chapter \in Chapters
                              /\ q.scope \in Scopes /\ q.key \in Keys
                              /\ q.generation \in Ids
    /\ q.kind = "verdict" => q.key \in DOMAIN rules /\ q.status \in RuleStatus
    /\ \A k \in q.rules : Released(k, q.chapter, q.user)

RequestsOK == /\ request \in [Requests -> Request]
              /\ \A r \in Requests : Flight(request[r])

(* A generation belongs to one handler, until its evidence is recorded.    *)
OwnersOK ==
    /\ \A r, s \in Requests, g \in Ids : Owns(request[r], g) /\ Owns(request[s], g) => r = s
    /\ \A r \in Requests, g \in runs : ~Owns(request[r], g)

(* The types of all but the requests.                                      *)
TablesOK ==
    /\ prompts \in [Chapters -> PromptVersions]
    /\ history \subseteq Chapters \X PromptVersions
    /\ outline \in Outline
    /\ \E n \in 0..MaxGenerations : DOMAIN generations = 1..n
    /\ \A g \in DOMAIN generations : generations[g] \in Generation
    /\ runs \subseteq snapshots /\ snapshots \subseteq DOMAIN generations
    /\ usage \subseteq runs \X Keys
    /\ DOMAIN rules \subseteq Keys
    /\ \A k \in DOMAIN rules : rules[k] \in Rule
    /\ active \subseteq Users
    /\ world \in Worlds

(* The history has the version every prompt has, and the outline never     *)
(* names a version that is not there yet.                                  *)
PlanOK ==
    /\ \A c \in Chapters : <<c, prompts[c]>> \in history
    /\ \A c \in Approved : outline.items[c] \in 1..prompts[c]

(* What was recorded is true; that it is recorded is shown afterwards.     *)
Traced == PlanTraceable /\ RunsAreTrue

Inv == TablesOK /\ RequestsOK /\ OwnersOK /\ PlanOK /\ OnlyReleasedRules /\ Traced

(* Prompts, outline, generations and rules only move forward.              *)
Grows ==
    /\ UNCHANGED world
    /\ \A c \in Chapters : prompts[c] <= prompts'[c]
    /\ history \subseteq history'
    /\ outline.status = "CONFIRMED" => outline'.status = "CONFIRMED"
    /\ \A c \in Approved : outline.items[c] <= outline'.items[c]
    /\ \A g \in DOMAIN generations : /\ g \in DOMAIN generations'
                                     /\ generations'[g] = generations[g]
    /\ snapshots \subseteq snapshots'
    /\ \A k \in DOMAIN rules :
          /\ k \in DOMAIN rules'
          /\ rules'[k].scope = rules[k].scope /\ rules'[k].chapter = rules[k].chapter
          /\ rules'[k].by = rules[k].by
          /\ rules[k].status \in {"ACTIVE", "DISABLED"} =>
                rules'[k].status \in {"ACTIVE", "DISABLED"}

-----------------------------------------------------------------------------
LEMMA IdleFacts == /\ Idle \in Request /\ Idle.kind = "none" /\ Idle.phase = "idle"
                   /\ Idle.rules = {} /\ NoItems \in Items
  <1>1. NoItems \in Items
    BY AuthoringAssumption DEF NoItems, Items, PromptVersions
  <1> QED BY <1>1, AuthoringAssumption DEF Idle, Request, RequestKind

LEMMA ReleasedGrows ==
    ASSUME Grows, NEW k, NEW c, NEW u, Released(k, c, u)
    PROVE  Released(k, c, u)'
  BY DEF Grows, Released

LEMMA FlightGrows ==
    ASSUME TablesOK, TablesOK', PlanOK', Grows, NEW q \in Request, Flight(q)
    PROVE  Flight(q)'
  <1>1. ASSUME q.kind = "generate"
        PROVE  Writing(q)'
    <2>1. Writing(q)
      BY <1>1 DEF Flight
    <2>2. ASSUME "unread" \notin world
          PROVE  outline'.items[q.chapter] \in q.expected..prompts'[q.chapter]
      <3>0. q.chapter \in Approved
        BY <2>1, <2>2 DEF Writing
      <3>1. /\ outline.items[q.chapter] \in PromptVersions
            /\ outline'.items[q.chapter] \in PromptVersions
            /\ prompts'[q.chapter] \in PromptVersions
        BY <2>1, <3>0 DEF TablesOK, Outline, Items, Writing
      <3>2. /\ outline.items[q.chapter] <= outline'.items[q.chapter]
            /\ outline'.items[q.chapter] \in 1..prompts'[q.chapter]
            /\ outline.items[q.chapter] \in q.expected..prompts[q.chapter]
            /\ q.expected \in PromptVersions
        BY <2>1, <2>2, <3>0 DEF Grows, PlanOK, Writing
      <3> QED BY <3>1, <3>2, AuthoringAssumption DEF PromptVersions
    <2> QED BY <2>1, <2>2 DEF Writing, Grows
  <1>2. q.kind = "verdict" => q.key \in DOMAIN rules'
    BY DEF Flight, Grows
  <1>3. \A k \in q.rules : Released(k, q.chapter, q.user)'
    BY ReleasedGrows DEF Flight
  <1> QED BY <1>1, <1>2, <1>3 DEF Flight

(* One request moves on, the others still know what they knew.             *)
LEMMA RequestMoves ==
    ASSUME RequestsOK, TablesOK, TablesOK', PlanOK', Grows, NEW r \in Requests,
           NEW n \in Request, request' = [request EXCEPT ![r] = n], Flight(n)'
    PROVE  RequestsOK'
  <1>1. request' \in [Requests -> Request]
    BY DEF RequestsOK
  <1>2. ASSUME NEW s \in Requests PROVE Flight(request[s])'
    <2>1. CASE s = r
      <3>1. request'[s] = n
        BY <2>1 DEF RequestsOK
      <3> QED BY <3>1 DEF Flight, Writing, Released
    <2>2. CASE s # r
      <3>1. PICK q \in Request : q = request[s]
        BY DEF RequestsOK
      <3>2. Flight(q)'
        BY <3>1, FlightGrows DEF RequestsOK
      <3>3. request'[s] = q
        BY <3>1, <2>2 DEF RequestsOK
      <3> QED BY <3>2, <3>3 DEF Flight, Writing, Released
    <2> QED BY <2>1, <2>2
  <1> QED BY <1>1, <1>2 DEF RequestsOK

(* A rule released for a generation or a request stays released.           *)
LEMMA ReleasedKept ==
    ASSUME OnlyReleasedRules, Grows, RequestsOK', generations' = generations
    PROVE  OnlyReleasedRules'
  <1>1. ASSUME NEW g \in DOMAIN generations', NEW k \in generations'[g].rules
        PROVE  Released(k, generations[g].chapter, generations[g].by)'
    <2>1. PICK c, u : c = generations[g].chapter /\ u = generations[g].by
      OBVIOUS
    <2>2. Released(k, c, u)'
      BY <2>1, ReleasedGrows DEF OnlyReleasedRules
    <2> QED BY <2>1, <2>2 DEF Released
  <1>2. ASSUME NEW s \in Requests, NEW k \in request'[s].rules
        PROVE  Released(k, request[s].chapter, request[s].user)'
    BY DEF RequestsOK, Flight
  <1> QED BY <1>1, <1>2 DEF OnlyReleasedRules

(* The generations there are stay traceable while the plan moves.          *)
LEMMA TracedKept ==
    ASSUME TablesOK, TablesOK', PlanOK', Grows, Traced,
           UNCHANGED <<generations, runs, usage>>
    PROVE  Traced'
  <1> SUFFICES ASSUME NEW g \in DOMAIN generations, "unread" \notin world
               PROVE  /\ generations[g].chapter \in Approved
                      /\ outline'.status = "CONFIRMED"
                      /\ outline'.items[generations[g].chapter] \in
                            generations[g].promptVersion..prompts'[generations[g].chapter]
    BY DEF Traced, PlanTraceable, RunsAreTrue, Grows
  <1> DEFINE c == generations[g].chapter
  <1>1. /\ c \in Approved /\ outline.status = "CONFIRMED"
        /\ outline.items[c] \in generations[g].promptVersion..prompts[c]
    BY DEF Traced, PlanTraceable
  <1>2. c \in Chapters
    BY <1>1 DEF Approved
  <1>3. /\ outline.items[c] \in PromptVersions /\ outline'.items[c] \in PromptVersions
        /\ prompts'[c] \in PromptVersions /\ generations[g].promptVersion \in PromptVersions
    BY <1>1, <1>2 DEF TablesOK, Outline, Items, Generation
  <1>4. /\ outline.items[c] <= outline'.items[c] /\ outline'.items[c] \in 1..prompts'[c]
        /\ outline'.status = "CONFIRMED"
    BY <1>1, <1>2 DEF Grows, PlanOK
  <1> QED BY <1>1, <1>3, <1>4 DEF PromptVersions

-----------------------------------------------------------------------------
LEMMA InvInit == Init => Inv
  <1> SUFFICES ASSUME Init PROVE Inv
    OBVIOUS
  <1>1. TablesOK
    <2>1. NoOutline \in Outline
      BY IdleFacts, AuthoringAssumption DEF NoOutline, Outline, OutlineStatus
    <2>2. DOMAIN generations = 1..0 /\ 0 \in 0..MaxGenerations
      BY AuthoringAssumption DEF Init
    <2> QED BY <2>1, <2>2, AuthoringAssumption DEF Init, TablesOK, PromptVersions
  <1>2. RequestsOK /\ OwnersOK
    BY IdleFacts DEF Init, RequestsOK, Flight, OwnersOK, Owns
  <1>3. PlanOK
    BY DEF Init, PlanOK, NoOutline, NoItems, Approved
  <1>4. OnlyReleasedRules /\ Traced
    BY IdleFacts DEF Init, OnlyReleasedRules, Traced, PlanTraceable, RunsAreTrue
  <1> QED BY <1>1, <1>2, <1>3, <1>4 DEF Inv

LEMMA Still ==
    ASSUME TablesOK, UNCHANGED <<plan, record, rules, world>>
    PROVE  Grows
  <1>1. \A c \in Chapters : prompts[c] \in Int
    BY DEF TablesOK, PromptVersions
  <1>2. \A c \in Approved : outline.items[c] \in Int
    BY DEF TablesOK, Outline, Items, PromptVersions
  <1> QED BY <1>1, <1>2 DEF Grows, plan, record

(* A step that reads: one request moves on before its first batch.         *)
LEMMA Reading ==
    ASSUME Inv, NEW r \in Requests, NEW n \in Request,
           request' = [request EXCEPT ![r] = n],
           UNCHANGED <<plan, record, rules, active, world>>,
           Flight(n), n.phase \notin {"written", "kept"}
    PROVE  Inv'
  <1>1. Grows /\ TablesOK' /\ PlanOK'
    BY Still DEF Inv, TablesOK, PlanOK, plan, record
  <1>2. Flight(n)'
    BY DEF Flight, Writing, Released, plan, record
  <1>3. RequestsOK'
    BY <1>1, <1>2, RequestMoves DEF Inv
  <1>4. OwnersOK'
    BY DEF Inv, OwnersOK, Owns, RequestsOK, record
  <1>5. OnlyReleasedRules'
    BY <1>1, <1>3, ReleasedKept DEF Inv, record
  <1>6. Traced'
    BY <1>1, TracedKept DEF Inv, record
  <1> QED BY <1>1, <1>3, <1>4, <1>5, <1>6 DEF Inv

(* A batch that ends a request and writes no record of a generation.       *)
LEMMA Ending ==
    ASSUME Inv, NEW r \in Requests, Done(r), UNCHANGED record,
           Grows, TablesOK', PlanOK'
    PROVE  Inv'
  <1>1. Flight(Idle)'
    BY IdleFacts DEF Flight
  <1>2. PICK n \in Request : n = Idle
    BY IdleFacts
  <1>3. RequestsOK'
    BY <1>1, <1>2, RequestMoves DEF Inv, Done
  <1>4. OwnersOK'
    BY IdleFacts DEF Inv, OwnersOK, Owns, RequestsOK, record, Done
  <1>5. OnlyReleasedRules'
    BY <1>3, ReleasedKept DEF Inv, record
  <1>6. Traced'
    BY TracedKept DEF Inv, record
  <1> QED BY <1>3, <1>4, <1>5, <1>6 DEF Inv

-----------------------------------------------------------------------------
LEMMA InvReceive ==
    ASSUME Inv, NEW r \in Requests, NEW u \in Users, Receive(r, u)
    PROVE  Inv'
  <1>1. UNCHANGED <<plan, record, rules, active, world>>
    BY DEF Receive, ReceivePrompt, ReceiveGenerate, ReceiveOutline, ReceiveFeedback,
           ReceiveVerdict
  <1>2. ASSUME NEW c \in Chapters, ReceivePrompt(r, u, c)
        PROVE  Inv'
    <2> DEFINE n == [Idle EXCEPT !.kind = "prompt", !.phase = "read", !.user = u,
                                 !.chapter = c, !.expected = prompts[c]]
    <2>1. prompts[c] \in PromptVersions /\ prompts[c] < MaxPromptVersion
      BY <1>2 DEF ReceivePrompt, Inv, TablesOK
    <2>2. n \in Request
      <3>1. prompts[c] \in Nat
        BY <2>1, AuthoringAssumption DEF PromptVersions
      <3> QED BY <3>1, IdleFacts DEF Request, RequestKind
    <2>3. Flight(n)
      BY <2>1, IdleFacts DEF Flight, Idle
    <2>9. request' = [request EXCEPT ![r] = n] /\ n.phase = "read"
      BY <1>2, IdleFacts DEF ReceivePrompt, Begin, Idle
    <2> QED BY <1>1, <2>2, <2>3, <2>9, Reading
  <1>3. ASSUME NEW c \in Chapters, ReceiveGenerate(r, u, c)
        PROVE  Inv'
    <2> DEFINE n == [Idle EXCEPT !.kind = "generate", !.phase = "read", !.user = u,
                                 !.chapter = c, !.expected = prompts[c]]
    <2>1. prompts[c] \in PromptVersions /\ (Planned(c) \/ "unread" \in world)
      BY <1>3 DEF ReceiveGenerate, Inv, TablesOK
    <2>2. n \in Request
      <3>1. prompts[c] \in Nat
        BY <2>1, AuthoringAssumption DEF PromptVersions
      <3> QED BY <3>1, IdleFacts DEF Request, RequestKind
    <2>3. Planned(c) => outline.items[c] \in prompts[c]..prompts[c]
      BY <2>1 DEF Planned, PromptVersions
    <2>4. Writing(n)
      BY <2>1, <2>3 DEF Writing, Idle, Planned, Inv, PlanOK
    <2>5. Flight(n)
      BY <2>1, <2>4, IdleFacts DEF Flight, Idle
    <2>9. request' = [request EXCEPT ![r] = n] /\ n.phase = "read"
      BY <1>3, IdleFacts DEF ReceiveGenerate, Begin, Idle
    <2> QED BY <1>1, <2>2, <2>5, <2>9, Reading
  <1>4. ASSUME NEW status \in OutlineStatus, ReceiveOutline(r, u, status)
        PROVE  Inv'
    <2> DEFINE n == [Idle EXCEPT !.kind = "outline", !.phase = "read", !.user = u,
                                 !.expected = outline.version, !.status = status,
                                 !.items = Current]
    <2>1. Current \in Items /\ outline.version \in Nat /\ outline.version < MaxOutlineVersion
      BY <1>4 DEF Inv, TablesOK, Current, Items, Approved, Outline, ReceiveOutline
    <2>2. n \in Request
      BY <2>1, IdleFacts DEF Request, RequestKind
    <2>3. Flight(n)
      BY <2>1, IdleFacts DEF Flight, Idle
    <2>9. request' = [request EXCEPT ![r] = n] /\ n.phase = "read"
      BY <1>4, IdleFacts DEF ReceiveOutline, Begin, Idle
    <2> QED BY <1>1, <2>2, <2>3, <2>9, Reading
  <1>5. ASSUME NEW key \in Keys, NEW c \in Chapters, NEW scope \in Scopes,
               ReceiveFeedback(r, u, key, c, scope)
        PROVE  Inv'
    <2>1. PICK g \in Newest(c) :
             Begin(r, [Idle EXCEPT !.kind = "feedback", !.phase = "read", !.user = u,
                                   !.chapter = c, !.scope = scope, !.key = key,
                                   !.generation = g])
      BY <1>5 DEF ReceiveFeedback
    <2> DEFINE n == [Idle EXCEPT !.kind = "feedback", !.phase = "read", !.user = u,
                                 !.chapter = c, !.scope = scope, !.key = key,
                                 !.generation = g]
    <2>2. g \in Ids
      <3>1. g \in DOMAIN generations
        BY DEF Newest, Inv, TablesOK
      <3> QED BY <3>1, AuthoringAssumption DEF Inv, TablesOK, Ids
    <2>3. n \in Request
      BY <2>2, IdleFacts DEF Request, RequestKind
    <2>4. Flight(n)
      BY <2>2, IdleFacts DEF Flight, Idle
    <2>9. request' = [request EXCEPT ![r] = n] /\ n.phase = "read"
      BY <2>1, IdleFacts DEF Begin, Idle
    <2> QED BY <1>1, <2>3, <2>4, <2>9, Reading
  <1>6. ASSUME NEW k \in DOMAIN rules, NEW status \in {"ACTIVE", "REJECTED", "DISABLED"},
               ReceiveVerdict(r, u, k, status)
        PROVE  Inv'
    <2> DEFINE n == [Idle EXCEPT !.kind = "verdict", !.phase = "read", !.user = u,
                                 !.key = k, !.expected = rules[k].version,
                                 !.status = status]
    <2>1. k \in Keys /\ rules[k].version \in Nat /\ status \in RuleStatus
      BY DEF Inv, TablesOK, Rule, RuleStatus
    <2>2. n \in Request
      BY <2>1, IdleFacts DEF Request, RequestKind
    <2>3. Flight(n)
      BY <2>1, IdleFacts DEF Flight, Idle
    <2>9. request' = [request EXCEPT ![r] = n] /\ n.phase = "read"
      BY <1>6, IdleFacts DEF ReceiveVerdict, Begin, Idle
    <2> QED BY <1>1, <2>2, <2>3, <2>9, Reading
  <1> QED BY <1>2, <1>3, <1>4, <1>5, <1>6 DEF Receive

LEMMA InvRecall ==
    ASSUME Inv, NEW r \in Requests, NEW found \in SUBSET Keys, NEW bridged \in BOOLEAN,
           Recall(r, found, bridged)
    PROVE  Inv'
  <1> DEFINE q == request[r]
             n == [q EXCEPT !.phase = "recalled", !.rules = found, !.bridged = bridged]
  <1>1. q \in Request /\ Flight(q) /\ q.kind = "generate" /\ q.phase = "read"
    BY DEF Recall, At, Inv, RequestsOK
  <1>2. n \in Request
    BY <1>1 DEF Request
  <1>3. \A k \in found : Released(k, q.chapter, q.user)
    BY DEF Recall, Recalled, InScope, Released
  <1>4. Flight(n)
    BY <1>1, <1>3 DEF Flight, Writing, Request
  <1>5. request' = [request EXCEPT ![r] = n] /\ UNCHANGED <<plan, record, rules, active, world>>
    BY DEF Recall, Begin
  <1> QED BY <1>1, <1>2, <1>4, <1>5, Reading DEF Request

LEMMA InvCommitPrompt ==
    ASSUME Inv, NEW r \in Requests, CommitPrompt(r)
    PROVE  Inv'
  <1> DEFINE q == request[r]
             c == q.chapter
  <1>1. /\ c \in Chapters /\ q.expected \in PromptVersions /\ q.expected < MaxPromptVersion
        /\ Done(r) /\ UNCHANGED record /\ UNCHANGED <<outline, rules, active, world>>
    BY DEF CommitPrompt, At, Inv, RequestsOK, Flight
  <1>2. CASE prompts[c] = q.expected /\ AdminNow(q.user)
    <2>1. /\ prompts' = [prompts EXCEPT ![c] = q.expected + 1]
          /\ history' = history \cup {<<c, q.expected + 1>>}
          /\ q.expected + 1 \in PromptVersions
      BY <1>1, <1>2, AuthoringAssumption DEF CommitPrompt, HistoryAfter, PromptVersions
    <2>2. \A d \in Chapters : /\ prompts[d] \in PromptVersions /\ prompts'[d] \in PromptVersions
                              /\ prompts[d] <= prompts'[d]
      BY <1>1, <1>2, <2>1 DEF Inv, TablesOK, PromptVersions
    <2>3. TablesOK'
      BY <1>1, <2>1 DEF Inv, TablesOK, record
    <2>4. PlanOK'
      <3>1. ASSUME NEW d \in Chapters PROVE <<d, prompts'[d]>> \in history'
        BY <1>1, <2>1 DEF Inv, PlanOK, TablesOK
      <3>2. ASSUME NEW d \in Approved PROVE outline'.items[d] \in 1..prompts'[d]
        <4>1. d \in Chapters
          BY DEF Approved
        <4> QED BY <1>1, <2>2, <4>1 DEF Inv, PlanOK, PromptVersions
      <3> QED BY <1>1, <3>1, <3>2 DEF Inv, PlanOK, record
    <2>5. Grows
      <3>1. \A d \in Approved : outline.items[d] \in Int
        BY DEF Inv, TablesOK, Outline, Items, PromptVersions
      <3> QED BY <1>1, <2>1, <2>2, <3>1 DEF Grows, record
    <2> QED BY <1>1, <2>3, <2>4, <2>5, Ending
  <1>3. CASE ~(prompts[c] = q.expected /\ AdminNow(q.user))
    <2>1. UNCHANGED <<plan, record, rules, active, world>>
      BY <1>1, <1>3 DEF CommitPrompt, plan
    <2> QED BY <1>1, <2>1, Still, Ending DEF Inv, TablesOK, PlanOK, plan, record
  <1> QED BY <1>2, <1>3

LEMMA InvCommitOutline ==
    ASSUME Inv, NEW r \in Requests, CommitOutline(r)
    PROVE  Inv'
  <1> DEFINE q == request[r]
  <1>1. /\ q.status \in OutlineStatus /\ q.expected \in Nat /\ q.expected < MaxOutlineVersion
        /\ Done(r) /\ UNCHANGED record /\ UNCHANGED <<prompts, history, rules, active, world>>
    BY DEF CommitOutline, At, Inv, RequestsOK, Flight, Request
  <1>2. CASE outline.version = q.expected /\ OutlineGuard(q.user, q.status, q.items)
    <2>1. /\ outline' = [version |-> q.expected + 1, status |-> q.status, items |-> Current]
          /\ outline.status = "CONFIRMED" => q.status = "CONFIRMED"
      BY <1>2 DEF CommitOutline, OutlineGuard, TemplateGuard
    <2>2. Current \in Items /\ \A c \in Approved : Current[c] = prompts[c] /\ c \in Chapters
      BY DEF Current, Items, Inv, TablesOK, Approved
    <2>3. TablesOK'
      <3>1. outline' \in Outline
        BY <1>1, <2>1, <2>2, AuthoringAssumption DEF Outline
      <3> QED BY <1>1, <3>1 DEF Inv, TablesOK, record
    <2>4. \A c \in Approved : outline'.items[c] = prompts[c] /\ prompts[c] \in PromptVersions
      BY <2>1, <2>2 DEF Inv, TablesOK
    <2>5. PlanOK'
      BY <1>1, <2>4 DEF Inv, PlanOK, record, PromptVersions
    <2>6. Grows
      <3>1. \A c \in Approved : outline.items[c] <= outline'.items[c]
        BY <2>4 DEF Inv, PlanOK, PromptVersions
      <3>2. \A c \in Chapters : prompts[c] <= prompts'[c]
        BY <1>1 DEF Inv, TablesOK, PromptVersions
      <3> QED BY <1>1, <2>1, <3>1, <3>2 DEF Grows, record
    <2> QED BY <1>1, <2>3, <2>5, <2>6, Ending
  <1>3. CASE ~(outline.version = q.expected /\ OutlineGuard(q.user, q.status, q.items))
    <2>1. UNCHANGED <<plan, record, rules, active, world>>
      BY <1>1, <1>3 DEF CommitOutline, plan
    <2> QED BY <1>1, <2>1, Still, Ending DEF Inv, TablesOK, PlanOK, plan, record
  <1> QED BY <1>2, <1>3

(* The new generation is the next one, and what its handler knows of it is *)
(* what makes it traceable.                                                *)
LEMMA InvCommitGeneration ==
    ASSUME Inv, NEW r \in Requests, CommitGeneration(r)
    PROVE  Inv'
  <1> DEFINE q == request[r]
             n == Cardinality(DOMAIN generations) + 1
             row == [by |-> q.user, chapter |-> q.chapter, promptVersion |-> q.expected,
                     rules |-> q.rules]
  <1>1. /\ q \in Request /\ q.kind = "generate" /\ q.phase = "recalled" /\ n \in Ids
        /\ generations' = [g \in DOMAIN generations \cup {n} |->
                             IF g = n THEN row ELSE generations[g]]
        /\ request' = [request EXCEPT ![r] = [q EXCEPT !.phase = "written",
                                                       !.generation = n]]
        /\ UNCHANGED <<plan, snapshots, runs, usage, rules, active, world>>
    BY DEF CommitGeneration, At, Begin, Inv, RequestsOK
  <1>2. Flight(q) /\ Writing(q)
    BY <1>1 DEF Inv, RequestsOK, Flight
  <1>3. row \in Generation
    BY <1>1, <1>2 DEF Writing, Generation, Request, Approved
  <1>4. PICK m \in 0..MaxGenerations : DOMAIN generations = 1..m
    BY DEF Inv, TablesOK
  <1>5. n = m + 1 /\ n \notin DOMAIN generations /\ DOMAIN generations' = 1..n
    <2>1. Cardinality(1..m) = m
      BY <1>4, FS_Interval, AuthoringAssumption
    <2> QED BY <1>1, <1>4, <2>1, AuthoringAssumption
  <1>6. \A g \in DOMAIN generations : generations'[g] = generations[g]
    BY <1>1, <1>5
  <1>7. generations'[n] = row
    BY <1>1
  <1>8. TablesOK'
    <2>1. \E k \in 0..MaxGenerations : DOMAIN generations' = 1..k
      BY <1>1, <1>4, <1>5, AuthoringAssumption DEF Ids
    <2>2. \A g \in DOMAIN generations' : generations'[g] \in Generation
      BY <1>1, <1>3 DEF Inv, TablesOK
    <2>3. snapshots' \subseteq DOMAIN generations'
      BY <1>1 DEF Inv, TablesOK
    <2> HIDE DEF n, q, row
    <2> QED BY <1>1, <2>1, <2>2, <2>3 DEF Inv, TablesOK, plan
  <1>9. PlanOK'
    BY <1>1, <1>2 DEF Inv, PlanOK, plan, Writing
  <1>10. Grows
    <2>1. \A c \in Chapters : prompts[c] \in Int
      BY DEF Inv, TablesOK, PromptVersions
    <2>2. \A c \in Approved : outline.items[c] \in Int
      BY DEF Inv, TablesOK, Outline, Items, PromptVersions
    <2>3. DOMAIN generations \subseteq DOMAIN generations'
      BY <1>1
    <2> HIDE DEF n, q, row
    <2> QED BY <1>1, <1>6, <2>1, <2>2, <2>3 DEF Grows, plan
  <1>11. PICK t \in Request : t = [q EXCEPT !.phase = "written", !.generation = n]
    BY <1>1 DEF Request
  <1>12. Flight(t)'
    <2>1. /\ t.kind = "generate" /\ t.phase = "written" /\ t.generation = n
          /\ t.user = q.user /\ t.chapter = q.chapter /\ t.expected = q.expected
          /\ t.rules = q.rules
      BY <1>1, <1>11 DEF Request
    <2>2. Writing(t)'
      BY <1>1, <1>2, <1>5, <1>7, <2>1 DEF Writing, plan
    <2>3. \A k \in t.rules : Released(k, t.chapter, t.user)'
      BY <1>1, <1>2, <2>1 DEF Flight, Released
    <2> QED BY <2>1, <2>2, <2>3 DEF Flight
  <1>13. RequestsOK'
    BY <1>1, <1>8, <1>9, <1>10, <1>11, <1>12, RequestMoves DEF Inv
  <1>14. OwnersOK'
    <2>1. ASSUME NEW s \in Requests PROVE ~Owns(request[s], n)
      BY <1>5 DEF Owns, Inv, RequestsOK, Flight, Writing
    <2>2. n \notin runs
      BY <1>5 DEF Inv, TablesOK
    <2>3. request'[r].generation = n /\ \A s \in Requests \ {r} : request'[s] = request[s]
      BY <1>1 DEF Inv, RequestsOK, Request
    <2>4. \A s \in Requests \ {r}, g \in Ids : Owns(request'[s], g) => g # n
      BY <2>1, <2>3
    <2>5. \A g \in Ids : Owns(request'[r], g) => g = n
      BY <2>3 DEF Owns
    <2>6. \A s, w \in Requests, g \in Ids : Owns(request'[s], g) /\ Owns(request'[w], g) => s = w
      BY <2>3, <2>4, <2>5 DEF Inv, OwnersOK
    <2>7. \A s \in Requests, g \in runs : ~Owns(request'[s], g)
      BY <2>2, <2>3 DEF Inv, OwnersOK, Owns
    <2> QED BY <1>1, <2>6, <2>7 DEF OwnersOK, Owns
  <1>15. OnlyReleasedRules'
    <2>1. \A g \in DOMAIN generations', k \in Keys :
             k \in generations'[g].rules =>
               Released(k, generations'[g].chapter, generations'[g].by)
      <3>1. \A k \in row.rules : Released(k, row.chapter, row.by)
        BY <1>2 DEF Flight
      <3> QED BY <1>1, <3>1, <1>6, <1>7 DEF Inv, OnlyReleasedRules
    <2>2. \A g \in DOMAIN generations' : generations'[g].rules \subseteq Keys
      BY <1>8 DEF TablesOK, Generation
    <2>3. \A s \in Requests : \A k \in request'[s].rules :
             Released(k, request[s].chapter, request[s].user)'
      BY <1>13 DEF RequestsOK, Flight
    <2>4. \A g \in DOMAIN generations' : \A k \in generations'[g].rules :
             Released(k, generations[g].chapter, generations[g].by)'
      <3> SUFFICES ASSUME NEW g \in DOMAIN generations', NEW k \in generations'[g].rules
                   PROVE  Released(k, generations[g].chapter, generations[g].by)'
        OBVIOUS
      <3> HIDE DEF n, q, row
      <3>1. Released(k, generations'[g].chapter, generations'[g].by)
        BY <2>1, <2>2
      <3>2. rules' = rules
        BY <1>1
      <3> QED BY <3>1, <3>2 DEF Released
    <2> HIDE DEF n, q, row
    <2> QED BY <2>3, <2>4 DEF OnlyReleasedRules
  <1>16. Traced'
    <2>1. /\ <<row.chapter, row.promptVersion>> \in history
          /\ "unread" \notin world =>
                /\ row.chapter \in Approved /\ outline.status = "CONFIRMED"
                /\ outline.items[row.chapter] \in row.promptVersion..prompts[row.chapter]
      BY <1>2 DEF Writing
    <2>2. runs \subseteq DOMAIN generations
      BY DEF Inv, TablesOK
    <2> HIDE DEF row, q, n
    <2> QED BY <1>1, <1>6, <1>7, <2>1, <2>2 DEF Inv, Traced, PlanTraceable, RunsAreTrue, plan
  <1> QED BY <1>8, <1>9, <1>13, <1>14, <1>15, <1>16 DEF Inv

LEMMA InvKeepSnapshot ==
    ASSUME Inv, NEW r \in Requests, KeepSnapshot(r)
    PROVE  Inv'
  <1> DEFINE q == request[r]
  <1>1. /\ q \in Request /\ q.kind = "generate" /\ q.phase = "written" /\ Flight(q)
        /\ Writing(q) /\ UNCHANGED <<plan, generations, runs, usage, rules, active, world>>
    BY DEF KeepSnapshot, At, Inv, RequestsOK, Flight
  <1>2. CASE q.user \in active
    <2>1. /\ snapshots' = snapshots \cup {q.generation}
          /\ request' = [request EXCEPT ![r] = [q EXCEPT !.phase = "kept"]]
      BY <1>2 DEF KeepSnapshot, AfterSnapshot, Begin
    <2>2. TablesOK' /\ PlanOK'
      BY <1>1, <2>1 DEF Inv, TablesOK, PlanOK, Writing, plan
    <2>3. Grows
      <3>1. \A c \in Chapters : prompts[c] \in Int
        BY DEF Inv, TablesOK, PromptVersions
      <3>2. \A c \in Approved : outline.items[c] \in Int
        BY DEF Inv, TablesOK, Outline, Items, PromptVersions
      <3> QED BY <1>1, <2>1, <3>1, <3>2 DEF Grows, plan
    <2>4. PICK t \in Request : t = [q EXCEPT !.phase = "kept"]
      BY <1>1 DEF Request
    <2>5. /\ t.kind = "generate" /\ t.phase = "kept" /\ t.generation = q.generation
          /\ t.user = q.user /\ t.chapter = q.chapter /\ t.expected = q.expected
          /\ t.rules = q.rules
      BY <1>1, <2>4 DEF Request
    <2>6. Writing(t)'
      BY <1>1, <2>1, <2>5 DEF Writing, plan
    <2>7. Flight(t)'
      BY <1>1, <2>5, <2>6 DEF Flight, Released
    <2>8. RequestsOK'
      BY <2>1, <2>2, <2>3, <2>4, <2>7, RequestMoves DEF Inv
    <2>9. OwnersOK'
      <3>1. \A s \in Requests, g \in Ids \cup runs : Owns(request'[s], g) => Owns(request[s], g)
        BY <1>1, <2>1, <2>4, <2>5 DEF Owns, Inv, RequestsOK
      <3> QED BY <1>1, <3>1 DEF Inv, OwnersOK, Owns
    <2>10. OnlyReleasedRules'
      BY <1>1, <2>3, <2>8, ReleasedKept DEF Inv
    <2>11. Traced'
      BY <1>1, <2>2, <2>3, TracedKept DEF Inv
    <2> QED BY <2>2, <2>8, <2>9, <2>10, <2>11 DEF Inv
  <1>3. CASE q.user \notin active
    <2>1. Done(r) /\ UNCHANGED <<plan, record, rules, active, world>>
      BY <1>1, <1>3 DEF KeepSnapshot, AfterSnapshot, record
    <2> QED BY <2>1, Still, Ending DEF Inv, TablesOK, PlanOK, plan, record
  <1> QED BY <1>2, <1>3

(* The evidence of a generation is recorded by its one owner, once, so the *)
(* rules in its run are those of its input.                                *)
LEMMA InvKeepEvidence ==
    ASSUME Inv, NEW r \in Requests, KeepEvidence(r)
    PROVE  Inv'
  <1> DEFINE q == request[r]
             g == q.generation
  <1>1. /\ q \in Request /\ q.kind = "generate" /\ q.phase = "kept" /\ Flight(q)
        /\ Writing(q) /\ Done(r)
        /\ UNCHANGED <<plan, generations, snapshots, rules, active, world>>
    BY DEF KeepEvidence, At, Inv, RequestsOK, Flight
  <1>2. CASE UNCHANGED <<runs, usage>>
    <2>1. UNCHANGED <<plan, record, rules, active, world>>
      BY <1>1, <1>2 DEF record
    <2> QED BY <1>1, <2>1, Still, Ending DEF Inv, TablesOK, PlanOK, plan, record
  <1>3. CASE runs' = runs \cup {g} /\ usage' = usage \cup {<<g, k>> : k \in q.rules}
    <2>1. g \in snapshots /\ generations[g].rules = q.rules /\ q.rules \subseteq Keys
      BY <1>1 DEF Writing, Request
    <2>2. g \in Ids /\ g \in DOMAIN generations
      <3>1. g \in DOMAIN generations
        BY <1>1 DEF Writing
      <3> QED BY <3>1, AuthoringAssumption DEF Inv, TablesOK, Ids
    <2>3. g \notin runs
      BY <1>1 DEF Inv, OwnersOK, Owns
    <2>4. TablesOK' /\ PlanOK'
      <3>1. usage' \subseteq runs' \X Keys
        BY <1>3, <2>1 DEF Inv, TablesOK
      <3>2. runs' \subseteq snapshots'
        BY <1>1, <1>3, <2>1 DEF Inv, TablesOK
      <3> HIDE DEF g
      <3> QED BY <1>1, <3>1, <3>2 DEF Inv, TablesOK, PlanOK, plan
    <2>5. Grows
      <3>1. \A c \in Chapters : prompts[c] \in Int
        BY DEF Inv, TablesOK, PromptVersions
      <3>2. \A c \in Approved : outline.items[c] \in Int
        BY DEF Inv, TablesOK, Outline, Items, PromptVersions
      <3> QED BY <1>1, <3>1, <3>2 DEF Grows, plan
    <2>6. PICK t \in Request : t = Idle
      BY IdleFacts
    <2>7. Flight(t)'
      BY <2>6, IdleFacts DEF Flight
    <2>8. RequestsOK'
      BY <1>1, <2>4, <2>5, <2>6, <2>7, RequestMoves DEF Inv, Done
    <2>9. OwnersOK'
      <3>1. \A s \in Requests : s # r => request'[s] = request[s]
        BY <1>1 DEF Done, Inv, RequestsOK
      <3>2. \A h \in Ids \cup runs' : ~Owns(request'[r], h)
        BY <1>1, IdleFacts DEF Done, Inv, RequestsOK, Owns
      <3>3. Owns(request[r], g)
        BY <1>1 DEF Owns
      <3>4. \A s \in Requests : s # r => ~Owns(request'[s], g)
        BY <2>2, <3>1, <3>3 DEF Inv, OwnersOK
      <3> QED BY <1>3, <3>1, <3>2, <3>4 DEF Inv, OwnersOK, Owns
    <2>10. OnlyReleasedRules'
      BY <1>1, <2>5, <2>8, ReleasedKept DEF Inv
    <2>11. Traced'
      <3>1. PlanTraceable'
        BY <1>1 DEF Inv, Traced, PlanTraceable, plan
      <3>2. {k \in Keys : <<g, k>> \in usage'} = generations'[g].rules
        BY <1>1, <1>3, <2>1, <2>3 DEF Inv, TablesOK
      <3>3. ASSUME NEW h \in runs, h # g
            PROVE  {k \in Keys : <<h, k>> \in usage'} = generations'[h].rules
        <4>1. \A k \in Keys : <<h, k>> \in usage' <=> <<h, k>> \in usage
          BY <1>3, <3>3
        <4> QED BY <1>1, <4>1 DEF Inv, Traced, RunsAreTrue
      <3> HIDE DEF g
      <3> QED BY <1>3, <3>1, <3>2, <3>3 DEF Traced, RunsAreTrue
    <2> QED BY <2>4, <2>8, <2>9, <2>10, <2>11 DEF Inv
  <1> QED BY <1>2, <1>3 DEF KeepEvidence

LEMMA InvCommitFeedback ==
    ASSUME Inv, NEW r \in Requests, CommitFeedback(r)
    PROVE  Inv'
  <1> DEFINE q == request[r]
             rule == [by |-> q.user, scope |-> q.scope, chapter |-> q.chapter,
                      source |-> q.generation, status |-> "PENDING", version |-> 1]
  <1>1. /\ q.user \in Users /\ q.chapter \in Chapters /\ q.scope \in Scopes /\ q.key \in Keys
        /\ q.generation \in Ids
        /\ Done(r) /\ UNCHANGED record /\ UNCHANGED <<plan, active, world>>
    BY DEF CommitFeedback, At, Inv, RequestsOK, Flight, record
  <1>2. CASE q.user \in active /\ q.user \in Members /\ q.key \notin DOMAIN rules
    <2>1. rules' = [k \in DOMAIN rules \cup {q.key} |-> IF k = q.key THEN rule ELSE rules[k]]
      BY <1>2 DEF CommitFeedback
    <2>2. rule \in Rule
      BY <1>1 DEF Rule, RuleStatus
    <2>3. \A k \in DOMAIN rules : k \in DOMAIN rules' /\ rules'[k] = rules[k]
      BY <1>2, <2>1
    <2>4. DOMAIN rules' \subseteq Keys /\ \A k \in DOMAIN rules' : rules'[k] \in Rule
      BY <1>1, <2>1, <2>2 DEF Inv, TablesOK
    <2>5. TablesOK' /\ PlanOK'
      <3> HIDE DEF rule, q
      <3> QED BY <1>1, <2>4 DEF Inv, TablesOK, PlanOK, plan, record
    <2>6. Grows
      <3>1. \A c \in Chapters : prompts[c] \in Int
        BY DEF Inv, TablesOK, PromptVersions
      <3>2. \A c \in Approved : outline.items[c] \in Int
        BY DEF Inv, TablesOK, Outline, Items, PromptVersions
      <3> HIDE DEF rule, q
      <3> QED BY <1>1, <2>3, <3>1, <3>2 DEF Grows, plan, record
    <2> QED BY <1>1, <2>5, <2>6, Ending
  <1>3. CASE rules' = rules
    <2>1. UNCHANGED <<plan, record, rules, active, world>>
      BY <1>1, <1>3
    <2> QED BY <1>1, <2>1, Still, Ending DEF Inv, TablesOK, PlanOK, plan, record
  <1> QED BY <1>2, <1>3 DEF CommitFeedback

(* A verdict never takes back a release: an approved rule is only ever     *)
(* switched off.                                                           *)
LEMMA InvCommitVerdict ==
    ASSUME Inv, NEW r \in Requests, CommitVerdict(r)
    PROVE  Inv'
  <1> DEFINE q == request[r]
             k == q.key
  <1>1. /\ q \in Request /\ k \in DOMAIN rules /\ q.status \in RuleStatus
        /\ Done(r) /\ UNCHANGED record /\ UNCHANGED <<plan, active, world>>
    BY DEF CommitVerdict, At, Inv, RequestsOK, Flight, record
  <1>2. CASE /\ Turns(rules[k].status, q.status)
             /\ rules' = [rules EXCEPT ![k].status = q.status, ![k].version = q.expected + 1]
    <2>1. DOMAIN rules' = DOMAIN rules
      BY <1>2
    <2>2. \A j \in DOMAIN rules : j # k => rules'[j] = rules[j]
      BY <1>1, <1>2
    <2>3. rules[k] \in Rule /\ q.expected \in Nat
      BY <1>1 DEF Inv, TablesOK, Request
    <2>4. rules'[k] = [rules[k] EXCEPT !.status = q.status, !.version = q.expected + 1]
      BY <1>1, <1>2, <2>3 DEF Rule
    <2>5. /\ rules'[k] \in Rule
          /\ rules'[k].scope = rules[k].scope /\ rules'[k].chapter = rules[k].chapter
          /\ rules'[k].by = rules[k].by /\ rules'[k].status = q.status
      <3>1. PICK old \in Rule : old = rules[k]
        BY <2>3
      <3>2. PICK to \in RuleStatus, v \in Nat : to = q.status /\ v = q.expected + 1
        BY <1>1, <2>3
      <3>3. rules'[k] = [old EXCEPT !.status = to, !.version = v]
        BY <2>4, <3>1, <3>2
      <3> HIDE DEF k, q
      <3> QED BY <3>1, <3>2, <3>3 DEF Rule
    <2>6. rules[k].status \in {"ACTIVE", "DISABLED"} => q.status \in {"ACTIVE", "DISABLED"}
      BY <1>2 DEF Turns
    <2>7. TablesOK' /\ PlanOK'
      <3> HIDE DEF k, q
      <3> QED BY <1>1, <2>1, <2>2, <2>5 DEF Inv, TablesOK, PlanOK, plan, record
    <2>8. Grows
      <3>1. \A c \in Chapters : prompts[c] \in Int
        BY DEF Inv, TablesOK, PromptVersions
      <3>2. \A c \in Approved : outline.items[c] \in Int
        BY DEF Inv, TablesOK, Outline, Items, PromptVersions
      <3> HIDE DEF k, q
      <3> QED BY <1>1, <2>1, <2>2, <2>5, <2>6, <3>1, <3>2 DEF Grows, plan, record
    <2> QED BY <1>1, <2>7, <2>8, Ending
  <1>3. CASE rules' = rules
    <2>1. UNCHANGED <<plan, record, rules, active, world>>
      BY <1>1, <1>3
    <2> QED BY <1>1, <2>1, Still, Ending DEF Inv, TablesOK, PlanOK, plan, record
  <1> QED BY <1>2, <1>3 DEF CommitVerdict

LEMMA InvNext == Inv /\ [Next]_vars => Inv'
  <1> SUFFICES ASSUME Inv, [Next]_vars PROVE Inv'
    OBVIOUS
  <1>1. ASSUME NEW r \in Requests, Lose(r) PROVE Inv'
    BY <1>1, Still, Ending DEF Lose, Inv, TablesOK, PlanOK, plan, record
  <1>2. ASSUME NEW u \in Users, SetActive(u) PROVE Inv'
    <2>1. active' \subseteq Users /\ UNCHANGED <<plan, record, rules, request, world>>
      BY <1>2, AuthoringAssumption DEF SetActive, Inv, TablesOK
    <2> QED BY <2>1 DEF Inv, TablesOK, RequestsOK, Flight, Writing, Released, OwnersOK, Owns,
               PlanOK, OnlyReleasedRules, Traced, PlanTraceable, RunsAreTrue, plan, record
  <1>3. ASSUME UNCHANGED vars PROVE Inv'
    BY <1>3 DEF Inv, TablesOK, RequestsOK, Flight, Writing, Released, OwnersOK, Owns,
       PlanOK, OnlyReleasedRules, Traced, PlanTraceable, RunsAreTrue, vars
  <1>4. ASSUME NEW r \in Requests, Progress(r) PROVE Inv'
    BY <1>4, InvCommitPrompt, InvCommitOutline, InvRecall, InvCommitGeneration,
       InvKeepSnapshot, InvKeepEvidence, InvCommitFeedback, InvCommitVerdict DEF Progress
  <1> QED BY <1>1, <1>2, <1>3, <1>4, InvReceive DEF Next

LEMMA Invariant == Spec => []Inv
  <1> QED BY InvInit, InvNext, PTL DEF Spec

(* The tables and the requests in flight keep their types.                 *)
THEOREM Typed == Spec => []TypeOK
  <1>1. Inv => TypeOK
    BY DEF Inv, TablesOK, RequestsOK, TypeOK
  <1> QED BY <1>1, Invariant, PTL

(* Only what an administrator approved, in its scope, is ever in the input *)
(* of the AI: for any number of handlers, rules and verdicts between the   *)
(* read of the rules and the answer of the provider.                       *)
THEOREM ReleasedRules == Spec => []OnlyReleasedRules
  <1>1. Inv => OnlyReleasedRules
    BY DEF Inv
  <1> QED BY <1>1, Invariant, PTL

-----------------------------------------------------------------------------
(* Where nothing gets in the way, everybody stays active and no rules come *)
(* from the bridge.                                                        *)
Calm == world \cap {"bridge", "lost", "suspend"} = {}
Undisturbed == Calm => active = Users /\ \A r \in Requests : ~request[r].bridged

LEMMA UndisturbedInit == Init => Undisturbed /\ EvidenceKept
  BY DEF Init, Undisturbed, EvidenceKept, Idle

LEMMA UndisturbedNext ==
    ASSUME Inv, Undisturbed, [Next]_vars
    PROVE  Undisturbed'
  <1> SUFFICES ASSUME Calm'
               PROVE  active' = Users /\ \A s \in Requests : ~request'[s].bridged
    BY DEF Undisturbed
  <1>1. world' = world
    <2>1. ASSUME NEW r \in Requests, NEW u \in Users, Receive(r, u) PROVE world' = world
      BY <2>1 DEF Receive, ReceivePrompt, ReceiveGenerate, ReceiveOutline, ReceiveFeedback,
         ReceiveVerdict
    <2>2. ASSUME NEW r \in Requests, Progress(r) PROVE world' = world
      BY <2>2 DEF Progress, CommitPrompt, CommitOutline, Recall, CommitGeneration,
         KeepSnapshot, KeepEvidence, CommitFeedback, CommitVerdict
    <2> QED BY <2>1, <2>2 DEF Next, vars, Lose, SetActive
  <1>2. /\ Calm /\ active = Users /\ \A s \in Requests : ~request[s].bridged
        /\ "bridge" \notin world /\ "lost" \notin world /\ "suspend" \notin world
    BY <1>1 DEF Undisturbed, Calm
  <1>3. /\ request \in [Requests -> Request] /\ Idle \in Request /\ ~Idle.bridged
    BY IdleFacts DEF Inv, RequestsOK, Idle
  <1>4. ASSUME NEW r \in Requests, NEW u \in Users, Receive(r, u)
        PROVE  active' = active /\ \E n : ~n.bridged /\ request' = [request EXCEPT ![r] = n]
    <2>1. active' = active
      BY <1>4 DEF Receive, ReceivePrompt, ReceiveGenerate, ReceiveOutline, ReceiveFeedback,
         ReceiveVerdict
    <2>2. ASSUME NEW c \in Chapters, ReceivePrompt(r, u, c) \/ ReceiveGenerate(r, u, c)
          PROVE  \E n : ~n.bridged /\ request' = [request EXCEPT ![r] = n]
      BY <2>2 DEF ReceivePrompt, ReceiveGenerate, Begin, Idle
    <2>3. ASSUME NEW status \in OutlineStatus, ReceiveOutline(r, u, status)
          PROVE  \E n : ~n.bridged /\ request' = [request EXCEPT ![r] = n]
      BY <2>3 DEF ReceiveOutline, Begin, Idle
    <2>4. ASSUME NEW key \in Keys, NEW c \in Chapters, NEW scope \in Scopes,
                 ReceiveFeedback(r, u, key, c, scope)
          PROVE  \E n : ~n.bridged /\ request' = [request EXCEPT ![r] = n]
      BY <2>4 DEF ReceiveFeedback, Begin, Idle
    <2>5. ASSUME NEW k \in DOMAIN rules, NEW status \in {"ACTIVE", "REJECTED", "DISABLED"},
                 ReceiveVerdict(r, u, k, status)
          PROVE  \E n : ~n.bridged /\ request' = [request EXCEPT ![r] = n]
      BY <2>5 DEF ReceiveVerdict, Begin, Idle
    <2> QED BY <1>4, <2>1, <2>2, <2>3, <2>4, <2>5 DEF Receive
  <1>5. ASSUME NEW r \in Requests, Progress(r)
        PROVE  active' = active /\ \E n : ~n.bridged /\ request' = [request EXCEPT ![r] = n]
    <2>1. active' = active
      BY <1>5 DEF Progress, CommitPrompt, CommitOutline, Recall, CommitGeneration,
         KeepSnapshot, KeepEvidence, CommitFeedback, CommitVerdict
    <2>2. ASSUME Done(r)
          PROVE  \E n : ~n.bridged /\ request' = [request EXCEPT ![r] = n]
      BY <1>3, <2>2 DEF Done
    <2>3. ASSUME NEW found \in SUBSET Keys, NEW bridged \in BOOLEAN, Recall(r, found, bridged)
          PROVE  \E n : ~n.bridged /\ request' = [request EXCEPT ![r] = n]
      <3> DEFINE n == [request[r] EXCEPT !.phase = "recalled", !.rules = found,
                                         !.bridged = bridged]
      <3>1. request' = [request EXCEPT ![r] = n] /\ ~bridged
        BY <1>2, <2>3 DEF Recall, Begin
      <3>2. n.bridged = bridged
        BY <1>3 DEF Request
      <3> QED BY <3>1, <3>2
    <2>4. CASE CommitGeneration(r)
      <3>0. PICK n : n = [request[r] EXCEPT !.phase = "written",
                                            !.generation = Cardinality(DOMAIN generations) + 1]
        OBVIOUS
      <3>1. request' = [request EXCEPT ![r] = n]
        BY <2>4, <3>0 DEF CommitGeneration, Begin
      <3>2. n.bridged = request[r].bridged
        BY <1>3, <3>0 DEF Request
      <3>3. ~n.bridged
        BY <1>2, <3>2
      <3> QED BY <2>1, <3>1, <3>3
    <2>5. CASE KeepSnapshot(r)
      <3>0. PICK n : n = [request[r] EXCEPT !.phase = "kept"]
        OBVIOUS
      <3>1. request' = [request EXCEPT ![r] = n] \/ Done(r)
        BY <2>5, <3>0 DEF KeepSnapshot, AfterSnapshot, Begin
      <3>2. n.bridged = request[r].bridged
        BY <1>3, <3>0 DEF Request
      <3>3. ~n.bridged
        BY <1>2, <3>2
      <3> QED BY <2>1, <2>2, <3>1, <3>3
    <2> QED BY <1>5, <2>1, <2>2, <2>3, <2>4, <2>5
            DEF Progress, CommitPrompt, CommitOutline, KeepEvidence, CommitFeedback, CommitVerdict
  <1>6. ASSUME NEW r \in Requests, NEW n, ~n.bridged, request' = [request EXCEPT ![r] = n]
        PROVE  \A s \in Requests : ~request'[s].bridged
    BY <1>2, <1>3, <1>6
  <1>7. ASSUME UNCHANGED vars PROVE active' = active /\ request' = request
    BY <1>7 DEF vars
  <1> QED BY <1>2, <1>4, <1>5, <1>6, <1>7 DEF Next, Lose, SetActive

(* A step of a handler that owes no evidence: the generations wait on for  *)
(* theirs, and no rule becomes approved again.                             *)
LEMMA EvidenceStays ==
    ASSUME Inv, EvidenceKept, NEW r \in Requests, request[r].phase \notin {"written", "kept"},
           \A s \in Requests : s # r => request'[s] = request[s],
           UNCHANGED <<generations, runs, world>>,
           \A k \in DOMAIN rules :
              rules[k].status \in {"ACTIVE", "DISABLED"} /\ rules'[k].status = "ACTIVE" =>
                 rules[k].status = "ACTIVE"
    PROVE  EvidenceKept'
  <1> SUFFICES ASSUME Calm, NEW g \in DOMAIN generations, generations[g].by \in Members,
                      \A k \in generations[g].rules : rules'[k].status = "ACTIVE"
               PROVE  g \in runs \/ OnItsWay(g)'
    BY DEF EvidenceKept, Calm
  <1>1. \A k \in generations[g].rules : rules[k].status = "ACTIVE"
    BY DEF Inv, OnlyReleasedRules, Released
  <1>2. g \in runs \/ OnItsWay(g)
    BY <1>1 DEF EvidenceKept, Calm
  <1> QED BY <1>2 DEF OnItsWay, Owns

(* A new generation is on its way, and a snapshot does not stop one.       *)
LEMMA EvidenceOfNew ==
    ASSUME Inv, EvidenceKept, NEW r \in Requests, CommitGeneration(r)
    PROVE  EvidenceKept'
  <1>0. PICK n : n = Cardinality(DOMAIN generations) + 1
    OBVIOUS
  <1> DEFINE t == [request[r] EXCEPT !.phase = "written", !.generation = n]
  <1>1. /\ n \in Ids /\ request[r] \in Request /\ request[r].phase = "recalled"
        /\ request' = [request EXCEPT ![r] = t] /\ UNCHANGED <<runs, rules, world>>
        /\ DOMAIN generations' = DOMAIN generations \cup {n}
        /\ \A g \in DOMAIN generations : g # n => generations'[g] = generations[g]
    BY <1>0 DEF CommitGeneration, At, Begin, Inv, RequestsOK
  <1>2. t.phase = "written" /\ t.generation = n
    BY <1>1 DEF Request
  <1>3. request'[r] = t /\ \A s \in Requests : s # r => request'[s] = request[s]
    BY <1>1 DEF Inv, RequestsOK
  <1> HIDE DEF t
  <1>4. OnItsWay(n)'
    BY <1>2, <1>3 DEF OnItsWay, Owns
  <1>5. \A g \in DOMAIN generations : OnItsWay(g) => OnItsWay(g)'
    BY <1>1, <1>3 DEF OnItsWay, Owns
  <1> SUFFICES ASSUME Calm, NEW g \in DOMAIN generations', g # n, generations'[g].by \in Members,
                      \A k \in generations'[g].rules : rules[k].status = "ACTIVE"
               PROVE  g \in runs \/ OnItsWay(g)'
    BY <1>1, <1>4 DEF EvidenceKept, Calm
  <1>6. g \in DOMAIN generations /\ generations'[g] = generations[g]
    BY <1>1
  <1> QED BY <1>5, <1>6 DEF EvidenceKept, Calm

LEMMA EvidenceOfSnapshot ==
    ASSUME Inv, Undisturbed, EvidenceKept, NEW r \in Requests, KeepSnapshot(r)
    PROVE  EvidenceKept'
  <1>1. UNCHANGED <<generations, runs, rules, world>>
    BY DEF KeepSnapshot
  <1>2. request[r] \in Request /\ request[r].user \in Users
    BY DEF KeepSnapshot, At, Inv, RequestsOK, Flight, Writing
  <1> DEFINE t == [request[r] EXCEPT !.phase = "kept"]
  <1>3. ASSUME Calm
        PROVE  /\ request'[r] = t /\ \A s \in Requests : s # r => request'[s] = request[s]
    BY <1>2, <1>3 DEF Undisturbed, KeepSnapshot, AfterSnapshot, Begin, Inv, RequestsOK
  <1>4. t.phase = "kept" /\ t.generation = request[r].generation
    BY <1>2 DEF Request
  <1> HIDE DEF t
  <1>5. ASSUME Calm, NEW g, OnItsWay(g) PROVE OnItsWay(g)'
    BY <1>3, <1>4, <1>5 DEF OnItsWay, Owns
  <1> QED BY <1>1, <1>5 DEF EvidenceKept, Calm

(* Where nothing gets in the way the evidence of a generation whose rules  *)
(* are all approved is accepted.                                           *)
LEMMA EvidenceOfRun ==
    ASSUME Inv, Undisturbed, EvidenceKept, NEW r \in Requests, KeepEvidence(r)
    PROVE  EvidenceKept'
  <1> DEFINE q == request[r]
             g == q.generation
  <1>1. /\ q \in Request /\ Flight(q) /\ Writing(q) /\ q.phase = "kept"
        /\ runs \subseteq runs' /\ UNCHANGED <<generations, rules, world>>
        /\ \A s \in Requests : s # r => request'[s] = request[s]
    BY DEF KeepEvidence, At, Done, Inv, RequestsOK, Flight
  <1>2. generations[g].by = q.user /\ generations[g].chapter = q.chapter
        /\ generations[g].rules = q.rules /\ q.user \in Users
    BY <1>1 DEF Writing
  <1>3. ASSUME Calm, generations[g].by \in Members,
               \A k \in generations[g].rules : rules[k].status = "ACTIVE"
        PROVE  g \in runs'
    <2>1. ~q.bridged /\ q.user \in active /\ q.user \in Members
      BY <1>2, <1>3 DEF Undisturbed
    <2>2. \A k \in q.rules : Usable(k, g)
      BY <1>1, <1>2, <1>3 DEF Flight, Released, Usable, InScope
    <2> QED BY <2>1, <2>2 DEF KeepEvidence
  <1> SUFFICES ASSUME Calm, NEW h \in DOMAIN generations, generations[h].by \in Members,
                      \A k \in generations[h].rules : rules[k].status = "ACTIVE", h # g
               PROVE  h \in runs' \/ OnItsWay(h)'
    BY <1>1, <1>3 DEF EvidenceKept, Calm
  <1>4. h \in runs \/ OnItsWay(h)
    BY DEF EvidenceKept, Calm
  <1> QED BY <1>1, <1>4 DEF OnItsWay, Owns

LEMMA EvidenceNext ==
    ASSUME Inv, Undisturbed, EvidenceKept, [Next]_vars
    PROVE  EvidenceKept'
  <1>1. ASSUME NEW r \in Requests, NEW u \in Users, Receive(r, u) PROVE EvidenceKept'
    <2>1. request[r].phase = "idle" /\ UNCHANGED <<generations, runs, rules, world>>
      BY <1>1 DEF Receive, ReceivePrompt, ReceiveGenerate, ReceiveOutline, ReceiveFeedback,
         ReceiveVerdict, Free, record
    <2>2. \A s \in Requests : s # r => request'[s] = request[s]
      BY <1>1 DEF Receive, ReceivePrompt, ReceiveGenerate, ReceiveOutline, ReceiveFeedback,
         ReceiveVerdict, Begin, Inv, RequestsOK
    <2> QED BY <2>1, <2>2, EvidenceStays
  <1>2. ASSUME NEW r \in Requests,
               \/ CommitPrompt(r) \/ CommitOutline(r)
               \/ \E found \in SUBSET Keys, bridged \in BOOLEAN : Recall(r, found, bridged)
        PROVE  EvidenceKept'
    <2>1. request[r].phase = "read" /\ UNCHANGED <<generations, runs, rules, world>>
      BY <1>2 DEF CommitPrompt, CommitOutline, Recall, At, record
    <2>2. \A s \in Requests : s # r => request'[s] = request[s]
      BY <1>2 DEF CommitPrompt, CommitOutline, Recall, Begin, Done, Inv, RequestsOK
    <2> QED BY <2>1, <2>2, EvidenceStays
  <1>3. ASSUME NEW r \in Requests, CommitFeedback(r) PROVE EvidenceKept'
    <2>1. request[r].phase = "read" /\ UNCHANGED <<generations, runs, world>>
      BY <1>3 DEF CommitFeedback, At, record
    <2>2. \A s \in Requests : s # r => request'[s] = request[s]
      BY <1>3 DEF CommitFeedback, Done, Inv, RequestsOK
    <2>3. \A k \in DOMAIN rules : rules'[k] = rules[k]
      BY <1>3 DEF CommitFeedback
    <2> QED BY <2>1, <2>2, <2>3, EvidenceStays
  <1>4. ASSUME NEW r \in Requests, CommitVerdict(r) PROVE EvidenceKept'
    <2>1. request[r].phase = "read" /\ UNCHANGED <<generations, runs, world>>
      BY <1>4 DEF CommitVerdict, At, record
    <2>2. \A s \in Requests : s # r => request'[s] = request[s]
      BY <1>4 DEF CommitVerdict, Done, Inv, RequestsOK
    <2>3. ASSUME NEW k \in DOMAIN rules, rules[k].status \in {"ACTIVE", "DISABLED"},
                 rules'[k].status = "ACTIVE"
          PROVE  rules[k].status = "ACTIVE"
      <3> DEFINE q == request[r]
      <3>1. CASE /\ Turns(rules[q.key].status, q.status)
                 /\ rules' = [rules EXCEPT ![q.key].status = q.status,
                                          ![q.key].version = q.expected + 1]
        BY <2>3, <3>1 DEF Turns
      <3>2. CASE rules' = rules
        BY <2>3, <3>2
      <3> QED BY <1>4, <3>1, <3>2 DEF CommitVerdict
    <2> QED BY <2>1, <2>2, <2>3, EvidenceStays
  <1>5. ASSUME NEW r \in Requests, Lose(r) PROVE EvidenceKept'
    BY <1>5 DEF Lose, EvidenceKept
  <1>6. ASSUME NEW u \in Users, SetActive(u) PROVE EvidenceKept'
    BY <1>6 DEF SetActive, EvidenceKept
  <1>7. ASSUME UNCHANGED vars PROVE EvidenceKept'
    BY <1>7 DEF vars, EvidenceKept, OnItsWay, Owns
  <1> QED BY <1>1, <1>2, <1>3, <1>4, <1>5, <1>6, <1>7,
             EvidenceOfNew, EvidenceOfSnapshot, EvidenceOfRun DEF Next, Progress

(* Plan and rules a generation was made from can be found: the prompt      *)
(* version always, the confirmed outline when its read did not fail, and   *)
(* for an assigned author a retrieval run of exactly its rules, where they *)
(* stay approved and nothing gets in the way.                              *)
THEOREM Traceable == Spec => []GenerationsTraceable
  <1>1. Init => Undisturbed /\ EvidenceKept
    BY UndisturbedInit
  <1>2. Inv /\ (Undisturbed /\ EvidenceKept) /\ [Next]_vars => (Undisturbed /\ EvidenceKept)'
    BY UndisturbedNext, EvidenceNext
  <1>3. Inv /\ EvidenceKept => GenerationsTraceable
    BY DEF Inv, Traced, GenerationsTraceable
  <1> QED BY <1>1, <1>2, <1>3, Invariant, PTL DEF Spec

-----------------------------------------------------------------------------
standings == [k \in DOMAIN rules |-> rules[k].status]
uses == [g \in runs |-> {k \in Keys : <<g, k>> \in usage}]

LEMMA FeedbackProposes ==
    ASSUME Inv, NEW r \in Requests, CommitFeedback(r), rules' # rules
    PROVE  Book!Next
  <1> DEFINE q == request[r]
  <1>1. /\ q.key \in Keys /\ q.key \notin DOMAIN rules
        /\ UNCHANGED <<plan, record, active, world>>
    BY DEF CommitFeedback, At, Inv, RequestsOK, Flight
  <1>2. /\ DOMAIN rules' = DOMAIN rules \cup {q.key}
        /\ rules'[q.key].status = "PENDING"
        /\ \A k \in DOMAIN rules : rules'[k] = rules[k]
    BY <1>1 DEF CommitFeedback
  <1>3. standings' = [k \in DOMAIN standings \cup {q.key} |->
                        IF k = q.key THEN "PENDING" ELSE standings[k]]
    BY <1>1, <1>2 DEF standings
  <1>4. PICK k \in Keys : k = q.key
    BY <1>1
  <1>5. Book!Propose(k)
    BY <1>1, <1>3, <1>4 DEF Book!Propose, standings, record
  <1> QED BY <1>5 DEF Book!Next

LEMMA VerdictTurns ==
    ASSUME Inv, NEW r \in Requests, CommitVerdict(r), rules' # rules
    PROVE  Book!Next
  <1> DEFINE q == request[r]
             k == q.key
  <1>1. /\ k \in DOMAIN rules /\ k \in Keys /\ Turns(rules[k].status, q.status)
        /\ rules' = [rules EXCEPT ![k].status = q.status, ![k].version = q.expected + 1]
        /\ rules[k] \in Rule /\ UNCHANGED record
    BY DEF CommitVerdict, At, Inv, RequestsOK, Flight, TablesOK
  <1>2. rules'[k].status = q.status
    <2>1. rules'[k] = [rules[k] EXCEPT !.status = q.status, !.version = q.expected + 1]
      BY <1>1
    <2> QED BY <1>1, <2>1 DEF Rule
  <1>3. DOMAIN rules' = DOMAIN rules /\ \A j \in DOMAIN rules : j # k => rules'[j] = rules[j]
    BY <1>1
  <1>4. standings' = [standings EXCEPT ![k] = q.status]
    BY <1>1, <1>2, <1>3 DEF standings
  <1>5. PICK j \in Keys, from, to \in RuleStatus :
               j = k /\ from = rules[k].status /\ to = q.status
    BY <1>1 DEF Inv, RequestsOK, Flight, Rule, CommitVerdict, At
  <1>6. Book!Turn(j, from, to)
    BY <1>1, <1>4, <1>5 DEF Book!Turn, standings, record
  <1>7. Turns(from, to)
    BY <1>1, <1>5
  <1> QED BY <1>6, <1>7 DEF Book!Next, Turns

LEMMA EvidenceUses ==
    ASSUME Inv, NEW r \in Requests, KeepEvidence(r), ~UNCHANGED <<runs, usage>>
    PROVE  Book!Next
  <1> DEFINE q == request[r]
             g == q.generation
  <1>1. /\ q \in Request /\ q.phase = "kept" /\ Writing(q) /\ UNCHANGED rules
        /\ \A k \in q.rules : Usable(k, g)
        /\ runs' = runs \cup {g} /\ usage' = usage \cup {<<g, k>> : k \in q.rules}
    BY DEF KeepEvidence, At, Inv, RequestsOK, Flight
  <1>2. g \in Ids /\ g \notin runs /\ q.rules \subseteq Keys /\ q.rules \subseteq DOMAIN rules
    <2>1. g \in Ids
      <3>1. g \in DOMAIN generations
        BY <1>1 DEF Writing
      <3> QED BY <3>1, AuthoringAssumption DEF Inv, TablesOK, Ids
    <2>2. g \notin runs
      BY <1>1, <2>1 DEF Inv, OwnersOK, Owns
    <2>3. q.rules \subseteq DOMAIN rules
      BY DEF Inv, RequestsOK, Flight, Released
    <2> QED BY <1>1, <2>1, <2>2, <2>3 DEF Request
  <1>3. \A k \in Keys : <<g, k>> \in usage' <=> k \in q.rules
    BY <1>1, <1>2 DEF Inv, TablesOK
  <1>4. \A h \in runs, k \in Keys : <<h, k>> \in usage' <=> <<h, k>> \in usage
    BY <1>1, <1>2
  <1>5. uses' = [h \in DOMAIN uses \cup {g} |-> IF h = g THEN q.rules ELSE uses[h]]
    <2> DEFINE rhs == [h \in DOMAIN uses \cup {g} |-> IF h = g THEN q.rules ELSE uses[h]]
    <2>1. {k \in Keys : <<g, k>> \in usage'} = q.rules
      BY <1>2, <1>3
    <2>2. \A h \in runs : {k \in Keys : <<h, k>> \in usage'} = uses[h]
      BY <1>4 DEF uses
    <2> HIDE DEF g, q
    <2> QED BY <1>1, <1>2, <2>1, <2>2 DEF uses
  <1>6. q.rules \subseteq Book!Active
    BY <1>1, <1>2 DEF Book!Active, Usable
  <1>7. PICK h \in Ids, found \in SUBSET Keys : h = g /\ found = q.rules
    BY <1>2
  <1>8. Book!Use(h, found)
    BY <1>1, <1>2, <1>5, <1>6, <1>7 DEF Book!Use, uses
  <1> QED BY <1>8 DEF Book!Next

LEMMA BookStep == Inv /\ [Next]_vars => [Book!Next]_(Book!vars)
  <1> SUFFICES ASSUME Inv, [Next]_vars PROVE [Book!Next]_(Book!vars)
    OBVIOUS
  <1>1. UNCHANGED <<rules, runs, usage>> => UNCHANGED Book!vars
    BY DEF Book!vars
  <1>2. ASSUME NEW r \in Requests, CommitFeedback(r)
        PROVE  rules' = rules => UNCHANGED <<rules, runs, usage>>
    BY <1>2 DEF CommitFeedback, record
  <1>3. ASSUME NEW r \in Requests, CommitVerdict(r)
        PROVE  rules' = rules => UNCHANGED <<rules, runs, usage>>
    BY <1>3 DEF CommitVerdict, record
  <1>4. ASSUME NEW r \in Requests, KeepEvidence(r)
        PROVE  UNCHANGED <<runs, usage>> => UNCHANGED <<rules, runs, usage>>
    BY <1>4 DEF KeepEvidence
  <1>5. ASSUME NEW r \in Requests, NEW u \in Users, Receive(r, u)
        PROVE  UNCHANGED <<rules, runs, usage>>
    BY <1>5 DEF Receive, ReceivePrompt, ReceiveGenerate, ReceiveOutline, ReceiveFeedback,
       ReceiveVerdict, record
  <1>6. ASSUME NEW r \in Requests,
               \/ CommitPrompt(r) \/ CommitOutline(r) \/ CommitGeneration(r)
               \/ KeepSnapshot(r) \/ Lose(r)
               \/ \E found \in SUBSET Keys, bridged \in BOOLEAN : Recall(r, found, bridged)
        PROVE  UNCHANGED <<rules, runs, usage>>
    BY <1>6 DEF CommitPrompt, CommitOutline, Recall, CommitGeneration, KeepSnapshot, Lose,
       record
  <1>7. (\E u \in Users : SetActive(u)) \/ UNCHANGED vars => UNCHANGED <<rules, runs, usage>>
    BY DEF SetActive, vars, record
  <1> QED BY <1>1, <1>2, <1>3, <1>4, <1>5, <1>6, <1>7,
             FeedbackProposes, VerdictTurns, EvidenceUses
          DEF Next, Progress

(* Feedback, verdicts and evidence implement RuleBook: a rule is turned    *)
(* once, an approved one is switched off for good, and the use of a rule   *)
(* is recorded once, while it is approved.                                 *)
THEOREM BookKept == Spec => RuleBookSpec
  <1>1. Init => Book!Init
    BY DEF Init, Book!Init
  <1> QED BY <1>1, BookStep, Invariant, PTL DEF Spec, RuleBookSpec, Book!Spec
=============================================================================
