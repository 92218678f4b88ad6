----------------------------- MODULE AwardProofs -----------------------------
(***************************************************************************)
(* Theorems of Award for every set of proposals and requests, every bound  *)
(* and every world: the decision of a case is given once, corrections are  *)
(* recorded, and the ERP is kept the promise of ErpRegistration.           *)
(***************************************************************************)
EXTENDS Award, TLAPS

(* What a request in flight knows of the tables: what a handler writes     *)
(* with is a proposal, a decision and a version that exist, and a handler  *)
(* on its way to the ERP has an outbox row and an answer that is true.     *)
Flight(q, linked, stated, row, told) ==
    /\ q.phase = "read" =>
          /\ q.kind \in {"link", "decide", "receive", "adjust"}
          /\ q.proposal \in Proposals /\ q.status \in Stages
          /\ q.caseVersion \in 1..(MaxCaseVersion - 1)
    /\ q.kind \in {"decide", "receive"} /\ q.phase \in {"read", "check"} =>
          q.proposal \in Proposals /\ q.decision \in Decision
    /\ q.kind = "decide" /\ q.phase = "read" => q.proposal \in linked
    /\ q.kind = "adjust" /\ q.phase = "read" =>
          /\ q.proposal \in stated /\ q.decision \in Decision
          /\ q.stateVersion \in 1..MaxStateVersion
    /\ q.phase = "check" /\ q.decision = "WON" => row # NoSync
    /\ q.phase \in {"dispatch", "post", "posted"} => row # NoSync
    /\ q.phase = "posted" /\ q.accepted => told = row.link

FlightInv ==
    \A r \in Requests : Flight(request[r], DOMAIN links, DOMAIN effective, sync, erp)

(* The ERP has heard of the awarded proposal or of none, and of it if the  *)
(* outbox row says so.                                                     *)
ErpInv ==
    /\ erp \in {NoProposal, sync.link}
    /\ sync.status = "SYNCED" => erp = sync.link

(* The types of all but the requests.                                      *)
TablesOK ==
    /\ case \in [status : Stages, version : 1..MaxCaseVersion]
    /\ DOMAIN links \subseteq Proposals
    /\ \A p \in DOMAIN links : links[p] \in Decision \cup {"PENDING"}
    /\ decisions \subseteq Proposals \X Decision
    /\ DOMAIN effective \subseteq Proposals
    /\ \A p \in DOMAIN effective : effective[p] \in Effective
    /\ adjustments \subseteq Proposals \X Decision \X (1..MaxStateVersion)
    /\ sync \in Sync /\ erp \in Proposals \cup {NoProposal}
    /\ configured \in BOOLEAN /\ steady \in BOOLEAN

RequestsOK == request \in [Requests -> Request] /\ FlightInv

Records == DecidedOnce /\ CorrectionsAreRecorded

Inv == TablesOK /\ RequestsOK /\ Records /\ ErpInv

-----------------------------------------------------------------------------
LEMMA IdleType == Idle \in Request /\ Idle.phase = "idle" /\ Idle.kind = "none"
  BY AwardAssumption DEF Idle, Request, RequestKind

LEMMA CaseAfterType ==
    ASSUME case \in [status : Stages, version : 1..MaxCaseVersion],
           NEW v \in 1..(MaxCaseVersion - 1), NEW s \in Stages
    PROVE  CaseAfter(v, s) \in [status : Stages, version : 1..MaxCaseVersion]
  BY AwardAssumption DEF CaseAfter

LEMMA SyncFacts ==
    /\ NoSync \in Sync /\ NoSync.status = "none" /\ NoSync.link = NoProposal
    /\ \A s \in Sync : s # NoSync => /\ s \in [status : SyncStatus, link : Proposals]
                                     /\ s.status \in SyncStatus /\ s.link \in Proposals
    /\ \A s \in SyncStatus, p \in Proposals :
          /\ [status |-> s, link |-> p] \in Sync
          /\ [status |-> s, link |-> p] # NoSync
  BY DEF NoSync, Sync, SyncStatus

(* One request moves on, the others still know what they knew: tables only *)
(* grow, and the row of the case keeps its proposal.                       *)
LEMMA RequestMoves ==
    ASSUME RequestsOK, NEW r \in Requests, NEW n \in Request,
           request' = [request EXCEPT ![r] = n],
           Flight(n, DOMAIN links', DOMAIN effective', sync', erp'),
           DOMAIN links \subseteq DOMAIN links',
           DOMAIN effective \subseteq DOMAIN effective',
           sync # NoSync => /\ sync' # NoSync
                            /\ erp = sync.link => erp' = sync'.link
    PROVE  RequestsOK'
  <1>1. request' \in [Requests -> Request]
    BY DEF RequestsOK
  <1>2. ASSUME NEW s \in Requests
        PROVE  Flight(request'[s], DOMAIN links', DOMAIN effective', sync', erp')
    <2>1. CASE s = r
      BY <2>1 DEF RequestsOK
    <2>2. CASE s # r
      <3>1. request'[s] = request[s]
        BY <2>2 DEF RequestsOK
      <3>2. Flight(request[s], DOMAIN links, DOMAIN effective, sync, erp)
        BY DEF RequestsOK, FlightInv
      <3> QED BY <3>1, <3>2 DEF Flight
    <2> QED BY <2>1, <2>2
  <1> QED BY <1>1, <1>2 DEF RequestsOK, FlightInv

LEMMA RequestEnds ==
    ASSUME RequestsOK, NEW r \in Requests, Done(r),
           DOMAIN links \subseteq DOMAIN links',
           DOMAIN effective \subseteq DOMAIN effective',
           sync # NoSync => /\ sync' # NoSync
                            /\ erp = sync.link => erp' = sync'.link
    PROVE  RequestsOK'
  <1>1. Flight(Idle, DOMAIN links', DOMAIN effective', sync', erp')
    BY IdleType DEF Flight
  <1> QED BY <1>1, IdleType, RequestMoves DEF Done

(* Nobody's request moves and the tables stay.                             *)
LEMMA Idling ==
    ASSUME RequestsOK, UNCHANGED <<request, awards, sync, erp>>
    PROVE  RequestsOK'
  BY DEF RequestsOK, FlightInv, awards

LEMMA RecordsKept ==
    ASSUME Records, UNCHANGED <<awards, sync>>
    PROVE  Records'
  BY DEF Records, DecidedOnce, CorrectionsAreRecorded, Decided, awards

-----------------------------------------------------------------------------
LEMMA InvInit == Init => Inv
  <1> SUFFICES ASSUME Init PROVE Inv
    OBVIOUS
  <1>1. TablesOK
    BY AwardAssumption, SyncFacts DEF Init, TablesOK, Stages, PreContract
  <1>2. RequestsOK
    BY IdleType DEF Init, RequestsOK, FlightInv, Flight
  <1>3. Records /\ ErpInv
    BY SyncFacts DEF Init, Records, DecidedOnce, CorrectionsAreRecorded, Decided, ErpInv
  <1> QED BY <1>1, <1>2, <1>3 DEF Inv

(* A handler begins with the versions it has read.                         *)
LEMMA InvReceive ==
    ASSUME Inv, NEW r \in Requests, NEW p \in Proposals, Receive(r, p)
    PROVE  Inv'
  <1>1. UNCHANGED <<case, awards, sync, erp, world>>
    BY DEF Receive, ReceiveLink, ReceiveDecision, ReceiveAdjust
  <1>2. ASSUME NEW kind \in {"link", "decide", "receive", "adjust"},
               NEW d \in Decision \cup {"none"}, NEW v \in 0..MaxStateVersion,
               Begin(r, kind, p, d, v),
               kind \in {"decide", "receive"} => d \in Decision,
               kind = "decide" => p \in DOMAIN links,
               kind = "adjust" => /\ p \in DOMAIN effective /\ d \in Decision
                                  /\ v \in 1..MaxStateVersion
        PROVE  RequestsOK'
    <2> DEFINE n == [Idle EXCEPT !.kind = kind, !.phase = "read", !.proposal = p,
                                 !.decision = d, !.status = case.status,
                                 !.caseVersion = case.version, !.stateVersion = v]
    <2>1. /\ case.status \in Stages /\ case.version \in 1..(MaxCaseVersion - 1)
          /\ request' = [request EXCEPT ![r] = n]
      BY <1>2, AwardAssumption DEF Begin, Inv, TablesOK
    <2>2. n \in Request
      <3>1. case.version \in 0..MaxCaseVersion
        BY <2>1, AwardAssumption
      <3> QED BY <2>1, <3>1, IdleType DEF Request, RequestKind
    <2>3. Flight(n, DOMAIN links', DOMAIN effective', sync', erp')
      BY <1>1, <1>2, <2>1 DEF Flight, Idle, awards
    <2> QED BY <1>1, <2>1, <2>2, <2>3, RequestMoves DEF Inv, awards
  <1>3. RequestsOK'
    <2>1. CASE ReceiveLink(r, p)
      BY <2>1, <1>2, AwardAssumption DEF ReceiveLink
    <2>2. ASSUME NEW kind \in {"decide", "receive"}, NEW d \in Decision,
                 ReceiveDecision(r, kind, p, d)
          PROVE  RequestsOK'
      BY <2>2, <1>2, AwardAssumption DEF ReceiveDecision
    <2>3. CASE ReceiveAdjust(r, p)
      <3>1. /\ p \in DOMAIN effective /\ effective[p] \in Effective
            /\ Begin(r, "adjust", p, Opposite(effective[p].status), effective[p].version)
        BY <2>3 DEF ReceiveAdjust, Inv, TablesOK
      <3>2. /\ Opposite(effective[p].status) \in Decision
            /\ effective[p].version \in 1..MaxStateVersion
        BY <3>1 DEF Effective, Opposite, Decision
      <3> QED BY <3>1, <3>2, <1>2
    <2> QED BY <2>1, <2>2, <2>3 DEF Receive
  <1> QED BY <1>1, <1>3, RecordsKept DEF Inv, TablesOK, ErpInv, awards, world

-----------------------------------------------------------------------------
(* A batch: what it is made for is in the tables, as the handler left it.  *)
LEMMA InvCommitLink ==
    ASSUME Inv, NEW r \in Requests, NEW refused \in BOOLEAN, CommitLink(r, refused)
    PROVE  Inv'
  <1> DEFINE q == request[r]
  <1>1. /\ q.proposal \in Proposals /\ q.status \in Stages
        /\ q.caseVersion \in 1..(MaxCaseVersion - 1)
    BY DEF CommitLink, At, Inv, RequestsOK, FlightInv, Flight
  <1>2. /\ Done(r)
        /\ UNCHANGED <<decisions, effective, adjustments, sync, erp, world>>
    BY DEF CommitLink
  <1>3. CASE UNCHANGED <<case, links>>
    BY <1>2, <1>3, RequestEnds, RecordsKept DEF Inv, TablesOK, ErpInv, awards, world
  <1>4. CASE ~UNCHANGED <<case, links>>
    <2>1. /\ q.proposal \notin DOMAIN links
          /\ links' = Put(links, q.proposal, "PENDING")
          /\ case' = CaseAfter(q.caseVersion, IF q.status = "INQUIRY" THEN "PROPOSAL"
                                                                    ELSE q.status)
      BY <1>4 DEF CommitLink
    <2>2. /\ DOMAIN links' = DOMAIN links \cup {q.proposal}
          /\ \A p \in DOMAIN links : links'[p] = links[p]
          /\ links'[q.proposal] = "PENDING"
      BY <2>1 DEF Put
    <2>3. TablesOK'
      <3>1. case' \in [status : Stages, version : 1..MaxCaseVersion]
        BY <1>1, <2>1, CaseAfterType DEF Inv, TablesOK, Stages, PreContract
      <3> QED BY <1>1, <1>2, <2>2, <3>1 DEF Inv, TablesOK, world
    <2>4. RequestsOK'
      BY <1>2, <2>2, RequestEnds DEF Inv
    <2>5. Decided' = Decided
      BY <2>1, <2>2 DEF Decided
    <2>6. Records'
      BY <1>2, <2>1, <2>2, <2>5 DEF Inv, Records, DecidedOnce, CorrectionsAreRecorded, Decided
    <2> QED BY <1>2, <2>3, <2>4, <2>6 DEF Inv, ErpInv
  <1> QED BY <1>3, <1>4

(* The decision of a proposal nobody has decided: all three records of it  *)
(* are new, and with a WON the outbox row.                                 *)
LEMMA InvCommitDecision ==
    ASSUME Inv, NEW r \in Requests, NEW refused \in BOOLEAN, CommitDecision(r, refused)
    PROVE  Inv'
  <1> DEFINE q == request[r]
             p == q.proposal
             d == q.decision
  <1>1. /\ q \in Request /\ p \in Proposals /\ d \in Decision /\ q.status \in Stages
        /\ q.caseVersion \in 1..(MaxCaseVersion - 1)
        /\ Flight(q, DOMAIN links, DOMAIN effective, sync, erp)
    BY DEF CommitDecision, At, Inv, RequestsOK, FlightInv, Flight
  <1>2. UNCHANGED <<adjustments, erp, world>>
    BY DEF CommitDecision
  <1>3. CASE Done(r) /\ UNCHANGED <<case, links, decisions, effective, sync>>
    BY <1>2, <1>3, RequestEnds, RecordsKept DEF Inv, TablesOK, ErpInv, awards, world
  <1>4. CASE ~(Done(r) /\ UNCHANGED <<case, links, decisions, effective, sync>>)
    <2>1. /\ p \notin DOMAIN effective
          /\ d = "WON" => sync = NoSync
          /\ decisions' = decisions \cup {<<p, d>>}
          /\ links' = Put(links, p, d)
          /\ effective' = Put(effective, p, [status |-> d, version |-> 1])
          /\ case' = CaseAfter(q.caseVersion, IF d = "WON" THEN "CONTRACT" ELSE q.status)
          /\ sync' = IF d = "WON" THEN [status |-> "PENDING", link |-> p] ELSE sync
          /\ Goto(r, "check")
      BY <1>4 DEF CommitDecision, SyncFree
    <2>2. /\ DOMAIN links' = DOMAIN links \cup {p}
          /\ \A x \in DOMAIN links : x # p => links'[x] = links[x]
          /\ links'[p] = d
      BY <2>1 DEF Put
    <2>3. /\ DOMAIN effective' = DOMAIN effective \cup {p}
          /\ \A x \in DOMAIN effective : effective'[x] = effective[x]
          /\ effective'[p] = [status |-> d, version |-> 1]
      BY <2>1 DEF Put
    <2>4. /\ sync' \in Sync
          /\ d = "WON" => /\ sync' # NoSync /\ sync'.link = p
                          /\ sync'.status = "PENDING"
          /\ d = "LOST" => sync' = sync
      BY <1>1, <2>1, SyncFacts DEF Inv, TablesOK, SyncStatus, Decision
    <2>5. TablesOK'
      <3>1. case' \in [status : Stages, version : 1..MaxCaseVersion]
        BY <1>1, <2>1, CaseAfterType DEF Inv, TablesOK, Stages
      <3>2. [status |-> d, version |-> 1] \in Effective
        BY <1>1, AwardAssumption DEF Effective
      <3>3. DOMAIN effective' \subseteq Proposals /\ \A x \in DOMAIN effective' : effective'[x] \in Effective
        BY <1>1, <2>3, <3>2 DEF Inv, TablesOK
      <3>4. DOMAIN links' \subseteq Proposals /\ \A x \in DOMAIN links' : links'[x] \in Decision \cup {"PENDING"}
        BY <1>1, <2>2 DEF Inv, TablesOK
      <3>5. decisions' \subseteq Proposals \X Decision
        BY <1>1, <2>1 DEF Inv, TablesOK
      <3> QED BY <1>2, <2>4, <3>1, <3>3, <3>4, <3>5 DEF Inv, TablesOK, world
    <2>6. RequestsOK'
      <3> DEFINE n == [q EXCEPT !.phase = "check"]
      <3>1. n \in Request /\ request' = [request EXCEPT ![r] = n]
        BY <1>1, <2>1 DEF Goto, Request, Inv, RequestsOK
      <3>2. /\ n.phase = "check" /\ n.kind = q.kind /\ n.proposal = p /\ n.decision = d
        BY <1>1 DEF Request
      <3>3. Flight(n, DOMAIN links', DOMAIN effective', sync', erp')
        BY <1>1, <2>4, <3>2 DEF Flight
      <3>4. sync # NoSync => sync' = sync
        BY <2>1
      <3> QED BY <1>2, <2>2, <2>3, <3>1, <3>3, <3>4, RequestMoves DEF Inv
    <2>7. Decided' = Decided \cup {p} /\ p \notin Decided
      BY <1>1, <2>1, <2>2 DEF Decided, Decision, Inv, Records, DecidedOnce
    <2>8. DecidedOnce'
      <3>1. decisions' = {<<x, links'[x]>> : x \in Decided'}
        <4>1. \A x \in Decided : links'[x] = links[x]
          BY <2>2, <2>7 DEF Decided
        <4>2. {<<x, links'[x]>> : x \in Decided'} =
                 {<<x, links[x]>> : x \in Decided} \cup {<<p, d>>}
          BY <2>2, <2>7, <4>1
        <4> QED BY <2>1, <4>2 DEF Inv, Records, DecidedOnce
      <3>2. DOMAIN effective' = Decided'
        BY <2>3, <2>7 DEF Inv, Records, DecidedOnce
      <3>3. {x \in Decided' : links'[x] = "WON"} =
               IF sync' = NoSync THEN {} ELSE {sync'.link}
        <4>1. {x \in Decided : links[x] = "WON"} = IF sync = NoSync THEN {} ELSE {sync.link}
          BY DEF Inv, Records, DecidedOnce
        <4>2. \A x \in Decided : links'[x] = links[x]
          BY <2>2, <2>7 DEF Decided
        <4>3. CASE d = "WON"
          BY <2>1, <2>2, <2>4, <2>7, <4>1, <4>2, <4>3
        <4>4. CASE d = "LOST"
          BY <2>2, <2>4, <2>7, <4>1, <4>2, <4>4
        <4> QED BY <1>1, <4>3, <4>4 DEF Decision
      <3> QED BY <3>1, <3>2, <3>3 DEF DecidedOnce
    <2>9. CorrectionsAreRecorded'
      <3> SUFFICES ASSUME NEW x \in DOMAIN effective'
                   PROVE  LET StatusAt(k) == IF k % 2 = 1 THEN links'[x] ELSE Opposite(links'[x])
                              last == effective'[x].version
                          IN  /\ effective'[x].status = StatusAt(last)
                              /\ \A k \in 1..(last - 1) : <<x, StatusAt(k), k>> \in adjustments'
        BY DEF CorrectionsAreRecorded
      <3>1. CASE x = p
        BY <2>2, <2>3, <3>1
      <3>2. CASE x # p
        <4>1. x \in DOMAIN effective /\ effective'[x] = effective[x] /\ x \in DOMAIN links
          BY <2>3, <3>2 DEF Inv, Records, DecidedOnce, Decided
        <4>2. links'[x] = links[x]
          BY <2>2, <3>2, <4>1
        <4> QED BY <1>2, <4>1, <4>2 DEF Inv, Records, CorrectionsAreRecorded
      <3> QED BY <3>1, <3>2
    <2>10. ErpInv'
      BY <1>1, <1>2, <2>1, <2>4, SyncFacts DEF Inv, ErpInv, Decision
    <2> QED BY <2>5, <2>6, <2>8, <2>9, <2>10 DEF Inv, Records
  <1> QED BY <1>3, <1>4

LEMMA InvCheckDecision ==
    ASSUME Inv, NEW r \in Requests, CheckDecision(r)
    PROVE  Inv'
  <1> DEFINE q == request[r]
             n == [q EXCEPT !.phase = "dispatch"]
  <1>1. UNCHANGED <<case, awards, sync, erp, world>>
    BY DEF CheckDecision
  <1>2. /\ q \in Request /\ q.phase = "check"
        /\ Flight(q, DOMAIN links, DOMAIN effective, sync, erp)
    BY DEF CheckDecision, At, Inv, RequestsOK, FlightInv
  <1>3. CASE Done(r)
    BY <1>1, <1>3, RequestEnds, RecordsKept DEF Inv, TablesOK, ErpInv, awards, world
  <1>4. CASE Goto(r, "dispatch") /\ GoesOn(q)
    <2>1. n \in Request /\ n.phase = "dispatch" /\ request' = [request EXCEPT ![r] = n]
      BY <1>2, <1>4 DEF Goto, Request, Inv, RequestsOK
    <2>2. Flight(n, DOMAIN links', DOMAIN effective', sync', erp')
      BY <1>1, <1>2, <1>4, <2>1 DEF Flight, GoesOn, awards
    <2>3. RequestsOK'
      BY <1>1, <2>1, <2>2, RequestMoves DEF Inv, awards
    <2> QED BY <1>1, <2>3, RecordsKept DEF Inv, TablesOK, ErpInv, awards, world
  <1> QED BY <1>3, <1>4 DEF CheckDecision

(* A correction: the status in force turns around once more, and the       *)
(* adjustment of that turn is there.  One that misses its row adds the     *)
(* adjustment of a turn that another has made.                             *)
LEMMA InvCommitAdjust ==
    ASSUME Inv, NEW r \in Requests, NEW refused \in BOOLEAN, CommitAdjust(r, refused)
    PROVE  Inv'
  <1> DEFINE q == request[r]
             p == q.proposal
             d == q.decision
  <1>1. /\ p \in Proposals /\ p \in DOMAIN effective /\ d \in Decision
        /\ q.stateVersion \in 1..MaxStateVersion
        /\ q.caseVersion \in 1..(MaxCaseVersion - 1)
    BY DEF CommitAdjust, At, Inv, RequestsOK, FlightInv, Flight
  <1>2. /\ Done(r)
        /\ UNCHANGED <<links, decisions, sync, erp, world>>
    BY DEF CommitAdjust
  <1>3. CASE UNCHANGED <<case, effective, adjustments>>
    BY <1>2, <1>3, RequestEnds, RecordsKept DEF Inv, TablesOK, ErpInv, awards, world
  <1>4. CASE ~UNCHANGED <<case, effective, adjustments>>
    <2>1. /\ ~(StateHit(q) /\ effective[p].version = MaxStateVersion)
          /\ adjustments' = adjustments \cup {<<p, Opposite(d), q.stateVersion>>}
          /\ effective' = IF StateHit(q)
                 THEN [effective EXCEPT ![p] = [status |-> d, version |-> @.version + 1]]
                 ELSE effective
          /\ case' = CaseAfter(q.caseVersion, IF d = "WON" THEN "CONTRACT" ELSE "PROPOSAL")
      BY <1>4 DEF CommitAdjust
    <2>2. /\ DOMAIN effective' = DOMAIN effective
          /\ effective[p] \in Effective
          /\ \A x \in DOMAIN effective : x # p => effective'[x] = effective[x]
          /\ StateHit(q) => /\ effective'[p] = [status |-> d, version |-> effective[p].version + 1]
                            /\ effective[p].version = q.stateVersion
                            /\ effective[p].status = Opposite(d)
                            /\ q.stateVersion # MaxStateVersion
          /\ ~StateHit(q) => effective' = effective
      BY <1>1, <2>1 DEF Inv, TablesOK, StateHit
    <2>3. Opposite(d) \in Decision /\ Opposite(Opposite(d)) = d
      BY <1>1 DEF Opposite, Decision
    <2>4. TablesOK'
      <3>1. case' \in [status : Stages, version : 1..MaxCaseVersion]
        BY <1>1, <2>1, CaseAfterType DEF Inv, TablesOK, Stages, PreContract
      <3>2. \A x \in DOMAIN effective' : effective'[x] \in Effective
        <4>1. StateHit(q) => effective'[p] \in Effective
          BY <1>1, <2>2, AwardAssumption DEF Effective
        <4> QED BY <2>2, <4>1 DEF Inv, TablesOK
      <3>3. adjustments' \subseteq Proposals \X Decision \X (1..MaxStateVersion)
        BY <1>1, <2>1, <2>3 DEF Inv, TablesOK
      <3> QED BY <1>2, <2>2, <3>1, <3>2, <3>3 DEF Inv, TablesOK, world
    <2>5. RequestsOK'
      BY <1>2, <2>2, RequestEnds DEF Inv
    <2>6. DecidedOnce'
      BY <1>2, <2>2 DEF Inv, Records, DecidedOnce, Decided
    <2>7. CorrectionsAreRecorded'
      <3> SUFFICES ASSUME NEW x \in DOMAIN effective'
                   PROVE  LET StatusAt(k) == IF k % 2 = 1 THEN links[x] ELSE Opposite(links[x])
                              last == effective'[x].version
                          IN  /\ effective'[x].status = StatusAt(last)
                              /\ \A k \in 1..(last - 1) : <<x, StatusAt(k), k>> \in adjustments'
        BY <1>2 DEF CorrectionsAreRecorded
      <3> DEFINE StatusAt(k) == IF k % 2 = 1 THEN links[x] ELSE Opposite(links[x])
      <3>1. /\ effective[x].status = StatusAt(effective[x].version)
            /\ \A k \in 1..(effective[x].version - 1) : <<x, StatusAt(k), k>> \in adjustments
        BY <2>2 DEF Inv, Records, CorrectionsAreRecorded
      <3>2. CASE x = p /\ StateHit(q)
        <4> DEFINE m == effective[p].version
        <4>1. m \in Nat \ {0} /\ effective'[x].version = m + 1 /\ effective'[x].status = d
          BY <2>2, <3>2 DEF Effective
        <4>2. StatusAt(m) = Opposite(d)
          BY <2>2, <3>1, <3>2
        <4>3. links[p] \in Decision
          BY <1>1 DEF Inv, TablesOK, Records, DecidedOnce, Decided
        <4>4. StatusAt(m + 1) = d
          <5>1. StatusAt(m + 1) = Opposite(StatusAt(m))
            <6>1. (m % 2 = 1 /\ (m + 1) % 2 # 1) \/ (m % 2 # 1 /\ (m + 1) % 2 = 1)
              BY <4>1
            <6>2. Opposite(Opposite(links[p])) = links[p]
              BY <4>3 DEF Opposite, Decision
            <6> QED BY <3>2, <6>1, <6>2
          <5> QED BY <2>3, <4>2, <5>1
        <4>5. <<x, StatusAt(m), m>> \in adjustments'
          BY <2>1, <2>2, <3>2, <4>2
        <4>6. \A k \in 1..m : k = m \/ k \in 1..(m - 1)
          BY <4>1
        <4>7. \A k \in 1..(m - 1) : <<x, StatusAt(k), k>> \in adjustments'
          BY <2>1, <3>1, <3>2
        <4>8. \A k \in 1..m : <<x, StatusAt(k), k>> \in adjustments'
          BY <4>5, <4>6, <4>7
        <4>9. (m + 1) - 1 = m
          BY <4>1
        <4> QED BY <4>1, <4>4, <4>8, <4>9
      <3>3. CASE ~(x = p /\ StateHit(q))
        <4>1. effective'[x] = effective[x]
          BY <2>2, <3>3
        <4> QED BY <2>1, <3>1, <4>1
      <3> QED BY <3>2, <3>3
    <2> QED BY <1>2, <2>4, <2>5, <2>6, <2>7 DEF Inv, Records, ErpInv
  <1> QED BY <1>3, <1>4

-----------------------------------------------------------------------------
(* The registration: SYNCED is written for an answer of the ERP that was   *)
(* given for the case's proposal, and nothing writes over it.              *)
LEMMA SyncAfterFacts ==
    ASSUME Inv, sync # NoSync, NEW s \in SyncStatus
    PROVE  /\ SyncAfter(s) \in Sync /\ SyncAfter(s) # NoSync
           /\ SyncAfter(s).link = sync.link
           /\ SyncAfter(s).status = IF sync.status = "SYNCED" THEN "SYNCED" ELSE s
  BY SyncFacts DEF SyncAfter, Inv, TablesOK, Sync

(* DecidedOnce asks only for the proposal of the row, not for its status.  *)
LEMMA RowKept ==
    ASSUME Records, UNCHANGED awards, sync # NoSync, sync' # NoSync, sync'.link = sync.link
    PROVE  Records'
  BY DEF Records, DecidedOnce, CorrectionsAreRecorded, Decided, awards

LEMMA InvRetry ==
    ASSUME Inv, NEW r \in Requests, Retry(r)
    PROVE  Inv'
  <1> DEFINE n == [Idle EXCEPT !.kind = "retry", !.phase = "dispatch"]
  <1>1. /\ request' = [request EXCEPT ![r] = n] /\ sync # NoSync
        /\ UNCHANGED <<case, awards, sync, erp, world>>
    BY DEF Retry
  <1>2. n \in Request /\ n.phase = "dispatch" /\ n.kind = "retry"
    BY IdleType DEF Request, RequestKind
  <1>3. Flight(n, DOMAIN links', DOMAIN effective', sync', erp')
    BY <1>1, <1>2 DEF Flight
  <1>4. RequestsOK'
    BY <1>1, <1>2, <1>3, RequestMoves DEF Inv, awards
  <1> QED BY <1>1, <1>4, RecordsKept DEF Inv, TablesOK, ErpInv, awards, world

LEMMA InvDispatch ==
    ASSUME Inv, NEW r \in Requests, Dispatch(r)
    PROVE  Inv'
  <1> DEFINE q == request[r]
             n == [q EXCEPT !.phase = "post"]
  <1>1. /\ q \in Request /\ q.phase = "dispatch" /\ sync # NoSync
        /\ UNCHANGED <<case, awards, erp, world>>
    BY DEF Dispatch, At, Inv, RequestsOK, FlightInv, Flight
  <1>2. CASE Goto(r, "post") /\ UNCHANGED sync
    <2>1. n \in Request /\ n.phase = "post" /\ request' = [request EXCEPT ![r] = n]
      BY <1>1, <1>2 DEF Goto, Request, Inv, RequestsOK
    <2>2. Flight(n, DOMAIN links', DOMAIN effective', sync', erp')
      BY <1>1, <1>2, <2>1 DEF Flight
    <2>3. RequestsOK'
      BY <1>1, <1>2, <2>1, <2>2, RequestMoves DEF Inv, awards
    <2> QED BY <1>1, <1>2, <2>3, RecordsKept DEF Inv, TablesOK, ErpInv, awards, world
  <1>3. CASE Done(r) /\ UNCHANGED sync
    BY <1>1, <1>3, RequestEnds, RecordsKept DEF Inv, TablesOK, ErpInv, awards, world
  <1>4. CASE Done(r) /\ sync' = SyncAfter("PENDING")
    <2>1. /\ sync' \in Sync /\ sync' # NoSync /\ sync'.link = sync.link
          /\ sync'.status = "SYNCED" => sync.status = "SYNCED"
      BY <1>1, <1>4, SyncAfterFacts DEF SyncStatus
    <2>2. RequestsOK'
      BY <1>1, <1>4, <2>1, RequestEnds DEF Inv, awards
    <2> QED BY <1>1, <2>1, <2>2, RowKept DEF Inv, TablesOK, ErpInv, awards, world
  <1> QED BY <1>2, <1>3, <1>4 DEF Dispatch

LEMMA InvPost ==
    ASSUME Inv, NEW r \in Requests, NEW reached \in BOOLEAN, NEW accepted \in BOOLEAN,
           Post(r, reached, accepted)
    PROVE  Inv'
  <1> DEFINE q == request[r]
             n == [q EXCEPT !.phase = "posted", !.accepted = accepted]
  <1>1. /\ q \in Request /\ q.phase = "post" /\ sync # NoSync
        /\ accepted => reached
        /\ erp' = IF reached /\ erp = NoProposal THEN sync.link ELSE erp
        /\ request' = [request EXCEPT ![r].phase = "posted", ![r].accepted = accepted]
        /\ UNCHANGED <<case, awards, sync, world>>
    BY DEF Post, At, Inv, RequestsOK, FlightInv, Flight
  <1>2. /\ sync.link \in Proposals /\ erp \in {NoProposal, sync.link}
        /\ sync.status = "SYNCED" => erp = sync.link
    BY <1>1, SyncFacts DEF Inv, TablesOK, ErpInv
  <1>3. /\ accepted => erp' = sync.link
        /\ erp = sync.link => erp' = sync.link
        /\ erp' \in {NoProposal, sync.link} /\ erp' \in Proposals \cup {NoProposal}
    BY <1>1, <1>2
  <1>4. n \in Request /\ request' = [request EXCEPT ![r] = n]
    BY <1>1 DEF Request, Inv, RequestsOK
  <1>5. n.phase = "posted" /\ n.accepted = accepted
    BY <1>1 DEF Request
  <1>6. Flight(n, DOMAIN links', DOMAIN effective', sync', erp')
    BY <1>1, <1>3, <1>5 DEF Flight
  <1>7. RequestsOK'
    BY <1>1, <1>3, <1>4, <1>6, RequestMoves DEF Inv, awards
  <1> QED BY <1>1, <1>2, <1>3, <1>7, RecordsKept DEF Inv, TablesOK, ErpInv, awards, world

LEMMA InvRecord ==
    ASSUME Inv, NEW r \in Requests, Record(r)
    PROVE  Inv'
  <1>1. /\ request[r].phase = "posted" /\ sync # NoSync
        /\ request[r].accepted => erp = sync.link
        /\ Done(r) /\ sync' = Outcome(r)
        /\ UNCHANGED <<case, awards, erp, world>>
    BY DEF Record, At, Inv, RequestsOK, FlightInv, Flight
  <1>2. /\ sync' \in Sync /\ sync' # NoSync /\ sync'.link = sync.link
        /\ sync'.status = "SYNCED" => sync.status = "SYNCED" \/ request[r].accepted
    BY <1>1, SyncAfterFacts DEF SyncStatus, Outcome
  <1>3. RequestsOK'
    BY <1>1, <1>2, RequestEnds DEF Inv, awards
  <1> QED BY <1>1, <1>2, <1>3, RowKept DEF Inv, TablesOK, ErpInv, awards, world

LEMMA InvOthers ==
    ASSUME Inv, Advance \/ EditCase \/ (\E r \in Requests : Lose(r)) \/ UNCHANGED vars
    PROVE  Inv'
  <1>1. UNCHANGED <<awards, sync, erp, world>>
    BY DEF Advance, EditCase, Lose, vars
  <1>2. CASE Advance
    <2>1. case' \in [status : Stages, version : 1..MaxCaseVersion]
      BY <1>2, AwardAssumption DEF Advance, Following, Inv, TablesOK, Stages, PreContract
    <2> QED BY <1>1, <1>2, <2>1, Idling, RecordsKept
            DEF Advance, Inv, TablesOK, ErpInv, awards, world
  <1>3. CASE EditCase
    <2>1. case' \in [status : Stages, version : 1..MaxCaseVersion]
      BY <1>3, AwardAssumption DEF EditCase, Inv, TablesOK
    <2> QED BY <1>1, <1>3, <2>1, Idling, RecordsKept
            DEF EditCase, Inv, TablesOK, ErpInv, awards, world
  <1>4. ASSUME NEW r \in Requests, Lose(r) PROVE Inv'
    BY <1>1, <1>4, RequestEnds, RecordsKept
       DEF Lose, Inv, TablesOK, ErpInv, awards, world
  <1>5. CASE UNCHANGED vars
    BY <1>1, <1>5, Idling, RecordsKept DEF vars, Inv, TablesOK, ErpInv, awards, world
  <1> QED BY <1>2, <1>3, <1>4, <1>5

-----------------------------------------------------------------------------
LEMMA InvNext == Inv /\ [Next]_vars => Inv'
  BY InvReceive, InvCommitLink, InvCommitDecision, InvCheckDecision, InvCommitAdjust,
     InvRetry, InvDispatch, InvPost, InvRecord, InvOthers DEF Next, Progress

LEMMA Invariance == Spec => []Inv
  BY InvInit, InvNext, PTL DEF Spec

(* Every reachable state of the award tables and of the requests in flight *)
(* is well typed: no handler looks up a row that is not there.             *)
THEOREM Typed == Spec => []TypeOK
  <1>1. Inv => TypeOK
    BY DEF Inv, TablesOK, RequestsOK, TypeOK
  <1> QED BY <1>1, Invariance, PTL

(* The decision, the link and the effective state of a proposal agree, and *)
(* a case is awarded once, whatever handlers decide at once.               *)
THEOREM DecidedOneTime == Spec => []DecidedOnce
  <1>1. Inv => DecidedOnce
    BY DEF Inv, Records
  <1> QED BY <1>1, Invariance, PTL

(* The status in force is the decision turned around once for each recorded *)
(* correction, although a correction that loses its race is recorded too.   *)
THEOREM Corrections == Spec => []CorrectionsAreRecorded
  <1>1. Inv => CorrectionsAreRecorded
    BY DEF Inv, Records
  <1> QED BY <1>1, Invariance, PTL

-----------------------------------------------------------------------------
(* Every step of the award is one step of ErpRegistration or none.         *)
LEMMA RegistrationStep ==
    ASSUME Inv, [Next]_vars
    PROVE  [Registration!Next]_(Registration!registration)
  <1> DEFINE Same == UNCHANGED <<sync.link, erp, sync.status = "SYNCED">>
  <1>0. Same => [Registration!Next]_(Registration!registration)
    BY DEF Registration!registration
  <1>1. UNCHANGED <<sync, erp>> => Same
    OBVIOUS
  <1>2. ASSUME NEW r \in Requests, NEW refused \in BOOLEAN, CommitDecision(r, refused)
        PROVE  [Registration!Next]_(Registration!registration)
    <2> DEFINE p == request[r].proposal
    <2>1. p \in Proposals
      BY <1>2 DEF CommitDecision, At, Inv, RequestsOK, FlightInv, Flight
    <2>2. UNCHANGED <<sync, erp>> \/ (sync = NoSync /\ sync' = [status |-> "PENDING", link |-> p] /\ erp' = erp)
      BY <1>2 DEF CommitDecision, SyncFree
    <2>3. CASE sync = NoSync /\ sync' = [status |-> "PENDING", link |-> p] /\ erp' = erp
      <3>1. Registration!Award(p)
        BY <2>3 DEF Registration!Award, NoSync
      <3> QED BY <2>1, <3>1 DEF Registration!Next
    <2> QED BY <1>0, <1>1, <2>2, <2>3
  <1>3. ASSUME NEW r \in Requests, Dispatch(r)
        PROVE  Same
    <2>1. sync # NoSync /\ erp' = erp
      BY <1>3 DEF Dispatch, At, Inv, RequestsOK, FlightInv, Flight
    <2>2. sync' = sync \/ sync' = SyncAfter("PENDING")
      BY <1>3 DEF Dispatch
    <2> QED BY <2>1, <2>2, SyncAfterFacts DEF SyncStatus
  <1>4. ASSUME NEW r \in Requests, NEW reached \in BOOLEAN, NEW accepted \in BOOLEAN,
               Post(r, reached, accepted)
        PROVE  [Registration!Next]_(Registration!registration)
    <2>1. /\ sync # NoSync /\ sync' = sync
          /\ erp' = erp \/ erp' = sync.link
      BY <1>4 DEF Post, At, Inv, RequestsOK, FlightInv, Flight
    <2>2. sync.link # NoProposal
      BY <2>1, SyncFacts, AwardAssumption DEF Inv, TablesOK
    <2>3. CASE erp' = sync.link
      <3>1. Registration!Register
        BY <2>1, <2>2, <2>3 DEF Registration!Register
      <3> QED BY <3>1 DEF Registration!Next
    <2> QED BY <1>0, <1>1, <2>1, <2>3
  <1>5. ASSUME NEW r \in Requests, Record(r)
        PROVE  [Registration!Next]_(Registration!registration)
    <2>1. /\ sync # NoSync /\ erp' = erp /\ sync' = Outcome(r)
          /\ request[r].accepted => erp = sync.link
      BY <1>5 DEF Record, At, Inv, RequestsOK, FlightInv, Flight
    <2>2. /\ sync'.link = sync.link /\ sync.link # NoProposal
          /\ sync'.status = IF sync.status = "SYNCED" \/ request[r].accepted
                              THEN "SYNCED" ELSE "FAILED"
      BY <2>1, SyncFacts, SyncAfterFacts, AwardAssumption
         DEF SyncStatus, Outcome, Inv, TablesOK
    <2>3. CASE sync.status # "SYNCED" /\ request[r].accepted
      <3>1. Registration!Confirm
        BY <2>1, <2>2, <2>3 DEF Registration!Confirm
      <3> QED BY <3>1 DEF Registration!Next
    <2>4. CASE ~(sync.status # "SYNCED" /\ request[r].accepted)
      <3>1. Same
        BY <2>1, <2>2, <2>4
      <3> QED BY <1>0, <3>1
    <2> QED BY <2>3, <2>4
  <1>6. ASSUME \/ \E r \in Requests, p \in Proposals : Receive(r, p)
               \/ \E r \in Requests : Retry(r) \/ CheckDecision(r) \/ Lose(r)
               \/ \E r \in Requests, refused \in BOOLEAN :
                     CommitLink(r, refused) \/ CommitAdjust(r, refused)
               \/ Advance \/ EditCase \/ UNCHANGED vars
        PROVE  UNCHANGED <<sync, erp>>
    BY <1>6 DEF Receive, ReceiveLink, ReceiveDecision, ReceiveAdjust, Retry, CheckDecision,
                Lose, CommitLink, CommitAdjust, Advance, EditCase, vars
  <1> QED BY <1>0, <1>1, <1>2, <1>3, <1>4, <1>5, <1>6 DEF Next, Progress

(* Decision, outbox row and ERP implement ErpRegistration: the ERP never   *)
(* learns of another proposal, whatever answers are lost and whoever       *)
(* retries, and SYNCED is only recorded of what the ERP has.               *)
THEOREM ErpIsKeptPromise == Spec => RegistrationSpec
  <1>1. Init => Registration!Init
    BY SyncFacts DEF Init, Registration!Init
  <1> QED BY <1>1, RegistrationStep, Invariance, PTL DEF Spec, RegistrationSpec, Registration!Spec
=============================================================================
