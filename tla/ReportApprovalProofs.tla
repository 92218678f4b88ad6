------------------------ MODULE ReportApprovalProofs ------------------------
(***************************************************************************)
(* Theorems of ReportApproval for every set of people, keys, formats and   *)
(* requests, every number of versions and with handlers lost or not.       *)
(***************************************************************************)
EXTENDS ReportApproval, TLAPS

(* What a request knows of the tables, whoever else writes them: the rows  *)
(* it was let in for are there, one on its way to the mail was approved    *)
(* and has its notice when it records the outcome, and an accepted request *)
(* is stored under its key.                                                *)
Flight(q, last, rows, told, final) ==
    /\ q.phase \in {"pick", "read", "dispatch", "posted"} =>
          q.user \in Users /\ q.version \in 1..last
    /\ q.kind \in {"submit", "finalize"} => q.key \in Keys
    /\ q.kind \in {"APPROVED", "CHANGES_REQUESTED", "finalize"}
          /\ q.phase \in {"pick", "read", "dispatch", "posted"} => q.version \in DOMAIN rows
    /\ q.kind = "APPROVED" /\ q.phase \in {"read", "dispatch", "posted"} => q.recipient \in Users
    /\ q.kind = "output" => q.format \in Formats /\ q.version \in DOMAIN final
    /\ q.phase \in {"dispatch", "posted"} =>
          /\ q.kind = "APPROVED"
          /\ q.version \in DOMAIN rows /\ rows[q.version].status = "APPROVED"
    /\ q.phase = "posted" => <<q.recipient, q.version>> \in told
    /\ q.answer = "ok" =>
          LET table == IF q.kind = "submit" THEN rows ELSE final
          IN  q.version \in DOMAIN table /\ table[q.version].key = q.key

FlightInv ==
    \A r \in Requests :
        Flight(request[r], draft, reviews, DOMAIN delivery, finalizations)

RequestsOK == request \in [Requests -> Request] /\ FlightInv

TablesOK ==
    /\ draft \in 0..MaxVersion
    /\ DOMAIN reviews \subseteq 1..draft
    /\ \A v \in DOMAIN reviews : reviews[v] \in Review
    /\ events \subseteq Event
    /\ DOMAIN delivery \subseteq Notice
    /\ \A n \in DOMAIN delivery : delivery[n] \in OutboxStatus
    /\ mailed \subseteq DOMAIN delivery
    /\ DOMAIN finalizations \subseteq 1..draft
    /\ \A v \in DOMAIN finalizations : finalizations[v] \in Finalization
    /\ DOMAIN outputs \subseteq Versions \X Formats
    /\ \A n \in DOMAIN outputs : outputs[n] \in Users
    /\ generated \subseteq Versions \X Formats \X Users
    /\ members \subseteq Users /\ active \subseteq Users

(* At most one request is on its way to the mail of a version, and none    *)
(* posts it when it was mailed.                                            *)
Sending(q, v) == q.phase \in {"dispatch", "posted"} /\ q.version = v

MailInv ==
    /\ \A r, s \in Requests, v \in Versions :
          Sending(request[r], v) /\ Sending(request[s], v) => r = s
    /\ \A n \in mailed :
          /\ n[2] \in DOMAIN reviews /\ reviews[n[2]].status = "APPROVED"
          /\ \A r \in Requests : request[r].phase = "dispatch" => request[r].version # n[2]
    /\ OneEmailPerReview

Inv == TablesOK /\ RequestsOK /\ MailInv /\ DecisionRecorded /\ OutputLogged

-----------------------------------------------------------------------------
LEMMA IdleType ==
    /\ Idle \in Request /\ Idle.phase = "idle" /\ Idle.kind = "none" /\ Idle.answer = "none"
    /\ \A last, rows, told, final : Flight(Idle, last, rows, told, final)
  <1>1. Idle \in Request /\ Idle.phase = "idle" /\ Idle.kind = "none" /\ Idle.answer = "none"
    BY ApprovalAssumption DEF Idle, Request, RequestKind, OutboxStatus
  <1> QED BY <1>1 DEF Flight

(* What the tables may do under the feet of a request: rows are added, and *)
(* a row keeps its key and its approval.                                   *)
Growing ==
    /\ draft' \in Nat /\ draft \in Nat /\ draft <= draft'
    /\ \A v \in DOMAIN reviews :
          /\ v \in DOMAIN reviews' /\ reviews'[v].key = reviews[v].key
          /\ reviews[v].status = "APPROVED" => reviews'[v].status = "APPROVED"
    /\ DOMAIN delivery \subseteq DOMAIN delivery'
    /\ \A v \in DOMAIN finalizations :
          v \in DOMAIN finalizations' /\ finalizations'[v].key = finalizations[v].key

LEMMA FlightGrows ==
    ASSUME Growing, NEW q, Flight(q, draft, reviews, DOMAIN delivery, finalizations)
    PROVE  Flight(q, draft', reviews', DOMAIN delivery', finalizations')
  <1> DEFINE busy == q.phase \in {"pick", "read", "dispatch", "posted"}
  <1>1. busy => q.user \in Users /\ q.version \in 1..draft'
    BY DEF Growing, Flight
  <1>2. q.answer = "ok" =>
          LET table == IF q.kind = "submit" THEN reviews' ELSE finalizations'
          IN  q.version \in DOMAIN table /\ table[q.version].key = q.key
    BY DEF Growing, Flight
  <1>3. /\ q.kind \in {"APPROVED", "CHANGES_REQUESTED", "finalize"} /\ busy =>
              q.version \in DOMAIN reviews'
        /\ q.kind = "output" => q.format \in Formats /\ q.version \in DOMAIN finalizations'
        /\ q.phase \in {"dispatch", "posted"} =>
              /\ q.kind = "APPROVED"
              /\ q.version \in DOMAIN reviews' /\ reviews'[q.version].status = "APPROVED"
        /\ q.phase = "posted" => <<q.recipient, q.version>> \in DOMAIN delivery'
    BY DEF Growing, Flight
  <1> QED BY <1>1, <1>2, <1>3 DEF Flight

LEMMA RequestMoves ==
    ASSUME RequestsOK, Growing, NEW r \in Requests, NEW n \in Request,
           request' = [request EXCEPT ![r] = n],
           Flight(n, draft', reviews', DOMAIN delivery', finalizations')
    PROVE  RequestsOK'
  <1>1. request' \in [Requests -> Request]
    BY DEF RequestsOK
  <1>2. ASSUME NEW s \in Requests
        PROVE  Flight(request'[s], draft', reviews', DOMAIN delivery', finalizations')
    <2>1. CASE s = r
      BY <2>1 DEF RequestsOK
    <2>2. CASE s # r
      <3>1. request'[s] = request[s]
        BY <2>2 DEF RequestsOK
      <3> QED BY <3>1, FlightGrows DEF RequestsOK, FlightInv
    <2> QED BY <2>1, <2>2
  <1> QED BY <1>1, <1>2 DEF RequestsOK, FlightInv

LEMMA RequestEnds ==
    ASSUME RequestsOK, Growing, NEW r \in Requests, Done(r)
    PROVE  RequestsOK'
  BY IdleType, RequestMoves DEF Done

LEMMA RequestsStay ==
    ASSUME RequestsOK, Growing, UNCHANGED request
    PROVE  RequestsOK'
  BY FlightGrows DEF RequestsOK, FlightInv

(* MailInv looks at the requests on their way to the mail, the mail and    *)
(* the verdicts.                                                           *)
LEMMA MailKept ==
    ASSUME MailInv, Growing, mailed' = mailed, request \in [Requests -> Request],
           NEW r \in Requests, NEW n,
           request' = [request EXCEPT ![r] = n],
           n.phase \in {"dispatch", "posted"} =>
              /\ request[r].phase \in {"dispatch", "posted"}
              /\ n.version = request[r].version
              /\ n.phase = "dispatch" => request[r].phase = "dispatch"
    PROVE  MailInv'
  <1>1. ASSUME NEW s \in Requests
        PROVE  /\ request'[s].phase \in {"dispatch", "posted"} =>
                     /\ request[s].phase \in {"dispatch", "posted"}
                     /\ request'[s].version = request[s].version
               /\ request'[s].phase = "dispatch" => request[s].phase = "dispatch"
    BY <1>1
  <1>2. \A s, t \in Requests, v \in Versions :
          Sending(request'[s], v) /\ Sending(request'[t], v) => s = t
    BY <1>1 DEF MailInv, Sending
  <1>3. \A m \in mailed' :
          /\ m[2] \in DOMAIN reviews' /\ reviews'[m[2]].status = "APPROVED"
          /\ \A s \in Requests : request'[s].phase = "dispatch" => request'[s].version # m[2]
    BY <1>1 DEF MailInv, Growing
  <1> QED BY <1>2, <1>3 DEF MailInv, OneEmailPerReview

LEMMA MailStays ==
    ASSUME MailInv, UNCHANGED <<mailed, reviews, request>>
    PROVE  MailInv'
  BY DEF MailInv, OneEmailPerReview

LEMMA NothingGrows ==
    ASSUME TablesOK, UNCHANGED <<draft, reviews, delivery, finalizations>>
    PROVE  Growing
  BY DEF TablesOK, Growing

LEMMA RecordsStay ==
    ASSUME DecisionRecorded, OutputLogged, UNCHANGED <<ledger, finalizations, files>>
    PROVE  DecisionRecorded' /\ OutputLogged'
  BY DEF DecisionRecorded, OutputLogged, ledger, files

(* The common case: no table changes, and one request moves on without     *)
(* turning to the mail.                                                    *)
LEMMA OnlyRequest ==
    ASSUME Inv, UNCHANGED <<draft, ledger, mailed, finalizations, files, people>>,
           NEW r \in Requests, NEW n \in Request, request' = [request EXCEPT ![r] = n],
           Flight(n, draft, reviews, DOMAIN delivery, finalizations),
           n.phase \notin {"dispatch", "posted"}
    PROVE  Inv'
  <1>1. Growing
    BY NothingGrows DEF Inv, ledger
  <1>2. RequestsOK'
    BY <1>1, RequestMoves DEF Inv, ledger
  <1>3. MailInv'
    BY <1>1, MailKept DEF Inv, RequestsOK
  <1> QED BY <1>2, <1>3, RecordsStay DEF Inv, TablesOK, ledger, files, people

-----------------------------------------------------------------------------
LEMMA InvInit == Init => Inv
  <1> SUFFICES ASSUME Init PROVE Inv
    OBVIOUS
  <1>1. TablesOK
    BY ApprovalAssumption DEF Init, TablesOK
  <1>2. RequestsOK
    BY IdleType DEF Init, RequestsOK, FlightInv
  <1>3. MailInv
    BY IdleType DEF Init, MailInv, OneEmailPerReview, Sending
  <1>4. DecisionRecorded /\ OutputLogged
    BY DEF Init, DecisionRecorded, OutputLogged
  <1> QED BY <1>1, <1>2, <1>3, <1>4 DEF Inv

LEMMA InvReceive ==
    ASSUME Inv, NEW r \in Requests, NEW u \in Users, NEW v \in 1..draft, Receive(r, u, v)
    PROVE  Inv'
  <1>0. v \in 0..MaxVersion
    BY ApprovalAssumption DEF Inv, TablesOK
  <1>1. ASSUME NEW key \in Keys, ReceiveSubmit(r, u, key, v) PROVE Inv'
    <2>1. UNCHANGED <<draft, ledger, mailed, finalizations, files, people>>
      BY <1>1 DEF ReceiveSubmit
    <2>2. CASE SameRequest(reviews, key, v) /\ AnswerTo(r, "submit", v, key, "ok")
      <3> DEFINE n == [Idle EXCEPT !.kind = "submit", !.phase = "answered", !.version = v,
                                   !.key = key, !.answer = "ok"]
      <3>1. /\ n \in Request /\ n.kind = "submit" /\ n.phase = "answered"
            /\ n.version = v /\ n.key = key /\ n.answer = "ok"
        BY <1>0, IdleType DEF Request, RequestKind
      <3>2. Flight(n, draft, reviews, DOMAIN delivery, finalizations)
        BY <2>2, <3>1 DEF Flight, SameRequest
      <3> QED BY <2>1, <2>2, <3>1, <3>2, OnlyRequest DEF AnswerTo
    <2>3. CASE Begin(r, "submit", "read", u, v, key)
      <3> DEFINE n == [Idle EXCEPT !.kind = "submit", !.phase = "read", !.user = u,
                                   !.version = v, !.key = key]
      <3>1. /\ n \in Request /\ n.kind = "submit" /\ n.phase = "read" /\ n.user = u
            /\ n.version = v /\ n.key = key /\ n.answer = "none"
        BY <1>0, IdleType DEF Request, RequestKind
      <3>2. Flight(n, draft, reviews, DOMAIN delivery, finalizations)
        BY <3>1 DEF Flight
      <3> QED BY <2>1, <2>3, <3>1, <3>2, OnlyRequest DEF Begin
    <2> QED BY <1>1, <2>2, <2>3 DEF ReceiveSubmit
  <1>2. ASSUME NEW key \in Keys, ReceiveFinalize(r, u, key, v) PROVE Inv'
    <2>1. UNCHANGED <<draft, ledger, mailed, finalizations, files, people>>
      BY <1>2 DEF ReceiveFinalize
    <2>2. CASE SameRequest(finalizations, key, v) /\ AnswerTo(r, "finalize", v, key, "ok")
      <3> DEFINE n == [Idle EXCEPT !.kind = "finalize", !.phase = "answered", !.version = v,
                                   !.key = key, !.answer = "ok"]
      <3>1. /\ n \in Request /\ n.kind = "finalize" /\ n.phase = "answered"
            /\ n.version = v /\ n.key = key /\ n.answer = "ok"
        BY <1>0, IdleType DEF Request, RequestKind
      <3>2. Flight(n, draft, reviews, DOMAIN delivery, finalizations)
        BY <2>2, <3>1 DEF Flight, SameRequest
      <3> QED BY <2>1, <2>2, <3>1, <3>2, OnlyRequest DEF AnswerTo
    <2>3. CASE v \in DOMAIN reviews /\ Begin(r, "finalize", "read", u, v, key)
      <3> DEFINE n == [Idle EXCEPT !.kind = "finalize", !.phase = "read", !.user = u,
                                   !.version = v, !.key = key]
      <3>1. /\ n \in Request /\ n.kind = "finalize" /\ n.phase = "read" /\ n.user = u
            /\ n.version = v /\ n.key = key /\ n.answer = "none"
        BY <1>0, IdleType DEF Request, RequestKind
      <3>2. Flight(n, draft, reviews, DOMAIN delivery, finalizations)
        BY <2>3, <3>1 DEF Flight
      <3> QED BY <2>1, <2>3, <3>1, <3>2, OnlyRequest DEF Begin
    <2> QED BY <1>2, <2>2, <2>3 DEF ReceiveFinalize
  <1>3. ASSUME NEW status \in {"APPROVED", "CHANGES_REQUESTED"}, ReceiveDecision(r, u, status, v)
        PROVE  Inv'
    <2> DEFINE phase == IF status = "APPROVED" THEN "pick" ELSE "read"
               n == [Idle EXCEPT !.kind = status, !.phase = phase, !.user = u,
                                 !.version = v, !.key = NoKey]
    <2>1. /\ UNCHANGED <<draft, ledger, mailed, finalizations, files, people>>
          /\ v \in DOMAIN reviews /\ request' = [request EXCEPT ![r] = n]
      BY <1>3 DEF ReceiveDecision, Begin
    <2>2. /\ n \in Request /\ n.kind = status /\ n.phase = phase /\ n.user = u
          /\ n.version = v /\ n.key = NoKey /\ n.answer = "none"
      BY <1>0, IdleType DEF Request, RequestKind
    <2>3. Flight(n, draft, reviews, DOMAIN delivery, finalizations)
      BY <2>1, <2>2 DEF Flight
    <2>4. n.phase \notin {"dispatch", "posted"}
      BY <2>2
    <2> HIDE DEF n
    <2> QED BY <2>1, <2>2, <2>3, <2>4, OnlyRequest
  <1>4. ASSUME NEW format \in Formats, ReceiveOutput(r, u, v, format) PROVE Inv'
    <2> DEFINE n == [Idle EXCEPT !.kind = "output", !.phase = "read",
                                 !.user = u, !.version = v, !.format = format]
    <2>1. /\ UNCHANGED <<draft, ledger, mailed, finalizations, files, people>>
          /\ v \in DOMAIN finalizations /\ request' = [request EXCEPT ![r] = n]
      BY <1>4 DEF ReceiveOutput
    <2>2. /\ n \in Request /\ n.kind = "output" /\ n.phase = "read" /\ n.user = u
          /\ n.version = v /\ n.format = format /\ n.answer = "none"
      BY <1>0, IdleType DEF Request, RequestKind
    <2>3. Flight(n, draft, reviews, DOMAIN delivery, finalizations)
      BY <2>1, <2>2 DEF Flight
    <2> QED BY <2>1, <2>2, <2>3, OnlyRequest
  <1> QED BY <1>1, <1>2, <1>3, <1>4 DEF Receive

LEMMA InvPickRecipient ==
    ASSUME Inv, NEW r \in Requests, PickRecipient(r)
    PROVE  Inv'
  <1>1. /\ UNCHANGED <<draft, ledger, mailed, finalizations, files, people>>
        /\ request[r] \in Request /\ At(r, {"APPROVED"}, "pick")
        /\ Flight(request[r], draft, reviews, DOMAIN delivery, finalizations)
    BY DEF PickRecipient, Inv, RequestsOK, FlightInv
  <1>2. CASE Done(r)
    BY <1>1, <1>2, IdleType, OnlyRequest DEF Done
  <1>3. ASSUME NEW u \in Recipients(request[r].version),
               request' = [request EXCEPT ![r].phase = "read", ![r].recipient = u]
        PROVE  Inv'
    <2> DEFINE n == [request[r] EXCEPT !.phase = "read", !.recipient = u]
    <2>1. u \in Users
      BY <1>3 DEF Recipients, Inv, TablesOK
    <2>2. n \in Request /\ request' = [request EXCEPT ![r] = n]
      BY <1>1, <1>3, <2>1 DEF Request, Inv, RequestsOK
    <2>3. /\ n.phase = "read" /\ n.kind = "APPROVED" /\ n.user = request[r].user
          /\ n.version = request[r].version /\ n.answer = request[r].answer
          /\ n.key = request[r].key /\ n.recipient = u
      BY <1>1 DEF Request, At
    <2>4. Flight(n, draft, reviews, DOMAIN delivery, finalizations)
      BY <1>1, <2>1, <2>3 DEF Flight, At
    <2> HIDE DEF n
    <2> QED BY <1>1, <2>2, <2>3, <2>4, OnlyRequest
  <1> QED BY <1>2, <1>3 DEF PickRecipient

(* A review request stored: the version had none.                          *)
LEMMA InvCommitSubmit ==
    ASSUME Inv, NEW r \in Requests, CommitSubmit(r)
    PROVE  Inv'
  <1> DEFINE q == request[r]
             row == [status |-> "PENDING", requestedBy |-> q.user, reviewedBy |-> NoUser,
                     key |-> q.key]
             n(a) == [Idle EXCEPT !.kind = "submit", !.phase = "answered",
                                  !.version = q.version, !.key = q.key, !.answer = a]
  <1>0. /\ q \in Request /\ q.phase = "read" /\ q.kind = "submit"
        /\ Flight(q, draft, reviews, DOMAIN delivery, finalizations)
    BY DEF CommitSubmit, At, Inv, RequestsOK, FlightInv
  <1>1. /\ q \in Request /\ q.user \in Users /\ q.version \in 1..draft
        /\ q.version \in 0..MaxVersion /\ q.version \in Versions /\ q.key \in Keys
    <2>1. q.user \in Users /\ q.version \in 1..draft /\ q.key \in Keys
      BY <1>0 DEF Flight
    <2>2. draft \in 0..MaxVersion
      BY DEF Inv, TablesOK
    <2> QED BY <1>0, <2>1, <2>2, ApprovalAssumption DEF Versions
  <1>2. UNCHANGED <<draft, delivery, mailed, finalizations, files, people>>
    BY DEF CommitSubmit
  <1>3. ASSUME NEW a \in {"none", "ok", "exists"}
        PROVE  /\ n(a) \in Request /\ n(a).kind = "submit" /\ n(a).phase = "answered"
               /\ n(a).version = q.version /\ n(a).key = q.key /\ n(a).answer = a
    <2> DEFINE v == q.version
               k == q.key
    <2>1. v \in 0..MaxVersion /\ k \in Keys
      BY <1>1
    <2> HIDE DEF v, k
    <2>2. LET m == [Idle EXCEPT !.kind = "submit", !.phase = "answered",
                                !.version = v, !.key = k, !.answer = a]
          IN  /\ m \in Request /\ m.kind = "submit" /\ m.phase = "answered"
              /\ m.version = v /\ m.key = k /\ m.answer = a
      BY <2>1, IdleType DEF Request, RequestKind
    <2> QED BY <2>2 DEF v, k
  <1>4. CASE UNCHANGED <<reviews, events>>
    <2>1. PICK a \in {"none", "ok", "exists"} :
             /\ request' = [request EXCEPT ![r] = n(a)]
             /\ a = "ok" => \/ SameRequest(reviews, q.key, q.version)
                            \/ reviews' = WithRow(reviews, q.version, row)
      BY DEF CommitSubmit, AnswerTo
    <2>2. a = "ok" => q.version \in DOMAIN reviews /\ reviews[q.version].key = q.key
      BY <1>4, <2>1 DEF SameRequest, WithRow
    <2>3. Flight(n(a), draft, reviews, DOMAIN delivery, finalizations)
      BY <1>1, <1>3, <2>2 DEF Flight
    <2>4. n(a) \in Request /\ n(a).phase \notin {"dispatch", "posted"}
      BY <1>3
    <2> HIDE DEF n
    <2> QED BY <1>2, <1>4, <2>1, <2>3, <2>4, OnlyRequest DEF ledger
  <1>5. CASE ~UNCHANGED <<reviews, events>>
    <2>1. /\ q.version \notin DOMAIN reviews
          /\ reviews' = WithRow(reviews, q.version, row)
          /\ events' = events \cup {<<q.version, "REVIEW_REQUESTED", q.user>>}
          /\ request' = [request EXCEPT ![r] = n("ok")]
      BY <1>5 DEF CommitSubmit, AnswerTo
    <2>2. /\ DOMAIN reviews' = DOMAIN reviews \cup {q.version}
          /\ \A v \in DOMAIN reviews : reviews'[v] = reviews[v]
          /\ reviews'[q.version] = row
      BY <2>1 DEF WithRow
    <2>3. row \in Review /\ row.status = "PENDING" /\ row.requestedBy = q.user /\ row.key = q.key
      BY <1>1 DEF Review, Status
    <2>4. TablesOK'
      <3>1. DOMAIN reviews' \subseteq 1..draft /\ \A v \in DOMAIN reviews' : reviews'[v] \in Review
        BY <1>1, <2>2, <2>3 DEF Inv, TablesOK
      <3>2. events' \subseteq Event
        BY <1>1, <2>1 DEF Inv, TablesOK, Event
      <3> QED BY <1>2, <3>1, <3>2 DEF Inv, TablesOK, files, people
    <2>5. Growing
      BY <1>2, <2>2 DEF Inv, TablesOK, Growing
    <2>6. RequestsOK'
      <3>1. Flight(n("ok"), draft', reviews', DOMAIN delivery', finalizations')
        BY <1>1, <1>3, <2>2, <2>3 DEF Flight
      <3>2. n("ok") \in Request
        BY <1>3
      <3> HIDE DEF n
      <3> QED BY <2>1, <2>5, <3>1, <3>2, RequestMoves DEF Inv
    <2>7. MailInv'
      <3>1. n("ok").phase \notin {"dispatch", "posted"}
        BY <1>3
      <3> HIDE DEF n
      <3> QED BY <1>2, <2>1, <2>5, <3>1, MailKept DEF Inv, RequestsOK
    <2>8. DecisionRecorded'
      <3> DEFINE Asked(table) == {<<v, "REVIEW_REQUESTED", table[v].requestedBy>> : v \in DOMAIN table}
                 Closed(table) == {w \in DOMAIN table : table[w].status # "PENDING"}
                 Told(table) == {<<v, table[v].status, table[v].reviewedBy>> : v \in Closed(table)}
      <3>1. Asked(reviews') = Asked(reviews) \cup {<<q.version, "REVIEW_REQUESTED", q.user>>}
        BY <2>1, <2>2, <2>3
      <3>2. Closed(reviews') = Closed(reviews)
        BY <2>1, <2>2, <2>3
      <3>3. Told(reviews') = Told(reviews)
        <4>1. \A v \in Closed(reviews) : reviews'[v] = reviews[v]
          BY <2>2
        <4> QED BY <3>2, <4>1
      <3>4. events' = Asked(reviews') \cup Told(reviews')
        BY <2>1, <3>1, <3>3 DEF Inv, DecisionRecorded
      <3>5. {v \in DOMAIN reviews' : reviews'[v].status = "APPROVED"} =
               {v \in DOMAIN reviews : reviews[v].status = "APPROVED"}
        BY <2>1, <2>2, <2>3
      <3> QED BY <1>2, <3>4, <3>5 DEF Inv, DecisionRecorded
    <2>9. OutputLogged'
      BY <1>2 DEF Inv, OutputLogged, files
    <2> QED BY <2>4, <2>6, <2>7, <2>8, <2>9 DEF Inv
  <1> QED BY <1>4, <1>5

(* A decision.  The one that hits the row closes the review, logs it and   *)
(* for an approval tells somebody and goes on to the mail.  One that does  *)
(* not hit adds at most a second notice of an approved review: its event   *)
(* would be one that is logged already, which the batch does not survive.  *)
LEMMA InvCommitDecision ==
    ASSUME Inv, NEW r \in Requests, CommitDecision(r)
    PROVE  Inv'
  <1> DEFINE q == request[r]
             v == q.version
             old == reviews[v]
             hit == old.status = "PENDING"
             mine == hit \/ (old.status = q.kind /\ old.reviewedBy = q.user)
             notifies == q.kind = "APPROVED" /\ NoticeDue(hit, v)
             notice == <<q.recipient, v>>
             n == [q EXCEPT !.phase = "dispatch"]
  <1>1. /\ q \in Request /\ q.phase = "read" /\ q.kind \in {"APPROVED", "CHANGES_REQUESTED"}
        /\ Flight(q, draft, reviews, DOMAIN delivery, finalizations)
    BY DEF CommitDecision, At, Inv, RequestsOK, FlightInv
  <1>2. /\ q.user \in Users /\ v \in 1..draft /\ v \in DOMAIN reviews
        /\ q.kind = "APPROVED" => q.recipient \in Users
    BY <1>1 DEF Flight
  <1>3. old \in Review /\ v \in Versions
    BY <1>2, ApprovalAssumption DEF Inv, TablesOK, Versions
  <1>4. UNCHANGED <<draft, mailed, finalizations, files, people>>
    BY DEF CommitDecision
  <1>5. CASE Done(r) /\ UNCHANGED ledger
    BY <1>4, <1>5, IdleType, OnlyRequest DEF Done
  <1>6. CASE ~(Done(r) /\ UNCHANGED ledger)
    <2>1. /\ ~(mine /\ \E u \in Users : <<v, q.kind, u>> \in events)
          /\ reviews' = IF hit THEN [reviews EXCEPT ![v].status = q.kind,
                                                   ![v].reviewedBy = q.user]
                               ELSE reviews
          /\ events' = IF mine THEN events \cup {<<v, q.kind, q.user>>} ELSE events
          /\ delivery' = IF notifies THEN WithRow(delivery, notice, "PENDING") ELSE delivery
          /\ AfterDecision(r, hit)
      BY <1>6 DEF CommitDecision
    <2>2. mine => hit
      <3> SUFFICES ASSUME old.status = q.kind, old.reviewedBy = q.user PROVE FALSE
        BY <2>1
      <3>1. <<v, old.status, old.reviewedBy>> \in events
        BY <1>1, <1>2 DEF Inv, DecisionRecorded
      <3> QED BY <1>2, <2>1, <3>1
    <2>3. /\ DOMAIN reviews' = DOMAIN reviews
          /\ \A w \in DOMAIN reviews : w # v \/ ~hit => reviews'[w] = reviews[w]
          /\ hit => reviews'[v] = [old EXCEPT !.status = q.kind, !.reviewedBy = q.user]
      BY <1>2, <2>1
    <2>4. /\ reviews'[v] \in Review /\ reviews'[v].key = old.key
          /\ reviews'[v].requestedBy = old.requestedBy
          /\ hit => reviews'[v].status = q.kind /\ reviews'[v].reviewedBy = q.user
      BY <1>1, <1>2, <1>3, <2>3 DEF Review, Status
    <2>5. /\ DOMAIN delivery' = DOMAIN delivery \cup (IF notifies THEN {notice} ELSE {})
          /\ \A m \in DOMAIN delivery : delivery'[m] \in OutboxStatus
          /\ notifies => delivery'[notice] = "PENDING"
      BY <2>1 DEF WithRow, Inv, TablesOK, OutboxStatus
    <2>6. notifies <=> q.kind = "APPROVED" /\ reviews'[v].status = "APPROVED"
      BY <1>2, <2>3, <2>4 DEF NoticeDue
    <2>7. TablesOK'
      <3>1. \A w \in DOMAIN reviews' : reviews'[w] \in Review
        BY <2>3, <2>4 DEF Inv, TablesOK
      <3>2. events' \subseteq Event
        BY <1>1, <1>2, <1>3, <2>1 DEF Inv, TablesOK, Event
      <3>3. /\ DOMAIN delivery' \subseteq Notice
            /\ \A m \in DOMAIN delivery' : delivery'[m] \in OutboxStatus
        BY <1>2, <1>3, <2>5 DEF Inv, TablesOK, Notice, OutboxStatus
      <3>4. mailed' \subseteq DOMAIN delivery'
        BY <1>4, <2>5 DEF Inv, TablesOK
      <3> QED BY <1>4, <2>3, <3>1, <3>2, <3>3, <3>4 DEF Inv, TablesOK, files, people
    <2>8. Growing
      <3>1. draft' \in Nat /\ draft \in Nat /\ draft <= draft'
        BY <1>4 DEF Inv, TablesOK
      <3>2. ASSUME NEW w \in DOMAIN reviews
            PROVE  /\ w \in DOMAIN reviews' /\ reviews'[w].key = reviews[w].key
                   /\ reviews[w].status = "APPROVED" => reviews'[w].status = "APPROVED"
        BY <2>3, <2>4
      <3> QED BY <1>4, <2>5, <3>1, <3>2 DEF Growing
    <2>9. \/ Done(r)
          \/ hit /\ q.kind = "APPROVED" /\ request' = [request EXCEPT ![r] = n]
      BY <2>1 DEF AfterDecision, Inv, RequestsOK
    <2>10. /\ n \in Request /\ n.phase = "dispatch" /\ n.kind = q.kind /\ n.user = q.user
           /\ n.version = v /\ n.key = q.key /\ n.recipient = q.recipient
           /\ n.answer = q.answer
      BY <1>1 DEF Request
    <2>11. RequestsOK'
      <3>1. CASE Done(r)
        BY <2>8, <3>1, RequestEnds DEF Inv
      <3>2. CASE hit /\ q.kind = "APPROVED" /\ request' = [request EXCEPT ![r] = n]
        <4>0. Flight(q, draft', reviews', DOMAIN delivery', finalizations')
          BY <1>1, <2>8, FlightGrows
        <4>1. Flight(n, draft', reviews', DOMAIN delivery', finalizations')
          BY <1>1, <1>2, <2>3, <2>4, <2>10, <3>2, <4>0 DEF Flight
        <4> HIDE DEF n
        <4> QED BY <2>8, <2>10, <3>2, <4>1, RequestMoves DEF Inv
      <3> QED BY <2>9, <3>1, <3>2
    <2>12. MailInv'
      <3>1. CASE Done(r)
        BY <1>4, <2>8, <3>1, IdleType, MailKept DEF Inv, RequestsOK, Done
      <3>2. CASE hit /\ q.kind = "APPROVED" /\ request' = [request EXCEPT ![r] = n]
        <4>1. \A s \in Requests : ~Sending(request[s], v)
          BY <3>2 DEF Sending, Inv, RequestsOK, FlightInv, Flight
        <4>2. \A m \in mailed : m[2] # v
          BY <3>2 DEF Inv, MailInv
        <4>3. /\ \A s \in Requests : s # r => request'[s] = request[s]
              /\ request'[r] = n
          BY <3>2 DEF Inv, RequestsOK
        <4>4. ASSUME NEW s \in Requests, NEW t \in Requests, NEW w \in Versions,
                     Sending(request'[s], w), Sending(request'[t], w)
              PROVE  s = t
          <5>1. CASE w = v
            BY <4>1, <4>3, <4>4, <5>1
          <5>2. CASE w # v
            <6>1. s # r /\ t # r
              BY <2>10, <4>3, <4>4, <5>2 DEF Sending
            <6> QED BY <4>3, <4>4, <6>1 DEF Inv, MailInv
          <5> QED BY <5>1, <5>2
        <4>5. ASSUME NEW m \in mailed'
              PROVE  /\ m[2] \in DOMAIN reviews' /\ reviews'[m[2]].status = "APPROVED"
                     /\ \A s \in Requests :
                           request'[s].phase = "dispatch" => request'[s].version # m[2]
          <5>1. m \in mailed /\ m[2] \in DOMAIN reviews /\ reviews[m[2]].status = "APPROVED"
            BY <1>4 DEF Inv, MailInv
          <5>2. m[2] \in DOMAIN reviews' /\ reviews'[m[2]].status = "APPROVED"
            BY <2>8, <5>1 DEF Growing
          <5>3. ASSUME NEW s \in Requests, request'[s].phase = "dispatch"
                PROVE  request'[s].version # m[2]
            <6>1. CASE s = r
              <7>1. request'[s].version = v
                BY <2>10, <4>3, <6>1
              <7> QED BY <4>2, <5>1, <7>1
            <6>2. CASE s # r
              BY <4>3, <5>1, <5>3, <6>2 DEF Inv, MailInv
            <6> QED BY <6>1, <6>2
          <5> QED BY <5>2, <5>3
        <4> QED BY <1>4, <4>4, <4>5 DEF Inv, MailInv, OneEmailPerReview
      <3> QED BY <2>9, <3>1, <3>2
    <2>13. DecisionRecorded'
      <3> DEFINE Asked(table) == {<<w, "REVIEW_REQUESTED", table[w].requestedBy>> : w \in DOMAIN table}
                 Closed(table) == {w \in DOMAIN table : table[w].status # "PENDING"}
                 Told(table) == {<<w, table[w].status, table[w].reviewedBy>> : w \in Closed(table)}
                 Approved(table) == {w \in DOMAIN table : table[w].status = "APPROVED"}
      <3>1. events = Asked(reviews) \cup Told(reviews) /\ {m[2] : m \in DOMAIN delivery} = Approved(reviews)
        BY DEF Inv, DecisionRecorded
      <3>2. Asked(reviews') = Asked(reviews)
        <4>1. \A w \in DOMAIN reviews : reviews'[w].requestedBy = reviews[w].requestedBy
          BY <2>3, <2>4
        <4> QED BY <2>3, <4>1
      <3>3. {m[2] : m \in DOMAIN delivery'} =
               {m[2] : m \in DOMAIN delivery} \cup (IF notifies THEN {v} ELSE {})
        BY <2>5
      <3>4. CASE hit
        <4>1. Closed(reviews') = Closed(reviews) \cup {v} /\ v \notin Closed(reviews)
          BY <1>1, <1>2, <2>3, <2>4, <3>4
        <4>2. \A w \in Closed(reviews) : reviews'[w] = reviews[w]
          BY <2>3, <4>1
        <4>3. Told(reviews') = Told(reviews) \cup {<<v, q.kind, q.user>>}
          BY <2>4, <3>4, <4>1, <4>2
        <4>4. events' = Asked(reviews') \cup Told(reviews')
          BY <2>1, <3>1, <3>2, <3>4, <4>3
        <4>5. Approved(reviews') = Approved(reviews) \cup (IF notifies THEN {v} ELSE {})
          BY <1>1, <1>2, <2>3, <2>4, <2>6, <3>4
        <4> QED BY <3>1, <3>3, <4>4, <4>5 DEF DecisionRecorded
      <3>5. CASE ~hit
        <4>1. reviews' = reviews /\ events' = events
          BY <2>1, <2>2, <3>5
        <4>2. notifies => v \in Approved(reviews)
          BY <1>2, <2>6, <4>1
        <4> QED BY <3>1, <3>3, <4>1, <4>2 DEF DecisionRecorded
      <3> QED BY <3>4, <3>5
    <2>14. OutputLogged'
      BY <1>4 DEF Inv, OutputLogged, files
    <2> QED BY <2>7, <2>11, <2>12, <2>13, <2>14 DEF Inv
  <1> QED BY <1>5, <1>6

(* The mail is posted by the one request that is on its way to it.         *)
LEMMA InvPost ==
    ASSUME Inv, NEW r \in Requests, NEW outcome \in OutboxStatus, NEW accepted \in BOOLEAN,
           Post(r, outcome, accepted)
    PROVE  Inv'
  <1> DEFINE q == request[r]
             notice == <<q.recipient, q.version>>
             n == [q EXCEPT !.phase = "posted", !.outcome = outcome]
  <1>1. /\ q \in Request /\ q.phase = "dispatch"
        /\ Flight(q, draft, reviews, DOMAIN delivery, finalizations)
        /\ UNCHANGED <<draft, ledger, finalizations, files, people>>
    BY DEF Post, At, Inv, RequestsOK, FlightInv
  <1>2. CASE Done(r) /\ UNCHANGED mailed
    BY <1>1, <1>2, IdleType, OnlyRequest DEF Done
  <1>3. CASE ~(Done(r) /\ UNCHANGED mailed)
    <2>1. /\ notice \in DOMAIN delivery
          /\ mailed' = IF accepted THEN mailed \cup {notice} ELSE mailed
          /\ request' = [request EXCEPT ![r].phase = "posted", ![r].outcome = outcome]
      BY <1>3 DEF Post
    <2>2. n \in Request /\ request' = [request EXCEPT ![r] = n]
      BY <1>1, <2>1 DEF Request, Inv, RequestsOK
    <2>3. /\ n.phase = "posted" /\ n.kind = q.kind /\ n.user = q.user /\ n.version = q.version
          /\ n.key = q.key /\ n.recipient = q.recipient /\ n.answer = q.answer
      BY <1>1 DEF Request
    <2>4. Growing
      BY <1>1, NothingGrows DEF Inv, ledger
    <2>5. Flight(n, draft', reviews', DOMAIN delivery', finalizations')
      <3>1. Flight(n, draft, reviews, DOMAIN delivery, finalizations)
        BY <1>1, <2>1, <2>3 DEF Flight
      <3> QED BY <2>4, <3>1, FlightGrows
    <2>6. RequestsOK'
      <3> HIDE DEF n
      <3> QED BY <2>2, <2>4, <2>5, RequestMoves DEF Inv
    <2>7. TablesOK'
      BY <1>1, <2>1 DEF Inv, TablesOK, ledger, files, people
    <2>8. MailInv'
      <3>1. /\ \A s \in Requests : s # r => request'[s] = request[s]
            /\ request'[r] = n
        BY <2>2 DEF Inv, RequestsOK
      <3>2. q.version \in DOMAIN reviews /\ reviews[q.version].status = "APPROVED"
        BY <1>1 DEF Flight
      <3>3. q.version \in Versions
        BY <3>2, ApprovalAssumption DEF Inv, TablesOK, Versions
      <3>4. ASSUME NEW s \in Requests, NEW v \in Versions, Sending(request'[s], v)
            PROVE  Sending(request[s], v)
        <4>1. CASE s = r
          BY <1>1, <2>3, <3>1, <3>4, <4>1 DEF Sending
        <4>2. CASE s # r
          BY <3>1, <3>4, <4>2
        <4> QED BY <4>1, <4>2
      <3>5. \A s \in Requests : s # r => ~Sending(request[s], q.version)
        BY <1>1, <3>3 DEF Inv, MailInv, Sending
      <3>6. \A m \in mailed : m[2] # q.version
        BY <1>1 DEF Inv, MailInv
      <3>7. \A s \in Requests : request'[s].phase = "dispatch" =>
                /\ s # r /\ request[s].phase = "dispatch" /\ request'[s].version = request[s].version
                /\ request'[s].version # q.version
        BY <2>3, <3>1, <3>5 DEF Sending
      <3>8. ASSUME NEW m \in mailed'
            PROVE  /\ m[2] \in DOMAIN reviews' /\ reviews'[m[2]].status = "APPROVED"
                   /\ \A s \in Requests :
                         request'[s].phase = "dispatch" => request'[s].version # m[2]
        <4>1. CASE m \in mailed
          BY <1>1, <3>7, <4>1 DEF Inv, MailInv, ledger
        <4>2. CASE m = notice
          BY <1>1, <3>2, <3>7, <4>2 DEF ledger
        <4> QED BY <2>1, <4>1, <4>2
      <3>9. OneEmailPerReview'
        BY <2>1, <3>6 DEF Inv, MailInv, OneEmailPerReview
      <3> QED BY <3>4, <3>8, <3>9 DEF Inv, MailInv
    <2> QED BY <1>1, <2>6, <2>7, <2>8, RecordsStay DEF Inv
  <1> QED BY <1>2, <1>3

LEMMA InvRecord ==
    ASSUME Inv, NEW r \in Requests, Record(r)
    PROVE  Inv'
  <1> DEFINE q == request[r]
             row == <<q.recipient, q.version>>
  <1>1. /\ row \in DOMAIN delivery /\ q.outcome \in OutboxStatus
        /\ Done(r)
        /\ delivery' = IF delivery[row] = "PENDING"
                         THEN [delivery EXCEPT ![row] = q.outcome] ELSE delivery
        /\ UNCHANGED <<draft, reviews, events, mailed, finalizations, files, people>>
    BY DEF Record, At, Inv, RequestsOK, FlightInv, Flight, Request
  <1>2. DOMAIN delivery' = DOMAIN delivery /\ \A m \in DOMAIN delivery : delivery'[m] \in OutboxStatus
    BY <1>1 DEF Inv, TablesOK
  <1>3. Growing
    BY <1>1, <1>2 DEF Inv, TablesOK, Growing
  <1>4. RequestsOK'
    BY <1>1, <1>3, RequestEnds DEF Inv
  <1>5. MailInv'
    BY <1>1, <1>3, IdleType, MailKept DEF Inv, RequestsOK, Done
  <1>6. DecisionRecorded' /\ OutputLogged'
    BY <1>1, <1>2 DEF Inv, DecisionRecorded, OutputLogged, files
  <1> QED BY <1>1, <1>2, <1>4, <1>5, <1>6 DEF Inv, TablesOK, files, people

LEMMA InvCommitFinalize ==
    ASSUME Inv, NEW r \in Requests, CommitFinalize(r)
    PROVE  Inv'
  <1> DEFINE q == request[r]
             row == [by |-> q.user, key |-> q.key]
             n == [Idle EXCEPT !.kind = "finalize", !.phase = "answered",
                               !.version = q.version, !.key = q.key, !.answer = "ok"]
  <1>1. /\ q \in Request /\ q.phase = "read" /\ q.kind = "finalize"
        /\ Flight(q, draft, reviews, DOMAIN delivery, finalizations)
        /\ UNCHANGED <<draft, ledger, mailed, files, people>>
    BY DEF CommitFinalize, At, Inv, RequestsOK, FlightInv
  <1>2. q.user \in Users /\ q.version \in 1..draft /\ q.key \in Keys /\ q.version \in DOMAIN reviews
    BY <1>1 DEF Flight
  <1>3. /\ n \in Request /\ n.kind = "finalize" /\ n.phase = "answered"
        /\ n.version = q.version /\ n.key = q.key /\ n.answer = "ok"
    <2> DEFINE v == q.version
               k == q.key
    <2>1. v \in 0..MaxVersion /\ k \in Keys
      BY <1>2, ApprovalAssumption DEF Inv, TablesOK
    <2> HIDE DEF v, k
    <2>2. LET m == [Idle EXCEPT !.kind = "finalize", !.phase = "answered",
                                !.version = v, !.key = k, !.answer = "ok"]
          IN  /\ m \in Request /\ m.kind = "finalize" /\ m.phase = "answered"
              /\ m.version = v /\ m.key = k /\ m.answer = "ok"
      BY <2>1, IdleType DEF Request, RequestKind
    <2> QED BY <2>2 DEF v, k
  <1>4. CASE UNCHANGED finalizations
    <2>1. CASE Done(r)
      BY <1>1, <1>4, <2>1, IdleType, OnlyRequest DEF Done
    <2>2. CASE ~Done(r)
      <3>1. request' = [request EXCEPT ![r] = n]
        BY <2>2 DEF CommitFinalize, AnswerTo
      <3>2. q.version \in DOMAIN finalizations /\ finalizations[q.version].key = q.key
        BY <1>4, <2>2 DEF CommitFinalize, SameRequest, WithRow
      <3>3. Flight(n, draft, reviews, DOMAIN delivery, finalizations)
        BY <1>2, <1>3, <3>2 DEF Flight
      <3> HIDE DEF n
      <3> QED BY <1>1, <1>3, <1>4, <3>1, <3>3, OnlyRequest
    <2> QED BY <2>1, <2>2
  <1>5. CASE ~UNCHANGED finalizations
    <2>1. /\ q.version \notin DOMAIN finalizations
          /\ finalizations' = WithRow(finalizations, q.version, row)
          /\ request' = [request EXCEPT ![r] = n]
      BY <1>5 DEF CommitFinalize, AnswerTo
    <2>2. /\ DOMAIN finalizations' = DOMAIN finalizations \cup {q.version}
          /\ \A v \in DOMAIN finalizations : finalizations'[v] = finalizations[v]
          /\ finalizations'[q.version] = row
      BY <2>1 DEF WithRow
    <2>3. row \in Finalization /\ row.key = q.key
      BY <1>2 DEF Finalization
    <2>4. TablesOK'
      BY <1>1, <1>2, <2>2, <2>3 DEF Inv, TablesOK, ledger, files, people
    <2>5. Growing
      BY <1>1, <2>2 DEF Inv, TablesOK, Growing, ledger
    <2>6. RequestsOK'
      <3>1. Flight(n, draft', reviews', DOMAIN delivery', finalizations')
        BY <1>2, <1>3, <2>2, <2>3 DEF Flight
      <3> HIDE DEF n
      <3> QED BY <1>3, <2>1, <2>5, <3>1, RequestMoves DEF Inv
    <2>7. MailInv'
      <3> HIDE DEF n
      <3> QED BY <1>1, <1>3, <2>1, <2>5, MailKept DEF Inv, RequestsOK
    <2>8. DecisionRecorded'
      BY <1>1 DEF Inv, DecisionRecorded, ledger
    <2>9. OutputLogged'
      BY <1>1, <2>2 DEF Inv, OutputLogged, files
    <2> QED BY <2>4, <2>6, <2>7, <2>8, <2>9 DEF Inv
  <1> QED BY <1>4, <1>5

(* A file that is there is not inserted again, so its creator stands.      *)
LEMMA InvCommitOutput ==
    ASSUME Inv, NEW r \in Requests, CommitOutput(r)
    PROVE  Inv'
  <1> DEFINE q == request[r]
             n == <<q.version, q.format>>
  <1>1. /\ q.phase = "read" /\ q.kind = "output" /\ Done(r)
        /\ Flight(q, draft, reviews, DOMAIN delivery, finalizations)
        /\ UNCHANGED <<draft, ledger, mailed, finalizations, people>>
    BY DEF CommitOutput, At, Inv, RequestsOK, FlightInv
  <1>2. /\ q.user \in Users /\ q.version \in 1..draft /\ q.format \in Formats
        /\ q.version \in DOMAIN finalizations
    BY <1>1 DEF Flight
  <1>3. CASE UNCHANGED files
    BY <1>1, <1>3, IdleType, OnlyRequest DEF Done
  <1>4. CASE ~UNCHANGED files
    <2>1. /\ n \notin DOMAIN outputs
          /\ outputs' = WithRow(outputs, n, q.user)
          /\ generated' = generated \cup {<<q.version, q.format, q.user>>}
      BY <1>4 DEF CommitOutput, OutputMissing
    <2>2. /\ DOMAIN outputs' = DOMAIN outputs \cup {n}
          /\ \A m \in DOMAIN outputs : outputs'[m] = outputs[m]
          /\ outputs'[n] = q.user
      BY <2>1 DEF WithRow
    <2>3. q.version \in Versions
      BY <1>2, ApprovalAssumption DEF Inv, TablesOK, Versions
    <2>4. TablesOK'
      <3>1. DOMAIN outputs' \subseteq Versions \X Formats /\ \A m \in DOMAIN outputs' : outputs'[m] \in Users
        BY <1>2, <2>2, <2>3 DEF Inv, TablesOK
      <3>2. generated' \subseteq Versions \X Formats \X Users
        BY <1>2, <2>1, <2>3 DEF Inv, TablesOK
      <3> QED BY <1>1, <3>1, <3>2 DEF Inv, TablesOK, ledger, people
    <2>5. RequestsOK' /\ MailInv'
      <3>1. Growing
        BY <1>1, NothingGrows DEF Inv, ledger
      <3> QED BY <1>1, <3>1, IdleType, RequestEnds, MailKept DEF Inv, RequestsOK, Done
    <2>6. DecisionRecorded'
      BY <1>1 DEF Inv, DecisionRecorded, ledger
    <2>7. OutputLogged'
      <3> DEFINE Rows(table) == {<<m[1], m[2], table[m]>> : m \in DOMAIN table}
      <3>1. Rows(outputs') = Rows(outputs) \cup {<<q.version, q.format, q.user>>}
        BY <2>2
      <3>2. generated' = Rows(outputs')
        BY <2>1, <3>1 DEF Inv, OutputLogged
      <3>3. {m[1] : m \in DOMAIN outputs'} \subseteq DOMAIN finalizations'
        BY <1>1, <1>2, <2>2 DEF Inv, OutputLogged
      <3> QED BY <3>2, <3>3 DEF OutputLogged
    <2> QED BY <2>4, <2>5, <2>6, <2>7 DEF Inv
  <1> QED BY <1>3, <1>4

LEMMA InvOthers ==
    ASSUME Inv,
           \/ SaveDraft \/ UNCHANGED vars
           \/ \E u \in Users : Join(u) \/ Suspend(u)
           \/ \E r \in Requests : Lose(r)
    PROVE  Inv'
  <1>1. CASE SaveDraft
    <2>1. Growing
      BY <1>1 DEF SaveDraft, Inv, TablesOK, Growing, ledger
    <2>2. TablesOK'
      <3>1. draft' \in 0..MaxVersion /\ 1..draft \subseteq 1..draft'
        BY <1>1, ApprovalAssumption DEF SaveDraft, Inv, TablesOK
      <3> QED BY <1>1, <3>1 DEF SaveDraft, Inv, TablesOK, ledger, files, people
    <2> QED BY <1>1, <2>1, <2>2, RequestsStay, MailStays, RecordsStay DEF SaveDraft, Inv, ledger
  <1>2. ASSUME NEW u \in Users, Join(u) \/ Suspend(u) PROVE Inv'
    <2>1. UNCHANGED <<draft, ledger, mailed, finalizations, files, request>>
      BY <1>2 DEF Join, Suspend
    <2>2. members' \subseteq Users /\ active' \subseteq Users
      BY <1>2 DEF Join, Suspend, Inv, TablesOK
    <2>3. Growing
      BY <2>1, NothingGrows DEF Inv, ledger
    <2> QED BY <2>1, <2>2, <2>3, RequestsStay, MailStays, RecordsStay
            DEF Inv, TablesOK, ledger, files
  <1>3. ASSUME NEW r \in Requests, Lose(r) PROVE Inv'
    BY <1>3, IdleType, OnlyRequest DEF Lose, Done
  <1>4. CASE UNCHANGED vars
    <2>1. Growing
      BY <1>4, NothingGrows DEF Inv, vars
    <2> QED BY <1>4, <2>1, RequestsStay, MailStays, RecordsStay
            DEF vars, Inv, TablesOK, ledger, files
  <1> QED BY <1>1, <1>2, <1>3, <1>4

-----------------------------------------------------------------------------
LEMMA InvNext == Inv /\ [Next]_vars => Inv'
  BY InvReceive, InvPickRecipient, InvCommitSubmit, InvCommitDecision, InvPost, InvRecord,
     InvCommitFinalize, InvCommitOutput, InvOthers DEF Next, Progress

LEMMA Invariance == Spec => []Inv
  BY InvInit, InvNext, PTL DEF Spec

(* Every reachable state of reviews, notices, finalizations, files and of  *)
(* the requests in flight is well typed.                                   *)
THEOREM Typed == Spec => []TypeOK
  <1>1. Inv => TypeOK
    <2>1. Inv => 1..draft \subseteq Versions
      BY ApprovalAssumption DEF Inv, TablesOK, Versions
    <2> QED BY <2>1 DEF Inv, TablesOK, RequestsOK, TypeOK
  <1> QED BY <1>1, Invariance, PTL

(* The append-only logs say what the reviews and the files say, and exactly *)
(* the approved reviews have a notice, whatever decisions race.            *)
THEOREM LogsTrue == Spec => []LogsAreTrue
  <1>1. Inv => LogsAreTrue
    BY DEF Inv, LogsAreTrue
  <1> QED BY <1>1, Invariance, PTL

(* Nobody is asked twice by mail to deliver one approved version.          *)
THEOREM MailedOnce == Spec => []OneEmailPerReview
  <1>1. Inv => OneEmailPerReview
    BY DEF Inv, MailInv
  <1> QED BY <1>1, Invariance, PTL

(* An accepted review request or finalization is stored under its key,     *)
(* also when it was the second attempt of a request whose answer was lost. *)
THEOREM Accepted == Spec => []AcceptedIsStored
  <1>1. Inv => AcceptedIsStored
    BY DEF Inv, RequestsOK, FlightInv, Flight, AcceptedIsStored
  <1> QED BY <1>1, Invariance, PTL

-----------------------------------------------------------------------------
(* Only the batches of a request, of a decision and of a finalization      *)
(* write the rows that the ledger knows.                                   *)
LEMMA Elsewhere ==
    ASSUME [Next]_vars,
           ~\E r \in Requests : CommitSubmit(r) \/ CommitDecision(r) \/ CommitFinalize(r)
    PROVE  UNCHANGED <<reviews, finalizations>>
  <1>1. ASSUME NEW r \in Requests, NEW u \in Users, NEW v \in 1..draft, Receive(r, u, v)
        PROVE  UNCHANGED <<reviews, finalizations>>
    BY <1>1 DEF Receive, ReceiveSubmit, ReceiveDecision, ReceiveFinalize, ReceiveOutput, ledger
  <1>2. ASSUME NEW r \in Requests, Progress(r) \/ Lose(r)
        PROVE  UNCHANGED <<reviews, finalizations>>
    BY <1>2 DEF Progress, PickRecipient, Post, Record, CommitOutput, Lose, ledger
  <1>3. ASSUME SaveDraft \/ UNCHANGED vars \/ \E u \in Users : Join(u) \/ Suspend(u)
        PROVE  UNCHANGED <<reviews, finalizations>>
    BY <1>3 DEF SaveDraft, Join, Suspend, vars, ledger
  <1> QED BY <1>1, <1>2, <1>3 DEF Next

LEMMA DecisionStep ==
    ASSUME Inv, NEW r \in Requests, CommitDecision(r), reviews' # reviews
    PROVE  LET v == request[r].version
               kind == request[r].kind
               u == request[r].user
           IN  /\ v \in DOMAIN reviews /\ reviews[v].status = "PENDING"
               /\ kind \in {"APPROVED", "CHANGES_REQUESTED"}
               /\ DecisionGuard(u, v, kind)
               /\ reviews' = [reviews EXCEPT ![v].status = kind, ![v].reviewedBy = u]
               /\ reviews[v] \in Review
  <1>1. /\ request[r].phase = "read" /\ request[r].kind \in {"APPROVED", "CHANGES_REQUESTED"}
        /\ request[r].version \in DOMAIN reviews
    BY DEF CommitDecision, At, Inv, RequestsOK, FlightInv, Flight
  <1> QED BY <1>1 DEF CommitDecision, ledger, Inv, TablesOK

(* A verdict is given once, by somebody else than the requester who holds  *)
(* the right at that moment, and an approval is of the current version:    *)
(* for any number of handlers that looked at any time before.              *)
THEOREM Independent == Spec => DecisionIndependent
  <1>1. Inv /\ [Next]_vars =>
          [\A v \in DOMAIN reviews : reviews'[v] # reviews[v] =>
             LET u == reviews'[v].reviewedBy IN
             /\ reviews[v].status = "PENDING"
             /\ u # reviews[v].requestedBy
             /\ HasAccess(u) /\ u \in Deciders
             /\ reviews'[v].status = "APPROVED" => u \in Executives /\ draft = v]_vars
    <2> DEFINE Verdict(v) ==
          LET u == reviews'[v].reviewedBy IN
          /\ reviews[v].status = "PENDING"
          /\ u # reviews[v].requestedBy
          /\ HasAccess(u) /\ u \in Deciders
          /\ reviews'[v].status = "APPROVED" => u \in Executives /\ draft = v
    <2> SUFFICES ASSUME Inv, [Next]_vars, NEW v \in DOMAIN reviews, reviews'[v] # reviews[v]
                 PROVE  Verdict(v)
      OBVIOUS
    <2>1. ASSUME NEW r \in Requests, CommitDecision(r) PROVE Verdict(v)
      <3> DEFINE w == request[r].version
                 kind == request[r].kind
                 u == request[r].user
      <3>1. /\ w \in DOMAIN reviews /\ reviews[w].status = "PENDING"
            /\ DecisionGuard(u, w, kind) /\ reviews[w] \in Review
            /\ reviews' = [reviews EXCEPT ![w].status = kind, ![w].reviewedBy = u]
        BY <2>1, DecisionStep
      <3>2. v = w
        BY <3>1
      <3>3. reviews'[v].status = kind /\ reviews'[v].reviewedBy = u
        BY <3>1, <3>2 DEF Review
      <3> QED BY <3>1, <3>2, <3>3 DEF DecisionGuard
    <2>2. ASSUME NEW r \in Requests, CommitSubmit(r) PROVE FALSE
      BY <2>2 DEF CommitSubmit, WithRow
    <2>3. ASSUME NEW r \in Requests, CommitFinalize(r) PROVE FALSE
      BY <2>3 DEF CommitFinalize, ledger
    <2> QED BY <2>1, <2>2, <2>3, Elsewhere
  <1> QED BY <1>1, Invariance, PTL DEF Spec, DecisionIndependent

-----------------------------------------------------------------------------
(* Review and finalization implement ApprovalLedger: a version is reviewed *)
(* once and alone, approved only while it is the latest, and finalized     *)
(* only while approved and the latest.                                     *)
verdicts == [v \in DOMAIN reviews |-> reviews[v].status]

LEMMA LedgerStep ==
    ASSUME Inv, [Next]_vars
    PROVE  [Ledger!Next]_(Ledger!vars)
  <1>1. CASE UNCHANGED <<draft, reviews, finalizations>>
    BY <1>1 DEF Ledger!vars
  <1>2. ASSUME NEW r \in Requests, CommitSubmit(r), reviews' # reviews
        PROVE  Ledger!Next
    <2>0. PICK v \in 1..draft : v = request[r].version
      BY <1>2 DEF CommitSubmit, At, Inv, RequestsOK, FlightInv, Flight
    <2>1. /\ v \notin DOMAIN reviews /\ UNCHANGED <<draft, finalizations>>
          /\ \A w \in DOMAIN reviews : reviews[w].status # "PENDING"
          /\ \E u, k : reviews' = WithRow(reviews, v, [status |-> "PENDING",
                              requestedBy |-> u, reviewedBy |-> NoUser, key |-> k])
      BY <1>2, <2>0 DEF CommitSubmit
    <2>3. verdicts' = [w \in DOMAIN verdicts \cup {v} |-> IF w = v THEN "PENDING" ELSE verdicts[w]]
      BY <2>1 DEF WithRow, verdicts
    <2>4. Ledger!Request(v)
      BY <2>1, <2>3 DEF Ledger!Request, Ledger!Open, verdicts
    <2> QED BY <2>4 DEF Ledger!Next
  <1>3. ASSUME NEW r \in Requests, CommitDecision(r), reviews' # reviews
        PROVE  Ledger!Next
    <2>0. PICK v \in 1..draft, kind \in {"APPROVED", "CHANGES_REQUESTED"}, u \in {request[r].user} :
             /\ v = request[r].version /\ kind = request[r].kind /\ u = request[r].user
      <3>1. request[r].version \in DOMAIN reviews /\ request[r].kind \in {"APPROVED", "CHANGES_REQUESTED"}
        BY <1>3, DecisionStep
      <3> QED BY <3>1 DEF Inv, TablesOK
    <2>1. /\ v \in DOMAIN reviews /\ reviews[v].status = "PENDING"
          /\ kind \in {"APPROVED", "CHANGES_REQUESTED"}
          /\ DecisionGuard(u, v, kind) /\ reviews[v] \in Review
          /\ reviews' = [reviews EXCEPT ![v].status = kind, ![v].reviewedBy = u]
      BY <1>3, <2>0, DecisionStep
    <2>2. UNCHANGED <<draft, finalizations>>
      BY <1>3 DEF CommitDecision
    <2>3. verdicts' = [verdicts EXCEPT ![v] = kind]
      <3>1. /\ DOMAIN reviews' = DOMAIN reviews
            /\ \A w \in DOMAIN reviews : w # v => reviews'[w] = reviews[w]
            /\ reviews'[v].status = kind
        BY <2>1 DEF Review
      <3> QED BY <2>1, <3>1 DEF verdicts
    <2>4. CASE kind = "APPROVED"
      <3>1. draft = v
        BY <2>1, <2>4 DEF DecisionGuard
      <3>2. Ledger!Approve(v)
        BY <2>1, <2>2, <2>3, <2>4, <3>1 DEF Ledger!Approve, Ledger!Open, verdicts
      <3> QED BY <3>2 DEF Ledger!Next
    <2>5. CASE kind = "CHANGES_REQUESTED"
      <3>1. Ledger!SendBack(v)
        BY <2>1, <2>2, <2>3, <2>5 DEF Ledger!SendBack, Ledger!Open, verdicts
      <3> QED BY <3>1 DEF Ledger!Next
    <2> QED BY <2>1, <2>4, <2>5
  <1>4. ASSUME NEW r \in Requests, CommitFinalize(r), finalizations' # finalizations
        PROVE  Ledger!Next
    <2>0. PICK v \in 1..draft : v = request[r].version /\ v \in DOMAIN reviews
      BY <1>4 DEF CommitFinalize, At, Inv, RequestsOK, FlightInv, Flight
    <2>1. /\ v \notin DOMAIN finalizations /\ UNCHANGED <<draft, reviews>>
          /\ draft = v /\ reviews[v].status = "APPROVED"
          /\ DOMAIN finalizations' = DOMAIN finalizations \cup {v}
      BY <1>4, <2>0 DEF CommitFinalize, FinalizationGuard, WithRow, ledger
    <2>2. Ledger!Finalize(v)
      BY <2>0, <2>1 DEF Ledger!Finalize
    <2> QED BY <2>2 DEF Ledger!Next
  <1>5. CASE SaveDraft
    BY <1>5 DEF SaveDraft, ledger, Ledger!Next, Ledger!Edit
  <1>6. ASSUME ~SaveDraft PROVE draft' = draft
    <2>1. ASSUME NEW r \in Requests, NEW u \in Users, NEW v \in 1..draft, Receive(r, u, v)
          PROVE  draft' = draft
      BY <2>1 DEF Receive, ReceiveSubmit, ReceiveDecision, ReceiveFinalize, ReceiveOutput
    <2>2. ASSUME NEW r \in Requests, Progress(r) \/ Lose(r) PROVE draft' = draft
      BY <2>2 DEF Progress, PickRecipient, Post, Record, CommitOutput, CommitSubmit,
                  CommitDecision, CommitFinalize, Lose
    <2>3. ASSUME NEW u \in Users, Join(u) \/ Suspend(u) PROVE draft' = draft
      BY <2>3 DEF Join, Suspend
    <2>4. UNCHANGED vars => draft' = draft
      BY DEF vars
    <2> QED BY <1>6, <2>1, <2>2, <2>3, <2>4 DEF Next
  <1>7. ASSUME NEW r \in Requests
        PROVE  /\ CommitSubmit(r) \/ CommitDecision(r) => UNCHANGED <<draft, finalizations>>
               /\ CommitFinalize(r) => UNCHANGED <<draft, reviews>>
    BY DEF CommitSubmit, CommitDecision, CommitFinalize, ledger
  <1> QED BY <1>1, <1>2, <1>3, <1>4, <1>5, <1>6, <1>7, Elsewhere

(* The refinement, for every schedule of handlers and retries.             *)
THEOREM LedgerKept == Spec => LedgerSpec
  <1>1. Init => Ledger!Init
    BY DEF Init, Ledger!Init
  <1> QED BY <1>1, LedgerStep, Invariance, PTL DEF Spec, LedgerSpec, Ledger!Spec
=============================================================================
