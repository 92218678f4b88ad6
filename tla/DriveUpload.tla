----------------------------- MODULE DriveUpload -----------------------------
(***************************************************************************)
(* Evidence files of the Worker: a file goes to Google Drive, which is no  *)
(* part of the D1 transaction that registers it.  An operation row         *)
(* reserved under the Idempotency-Key before the upload records how it     *)
(* ended.  Three routes store files:                                       *)
(*   "draft"  POST /api/preview/evidence   (handlePreviewEvidence)         *)
(*   "case"   POST /api/cases/<id>/evidence with Drive configured          *)
(*   "d1"     the same without it: file and row go into one D1 batch       *)
(* The routes share no table, so a behaviour is about one of them (route): *)
(* one draft or one case, with its keys.  A file stands for its request    *)
(* fingerprint.  A request refused before it writes anything is no step.   *)
(***************************************************************************)
EXTENDS Integers

CONSTANTS
    Users,
    Leaving,        \* accounts that lose and regain access to the case
    Keys,           \* Idempotency-Key values
    Files, NoFile,
    Requests        \* handlers that may run at the same time

ASSUME UploadAssumption == NoFile \notin Files /\ Leaving \subseteq Users

VARIABLES
    op,             \* preview_google_operations, preview_google_case_operations
    evidence,       \* the registered file of a key, in the route's evidence table
    drive,          \* files Drive holds for the uploads of a key
    bound,          \* preview_google_case_folders has the draft's folder
    members,        \* active accounts with access to the case
    request,
    route,          \* which of the three routes
    faults          \* what may go wrong: "crash", a handler dies between two of its
                    \* steps; "body", the body of a 200 from Drive is cut off;
                    \* "database", D1 fails a statement or loses its answer (the batch
                    \* that registers a file may fail without it)

world == <<route, faults>>
vars == <<op, evidence, drive, bound, members, request, world>>
-----------------------------------------------------------------------------
End == {"FAILED", "RECONCILIATION_REQUIRED"}
Op == [state : {"NONE", "PENDING", "SUCCEEDED"} \cup End, file : Files \cup {NoFile}]
NoOp == [state |-> "NONE", file |-> NoFile]

Idle == [phase |-> "idle"]
Request ==
    {Idle} \cup
    [phase : {"reserve", "upload", "store", "answered"},
     key : Keys, user : Users, file : Files] \cup
    [phase : {"settle"}, key : Keys, user : Users, file : Files, end : End]

Free(r) == request[r].phase \in {"idle", "answered"}
At(r, phase) == request[r].phase = phase
Key(r) == request[r].key
Done(r) == request' = [request EXCEPT ![r] = Idle]
GoTo(r, phase) == request' = [request EXCEPT ![r].phase = phase]
(* The failure the handler is about to write to its operation.             *)
SettleAs(r, end) ==
    request' = [request EXCEPT ![r] =
        [phase |-> "settle", key |-> Key(r), user |-> request[r].user,
         file |-> request[r].file, end |-> end]]
-----------------------------------------------------------------------------
(* What the insert triggers of the case tables ask of the uploader.        *)
MayStore(r) == route = "draft" \/ request[r].user \in members

(* The unique index on the fingerprint of an operation that still counts:  *)
(* a draft keeps a file once, a case only while its upload is undecided.   *)
Counting == IF route = "draft"
                   THEN {"PENDING", "SUCCEEDED", "RECONCILIATION_REQUIRED"}
                   ELSE {"PENDING", "RECONCILIATION_REQUIRED"}
FileFree(f) == \A k \in Keys : op[k].state \in Counting => op[k].file # f

(* INSERT OR IGNORE of the operation.  Mutant: the key is not unique.      *)
ReservableAgain(r) == FileFree(request[r].file)
Reservable(r) == op[Key(r)].state = "NONE" /\ FileFree(request[r].file)

(* A key known to the route is answered from its row when it is the same   *)
(* file and was stored; any other answer is a refusal.                     *)
Known(k) == IF route = "d1" THEN evidence[k] # NoFile ELSE op[k].state # "NONE"
Replayable(k, f) == evidence[k] = f /\ (route = "d1" \/ op[k].state = "SUCCEEDED")

Receive(r, k, u, f) ==
    /\ Free(r)
    /\ Known(k) => Replayable(k, f)
    /\ request' = [request EXCEPT ![r] =
           [phase |-> IF Known(k) THEN "answered" ELSE "reserve",
            key |-> k, user |-> u, file |-> f]]
    /\ UNCHANGED <<op, evidence, drive, bound, members, world>>

(* The draft route asks for a login, the case routes for access too.       *)
ReceiveDraft(r, k, u, f) == route = "draft" /\ Receive(r, k, u, f)
ReceiveCase(r, k, u, f) == route # "draft" /\ u \in members /\ Receive(r, k, u, f)

Reserving(r) ==
    /\ At(r, "reserve") /\ route # "d1"
    /\ MayStore(r) /\ Reservable(r)
    /\ op' = [op EXCEPT ![Key(r)] = [state |-> "PENDING", file |-> request[r].file]]
    /\ UNCHANGED <<evidence, drive, bound, members, world>>
Reserve(r) == Reserving(r) /\ GoTo(r, "upload")
(* The row is inserted and nobody goes on with it: the outer catch answers. *)
ReserveAnswerLost(r) == "database" \in faults /\ Reserving(r) /\ Done(r)

(* The row was not inserted: the winner's answer, or 409 or 500.           *)
NotReserved(r) ==
    /\ At(r, "reserve") /\ route # "d1"
    /\ ~(MayStore(r) /\ Reservable(r))
    /\ IF MayStore(r) /\ Replayable(Key(r), request[r].file)
          THEN GoTo(r, "answered") ELSE Done(r)
    /\ UNCHANGED <<op, evidence, drive, bound, members, world>>

(* Without Drive: the row and its chunks in one batch, which a key stored  *)
(* meanwhile or a lost right aborts.                                       *)
StoreInD1(r) ==
    /\ At(r, "reserve") /\ route = "d1"
    /\ IF MayStore(r) /\ evidence[Key(r)] = NoFile
          THEN /\ evidence' = [evidence EXCEPT ![Key(r)] = request[r].file]
               /\ GoTo(r, "answered")
          ELSE Done(r) /\ UNCHANGED evidence
    /\ UNCHANGED <<op, drive, bound, members, world>>
StoreInD1AnswerLost(r) ==
    /\ At(r, "reserve") /\ route = "d1" /\ "database" \in faults
    /\ MayStore(r) /\ evidence[Key(r)] = NoFile
    /\ evidence' = [evidence EXCEPT ![Key(r)] = request[r].file]
    /\ Done(r)
    /\ UNCHANGED <<op, drive, bound, members, world>>

(* The draft route reads its folder after the reservation.                 *)
(* Mutant: it returns without writing FAILED.                              *)
AfterNoFolderReturn(r) == Done(r)
AfterNoFolder(r) == SettleAs(r, "FAILED")
NoFolder(r) ==
    /\ At(r, "upload") /\ route = "draft" /\ ~bound
    /\ AfterNoFolder(r)
    /\ UNCHANGED <<op, evidence, drive, bound, members, world>>

HasFolder(r) == At(r, "upload") /\ (route = "draft" => bound)

Uploaded(r) ==
    /\ HasFolder(r)
    /\ drive' = [drive EXCEPT ![Key(r)] = @ + 1]
    /\ GoTo(r, "store")
    /\ UNCHANGED <<op, evidence, bound, members, world>>

(* Drive kept the file and its answer did not come: a timeout, a 5xx and   *)
(* invalid metadata are uncertain, a body that is no JSON is not.          *)
(* Mutant: a timeout of the upload is taken for a refusal.                 *)
LostEndsCertain == End
(* Mutant: only the error code is stored.                                  *)
LostEndsPending == {"PENDING"}
LostEnds == IF "body" \in faults THEN End ELSE {"RECONCILIATION_REQUIRED"}
UploadAnswerLost(r) ==
    /\ HasFolder(r)
    /\ drive' = [drive EXCEPT ![Key(r)] = @ + 1]
    /\ \E end \in LostEnds : SettleAs(r, end)
    /\ UNCHANGED <<op, evidence, bound, members, world>>

(* Nothing was stored: refused for certain (no credential, 4xx, 429), or a *)
(* timeout of the token, of a folder or of the upload itself.              *)
NotUploaded(r) ==
    /\ HasFolder(r)
    /\ \E end \in End : SettleAs(r, end)
    /\ UNCHANGED <<op, evidence, drive, bound, members, world>>

(* The batch that registers the file: its row and the SUCCEEDED operation. *)
Batch(r) ==
    /\ MayStore(r) /\ op[Key(r)].state = "PENDING"
    /\ evidence' = [evidence EXCEPT ![Key(r)] = request[r].file]
    /\ op' = [op EXCEPT ![Key(r)].state = "SUCCEEDED"]
    /\ UNCHANGED <<drive, bound, members, world>>

(* What the handlers write after an exception of the batch: it is not a    *)
(* GoogleDriveError, which is all the case route calls uncertain.          *)
(* Mutant: the draft route tells the errors apart in the same way.         *)
BatchEndFailed == "FAILED"
BatchEnd == IF route = "draft" THEN "RECONCILIATION_REQUIRED" ELSE "FAILED"

Store(r) == At(r, "store") /\ Batch(r) /\ GoTo(r, "answered")
StoreAnswerLost(r) == At(r, "store") /\ Batch(r) /\ SettleAs(r, BatchEnd)
NotStored(r) ==
    /\ At(r, "store")
    /\ SettleAs(r, BatchEnd)
    /\ UNCHANGED <<op, evidence, drive, bound, members, world>>

(* UPDATE ... WHERE status='PENDING'.                                      *)
Settled(o, end) == IF o.state = "PENDING" THEN [o EXCEPT !.state = end] ELSE o
Settle(r) ==
    /\ At(r, "settle")
    /\ op' = [op EXCEPT ![Key(r)] = Settled(@, request[r].end)]
    /\ Done(r)
    /\ UNCHANGED <<evidence, drive, bound, members, world>>

(* D1 fails a statement outside the batch: the insert of the reservation,  *)
(* the draft's folder or the UPDATE that settles.  An outer catch or       *)
(* .catch(() => undefined) takes it, and the handler answers without       *)
(* settling: what it reserved stays PENDING.                               *)
DatabaseFails(r) ==
    /\ "database" \in faults
    /\ At(r, "reserve") \/ At(r, "settle") \/ (At(r, "upload") /\ route = "draft")
    /\ Done(r)
    /\ UNCHANGED <<op, evidence, drive, bound, members, world>>

Crash(r) == /\ "crash" \in faults /\ ~Free(r) /\ Done(r)
            /\ UNCHANGED <<op, evidence, drive, bound, members, world>>

(* A reconnected account clears the bindings; an administrator binds again. *)
Unbind == /\ bound /\ bound' = FALSE
          /\ UNCHANGED <<op, evidence, drive, members, request, world>>
Bind == /\ ~bound /\ bound' = TRUE
        /\ UNCHANGED <<op, evidence, drive, members, request, world>>

Leave(u) == /\ u \in members /\ members' = members \ {u}
            /\ UNCHANGED <<op, evidence, drive, bound, request, world>>
Rejoin(u) == /\ u \notin members /\ members' = members \cup {u}
             /\ UNCHANGED <<op, evidence, drive, bound, request, world>>
-----------------------------------------------------------------------------
Init == /\ route \in {"draft", "case", "d1"}
        /\ faults \in SUBSET {"crash", "body", "database"}
        /\ op = [k \in Keys |-> NoOp]
        /\ evidence = [k \in Keys |-> NoFile]
        /\ drive = [k \in Keys |-> 0]
        /\ bound = TRUE
        /\ members = Users
        /\ request = [r \in Requests |-> Idle]

Handle(r) == \/ Reserve(r) \/ ReserveAnswerLost(r) \/ NotReserved(r)
             \/ StoreInD1(r) \/ StoreInD1AnswerLost(r)
             \/ NoFolder(r) \/ Uploaded(r) \/ UploadAnswerLost(r) \/ NotUploaded(r)
             \/ Store(r) \/ StoreAnswerLost(r) \/ NotStored(r)
             \/ Settle(r) \/ DatabaseFails(r)

Next == \/ \E r \in Requests, k \in Keys, u \in Users, f \in Files :
              ReceiveDraft(r, k, u, f) \/ ReceiveCase(r, k, u, f)
        \/ \E r \in Requests : Handle(r) \/ Crash(r)
        \/ Unbind \/ Bind
        \/ \E u \in Leaving : Leave(u) \/ Rejoin(u)

Spec == Init /\ [][Next]_vars

(* A handler that runs goes on to its next await.                          *)
Fairness == \A r \in Requests : WF_vars(Handle(r))
FairSpec == Spec /\ Fairness
-----------------------------------------------------------------------------
TypeOK ==
    /\ route \in {"draft", "case", "d1"}
    /\ faults \subseteq {"crash", "body", "database"}
    /\ op \in [Keys -> Op]
    /\ evidence \in [Keys -> Files \cup {NoFile}]
    /\ drive \in [Keys -> Nat]
    /\ bound \in BOOLEAN
    /\ members \subseteq Users
    /\ request \in [Requests -> Request]

(* Drive holds a file of the draft once, whatever keys it is sent with.    *)
HeldOnce ==
    \A k, l \in Keys :
       op[k].file = op[l].file /\ drive[k] > 0 /\ drive[l] > 0
         =>  k = l /\ drive[k] = 1

(* However requests race, whatever answers are lost and wherever a handler *)
(* dies, a file of a draft is uploaded once: the reservation of an attempt *)
(* that may have stored it is never given up as FAILED.  It holds as long  *)
(* as the bodies of Drive's answers arrive whole.                          *)
DraftFileOnce == route = "draft" /\ "body" \notin faults => HeldOnce

(* What is registered or SUCCEEDED is in Drive, once, under that key, and  *)
(* an answered upload is registered with the file it was sent with: no     *)
(* late failure, lost answer or failed statement undoes it.  The way back  *)
(* holds for drafts (as long as Drive's answers arrive whole): a file in   *)
(* Drive is registered, undecided or set aside for reconciliation, and     *)
(* never given up as FAILED, also when the batch failed                    *)
(* (docs/harness/CF05-antigravity-followup-01.md:64).  The case route does *)
(* not keep that: BatchEnd writes FAILED for a file that is in Drive.      *)
Registered ==
    /\ \A k \in Keys :
         route # "d1" /\ (evidence[k] # NoFile \/ op[k].state = "SUCCEEDED")
           => op[k] = [state |-> "SUCCEEDED", file |-> evidence[k]] /\ drive[k] = 1
    /\ route = "draft" /\ "body" \notin faults =>
         \A k \in Keys : drive[k] > 0 => op[k].state \in Counting
    /\ \A r \in Requests : At(r, "answered") => evidence[Key(r)] = request[r].file

(* The two routes to Drive keep the promise of KeyedUpload for every key.  *)
Upload == INSTANCE KeyedUpload WITH
    state <- [k \in Keys |-> op[k].state],
    registered <- [k \in Keys |-> IF route = "d1" THEN NoFile ELSE evidence[k]]
UploadSpec == Upload!Spec

(* Whatever Drive answers, whether the batch fails or its answer is lost,  *)
(* and whoever loses access meanwhile: a reserved upload is decided, by    *)
(* the handler that reserved it.  Only that handler ever clears a PENDING  *)
(* row, and it tries once: a handler that dies, a folder SELECT or a       *)
(* settling UPDATE that D1 fails leave it for good, so both are excluded.  *)
ReservationSettles ==
    faults \cap {"crash", "database"} = {} =>
        \A k \in Keys : op[k].state = "PENDING" ~> op[k].state # "PENDING"
=============================================================================
