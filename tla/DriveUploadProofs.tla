-------------------------- MODULE DriveUploadProofs --------------------------
(***************************************************************************)
(* Theorems of DriveUpload for every set of keys, files, accounts and      *)
(* handlers: a file of a draft is uploaded once, an answer means a         *)
(* registered file, and every key keeps what KeyedUpload promises.         *)
(***************************************************************************)
EXTENDS DriveUpload, TLAPS

(* A handler between its reservation and its end works for its key.        *)
Working(q) == q.phase \in {"upload", "store", "settle"}

(* What a handler knows of its key while it works, and once it answers.    *)
(* One that settles may come after a batch whose answer was lost; one that *)
(* gives the file of a draft up as FAILED has not stored it.               *)
Flight(q) ==
    /\ Working(q) => route # "d1" /\ op[q.key].file = q.file
    /\ q.phase \in {"upload", "store"} => op[q.key].state = "PENDING"
    /\ q.phase = "upload" => drive[q.key] = 0
    /\ q.phase = "store" => drive[q.key] = 1
    /\ q.phase = "settle" =>
          \/ op[q.key].state = "SUCCEEDED"
          \/ /\ op[q.key].state = "PENDING"
             /\ route = "draft" /\ "body" \notin faults /\ q.end = "FAILED"
                   => drive[q.key] = 0
    /\ q.phase = "answered" => evidence[q.key] = q.file

RequestsOK == /\ request \in [Requests -> Request]
              /\ \A r \in Requests : Flight(request[r])

(* One handler at a time works for a key.                                  *)
OneWorker == \A r, s \in Requests :
    Working(request[r]) /\ Working(request[s]) /\ request[r].key = request[s].key => r = s

(* The types of all but the requests.                                      *)
TablesOK ==
    /\ route \in {"draft", "case", "d1"}
    /\ faults \subseteq {"crash", "body", "database"}
    /\ op \in [Keys -> Op]
    /\ evidence \in [Keys -> Files \cup {NoFile}]
    /\ drive \in [Keys -> Nat]
    /\ bound \in BOOLEAN
    /\ members \subseteq Users

(* What the tables and Drive say of one key agrees.                        *)
KeyOK(k) ==
    /\ op[k].state = "NONE" => op[k].file = NoFile /\ drive[k] = 0
    /\ op[k].state # "NONE" => route # "d1" /\ op[k].file \in Files
    /\ drive[k] <= 1
    /\ route # "d1" /\ op[k].state # "SUCCEEDED" => evidence[k] = NoFile
    /\ op[k].state = "SUCCEEDED" => evidence[k] = op[k].file /\ drive[k] = 1
    /\ route = "draft" /\ "body" \notin faults /\ op[k].state = "FAILED" => drive[k] = 0

(* A file of the draft is under one key that still counts.                 *)
FilesApart ==
    route = "draft" =>
        \A k, l \in Keys : /\ op[k].state \in Counting /\ op[l].state \in Counting
                           /\ op[k].file = op[l].file
                           => k = l

KeysOK == \A k \in Keys : KeyOK(k)

Inv == TablesOK /\ RequestsOK /\ OneWorker /\ KeysOK /\ FilesApart
-----------------------------------------------------------------------------
LEMMA RequestFacts ==
    ASSUME NEW q \in Request
    PROVE  /\ q.phase \in {"idle", "reserve", "upload", "store", "answered", "settle"}
           /\ q.phase # "idle" => q.key \in Keys /\ q.user \in Users /\ q.file \in Files
           /\ q.phase = "settle" => q.end \in End
  BY DEF Request, Idle

LEMMA IdleFacts == Idle \in Request /\ Idle.phase = "idle"
  BY DEF Request, Idle

LEMMA PhaseFacts ==
    ASSUME NEW q \in Request, q.phase \in {"reserve", "upload", "store"},
           NEW p \in {"upload", "store", "answered"}
    PROVE  /\ [q EXCEPT !.phase = p] \in Request
           /\ [q EXCEPT !.phase = p].phase = p
           /\ [q EXCEPT !.phase = p].key = q.key
           /\ [q EXCEPT !.phase = p].file = q.file
  <1>1. q \in [phase : {"reserve", "upload", "store", "answered"},
               key : Keys, user : Users, file : Files]
    BY DEF Request, Idle
  <1> QED BY <1>1 DEF Request

LEMMA SettleFacts ==
    ASSUME NEW q \in Request, q.phase # "idle", NEW end \in End
    PROVE  [phase |-> "settle", key |-> q.key, user |-> q.user,
            file |-> q.file, end |-> end] \in Request
  BY RequestFacts DEF Request

LEMMA OpFacts == ASSUME NEW o \in Op, NEW end \in End \cup {"SUCCEEDED"}
                 PROVE  /\ [o EXCEPT !.state = end] \in Op
                        /\ [o EXCEPT !.state = end].state = end
                        /\ [o EXCEPT !.state = end].file = o.file
                        /\ o.state \in {"NONE", "PENDING", "SUCCEEDED"} \cup End
  BY DEF Op, End

(* A handler moves on, and the tables stay.                                *)
LEMMA Moving ==
    ASSUME Inv, NEW r \in Requests, NEW n \in Request,
           request' = [request EXCEPT ![r] = n], Flight(n),
           Working(n) => Working(request[r]) /\ n.key = request[r].key,
           UNCHANGED <<op, evidence, drive, bound, members, world>>
    PROVE  Inv'
  <1>1. TablesOK' /\ KeysOK' /\ FilesApart'
    BY DEF Inv, TablesOK, KeysOK, KeyOK, FilesApart, Counting, world
  <1>2. /\ request' \in [Requests -> Request] /\ request'[r] = n
        /\ \A s \in Requests : s # r => request'[s] = request[s]
    BY DEF Inv, RequestsOK
  <1>3. OneWorker'
    BY <1>2 DEF Inv, OneWorker, Working
  <1>4. ASSUME NEW s \in Requests PROVE Flight(request[s])'
    <2>1. Flight(request'[s])
      BY <1>2 DEF Inv, RequestsOK
    <2> QED BY <2>1 DEF Flight, Working, world
  <1> QED BY <1>1, <1>2, <1>3, <1>4 DEF Inv, RequestsOK

(* A handler writes to the tables or to Drive under a key that no other    *)
(* handler works for.                                                      *)
LEMMA Writing ==
    ASSUME Inv, NEW r \in Requests, NEW k \in Keys, NEW n \in Request,
           request' = [request EXCEPT ![r] = n],
           n.key = k \/ ~Working(n),
           \A s \in Requests \ {r} : Working(request[s]) => request[s].key # k,
           \A j \in Keys \ {k} : /\ op'[j] = op[j] /\ evidence'[j] = evidence[j]
                                 /\ drive'[j] = drive[j],
           evidence'[k] = evidence[k] \/ evidence[k] = NoFile,
           UNCHANGED world,
           Flight(n)', TablesOK', KeyOK(k)', FilesApart'
    PROVE  Inv'
  <1>1. /\ request' \in [Requests -> Request] /\ request'[r] = n
        /\ \A s \in Requests : s # r => request'[s] = request[s]
    BY DEF Inv, RequestsOK
  <1>2. OneWorker'
    BY <1>1 DEF Inv, OneWorker, Working
  <1>3. ASSUME NEW s \in Requests PROVE Flight(request[s])'
    <2>1. CASE s = r
      BY <1>1, <2>1 DEF Flight, Working, world
    <2>2. CASE s # r
      <3>1. PICK q \in Request : q = request[s]
        BY DEF Inv, RequestsOK
      <3>2. request'[s] = q /\ Flight(q)
        BY <1>1, <2>2, <3>1 DEF Inv, RequestsOK
      <3>3. Working(q) => q.key \in Keys \ {k}
        BY <2>2, <3>1, RequestFacts DEF Working
      <3>4. q.phase = "answered" => evidence'[q.key] = evidence[q.key]
        BY <3>2, RequestFacts, UploadAssumption DEF Flight
      <3> QED BY <3>2, <3>3, <3>4 DEF Flight, Working, world
    <2> QED BY <2>1, <2>2
  <1>4. ASSUME NEW j \in Keys PROVE KeyOK(j)'
    <2>1. CASE j = k
      BY <2>1 DEF KeyOK
    <2>2. CASE j # k
      BY <2>2 DEF Inv, KeysOK, KeyOK, world
    <2> QED BY <2>1, <2>2
  <1> QED BY <1>1, <1>2, <1>3, <1>4 DEF Inv, RequestsOK, KeysOK

(* The handler that works for a key is the only one.                       *)
LEMMA Alone ==
    ASSUME Inv, NEW r \in Requests, Working(request[r])
    PROVE  /\ request[r].key \in Keys /\ request[r].file \in Files /\ request[r].user \in Users
           /\ op[request[r].key].file = request[r].file /\ route # "d1"
           /\ op[request[r].key].state # "NONE" /\ request[r] \in Request
           /\ Flight(request[r])
           /\ \A s \in Requests \ {r} :
                 Working(request[s]) => request[s].key # request[r].key
  <1>1. request[r] \in Request /\ Flight(request[r])
    BY DEF Inv, RequestsOK
  <1>2. /\ request[r].key \in Keys /\ request[r].file \in Files /\ request[r].user \in Users
        /\ op[request[r].key].file = request[r].file /\ route # "d1"
    BY <1>1, RequestFacts DEF Flight, Working
  <1>3. op[request[r].key].state # "NONE"
    BY <1>2, UploadAssumption DEF Inv, KeysOK, KeyOK
  <1> QED BY <1>1, <1>2, <1>3 DEF Inv, OneWorker

-----------------------------------------------------------------------------
LEMMA InvInit == Init => Inv
  <1> SUFFICES ASSUME Init PROVE Inv
    OBVIOUS
  <1>1. TablesOK
    BY DEF Init, TablesOK, Op, NoOp
  <1>2. RequestsOK /\ OneWorker
    BY IdleFacts DEF Init, RequestsOK, OneWorker, Flight, Working
  <1>3. KeysOK /\ FilesApart
    BY DEF Init, KeysOK, KeyOK, FilesApart, Counting, NoOp
  <1> QED BY <1>1, <1>2, <1>3 DEF Inv

LEMMA InvEnds ==
    ASSUME Inv, NEW r \in Requests, Done(r),
           UNCHANGED <<op, evidence, drive, bound, members, world>>
    PROVE  Inv'
  <1>1. Flight(Idle) /\ ~Working(Idle)
    BY IdleFacts DEF Flight, Working
  <1> QED BY <1>1, IdleFacts, Moving DEF Done

LEMMA InvReceive ==
    ASSUME Inv, NEW r \in Requests, NEW k \in Keys, NEW u \in Users, NEW f \in Files,
           Receive(r, k, u, f)
    PROVE  Inv'
  <1> DEFINE n == [phase |-> IF Known(k) THEN "answered" ELSE "reserve",
                   key |-> k, user |-> u, file |-> f]
  <1>1. n \in Request /\ n.key = k /\ n.file = f
    BY DEF Request
  <1>2. Known(k) => evidence[k] = f
    BY DEF Receive, Replayable
  <1>3. Flight(n) /\ ~Working(n)
    BY <1>2 DEF Flight, Working
  <1> HIDE DEF n
  <1>4. request' = [request EXCEPT ![r] = n]
    BY DEF Receive, n
  <1> QED BY <1>1, <1>3, <1>4, Moving DEF Receive

(* The reservation: the key is new, so nobody works for it, and no other   *)
(* key that counts has the file.                                           *)
LEMMA InvReserve ==
    ASSUME Inv, NEW r \in Requests, Reserve(r) \/ ReserveAnswerLost(r)
    PROVE  Inv'
  <1> DEFINE q == request[r]
  <1>0. Reserving(r)
    BY DEF Reserve, ReserveAnswerLost
  <1>1. q \in Request /\ q.phase = "reserve" /\ route # "d1" /\ Reservable(r)
    BY <1>0 DEF Reserving, At, Inv, RequestsOK
  <1>2. PICK k \in Keys, f \in Files : k = q.key /\ f = q.file
    BY <1>1, RequestFacts
  <1>3. PICK n \in Request : /\ request' = [request EXCEPT ![r] = n]
                             /\ \/ n.phase = "upload" /\ n.key = k /\ n.file = f
                                \/ n.phase = "idle"
    <2>1. CASE Reserve(r)
      <3>1. PICK n \in Request : n = [q EXCEPT !.phase = "upload"]
        BY <1>1, PhaseFacts
      <3>2. n.phase = "upload" /\ n.key = k /\ n.file = f
        BY <1>1, <1>2, <3>1, PhaseFacts
      <3> QED BY <2>1, <3>1, <3>2 DEF Reserve, GoTo
    <2>2. CASE ReserveAnswerLost(r)
      BY <2>2, IdleFacts DEF ReserveAnswerLost, Done
    <2> QED BY <2>1, <2>2
  <1>4. n.key = k \/ ~Working(n)
    BY <1>3 DEF Working
  <1>5. /\ op[k].state = "NONE" /\ op[k].file = NoFile /\ drive[k] = 0
        /\ evidence[k] = NoFile /\ FileFree(f)
    BY <1>1, <1>2 DEF Reservable, Inv, KeysOK, KeyOK, Key
  <1>6. /\ op' = [op EXCEPT ![k] = [state |-> "PENDING", file |-> f]]
        /\ UNCHANGED <<evidence, drive, bound, members, world>>
    BY <1>0, <1>2 DEF Reserving, Key
  <1>7. /\ op'[k] = [state |-> "PENDING", file |-> f] /\ op' \in [Keys -> Op]
        /\ \A j \in Keys \ {k} : op'[j] = op[j]
    BY <1>6 DEF Inv, TablesOK, Op
  <1>8. ASSUME NEW s \in Requests, Working(request[s]) PROVE request[s].key # k
    BY <1>5, <1>8, Alone
  <1>9. TablesOK'
    BY <1>6, <1>7 DEF Inv, TablesOK, world
  <1>10. KeyOK(k)'
    BY <1>1, <1>5, <1>6, <1>7 DEF KeyOK, world
  <1>11. FilesApart'
    BY <1>5, <1>6, <1>7 DEF Inv, FilesApart, FileFree, Counting, world
  <1>12. Flight(n)'
    BY <1>1, <1>3, <1>5, <1>6, <1>7 DEF Flight, Working, world
  <1>13. \A s \in Requests \ {r} : Working(request[s]) => request[s].key # k
    BY <1>8
  <1>14. \A j \in Keys \ {k} : /\ op'[j] = op[j] /\ evidence'[j] = evidence[j]
                               /\ drive'[j] = drive[j]
    BY <1>6, <1>7
  <1> HIDE DEF q
  <1> QED BY <1>3, <1>4, <1>5, <1>6, <1>9, <1>10, <1>11, <1>12, <1>13, <1>14, Writing

LEMMA InvNotReserved ==
    ASSUME Inv, NEW r \in Requests, NotReserved(r)
    PROVE  Inv'
  <1> DEFINE q == request[r]
  <1>0. UNCHANGED <<op, evidence, drive, bound, members, world>>
    BY DEF NotReserved
  <1>1. CASE Done(r)
    BY <1>0, <1>1, InvEnds
  <1>2. CASE Replayable(q.key, q.file) /\ GoTo(r, "answered")
    <2>1. q \in Request /\ q.phase = "reserve"
      BY DEF NotReserved, At, Inv, RequestsOK
    <2>2. PICK n \in Request : n = [q EXCEPT !.phase = "answered"]
      BY <2>1, PhaseFacts
    <2>3. n.phase = "answered" /\ n.key = q.key /\ n.file = q.file
      BY <2>1, <2>2, PhaseFacts
    <2>4. Flight(n) /\ ~Working(n)
      BY <1>2, <2>3 DEF Flight, Working, Replayable
    <2> QED BY <1>0, <1>2, <2>2, <2>4, Moving DEF GoTo
  <1> QED BY <1>1, <1>2 DEF NotReserved, Key

LEMMA InvStoreInD1 ==
    ASSUME Inv, NEW r \in Requests, StoreInD1(r) \/ StoreInD1AnswerLost(r)
    PROVE  Inv'
  <1> DEFINE q == request[r]
  <1>0. /\ route = "d1" /\ q.phase = "reserve"
        /\ UNCHANGED <<op, drive, bound, members, world>>
    BY DEF StoreInD1, StoreInD1AnswerLost, At
  <1>1. CASE Done(r) /\ UNCHANGED evidence
    BY <1>0, <1>1, InvEnds
  <1>2. CASE /\ evidence[q.key] = NoFile
             /\ GoTo(r, "answered") \/ Done(r)
             /\ evidence' = [evidence EXCEPT ![q.key] = q.file]
    <2>1. q \in Request /\ q.phase = "reserve"
      BY <1>0 DEF Inv, RequestsOK
    <2>2. PICK k \in Keys, f \in Files : k = q.key /\ f = q.file
      BY <2>1, RequestFacts
    <2>3. PICK n \in Request : /\ request' = [request EXCEPT ![r] = n]
                               /\ \/ n.phase = "answered" /\ n.key = k /\ n.file = f
                                  \/ n.phase = "idle"
      <3>1. CASE GoTo(r, "answered")
        <4>1. PICK n \in Request : n = [q EXCEPT !.phase = "answered"]
          BY <2>1, PhaseFacts
        <4>2. n.phase = "answered" /\ n.key = k /\ n.file = f
          BY <2>1, <2>2, <4>1, PhaseFacts
        <4> QED BY <3>1, <4>1, <4>2 DEF GoTo
      <3>2. CASE Done(r)
        BY <3>2, IdleFacts DEF Done
      <3> QED BY <1>2, <3>1, <3>2
    <2>5. /\ evidence'[k] = f /\ evidence' \in [Keys -> Files \cup {NoFile}]
          /\ \A j \in Keys \ {k} : evidence'[j] = evidence[j]
      BY <1>2, <2>2 DEF Inv, TablesOK
    <2>6. TablesOK' /\ FilesApart'
      BY <1>0, <2>5 DEF Inv, TablesOK, FilesApart, Counting, world
    <2>7. KeyOK(k)'
      BY <1>0 DEF Inv, KeysOK, KeyOK, world
    <2>8. Flight(n)' /\ ~Working(n)
      BY <2>3, <2>5 DEF Flight, Working
    <2>9. \A s \in Requests : ~Working(request[s])
      BY <1>0, Alone
    <2> HIDE DEF q
    <2> QED BY <1>0, <1>2, <2>2, <2>3, <2>5, <2>6, <2>7, <2>8, <2>9, Writing
  <1> QED BY <1>1, <1>2 DEF StoreInD1, StoreInD1AnswerLost, Key

(* A working handler that gives up, or writes that it did.                 *)
LEMMA InvGivesUp ==
    ASSUME Inv, NEW r \in Requests, NEW end \in End, Working(request[r]),
           op[request[r].key].state = "PENDING",
           route = "draft" /\ "body" \notin faults /\ end = "FAILED"
              => drive[request[r].key] = 0,
           SettleAs(r, end), UNCHANGED <<op, evidence, drive, bound, members, world>>
    PROVE  Inv'
  <1> DEFINE q == request[r]
  <1>1. q \in Request /\ q.phase # "idle" /\ op[q.key].file = q.file /\ route # "d1"
    BY Alone DEF Working
  <1>2. PICK n \in Request : n = [phase |-> "settle", key |-> q.key, user |-> q.user,
                                  file |-> q.file, end |-> end]
    BY <1>1, SettleFacts
  <1>3. Flight(n)
    BY <1>1, <1>2 DEF Flight, Working
  <1>4. request' = [request EXCEPT ![r] = n]
    BY <1>2 DEF SettleAs, Key
  <1> QED BY <1>2, <1>3, <1>4, Moving

LEMMA InvNothingStored ==
    ASSUME Inv, NEW r \in Requests, NoFolder(r) \/ NotUploaded(r) \/ NotStored(r)
    PROVE  Inv'
  <1>1. /\ Working(request[r]) /\ Flight(request[r])
        /\ UNCHANGED <<op, evidence, drive, bound, members, world>>
    BY Alone DEF NoFolder, NotUploaded, NotStored, At, HasFolder, Working, Inv, RequestsOK
  <1>2. op[request[r].key].state = "PENDING"
    BY <1>1 DEF NoFolder, NotUploaded, NotStored, At, HasFolder, Flight
  <1>3. CASE NoFolder(r) \/ NotUploaded(r)
    <2>1. PICK end \in End : SettleAs(r, end)
      BY <1>3 DEF NoFolder, NotUploaded, AfterNoFolder, End
    <2>2. drive[request[r].key] = 0
      BY <1>1, <1>3 DEF NoFolder, NotUploaded, At, HasFolder, Flight
    <2> QED BY <1>1, <1>2, <2>1, <2>2, InvGivesUp
  <1>4. CASE NotStored(r)
    BY <1>1, <1>2, <1>4, InvGivesUp DEF NotStored, BatchEnd, End
  <1> QED BY <1>3, <1>4

(* Drive keeps the file; the handler learns of it, or settles.             *)
LEMMA InvUpload ==
    ASSUME Inv, NEW r \in Requests, Uploaded(r) \/ UploadAnswerLost(r)
    PROVE  Inv'
  <1> DEFINE q == request[r]
  <1>1. /\ q.phase = "upload" /\ Working(q)
        /\ UNCHANGED <<op, evidence, bound, members, world>>
        /\ drive' = [drive EXCEPT ![q.key] = @ + 1]
    BY DEF Uploaded, UploadAnswerLost, HasFolder, At, Working, Key
  <1>2. PICK k \in Keys, f \in Files : k = q.key /\ f = q.file
    BY <1>1, Alone
  <1>3. /\ op[k].state = "PENDING" /\ op[k].file = f /\ drive[k] = 0 /\ route # "d1"
        /\ evidence[k] = NoFile /\ q \in Request
    BY <1>1, <1>2, Alone DEF Flight, Inv, KeysOK, KeyOK
  <1>4. /\ drive'[k] = 1 /\ drive' \in [Keys -> Nat]
        /\ \A j \in Keys \ {k} : drive'[j] = drive[j]
    BY <1>1, <1>2, <1>3 DEF Inv, TablesOK
  <1>5. TablesOK' /\ FilesApart'
    BY <1>1, <1>4 DEF Inv, TablesOK, FilesApart, Counting, world
  <1>6. KeyOK(k)'
    BY <1>1, <1>3, <1>4 DEF KeyOK, world
  <1>7. PICK n \in Request : /\ request' = [request EXCEPT ![r] = n]
                             /\ n.key = k /\ n.file = f
                             /\ \/ n.phase = "store"
                                \/ n.phase = "settle" /\ n.end \in LostEnds
    <2>1. CASE Uploaded(r)
      <3>1. PICK n \in Request : n = [q EXCEPT !.phase = "store"]
        BY <1>1, <1>3, PhaseFacts
      <3>2. n.phase = "store" /\ n.key = k /\ n.file = f
        BY <1>1, <1>2, <1>3, <3>1, PhaseFacts
      <3> QED BY <2>1, <3>1, <3>2 DEF Uploaded, GoTo
    <2>2. CASE UploadAnswerLost(r)
      <3>1. PICK e \in LostEnds : SettleAs(r, e)
        BY <2>2 DEF UploadAnswerLost
      <3>2. e \in End
        BY DEF LostEnds, End
      <3>3. PICK n \in Request : n = [phase |-> "settle", key |-> q.key, user |-> q.user,
                                      file |-> q.file, end |-> e]
        BY <1>1, <1>3, <3>2, SettleFacts
      <3> QED BY <1>2, <3>1, <3>3 DEF SettleAs, Key
    <2> QED BY <2>1, <2>2
  <1>8. Flight(n)'
    <2>1. "body" \notin faults /\ n.phase = "settle" => n.end # "FAILED"
      BY <1>7 DEF LostEnds
    <2> QED BY <1>1, <1>3, <1>4, <1>7, <2>1 DEF Flight, Working, world
  <1>9. \A s \in Requests \ {r} : Working(request[s]) => request[s].key # k
    BY <1>1, <1>2, Alone
  <1> QED BY <1>1, <1>4, <1>5, <1>6, <1>7, <1>8, <1>9, Writing

(* The batch registers the file, whether its answer arrives or not.        *)
LEMMA InvBatch ==
    ASSUME Inv, NEW r \in Requests, Store(r) \/ StoreAnswerLost(r)
    PROVE  Inv'
  <1> DEFINE q == request[r]
  <1>1. /\ q.phase = "store" /\ Working(q)
        /\ UNCHANGED <<drive, bound, members, world>>
        /\ evidence' = [evidence EXCEPT ![q.key] = q.file]
        /\ op' = [op EXCEPT ![q.key].state = "SUCCEEDED"]
    BY DEF Store, StoreAnswerLost, Batch, At, Working, Key
  <1>2. PICK k \in Keys, f \in Files : k = q.key /\ f = q.file
    BY <1>1, Alone
  <1>3. /\ op[k].state = "PENDING" /\ op[k].file = f /\ drive[k] = 1 /\ route # "d1"
        /\ evidence[k] = NoFile /\ q \in Request
    BY <1>1, <1>2, Alone DEF Flight, Inv, KeysOK, KeyOK
  <1>4. /\ op'[k].state = "SUCCEEDED" /\ op'[k].file = f /\ op' \in [Keys -> Op]
        /\ \A j \in Keys \ {k} : op'[j] = op[j]
    <2>1. op' = [op EXCEPT ![k] = [op[k] EXCEPT !.state = "SUCCEEDED"]]
      BY <1>1, <1>2
    <2>2. PICK o \in Op : o = [op[k] EXCEPT !.state = "SUCCEEDED"]
      BY OpFacts DEF Inv, TablesOK
    <2>3. o.state = "SUCCEEDED" /\ o.file = f
      BY <1>3, <2>2, OpFacts DEF Inv, TablesOK
    <2> QED BY <2>1, <2>2, <2>3 DEF Inv, TablesOK
  <1>5. /\ evidence'[k] = f /\ evidence' \in [Keys -> Files \cup {NoFile}]
        /\ \A j \in Keys \ {k} : evidence'[j] = evidence[j]
    BY <1>1, <1>2 DEF Inv, TablesOK
  <1>6. TablesOK'
    BY <1>1, <1>4, <1>5 DEF Inv, TablesOK, world
  <1>7. FilesApart'
    BY <1>1, <1>3, <1>4 DEF Inv, FilesApart, Counting, world
  <1>8. KeyOK(k)'
    BY <1>1, <1>3, <1>4, <1>5 DEF KeyOK, world
  <1>9. PICK n \in Request : /\ request' = [request EXCEPT ![r] = n]
                             /\ n.key = k /\ n.file = f
                             /\ n.phase \in {"answered", "settle"}
    <2>1. CASE Store(r)
      <3>1. PICK n \in Request : n = [q EXCEPT !.phase = "answered"]
        BY <1>1, <1>3, PhaseFacts
      <3>2. n.phase = "answered" /\ n.key = k /\ n.file = f
        BY <1>1, <1>2, <1>3, <3>1, PhaseFacts
      <3> QED BY <2>1, <3>1, <3>2 DEF Store, GoTo
    <2>2. CASE StoreAnswerLost(r)
      <3>1. BatchEnd \in End /\ SettleAs(r, BatchEnd)
        BY <2>2 DEF StoreAnswerLost, BatchEnd, End
      <3>2. PICK n \in Request : n = [phase |-> "settle", key |-> q.key, user |-> q.user,
                                      file |-> q.file, end |-> BatchEnd]
        BY <1>1, <1>3, <3>1, SettleFacts
      <3> QED BY <1>2, <3>1, <3>2 DEF SettleAs, Key
    <2> QED BY <2>1, <2>2
  <1>10. Flight(n)'
    BY <1>1, <1>3, <1>4, <1>5, <1>9 DEF Flight, Working, world
  <1>11. \A s \in Requests \ {r} : Working(request[s]) => request[s].key # k
    BY <1>1, <1>2, Alone
  <1>12. /\ UNCHANGED world
         /\ \A j \in Keys \ {k} : /\ op'[j] = op[j] /\ evidence'[j] = evidence[j]
                                  /\ drive'[j] = drive[j]
    BY <1>1, <1>4, <1>5
  <1> HIDE DEF q
  <1> QED BY <1>3, <1>6, <1>7, <1>8, <1>9, <1>10, <1>11, <1>12, Writing

(* A late failure does not touch an operation that has succeeded.          *)
LEMMA InvSettle ==
    ASSUME Inv, NEW r \in Requests, Settle(r)
    PROVE  Inv'
  <1> DEFINE q == request[r]
  <1>1. /\ q.phase = "settle" /\ Working(q) /\ Done(r)
        /\ UNCHANGED <<evidence, drive, bound, members, world>>
        /\ op' = [op EXCEPT ![q.key] = Settled(op[q.key], q.end)]
    BY DEF Settle, At, Working, Key
  <1>2. /\ q.key \in Keys /\ q \in Request /\ q.end \in End /\ Flight(q) /\ route # "d1"
        /\ op[q.key] \in Op /\ op[q.key].file \in Files
    BY <1>1, Alone, RequestFacts DEF Inv, TablesOK, KeysOK, KeyOK
  <1>3. CASE op[q.key].state # "PENDING"
    <2>1. op' = op
      BY <1>1, <1>2, <1>3 DEF Settled, Inv, TablesOK
    <2> QED BY <1>1, <2>1, InvEnds
  <1>4. CASE op[q.key].state = "PENDING"
    <2>1. PICK k \in Keys, e \in End : k = q.key /\ e = q.end
      BY <1>2
    <2>2. /\ op'[k].state = e /\ op'[k].file = op[k].file /\ op' \in [Keys -> Op]
          /\ \A j \in Keys \ {k} : op'[j] = op[j]
      <3>1. op' = [op EXCEPT ![k] = [op[k] EXCEPT !.state = e]]
        BY <1>1, <1>4, <2>1 DEF Settled
      <3> QED BY <1>2, <2>1, <3>1, OpFacts DEF Inv, TablesOK
    <2>3. TablesOK'
      BY <1>1, <2>2 DEF Inv, TablesOK, world
    <2>4. FilesApart'
      BY <1>1, <1>4, <2>1, <2>2 DEF Inv, FilesApart, Counting, world
    <2>5. KeyOK(k)'
      BY <1>1, <1>2, <1>4, <2>1, <2>2 DEF Flight, Inv, KeysOK, KeyOK, End, world
    <2>6. PICK n \in Request : n = Idle
      BY IdleFacts
    <2>7. Flight(n)' /\ ~Working(n)
      BY <2>6, IdleFacts DEF Flight, Working
    <2>8. \A s \in Requests \ {r} : Working(request[s]) => request[s].key # k
      BY <1>1, <2>1, Alone
    <2> QED BY <1>1, <2>2, <2>3, <2>4, <2>5, <2>6, <2>7, <2>8, Writing DEF Done
  <1> QED BY <1>3, <1>4

LEMMA InvNext == Inv /\ [Next]_vars => Inv'
  <1> SUFFICES ASSUME Inv, [Next]_vars PROVE Inv'
    OBVIOUS
  <1>1. ASSUME NEW r \in Requests, NEW k \in Keys, NEW u \in Users, NEW f \in Files,
               ReceiveDraft(r, k, u, f) \/ ReceiveCase(r, k, u, f)
        PROVE  Inv'
    BY <1>1, InvReceive DEF ReceiveDraft, ReceiveCase
  <1>2. ASSUME NEW r \in Requests, Crash(r) \/ DatabaseFails(r) PROVE Inv'
    BY <1>2, InvEnds DEF Crash, DatabaseFails
  <1>3. ASSUME NEW r \in Requests, Handle(r) PROVE Inv'
    BY <1>2, <1>3, InvReserve, InvNotReserved, InvStoreInD1, InvNothingStored, InvUpload,
       InvBatch, InvSettle DEF Handle
  <1>4. ASSUME \/ Unbind \/ Bind
               \/ \E u \in Leaving : Leave(u) \/ Rejoin(u)
               \/ UNCHANGED vars
        PROVE  Inv'
    <2>1. /\ UNCHANGED <<op, evidence, drive, request, world>>
          /\ bound' \in BOOLEAN /\ members' \subseteq Users
      BY <1>4, UploadAssumption DEF Unbind, Bind, Leave, Rejoin, vars, Inv, TablesOK
    <2> QED BY <2>1 DEF Inv, TablesOK, RequestsOK, Flight, Working, OneWorker, KeysOK, KeyOK,
               FilesApart, Counting, world
  <1> QED BY <1>1, <1>2, <1>3, <1>4 DEF Next

LEMMA Invariant == Spec => []Inv
  BY InvInit, InvNext, PTL DEF Spec

(* The operations, the registered files and the handlers keep their types. *)
THEOREM Typed == Spec => []TypeOK
  <1>1. Inv => TypeOK
    BY DEF Inv, TablesOK, RequestsOK, TypeOK
  <1> QED BY <1>1, Invariant, PTL

(* Drive holds a file of a draft once: for every number of keys, handlers, *)
(* retries, lost answers and handlers that die.                            *)
THEOREM HeldOneTime == Spec => []DraftFileOnce
  <1> SUFFICES ASSUME Inv, route = "draft", "body" \notin faults PROVE HeldOnce
    BY Invariant, PTL DEF DraftFileOnce
  <1>1. ASSUME NEW k \in Keys, drive[k] > 0
        PROVE  op[k].state \in Counting /\ drive[k] = 1
    <2>1. op[k].state \in {"NONE", "PENDING", "SUCCEEDED", "FAILED", "RECONCILIATION_REQUIRED"}
      BY DEF Inv, TablesOK, Op, End
    <2>2. drive[k] \in Nat
      BY DEF Inv, TablesOK
    <2> QED BY <1>1, <2>1, <2>2 DEF Inv, KeysOK, KeyOK, Counting
  <1> QED BY <1>1 DEF Inv, FilesApart, HeldOnce

(* What is registered is in Drive, an answer means a registered file, and  *)
(* a draft never gives up as FAILED a file that Drive has.                 *)
THEOREM AnsweredRegistered == Spec => []Registered
  <1>1. Inv => Registered
    <2> SUFFICES ASSUME Inv PROVE Registered
      OBVIOUS
    <2>1. ASSUME NEW k \in Keys, route # "d1",
                 evidence[k] # NoFile \/ op[k].state = "SUCCEEDED"
          PROVE  op[k] = [state |-> "SUCCEEDED", file |-> evidence[k]] /\ drive[k] = 1
      <3>1. /\ op[k].state = "SUCCEEDED" /\ op[k].file = evidence[k] /\ drive[k] = 1
            /\ op[k] \in Op
        BY <2>1 DEF Inv, KeysOK, KeyOK, TablesOK
      <3> QED BY <3>1 DEF Op
    <2>2. \A r \in Requests : At(r, "answered") => evidence[Key(r)] = request[r].file
      BY DEF Inv, RequestsOK, Flight, At, Key
    <2>3. ASSUME route = "draft", "body" \notin faults, NEW k \in Keys, drive[k] > 0
          PROVE  op[k].state \in Counting
      <3>1. op[k].state \in {"NONE", "PENDING", "SUCCEEDED"} \cup End
        BY DEF Inv, TablesOK, Op
      <3> QED BY <2>3, <3>1 DEF Inv, KeysOK, KeyOK, Counting, End
    <2> QED BY <2>1, <2>2, <2>3 DEF Registered
  <1> QED BY <1>1, Invariant, PTL

-----------------------------------------------------------------------------
states == [k \in Keys |-> op[k].state]
files == [k \in Keys |-> IF route = "d1" THEN NoFile ELSE evidence[k]]

LEMMA ReserveStep ==
    ASSUME Inv, NEW r \in Requests, Reserving(r)
    PROVE  Upload!Next
  <1>1. PICK k \in Keys : k = Key(r)
    BY RequestFacts DEF Reserving, At, Inv, RequestsOK, Key
  <1>2. /\ op[k].state = "NONE" /\ UNCHANGED <<evidence, world>>
        /\ op' = [op EXCEPT ![k] = [state |-> "PENDING", file |-> request[r].file]]
    BY <1>1 DEF Reserving, Reservable
  <1>3. states' = [states EXCEPT ![k] = "PENDING"] /\ files' = files
    BY <1>2 DEF Inv, TablesOK, states, files, world
  <1>4. Upload!Reserve(k)
    BY <1>2, <1>3 DEF Upload!Reserve, states, files
  <1> QED BY <1>4 DEF Upload!Next

LEMMA BatchStep ==
    ASSUME Inv, NEW r \in Requests, Store(r) \/ StoreAnswerLost(r)
    PROVE  Upload!Next
  <1>1. Working(request[r]) /\ request[r].phase = "store" /\ Batch(r)
    BY DEF Store, StoreAnswerLost, At, Working
  <1>2. PICK k \in Keys, f \in Files : k = Key(r) /\ f = request[r].file
    BY <1>1, Alone DEF Key
  <1>3. /\ op[k].state = "PENDING" /\ route # "d1" /\ route' = route
        /\ op' = [op EXCEPT ![k].state = "SUCCEEDED"]
        /\ evidence' = [evidence EXCEPT ![k] = f]
    BY <1>1, <1>2, Alone DEF Batch, world
  <1>4. states' = [states EXCEPT ![k] = "SUCCEEDED"]
    <2>1. /\ op'[k] = [op[k] EXCEPT !.state = "SUCCEEDED"]
          /\ \A j \in Keys : j # k => op'[j] = op[j]
      BY <1>3 DEF Inv, TablesOK
    <2>2. op'[k].state = "SUCCEEDED"
      BY <2>1, OpFacts DEF Inv, TablesOK
    <2> QED BY <2>1, <2>2 DEF states
  <1>5. files' = [files EXCEPT ![k] = f]
    BY <1>3 DEF Inv, TablesOK, files
  <1>6. Upload!Register(k, f)
    BY <1>3, <1>4, <1>5 DEF Upload!Register, states, files
  <1> QED BY <1>6 DEF Upload!Next

LEMMA SettleStep ==
    ASSUME Inv, NEW r \in Requests, Settle(r)
    PROVE  Upload!Next \/ UNCHANGED Upload!vars
  <1>1. /\ Working(request[r]) /\ request[r].phase = "settle" /\ UNCHANGED <<evidence, world>>
        /\ op' = [op EXCEPT ![Key(r)] = Settled(op[Key(r)], request[r].end)]
    BY DEF Settle, At, Working
  <1>2. PICK k \in Keys, e \in End : k = Key(r) /\ e = request[r].end
    BY <1>1, Alone, RequestFacts DEF Key
  <1>3. CASE op[k].state # "PENDING"
    <2>1. op' = op
      BY <1>1, <1>2, <1>3 DEF Settled, Inv, TablesOK
    <2> QED BY <1>1, <2>1 DEF Upload!vars, world
  <1>4. CASE op[k].state = "PENDING"
    <2>1. /\ op'[k] = [op[k] EXCEPT !.state = e]
          /\ \A j \in Keys : j # k => op'[j] = op[j]
      BY <1>1, <1>2, <1>4 DEF Settled, Inv, TablesOK
    <2>2. op'[k].state = e
      BY <2>1, OpFacts DEF Inv, TablesOK
    <2>3. states' = [states EXCEPT ![k] = e]
      BY <2>1, <2>2 DEF states
    <2>4. files' = files
      BY <1>1 DEF files, world
    <2>5. Upload!GiveUp(k, e)
      BY <1>4, <2>3, <2>4 DEF Upload!GiveUp, states, files
    <2>6. e \in {"FAILED", "RECONCILIATION_REQUIRED"}
      BY DEF End
    <2>7. Upload!Next
      BY <2>5, <2>6 DEF Upload!Next
    <2> QED BY <2>7
  <1> QED BY <1>3, <1>4

LEMMA UploadStep == Inv /\ [Next]_vars => [Upload!Next]_(Upload!vars)
  <1> SUFFICES ASSUME Inv, [Next]_vars PROVE Upload!Next \/ UNCHANGED Upload!vars
    OBVIOUS
  <1>1. UNCHANGED <<op, evidence, world>> => UNCHANGED Upload!vars
    BY DEF Upload!vars, world
  <1>2. ASSUME NEW r \in Requests, StoreInD1(r) \/ StoreInD1AnswerLost(r)
        PROVE  UNCHANGED Upload!vars
    BY <1>2 DEF StoreInD1, StoreInD1AnswerLost, Upload!vars, world
  <1>3. ASSUME NEW r \in Requests,
               \/ NotReserved(r) \/ NoFolder(r) \/ Uploaded(r) \/ UploadAnswerLost(r)
               \/ NotUploaded(r) \/ NotStored(r) \/ DatabaseFails(r) \/ Crash(r)
        PROVE  UNCHANGED <<op, evidence, world>>
    BY <1>3 DEF NotReserved, NoFolder, Uploaded, UploadAnswerLost, NotUploaded, NotStored,
                DatabaseFails, Crash
  <1>4. ASSUME \/ \E r \in Requests, k \in Keys, u \in Users, f \in Files :
                     ReceiveDraft(r, k, u, f) \/ ReceiveCase(r, k, u, f)
               \/ Unbind \/ Bind
               \/ \E u \in Leaving : Leave(u) \/ Rejoin(u)
               \/ UNCHANGED vars
        PROVE  UNCHANGED <<op, evidence, world>>
    BY <1>4 DEF ReceiveDraft, ReceiveCase, Receive, Unbind, Bind, Leave, Rejoin, vars
  <1>5. ASSUME NEW r \in Requests, Reserve(r) \/ ReserveAnswerLost(r)
        PROVE  Upload!Next
    BY <1>5, ReserveStep DEF Reserve, ReserveAnswerLost
  <1> QED BY <1>1, <1>2, <1>3, <1>4, <1>5, BatchStep, SettleStep DEF Next, Handle

(* Both routes to Drive implement KeyedUpload: a key is reserved once, for *)
(* one file, and its end is final.                                         *)
THEOREM UploadKept == Spec => UploadSpec
  <1>1. Init => Upload!Init
    BY DEF Init, Upload!Init, NoOp
  <1> QED BY <1>1, UploadStep, Invariant, PTL DEF Spec, UploadSpec, Upload!Spec
=============================================================================
