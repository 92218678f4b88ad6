----------------------- MODULE GoogleConnectionProofs -----------------------
(***************************************************************************)
(* Theorems of GoogleConnection for every set of tokens, states and          *)
(* handlers: grants come from consents, only an allowed account's is         *)
(* stored, one that could not be stored is revoked, and no handler revokes   *)
(* the token another has stored.                                             *)
(***************************************************************************)
EXTENDS GoogleConnection, FiniteSetTheorems, TLAPS

Exchanging == {r \in Requests : At(r, "read") \/ At(r, "exchange")}

(* The counts behind ExchangePerConsent are those of finite sets.            *)
Counts ==
    /\ IsFiniteSet(issued) /\ IsFiniteSet(Consumed) /\ IsFiniteSet(Exchanging)
    /\ Cardinality(issued) + Cardinality(Exchanging) <= Cardinality(Consumed)

(* What a handler may revoke was stored once and is in the row no more, or   *)
(* was read from the row to be disconnected; what it is about to store is    *)
(* new to the row, and alive as long as nobody fails.                        *)
Knows(q) ==
    /\ q.previous \in stored \cup {NoToken}
    /\ q.phase \in {"account", "store"} => q.token \notin stored
    /\ q.phase = "undo" /\ "answer" \notin faults => q.token \notin stored
    /\ q.phase = "retire" => q.previous # row \/ row = NoToken
    /\ q.phase \in {"revoke", "delete"} => q.token \in stored
    /\ q.phase \in {"account", "store"} /\ faults \subseteq {"scope", "read"} => q.token \in live

Kept == /\ row \in stored \cup {NoToken}
        /\ \A r \in Requests : Knows(request[r])

Inv == /\ TypeOK /\ Counts /\ OnlyAllowedStored /\ Kept
       /\ FailedSwitchLeavesNothing /\ StoredIsLive
-----------------------------------------------------------------------------
(* Handler r goes on as n, or starts; the others stay as they are.           *)
Moves(r, n) ==
    /\ request' \in [Requests -> Request]
    /\ request'[r] = n
    /\ \A s \in Requests : s # r => request'[s] = request[s]

LEMMA MovesIntro ==
    ASSUME TypeOK, NEW r \in Requests, NEW n \in Request, request' = [request EXCEPT ![r] = n]
    PROVE  Moves(r, n)
  BY DEF TypeOK, Moves

LEMMA IdleFacts == Idle \in Request /\ Idle.phase = "idle" /\ Idle.previous = NoToken
  BY DEF Idle, Request, Phases, Token

LEMMA DoneMoves ==
    ASSUME TypeOK, NEW r \in Requests, Done(r)
    PROVE  \E n \in Request : Moves(r, n) /\ n.phase = "idle" /\ n.previous = NoToken
  <1>1. PICK n \in Request : n = Idle
    BY IdleFacts
  <1> QED BY <1>1, IdleFacts, MovesIntro DEF Done

LEMMA GoToMoves ==
    ASSUME TypeOK, NEW r \in Requests, NEW phase \in Phases, GoTo(r, phase)
    PROVE  \E n \in Request : /\ Moves(r, n) /\ n.phase = phase
                              /\ n.previous = request[r].previous /\ n.token = request[r].token
  <1>1. PICK q \in Request : q = request[r]
    BY DEF TypeOK
  <1>2. PICK n : n = [q EXCEPT !.phase = phase]
    OBVIOUS
  <1>3. /\ n \in Request /\ n.phase = phase
        /\ n.previous = q.previous /\ n.token = q.token
    BY <1>2 DEF Request
  <1>4. request' = [request EXCEPT ![r] = n]
    BY <1>1, <1>2 DEF GoTo
  <1> QED BY <1>1, <1>3, <1>4, MovesIntro

(* The two requests about the connected account.                             *)
LEMMA OpenMoves ==
    ASSUME TypeOK, NEW r \in Requests, NEW phase \in Phases,
           request' = [request EXCEPT ![r] = [Idle EXCEPT !.phase = phase, !.token = row]]
    PROVE  \E n \in Request : /\ Moves(r, n) /\ n.phase = phase
                              /\ n.previous = NoToken /\ n.token = row
  <1>1. PICK w \in Token : w = row
    BY DEF TypeOK, Token
  <1>2. PICK i \in Request : i = Idle /\ i.previous = NoToken
    BY IdleFacts
  <1>3. PICK n : n = [i EXCEPT !.phase = phase, !.token = w]
    OBVIOUS
  <1>4. /\ n \in Request /\ n.phase = phase /\ n.previous = NoToken /\ n.token = w
    BY <1>2, <1>3 DEF Request
  <1>5. request' = [request EXCEPT ![r] = n]
    BY <1>1, <1>2, <1>3
  <1> QED BY <1>1, <1>4, <1>5, MovesIntro

LEMMA ReadMoves ==
    ASSUME TypeOK, NEW r \in Requests, ReadPrevious(r)
    PROVE  \E n \in Request : /\ Moves(r, n) /\ n.phase = "exchange"
                              /\ n.previous \in {row, NoToken}
  <1>1. PICK w \in Token : /\ w \in {row, NoToken}
                           /\ request' = [request EXCEPT ![r].phase = "exchange",
                                                         ![r].previous = w]
    BY DEF TypeOK, Token, ReadPrevious, Read
  <1>2. PICK q \in Request : q = request[r]
    BY DEF TypeOK
  <1>3. PICK n : n = [q EXCEPT !.phase = "exchange", !.previous = w]
    OBVIOUS
  <1>4. n \in Request /\ n.phase = "exchange" /\ n.previous = w
    BY <1>3 DEF Request, Phases
  <1>5. request' = [request EXCEPT ![r] = n]
    BY <1>1, <1>2, <1>3
  <1> QED BY <1>1, <1>4, <1>5, MovesIntro

LEMMA ExchangeMoves ==
    ASSUME TypeOK, NEW r \in Requests, Exchange(r)
    PROVE  \E n \in Request :
              /\ Moves(r, n) /\ n.phase = "account" /\ n.previous = request[r].previous
              /\ n.token \in Tokens \ issued
              /\ issued' = issued \cup {n.token} /\ live' = live \cup {n.token}
  <1>1. PICK t \in Tokens \ issued :
          /\ issued' = issued \cup {t} /\ live' = live \cup {t}
          /\ request' = [request EXCEPT ![r].phase = "account", ![r].token = t]
    BY DEF Exchange
  <1>2. PICK q \in Request : q = request[r]
    BY DEF TypeOK
  <1>3. PICK n : n = [q EXCEPT !.phase = "account", !.token = t]
    OBVIOUS
  <1>4. n \in Request /\ n.phase = "account" /\ n.previous = q.previous /\ n.token = t
    BY <1>3 DEF Request, Phases, Token
  <1>5. request' = [request EXCEPT ![r] = n]
    BY <1>1, <1>2, <1>3
  <1> QED BY <1>1, <1>2, <1>4, <1>5, MovesIntro

-----------------------------------------------------------------------------
(* What one step of a handler owes to each part of the invariant.            *)
Typing(n) ==
    /\ issued \subseteq issued' /\ issued' \subseteq Tokens
    /\ live' \subseteq issued' /\ stored' \subseteq issued'
    /\ {row', folder'} \subseteq issued' \cup {NoToken}
    /\ n.previous \in issued' \cup {NoToken}
    /\ n.phase \notin {"idle", "read", "exchange"} => n.token \in issued'

LEMMA TypeStep ==
    ASSUME TypeOK, NEW r \in Requests, NEW n \in Request, Moves(r, n), Typing(n),
           pkce' \in [States -> {"new", "open", "consumed", "expired"}], UNCHANGED faults
    PROVE  TypeOK'
  <1>1. ASSUME NEW s \in Requests
        PROVE  /\ request'[s].previous \in issued' \cup {NoToken}
               /\ request'[s].phase \notin {"idle", "read", "exchange"} =>
                    request'[s].token \in issued'
    <2>1. CASE s = r
      BY <2>1 DEF Moves, Typing
    <2>2. CASE s # r
      BY <2>2 DEF Moves, Typing, TypeOK
    <2> QED BY <2>1, <2>2
  <1> QED BY <1>1 DEF Moves, Typing, TypeOK

Allowing(r, n) ==
    /\ row' \notin Foreign
    /\ n.phase \in {"store", "retire"} => n.token \in Tokens \ Foreign
    /\ n.phase \in {"account", "store", "undo"} =>
          \A s \in Requests : /\ s # r
                              /\ request[s].phase \in {"account", "store", "undo"}
                              => request[s].token # n.token

LEMMA AllowedStep ==
    ASSUME OnlyAllowedStored, NEW r \in Requests, NEW n \in Request, Moves(r, n), Allowing(r, n)
    PROVE  OnlyAllowedStored'
  <1>1. \A s \in Requests : At(s, "store")' \/ At(s, "retire")' =>
                               request'[s].token \in Tokens \ Foreign
    BY DEF Moves, Allowing, OnlyAllowedStored, At
  <1>2. ASSUME NEW s \in Requests, NEW q \in Requests,
               {request'[s].phase, request'[q].phase} \subseteq {"account", "store", "undo"},
               request'[s].token = request'[q].token
        PROVE  s = q
    <2>1. CASE s # r /\ q # r
      BY <1>2, <2>1 DEF Moves, OnlyAllowedStored
    <2>2. CASE s = r \/ q = r
      BY <1>2, <2>2 DEF Moves, Allowing
    <2> QED BY <2>1, <2>2
  <1> QED BY <1>1, <1>2 DEF Allowing, OnlyAllowedStored

Carrying(q) == q.phase \in {"account", "store", "undo"}

(* What the step of r owes to the other handlers.                            *)
Sparing(r) ==
    /\ stored \subseteq stored'
    /\ row' \in {row, NoToken} \cup (stored' \ stored)
    /\ \A s \in Requests : s # r =>
         /\ Carrying(request[s]) => request[s].token \notin stored' \ stored
         /\ /\ request[s].phase \in {"account", "store"}
            /\ faults \subseteq {"scope", "read"}
            => request[s].token \notin live \ live'

LEMMA KeptStep ==
    ASSUME Kept, NEW r \in Requests, NEW n \in Request, Moves(r, n), Sparing(r), UNCHANGED faults,
           Knows(n)', row' \in stored' \cup {NoToken}
    PROVE  Kept'
  <1>1. ASSUME NEW s \in Requests PROVE Knows(request[s])'
    <2>1. CASE s = r
      <3>1. request'[s] = n
        BY <2>1 DEF Moves
      <3> QED BY <3>1 DEF Knows
    <2>2. CASE s # r
      <3>1. request'[s] = request[s] /\ Knows(request[s])
        BY <2>2 DEF Moves, Kept
      <3> QED BY <2>2, <3>1 DEF Knows, Sparing, Carrying
    <2> QED BY <2>1, <2>2
  <1> QED BY <1>1 DEF Kept

(* What the handlers carry after the step.                                   *)
LEMMA CarriedStep ==
    ASSUME NEW r \in Requests, NEW n \in Request, Moves(r, n)
    PROVE  /\ Carrying(n) => n.token \in Carried'
           /\ \A t \in Carried : t \in Carried' \/ (Carrying(request[r]) /\ t = request[r].token)
  BY DEF Carried, Carrying, Moves

(* Only handler r could have been about to delete the row.                   *)
LEMMA LiveStep ==
    ASSUME StoredIsLive, NEW r \in Requests, NEW n \in Request, Moves(r, n),
           UNCHANGED <<row, faults>>,
           faults \subseteq {"scope", "read"} =>
             /\ ~At(r, "delete")
             /\ row \in live => row \in live' \/ (n.phase = "delete" /\ n.token = row)
    PROVE  StoredIsLive'
  <1> SUFFICES ASSUME faults \subseteq {"scope", "read"}, row # NoToken
               PROVE  \/ row \in live'
                      \/ \E s \in Requests : /\ request'[s].phase = "delete"
                                             /\ request'[s].token = row
    BY DEF StoredIsLive, At
  <1>1. CASE row \in live
    BY <1>1 DEF Moves
  <1>2. CASE \E s \in Requests : At(s, "delete") /\ request[s].token = row
    BY <1>2 DEF Moves, At
  <1> QED BY <1>1, <1>2 DEF StoredIsLive
-----------------------------------------------------------------------------
(* How many handlers still hold a consent they have not spent.               *)
LEMMA ExchangingAfter ==
    ASSUME NEW r \in Requests, NEW n \in Request, Moves(r, n)
    PROVE  Exchanging' = IF n.phase \in {"read", "exchange"} THEN Exchanging \cup {r}
                         ELSE Exchanging \ {r}
  BY DEF Exchanging, Moves, At

(* A handler that spends no consent keeps or loses its place.                *)
LEMMA CountsIdle ==
    ASSUME Counts, NEW r \in Requests, NEW n \in Request, Moves(r, n),
           n.phase \in {"read", "exchange"} => r \in Exchanging,
           UNCHANGED <<issued, pkce>>
    PROVE  Counts'
  <1>1. IsFiniteSet(Exchanging') /\ Cardinality(Exchanging') <= Cardinality(Exchanging)
    <2>1. CASE n.phase \in {"read", "exchange"}
      <3>1. Exchanging' = Exchanging
        BY <2>1, ExchangingAfter
      <3>2. Cardinality(Exchanging) \in Nat
        BY FS_CardinalityType DEF Counts
      <3> QED BY <3>1, <3>2 DEF Counts
    <2>2. CASE n.phase \notin {"read", "exchange"}
      <3>1. Exchanging' \in SUBSET Exchanging
        BY <2>2, ExchangingAfter
      <3> QED BY <3>1, FS_Subset DEF Counts
    <2> QED BY <2>1, <2>2
  <1>2. Consumed' = Consumed
    BY DEF Consumed
  <1>3. /\ Cardinality(issued) \in Nat /\ Cardinality(Exchanging) \in Nat
        /\ Cardinality(Consumed) \in Nat /\ Cardinality(Exchanging') \in Nat
    BY <1>1, FS_CardinalityType DEF Counts
  <1> QED BY <1>1, <1>2, <1>3 DEF Counts

(* An exchange spends the consent on one token.                              *)
LEMMA CountsExchange ==
    ASSUME Counts, NEW r \in Requests, NEW n \in Request, Moves(r, n), At(r, "exchange"),
           n.phase \notin {"read", "exchange"},
           NEW t \in Tokens \ issued, issued' = issued \cup {t}, UNCHANGED pkce
    PROVE  Counts'
  <1>1. r \in Exchanging /\ Exchanging' = Exchanging \ {r}
    BY ExchangingAfter DEF Exchanging
  <1>2. /\ IsFiniteSet(Exchanging')
        /\ Cardinality(Exchanging') = Cardinality(Exchanging) - 1
    BY <1>1, FS_RemoveElement DEF Counts
  <1>3. IsFiniteSet(issued') /\ Cardinality(issued') = Cardinality(issued) + 1
    BY FS_AddElement DEF Counts
  <1>4. Consumed' = Consumed
    BY DEF Consumed
  <1>5. /\ Cardinality(issued) \in Nat /\ Cardinality(Exchanging) \in Nat
        /\ Cardinality(Consumed) \in Nat
    BY FS_CardinalityType DEF Counts
  <1> QED BY <1>2, <1>3, <1>4, <1>5 DEF Counts

(* A callback takes up a consent that nobody took.                           *)
LEMMA CountsCallback ==
    ASSUME Counts, TypeOK, NEW r \in Requests, NEW n \in Request, Moves(r, n), At(r, "idle"),
           n.phase = "read", NEW s \in States, pkce[s] = "open",
           pkce' = [pkce EXCEPT ![s] = "consumed"], UNCHANGED issued
    PROVE  Counts'
  <1>1. r \notin Exchanging /\ Exchanging' = Exchanging \cup {r}
    BY ExchangingAfter DEF Exchanging, At
  <1>2. /\ IsFiniteSet(Exchanging')
        /\ Cardinality(Exchanging') = Cardinality(Exchanging) + 1
    BY <1>1, FS_AddElement DEF Counts
  <1>3. s \notin Consumed /\ Consumed' = Consumed \cup {s}
    BY DEF Consumed, TypeOK
  <1>4. IsFiniteSet(Consumed') /\ Cardinality(Consumed') = Cardinality(Consumed) + 1
    BY <1>3, FS_AddElement DEF Counts
  <1>5. /\ Cardinality(issued) \in Nat /\ Cardinality(Exchanging) \in Nat
        /\ Cardinality(Consumed) \in Nat
    BY FS_CardinalityType DEF Counts
  <1> QED BY <1>2, <1>4, <1>5 DEF Counts
-----------------------------------------------------------------------------
(* The invariant, step by step.                                              *)
LEMMA InvInit == Init => Inv
  <1> SUFFICES ASSUME Init PROVE Inv
    OBVIOUS
  <1>1. TypeOK
    BY IdleFacts DEF Init, TypeOK
  <1>2. \A r \in Requests : request[r].phase = "idle" /\ request[r].previous = NoToken
    BY IdleFacts DEF Init
  <1>3. Consumed = {} /\ Exchanging = {}
    BY <1>2 DEF Init, Consumed, Exchanging, At
  <1>4. Counts
    BY <1>3, FS_EmptySet DEF Init, Counts
  <1>5. OnlyAllowedStored
    BY <1>2, ConnectionAssumption DEF Init, OnlyAllowedStored, At
  <1>6. Kept /\ FailedSwitchLeavesNothing /\ StoredIsLive
    BY <1>2 DEF Init, Kept, Knows, FailedSwitchLeavesNothing, StoredIsLive
  <1> QED BY <1>1, <1>4, <1>5, <1>6 DEF Inv

LEMMA InvStep ==
    ASSUME Inv, NEW r \in Requests, NEW n \in Request, Moves(r, n), UNCHANGED faults,
           pkce' \in [States -> {"new", "open", "consumed", "expired"}],
           Typing(n), Allowing(r, n), Sparing(r), Knows(n)', row' \in stored' \cup {NoToken},
           FailedSwitchLeavesNothing', StoredIsLive', Counts'
    PROVE  Inv'
  BY TypeStep, AllowedStep, KeptStep DEF Inv

(* A step that changes neither the row nor a grant: what the handler carries *)
(* it goes on carrying, and it does not turn back before the DELETE, unless  *)
(* it fails.                                                                 *)
Calm(r, n) ==
    /\ UNCHANGED <<row, stored, issued, live, faults>>
    /\ pkce' \in [States -> {"new", "open", "consumed", "expired"}]
    /\ folder' \in issued \cup {NoToken}
    /\ n.phase \notin {"idle", "read", "exchange"} => n.token \in issued
    /\ Carrying(request[r]) =>
         "crash" \in faults \/ (Carrying(n) /\ n.token = request[r].token)
    /\ At(r, "delete") => faults \cap {"batch", "crash"} # {}

LEMMA InvCalm ==
    ASSUME Inv, NEW r \in Requests, NEW n \in Request, Moves(r, n), Calm(r, n),
           Allowing(r, n), Knows(n), Counts'
    PROVE  Inv'
  <1>1. Typing(n)
    BY DEF Calm, Typing, Inv, TypeOK, Knows
  <1>2. Sparing(r) /\ row' \in stored' \cup {NoToken}
    BY DEF Calm, Sparing, Inv, Kept
  <1>3. Knows(n)'
    BY DEF Calm, Knows
  <1>4. FailedSwitchLeavesNothing'
    BY CarriedStep DEF Inv, Calm, FailedSwitchLeavesNothing
  <1>5. StoredIsLive'
    BY LiveStep DEF Inv, Calm
  <1> QED BY <1>1, <1>2, <1>3, <1>4, <1>5, InvStep DEF Calm

(* A handler that ends without a write.                                      *)
LEMMA InvEnds ==
    ASSUME Inv, NEW r \in Requests, Done(r), UNCHANGED <<row, stored, google, pkce, faults>>,
           folder' \in issued \cup {NoToken},
           Carrying(request[r]) => "crash" \in faults,
           At(r, "delete") => faults \cap {"batch", "crash"} # {}
    PROVE  Inv'
  <1>1. PICK n \in Request : Moves(r, n) /\ n.phase = "idle" /\ n.previous = NoToken
    BY DoneMoves DEF Inv
  <1>2. Allowing(r, n) /\ Knows(n)
    BY <1>1 DEF Inv, OnlyAllowedStored, Allowing, Knows
  <1>3. Calm(r, n)
    BY <1>1 DEF Inv, TypeOK, Calm, google
  <1>4. Counts'
    BY <1>1, CountsIdle DEF Inv, google
  <1> QED BY <1>1, <1>2, <1>3, <1>4, InvCalm

LEMMA InvEnding ==
    ASSUME Inv, NEW r \in Requests,
           \/ ExchangeFails(r) \/ RevokeRefused(r) \/ DeleteFails(r)
           \/ StoreBinding(r) \/ Crash(r)
    PROVE  Inv'
  <1>1. /\ Done(r) /\ UNCHANGED <<row, stored, google, pkce, faults>>
        /\ folder' \in issued \cup {NoToken}
    BY DEF ExchangeFails, RevokeRefused, DeleteFails, StoreBinding, Crash, database, At,
       Inv, TypeOK
  <1>2. /\ Carrying(request[r]) => "crash" \in faults
        /\ At(r, "delete") => faults \cap {"batch", "crash"} # {}
    BY DEF ExchangeFails, RevokeRefused, DeleteFails, StoreBinding, Crash, At, Carrying
  <1> QED BY <1>1, <1>2, InvEnds

(* A callback starts a handler.                                              *)
LEMMA InvCallback ==
    ASSUME Inv, NEW r \in Requests, NEW s \in States, Callback(r, s)
    PROVE  Inv'
  <1>1. PICK n \in Request : /\ Moves(r, n) /\ n.phase = "read"
                             /\ n.previous = request[r].previous
    BY GoToMoves DEF Callback, Inv, Phases
  <1>2. Calm(r, n)
    BY <1>1 DEF Inv, TypeOK, Callback, Calm, Carrying, At, database, google
  <1>3. Allowing(r, n) /\ Knows(n)
    BY <1>1 DEF Inv, OnlyAllowedStored, Kept, Knows, Callback, Allowing, database
  <1>4. Counts'
    BY <1>1, CountsCallback DEF Inv, Callback, Claimable, google
  <1> QED BY <1>1, <1>2, <1>3, <1>4, InvCalm

LEMMA InvReadPrevious ==
    ASSUME Inv, NEW r \in Requests, ReadPrevious(r)
    PROVE  Inv'
  <1>1. PICK n \in Request : Moves(r, n) /\ n.phase = "exchange" /\ n.previous \in {row, NoToken}
    BY ReadMoves DEF Inv
  <1>2. Calm(r, n)
    BY <1>1 DEF Inv, TypeOK, ReadPrevious, Calm, Carrying, At, database, google
  <1>3. Allowing(r, n) /\ Knows(n)
    BY <1>1 DEF Inv, OnlyAllowedStored, Kept, Knows, ReadPrevious, Allowing, database
  <1>4. Counts'
    BY <1>1, CountsIdle DEF Inv, ReadPrevious, Exchanging, At, google
  <1> QED BY <1>1, <1>2, <1>3, <1>4, InvCalm

(* The account is checked, or a failure sends the handler to the revocation. *)
LEMMA InvChecked ==
    ASSUME Inv, NEW r \in Requests, CheckAccount(r) \/ SwitchFails(r)
    PROVE  Inv'
  <1> DEFINE q == request[r]
  <1>1. /\ q.phase \in {"account", "store"}
        /\ UNCHANGED <<database, google, pkce, faults>>
    BY DEF CheckAccount, SwitchFails, At
  <1>2. PICK n \in Request : /\ Moves(r, n) /\ n.phase \in {"store", "undo"}
                             /\ n.previous = q.previous /\ n.token = q.token
                             /\ n.phase = "store" => q.phase = "account" /\ Allowed(q.token)
    BY GoToMoves DEF CheckAccount, SwitchFails, AfterFailure, At, Inv, Phases
  <1>3. Knows(q) /\ q.token \in issued /\ q \in Request
    BY <1>1 DEF Inv, Kept, TypeOK
  <1>4. Calm(r, n)
    BY <1>1, <1>2, <1>3 DEF Inv, TypeOK, Calm, Carrying, At, database, google
  <1>5. Knows(n)
    BY <1>1, <1>2, <1>3 DEF Knows
  <1>6. Allowing(r, n)
    BY <1>1, <1>2, <1>3 DEF Inv, TypeOK, OnlyAllowedStored, Allowing, Allowed, database
  <1>7. Counts'
    BY <1>1, <1>2, CountsIdle DEF Inv, google
  <1> QED BY <1>2, <1>4, <1>5, <1>6, <1>7, InvCalm

(* The two requests that look the connected account up.                      *)
LEMMA InvOpen ==
    ASSUME Inv, NEW r \in Requests, Disconnect(r) \/ Bind(r)
    PROVE  Inv'
  <1>1. /\ At(r, "idle") /\ row # NoToken /\ UNCHANGED <<database, google, pkce, faults>>
    BY DEF Disconnect, Bind, Connected
  <1>2. PICK n \in Request : /\ Moves(r, n) /\ n.phase \in {"revoke", "verify"}
                             /\ n.previous = NoToken /\ n.token = row
    BY OpenMoves DEF Disconnect, Bind, Inv, Phases
  <1>3. Calm(r, n)
    BY <1>1, <1>2 DEF Inv, TypeOK, Calm, Carrying, At, database, google
  <1>4. Allowing(r, n) /\ Knows(n)
    BY <1>1, <1>2 DEF Inv, OnlyAllowedStored, Kept, Knows, Allowing, database
  <1>5. Counts'
    BY <1>1, <1>2, CountsIdle DEF Inv, google
  <1> QED BY <1>2, <1>3, <1>4, <1>5, InvCalm

LEMMA InvVerify ==
    ASSUME Inv, NEW r \in Requests, Verify(r)
    PROVE  Inv'
  <1>1. CASE Done(r)
    BY <1>1, InvEnds DEF Verify, At, Carrying, Inv, TypeOK, database
  <1>2. CASE GoTo(r, "bind")
    <2>1. PICK n \in Request : /\ Moves(r, n) /\ n.phase = "bind"
                               /\ n.previous = request[r].previous
                               /\ n.token = request[r].token
      BY <1>2, GoToMoves DEF Inv, Phases
    <2>2. Calm(r, n)
      BY <2>1 DEF Inv, TypeOK, Verify, Calm, Carrying, At, database, google
    <2>3. Allowing(r, n) /\ Knows(n)
      BY <2>1 DEF Inv, OnlyAllowedStored, Kept, Knows, Verify, Allowing, database
    <2>4. Counts'
      BY <2>1, CountsIdle DEF Inv, Verify, google
    <2> QED BY <2>1, <2>2, <2>3, <2>4, InvCalm
  <1> QED BY <1>1, <1>2 DEF Verify
-----------------------------------------------------------------------------
(* The steps that change the row or a grant.                                 *)
LEMMA InvExchange ==
    ASSUME Inv, NEW r \in Requests, Exchange(r)
    PROVE  Inv'
  <1>1. PICK n \in Request :
          /\ Moves(r, n) /\ n.phase = "account" /\ n.previous = request[r].previous
          /\ n.token \in Tokens \ issued
          /\ issued' = issued \cup {n.token} /\ live' = live \cup {n.token}
    BY ExchangeMoves DEF Inv
  <1>2. /\ request[r].phase = "exchange" /\ Knows(request[r])
        /\ UNCHANGED <<row, folder, stored, pkce, faults>>
    BY DEF Inv, Kept, Exchange, At, database
  <1>3. Typing(n) /\ pkce' \in [States -> {"new", "open", "consumed", "expired"}]
    BY <1>1, <1>2 DEF Inv, TypeOK, Typing
  <1>4. Allowing(r, n)
    BY <1>1, <1>2 DEF Inv, TypeOK, OnlyAllowedStored, Allowing
  <1>5. /\ Sparing(r) /\ Knows(n)' /\ row' \in stored' \cup {NoToken}
    BY <1>1, <1>2 DEF Inv, TypeOK, Kept, Sparing, Knows
  <1>6. FailedSwitchLeavesNothing'
    BY <1>1, <1>2, CarriedStep DEF Inv, FailedSwitchLeavesNothing, Carrying
  <1>7. StoredIsLive'
    BY <1>1, <1>2, LiveStep DEF Inv, At
  <1>8. Counts'
    BY <1>1, <1>2, CountsExchange DEF Inv, At
  <1> QED BY <1>1, <1>2, <1>3, <1>4, <1>5, <1>6, <1>7, <1>8, InvStep

LEMMA InvScopeMissing ==
    ASSUME Inv, NEW r \in Requests, ScopeMissing(r)
    PROVE  Inv'
  <1>1. PICK n \in Request : Moves(r, n) /\ n.phase = "idle" /\ n.previous = NoToken
    BY DoneMoves DEF ScopeMissing, Inv
  <1>2. PICK t \in Tokens \ issued : issued' = issued \cup {t} /\ live' = live \cup {t}
    BY DEF ScopeMissing
  <1>3. /\ request[r].phase = "exchange" /\ "scope" \in faults
        /\ UNCHANGED <<row, folder, stored, pkce, faults>>
    BY DEF ScopeMissing, At, database
  <1>4. Typing(n) /\ pkce' \in [States -> {"new", "open", "consumed", "expired"}]
    BY <1>1, <1>2, <1>3 DEF Inv, TypeOK, Typing
  <1>5. Allowing(r, n)
    BY <1>1, <1>3 DEF Inv, OnlyAllowedStored, Allowing
  <1>6. /\ Sparing(r) /\ Knows(n)' /\ row' \in stored' \cup {NoToken}
    BY <1>1, <1>2, <1>3 DEF Inv, Kept, Sparing, Knows
  <1>7. FailedSwitchLeavesNothing'
    BY <1>3 DEF FailedSwitchLeavesNothing
  <1>8. StoredIsLive'
    BY <1>1, <1>2, <1>3, LiveStep DEF Inv, At
  <1>9. Counts'
    BY <1>1, <1>2, <1>3, CountsExchange DEF Inv, At
  <1> QED BY <1>1, <1>3, <1>4, <1>5, <1>6, <1>7, <1>8, <1>9, InvStep

(* The batch, whether its answer arrives or not.                             *)
LEMMA InvSwitch ==
    ASSUME Inv, NEW r \in Requests, StoreCredential(r) \/ StoreAnswerLost(r)
    PROVE  Inv'
  <1> DEFINE q == request[r]
  <1>1. /\ q.phase = "store" /\ row' = q.token /\ folder' = NoToken
        /\ stored' = stored \cup {q.token}
        /\ UNCHANGED <<issued, live, pkce, faults>>
    BY DEF StoreCredential, StoreAnswerLost, Switch, At, google
  <1>2. PICK n \in Request : /\ Moves(r, n) /\ n.previous = q.previous /\ n.token = q.token
                             /\ n.phase = "retire" \/ (n.phase = "undo" /\ "answer" \in faults)
    BY GoToMoves DEF StoreCredential, StoreAnswerLost, AfterFailure, Inv, Phases
  <1>3. /\ Knows(q) /\ q.token \in issued /\ q.token \in Tokens \ Foreign
        /\ q.token # NoToken
    BY <1>1, ConnectionAssumption DEF Inv, Kept, TypeOK, OnlyAllowedStored, At
  <1>4. \A s \in Requests : s # r /\ Carrying(request[s]) => request[s].token # q.token
    BY <1>1 DEF Inv, OnlyAllowedStored, Carrying
  <1>5. Typing(n) /\ pkce' \in [States -> {"new", "open", "consumed", "expired"}]
    BY <1>1, <1>2, <1>3 DEF Inv, TypeOK, Typing
  <1>6. Allowing(r, n)
    BY <1>1, <1>2, <1>3, <1>4 DEF Allowing, Carrying
  <1>7. /\ Sparing(r) /\ Knows(n)' /\ row' \in stored' \cup {NoToken}
    BY <1>1, <1>2, <1>3, <1>4 DEF Sparing, Knows
  <1>8. FailedSwitchLeavesNothing'
    BY <1>1, <1>2, CarriedStep DEF Inv, FailedSwitchLeavesNothing
  <1>9. StoredIsLive'
    BY <1>1, <1>3 DEF Knows, StoredIsLive
  <1>10. Counts'
    BY <1>1, <1>2, CountsIdle DEF Inv
  <1> QED BY <1>1, <1>2, <1>5, <1>6, <1>7, <1>8, <1>9, <1>10, InvStep

(* A handler that revokes at most one token, which nobody carries but        *)
(* itself, and ends, or goes on to delete the row.                           *)
LEMMA InvRevokes ==
    ASSUME Inv, NEW r \in Requests, NEW n \in Request, Moves(r, n), NEW t \in Token,
           live' \in {live, live \ {t}}, UNCHANGED <<issued, row, folder, stored, pkce, faults>>,
           n.phase \in {"idle", "delete"}, n.previous \in {NoToken, request[r].previous},
           n.phase = "delete" => n.token \in stored,
           t \in stored \/ (Carrying(request[r]) /\ t = request[r].token),
           Carrying(request[r]) =>
             t = request[r].token /\ ("revoke" \in faults \/ live' = live \ {t}),
           faults \subseteq {"scope", "read"} =>
             /\ ~At(r, "delete")
             /\ t # row \/ row = NoToken \/ (n.phase = "delete" /\ n.token = row)
    PROVE  Inv'
  <1>1. \A s \in Requests : s # r /\ request[s].phase \in {"account", "store"} =>
                                request[s].token # t
    BY DEF Inv, Kept, Knows, OnlyAllowedStored, Carrying
  <1>2. Knows(request[r])
    BY DEF Inv, Kept
  <1>3. Typing(n) /\ pkce' \in [States -> {"new", "open", "consumed", "expired"}]
    BY <1>2 DEF Inv, TypeOK, Typing, Knows
  <1>4. Allowing(r, n)
    BY DEF Inv, OnlyAllowedStored, Allowing
  <1>5. /\ Sparing(r) /\ Knows(n)' /\ row' \in stored' \cup {NoToken}
    BY <1>1, <1>2 DEF Inv, Kept, Sparing, Knows
  <1>6. FailedSwitchLeavesNothing'
    BY CarriedStep DEF Inv, FailedSwitchLeavesNothing
  <1>7. StoredIsLive'
    BY LiveStep DEF Inv, StoredIsLive
  <1>8. Counts'
    BY CountsIdle DEF Inv
  <1> QED BY <1>3, <1>4, <1>5, <1>6, <1>7, <1>8, InvStep

LEMMA InvRetire ==
    ASSUME Inv, NEW r \in Requests, Retire(r)
    PROVE  Inv'
  <1> DEFINE t == request[r].previous
  <1>1. PICK n \in Request : Moves(r, n) /\ n.phase = "idle" /\ n.previous = NoToken
    BY DoneMoves DEF Retire, Inv
  <1>2. /\ request[r].phase = "retire" /\ Knows(request[r])
        /\ UNCHANGED <<issued, row, folder, stored, pkce, faults>>
    BY DEF Inv, Kept, Retire, At, database
  <1>3. CASE t = NoToken
    <2>1. live' = live
      BY <1>3 DEF Retire
    <2> QED BY <1>2, <2>1, InvEnds DEF Retire, Carrying, At, google, Inv, TypeOK
  <1>4. CASE t # NoToken
    <2>1. t \in stored /\ t \in Token /\ (t # row \/ row = NoToken)
      BY <1>2, <1>4 DEF Knows, Inv, TypeOK, Request
    <2>2. live' \in {live, live \ {t}}
      BY DEF Retire, Revoke, Retired
    <2> QED BY <1>1, <1>2, <2>1, <2>2, InvRevokes DEF Carrying, At
  <1> QED BY <1>3, <1>4

LEMMA InvUndo ==
    ASSUME Inv, NEW r \in Requests, Undo(r)
    PROVE  Inv'
  <1> DEFINE t == request[r].token
  <1>1. PICK n \in Request : Moves(r, n) /\ n.phase = "idle" /\ n.previous = NoToken
    BY DoneMoves DEF Undo, Inv
  <1>2. /\ request[r].phase = "undo" /\ Knows(request[r])
        /\ UNCHANGED <<issued, row, folder, stored, pkce, faults>>
    BY DEF Inv, Kept, Undo, At, database
  <1>3. t \in Token /\ ("answer" \notin faults => t # row \/ row = NoToken)
    BY <1>2 DEF Knows, Inv, Kept, TypeOK, Request
  <1>4. live' \in {live, live \ {t}} /\ ("revoke" \in faults \/ live' = live \ {t})
    BY DEF Undo, Revoke
  <1> QED BY <1>1, <1>2, <1>3, <1>4, InvRevokes DEF Carrying, At

LEMMA InvRevokeForDisconnect ==
    ASSUME Inv, NEW r \in Requests, RevokeForDisconnect(r)
    PROVE  Inv'
  <1> DEFINE t == request[r].token
  <1>1. PICK n \in Request : /\ Moves(r, n) /\ n.phase = "delete"
                             /\ n.previous = request[r].previous /\ n.token = t
    BY GoToMoves DEF RevokeForDisconnect, Inv, Phases
  <1>2. /\ request[r].phase = "revoke" /\ Knows(request[r]) /\ live' = live \ {t}
        /\ UNCHANGED <<issued, row, folder, stored, pkce, faults>>
    BY DEF Inv, Kept, RevokeForDisconnect, At, database
  <1>3. t \in stored /\ t \in Token
    BY <1>2 DEF Knows, Inv, TypeOK, Request
  <1> QED BY <1>1, <1>2, <1>3, InvRevokes DEF Carrying, At

LEMMA InvRevokeAnswerLost ==
    ASSUME Inv, NEW r \in Requests, RevokeAnswerLost(r)
    PROVE  Inv'
  <1> DEFINE t == request[r].token
  <1>1. PICK n \in Request : Moves(r, n) /\ n.phase = "idle" /\ n.previous = NoToken
    BY DoneMoves DEF RevokeAnswerLost, Inv
  <1>2. /\ request[r].phase = "revoke" /\ Knows(request[r]) /\ live' = live \ {t}
        /\ "revoke" \in faults /\ UNCHANGED <<issued, row, folder, stored, pkce, faults>>
    BY DEF Inv, Kept, RevokeAnswerLost, At, database
  <1>3. t \in stored /\ t \in Token
    BY <1>2 DEF Knows, Inv, TypeOK, Request
  <1> QED BY <1>1, <1>2, <1>3, InvRevokes DEF Carrying, At

LEMMA InvDeleteCredential ==
    ASSUME Inv, NEW r \in Requests, DeleteCredential(r)
    PROVE  Inv'
  <1>1. PICK n \in Request : Moves(r, n) /\ n.phase = "idle" /\ n.previous = NoToken
    BY DoneMoves DEF DeleteCredential, Inv
  <1>2. /\ request[r].phase = "delete" /\ row' = NoToken /\ folder' = NoToken
        /\ UNCHANGED <<issued, live, stored, pkce, faults>>
    BY DEF DeleteCredential, At, google
  <1>3. Typing(n) /\ pkce' \in [States -> {"new", "open", "consumed", "expired"}]
    BY <1>1, <1>2 DEF Inv, TypeOK, Typing
  <1>4. Allowing(r, n)
    BY <1>1, <1>2, ConnectionAssumption DEF Allowing
  <1>5. /\ Sparing(r) /\ Knows(n)' /\ row' \in stored' \cup {NoToken}
    BY <1>1, <1>2 DEF Sparing, Knows
  <1>6. FailedSwitchLeavesNothing' /\ StoredIsLive'
    BY <1>1, <1>2, CarriedStep DEF Inv, FailedSwitchLeavesNothing, StoredIsLive, Carrying
  <1>7. Counts'
    BY <1>1, <1>2, CountsIdle DEF Inv
  <1> QED BY <1>1, <1>2, <1>3, <1>4, <1>5, <1>6, <1>7, InvStep

(* A state is issued or runs out: nothing that was counted.                  *)
LEMMA InvState ==
    ASSUME Inv, \/ \E s \in States : Start(s) \/ Expire(s)
                \/ UNCHANGED vars
    PROVE  Inv'
  <1>1. /\ UNCHANGED <<row, folder, stored, issued, live, request, faults>>
        /\ pkce' \in [States -> {"new", "open", "consumed", "expired"}]
        /\ Consumed' = Consumed
    BY DEF Inv, TypeOK, Start, Expire, Consumed, database, google, vars
  <1>2. TypeOK' /\ OnlyAllowedStored' /\ Kept'
    BY <1>1 DEF Inv, TypeOK, OnlyAllowedStored, Kept, Knows, At
  <1>3. FailedSwitchLeavesNothing' /\ StoredIsLive'
    BY <1>1 DEF Inv, FailedSwitchLeavesNothing, Carried, StoredIsLive, At
  <1>4. Counts'
    BY <1>1 DEF Inv, Counts, Exchanging, At
  <1> QED BY <1>2, <1>3, <1>4 DEF Inv

LEMMA InvNext == Inv /\ [Next]_vars => Inv'
  <1> SUFFICES ASSUME Inv, [Next]_vars PROVE Inv'
    OBVIOUS
  <1>1. ASSUME NEW r \in Requests, Connect(r) PROVE Inv'
    BY <1>1, InvReadPrevious, InvExchange, InvEnding, InvScopeMissing, InvChecked, InvSwitch,
       InvRetire, InvUndo DEF Connect
  <1>2. ASSUME NEW r \in Requests, Disconnecting(r) PROVE Inv'
    BY <1>2, InvRevokeForDisconnect, InvRevokeAnswerLost, InvDeleteCredential, InvEnding
       DEF Disconnecting
  <1> QED BY <1>1, <1>2, InvState, InvCallback, InvOpen, InvVerify, InvEnding DEF Next

LEMMA Invariance == Spec => []Inv
  BY InvInit, InvNext, PTL DEF Spec
-----------------------------------------------------------------------------
(* Row, binding, tokens, states and handlers keep their types; every token   *)
(* that is stored or in hand was issued.                                     *)
THEOREM Typed == Spec => []TypeOK
  <1>1. Inv => TypeOK
    BY DEF Inv
  <1> QED BY <1>1, Invariance, PTL

(* However handlers overlap, callbacks are repeated and exchanges, batches   *)
(* and revocations fail, a grant comes from a consent and only an allowed    *)
(* account's is stored; and one that could not be stored is revoked by a     *)
(* handler that lives and learnt it, if Google takes the revocation.         *)
THEOREM Consented == Spec => []GrantsAreConsented
  <1>1. Inv => ExchangePerConsent
    BY DEF Inv, Counts, Exchanging, ExchangePerConsent
  <1>2. Inv => OnlyAllowedStored /\ FailedSwitchLeavesNothing
    BY DEF Inv
  <1>3. Inv => GrantsAreConsented
    BY <1>1, <1>2 DEF GrantsAreConsented
  <1> QED BY <1>3, Invariance, PTL

(* No handler revokes the token another has stored, however many connect,    *)
(* replace and disconnect at once: the row holds a live token until a        *)
(* disconnect of that very token is about to delete it.                      *)
THEOREM StoredLive == Spec => []StoredIsLive
  <1>1. Inv => StoredIsLive
    BY DEF Inv
  <1> QED BY <1>1, Invariance, PTL
=============================================================================
