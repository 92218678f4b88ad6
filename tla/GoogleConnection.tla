--------------------------- MODULE GoogleConnection ---------------------------
(***************************************************************************)
(* The organization's Google Drive account: administrators connect,        *)
(* replace and disconnect it (handleGoogleOAuth).  A grant is a refresh    *)
(* token: Google issues and revokes it, one D1 row stores it, and nothing  *)
(* makes the two one transaction.                                          *)
(***************************************************************************)
EXTENDS Integers, FiniteSets

CONSTANTS
    Tokens, NoToken,    \* refresh tokens Google may issue
    Foreign,            \* those of accounts the organization does not allow
    States,             \* OAuth states
    Requests

ASSUME ConnectionAssumption == NoToken \notin Tokens /\ Foreign \subseteq Tokens

VARIABLES
    row,        \* preview_google_credentials: the one stored token
    issued,     \* tokens Google ever issued, each by one exchange
    live,       \* those still valid at Google
    pkce,       \* preview_google_pkce: state -> "new", "open", "consumed" or "expired"
    folder,     \* the draft's binding: the token its folder was verified with
    request,
    stored,     \* history: the tokens the row ever held
    faults      \* what may go wrong: "scope", the user grants less than the Drive scope
                \* or the answer with the token is lost; "read", the stored credential is
                \* not read or not decrypted; "revoke", Google refuses or loses a
                \* revocation; "batch", D1 refuses a batch; "answer", D1 commits one and
                \* the answer is lost; "crash", a handler dies between two of its awaits

vars == <<row, issued, live, pkce, folder, request, stored, faults>>
database == <<row, folder, stored>>
google == <<issued, live>>
-----------------------------------------------------------------------------
Token == Tokens \cup {NoToken}
Phases == {"idle", "read", "exchange", "account", "store", "retire", "undo",
           "revoke", "delete", "verify", "bind"}
Request == [phase : Phases, previous : Token, token : Token]
Idle == [phase |-> "idle", previous |-> NoToken, token |-> NoToken]

At(r, phase) == request[r].phase = phase
Done(r) == request' = [request EXCEPT ![r] = Idle]
GoTo(r, phase) == request' = [request EXCEPT ![r].phase = phase]
-----------------------------------------------------------------------------
(* oauth/start stores a state for ten minutes.                             *)
Start(s) ==
    /\ pkce[s] = "new"
    /\ pkce' = [pkce EXCEPT ![s] = "open"]
    /\ UNCHANGED <<database, google, request, faults>>
Expire(s) ==
    /\ pkce[s] = "open"
    /\ pkce' = [pkce EXCEPT ![s] = "expired"]
    /\ UNCHANGED <<database, google, request, faults>>

(* UPDATE ... consumed_at ... RETURNING.                                   *)
Claimable(s) == pkce[s] = "open"
Callback(r, s) ==
    /\ At(r, "idle") /\ Claimable(s)
    /\ pkce' = [pkce EXCEPT ![s] = "consumed"]
    /\ GoTo(r, "read")
    /\ UNCHANGED <<database, google, faults>>

(* A read or a decryption that fails is taken for no credential at all.    *)
Read == {row} \cup IF "read" \in faults THEN {NoToken} ELSE {}
ReadPrevious(r) ==
    /\ At(r, "read")
    /\ \E t \in Read :
         request' = [request EXCEPT ![r].phase = "exchange", ![r].previous = t]
    /\ UNCHANGED <<database, google, pkce, faults>>

(* The authorization code is exchanged for a new token.                    *)
Exchange(r) ==
    /\ At(r, "exchange")
    /\ \E t \in Tokens \ issued :
         /\ issued' = issued \cup {t} /\ live' = live \cup {t}
         /\ request' = [request EXCEPT ![r].phase = "account", ![r].token = t]
    /\ UNCHANGED <<database, pkce, faults>>

ExchangeFails(r) ==
    /\ At(r, "exchange") /\ Done(r)
    /\ UNCHANGED <<database, google, pkce, faults>>

(* Google issued the token and exchangeAuthorizationCode throws it away:   *)
(* the Drive scope was not granted.                                        *)
ScopeMissing(r) ==
    /\ At(r, "exchange") /\ "scope" \in faults /\ Done(r)
    /\ \E t \in Tokens \ issued : issued' = issued \cup {t} /\ live' = live \cup {t}
    /\ UNCHANGED <<database, pkce, faults>>

(* isAllowedGoogleAccountEmail.                                            *)
Allowed(t) == t \notin Foreign
CheckAccount(r) ==
    /\ At(r, "account")
    /\ GoTo(r, IF Allowed(request[r].token) THEN "store" ELSE "undo")
    /\ UNCHANGED <<database, google, pkce, faults>>

(* The batch: the row takes the new token and the bindings go.             *)
Switch(r) == /\ row' = request[r].token /\ folder' = NoToken
             /\ stored' = stored \cup {request[r].token}
StoreCredential(r) ==
    /\ At(r, "store") /\ Switch(r)
    /\ GoTo(r, "retire")
    /\ UNCHANGED <<google, pkce, faults>>

(* Any exception after the exchange, of the account check or of the batch, *)
(* even of a batch that was committed, leads to the revocation.            *)
(* Mutant: the new token is left alone.                                    *)
AfterFailureReturn(r) == Done(r)
AfterFailure(r) == GoTo(r, "undo")
SwitchFails(r) ==
    /\ At(r, "account") \/ (At(r, "store") /\ "batch" \in faults)
    /\ AfterFailure(r)
    /\ UNCHANGED <<database, google, pkce, faults>>
StoreAnswerLost(r) ==
    /\ At(r, "store") /\ "answer" \in faults /\ Switch(r)
    /\ AfterFailure(r)
    /\ UNCHANGED <<google, pkce, faults>>

(* Revocation of the previous or of the new token, errors ignored.         *)
Revoke(t) == \/ live' = live \ {t}
             \/ "revoke" \in faults /\ UNCHANGED live
(* What a switch retires.  Mutant: the row, looked up after the switch.    *)
RetiredLate(r) == row
Retired(r) == request[r].previous
Retire(r) ==
    /\ At(r, "retire")
    /\ IF request[r].previous \in {NoToken, request[r].token}
          THEN UNCHANGED live ELSE Revoke(Retired(r))
    /\ Done(r)
    /\ UNCHANGED <<issued, database, pkce, faults>>
Undo(r) ==
    /\ At(r, "undo") /\ Revoke(request[r].token) /\ Done(r)
    /\ UNCHANGED <<issued, database, pkce, faults>>
-----------------------------------------------------------------------------
(* getGoogleDriveCredential finds one.  Mutant: the handlers do not ask.   *)
ConnectedUnasked == TRUE
Connected == row # NoToken

Disconnect(r) ==
    /\ At(r, "idle") /\ Connected
    /\ request' = [request EXCEPT ![r] = [Idle EXCEPT !.phase = "revoke", !.token = row]]
    /\ UNCHANGED <<database, google, pkce, faults>>

(* Google answers a token it does not know with 400.                       *)
RevokeForDisconnect(r) ==
    /\ At(r, "revoke") /\ request[r].token \in live
    /\ live' = live \ {request[r].token}
    /\ GoTo(r, "delete")
    /\ UNCHANGED <<issued, database, pkce, faults>>
RevokeRefused(r) ==
    /\ At(r, "revoke") /\ ("revoke" \in faults \/ request[r].token \notin live)
    /\ Done(r)
    /\ UNCHANGED <<database, google, pkce, faults>>
RevokeAnswerLost(r) ==
    /\ At(r, "revoke") /\ "revoke" \in faults /\ request[r].token \in live
    /\ live' = live \ {request[r].token}
    /\ Done(r)
    /\ UNCHANGED <<issued, database, pkce, faults>>

(* The row is deleted whatever token it holds by now.                      *)
DeleteCredential(r) ==
    /\ At(r, "delete") /\ Done(r)
    /\ row' = NoToken /\ folder' = NoToken
    /\ UNCHANGED <<stored, google, pkce, faults>>
DeleteFails(r) ==
    /\ At(r, "delete") /\ "batch" \in faults /\ Done(r)
    /\ UNCHANGED <<database, google, pkce, faults>>
-----------------------------------------------------------------------------
(* folders/bind: read the credential, verify the folder with it, store.    *)
Bind(r) ==
    /\ At(r, "idle") /\ Connected
    /\ request' = [request EXCEPT ![r] = [Idle EXCEPT !.phase = "verify", !.token = row]]
    /\ UNCHANGED <<database, google, pkce, faults>>
Verify(r) ==
    /\ At(r, "verify")
    /\ IF request[r].token \in live THEN GoTo(r, "bind") ELSE Done(r)
    /\ UNCHANGED <<database, google, pkce, faults>>
StoreBinding(r) ==
    /\ At(r, "bind") /\ Done(r)
    /\ folder' = request[r].token
    /\ UNCHANGED <<row, stored, google, pkce, faults>>

Crash(r) == /\ "crash" \in faults /\ ~At(r, "idle") /\ Done(r)
            /\ UNCHANGED <<database, google, pkce, faults>>
-----------------------------------------------------------------------------
Init == /\ row = NoToken /\ folder = NoToken /\ stored = {}
        /\ issued = {} /\ live = {}
        /\ pkce = [s \in States |-> "new"]
        /\ request = [r \in Requests |-> Idle]
        /\ faults \in SUBSET {"scope", "read", "revoke", "batch", "answer", "crash"}

Connect(r) == \/ ReadPrevious(r) \/ Exchange(r) \/ ExchangeFails(r) \/ ScopeMissing(r)
              \/ CheckAccount(r) \/ StoreCredential(r) \/ SwitchFails(r)
              \/ StoreAnswerLost(r) \/ Retire(r) \/ Undo(r)
Disconnecting(r) == \/ RevokeForDisconnect(r) \/ RevokeRefused(r) \/ RevokeAnswerLost(r)
                    \/ DeleteCredential(r) \/ DeleteFails(r)

Next == \/ \E s \in States : Start(s) \/ Expire(s)
        \/ \E r \in Requests :
              \/ \E s \in States : Callback(r, s)
              \/ Connect(r)
              \/ Disconnect(r) \/ Disconnecting(r)
              \/ Bind(r) \/ Verify(r) \/ StoreBinding(r)
              \/ Crash(r)

Spec == Init /\ [][Next]_vars
-----------------------------------------------------------------------------
TypeOK ==
    /\ {row, folder} \subseteq issued \cup {NoToken}
    /\ issued \subseteq Tokens /\ live \subseteq issued /\ stored \subseteq issued
    /\ faults \subseteq {"scope", "read", "revoke", "batch", "answer", "crash"}
    /\ pkce \in [States -> {"new", "open", "consumed", "expired"}]
    /\ request \in [Requests -> Request]
    /\ \A r \in Requests : /\ request[r].previous \in issued \cup {NoToken}
                           /\ request[r].phase \notin {"idle", "read", "exchange"} =>
                                request[r].token \in issued

(* Consents the administrators gave and handlers took up.                  *)
Consumed == {s \in States : pkce[s] = "consumed"}

(* One exchange per consent: a callback the browser repeats, two at once   *)
(* or one that comes too late get no token from Google.                    *)
ExchangePerConsent ==
    Cardinality(issued) + Cardinality({r \in Requests : At(r, "read") \/ At(r, "exchange")})
      <= Cardinality(Consumed)

(* Whatever fails, the stored token and every token a handler is about to  *)
(* store belong to an account of the organization, and no two handlers     *)
(* carry one token from its exchange.                                      *)
OnlyAllowedStored ==
    /\ row \notin Foreign
    /\ \A r \in Requests : At(r, "store") \/ At(r, "retire") => request[r].token \in Tokens \ Foreign
    /\ \A r, q \in Requests :
         (/\ {request[r].phase, request[q].phase} \subseteq {"account", "store", "undo"}
          /\ request[r].token = request[q].token)  =>  r = q

(* A token a handler got and has not stored yet.                           *)
Carried == {request[r].token : r \in {q \in Requests :
                request[q].phase \in {"account", "store", "undo"}}}

(* "A failed switch revokes the newly issued credential"                   *)
(* (docs/harness/CF05-antigravity-followup-02.md:37): a grant that was     *)
(* never stored is gone when its handler is, whichever step failed, also   *)
(* if the batch committed and its answer was lost.  It takes a handler     *)
(* that lives, a revocation that Google takes (its failure is ignored) and *)
(* an answer to the exchange with the whole scope: without it the handler  *)
(* never learns the token.                                                 *)
FailedSwitchLeavesNothing ==
    faults \cap {"scope", "revoke", "crash"} = {} => live \subseteq stored \cup Carried

(* Every grant at Google comes from a consent that was given for it, only  *)
(* one of an account that may be connected is stored, and one that could   *)
(* not be stored is revoked, however handlers overlap.  A grant that was   *)
(* stored and replaced may outlive the row: when two switches overlap,     *)
(* when the old credential could not be read, or when the handler dies     *)
(* between the batch and the revocation.                                   *)
GrantsAreConsented == ExchangePerConsent /\ OnlyAllowedStored /\ FailedSwitchLeavesNothing

(* The stored token is one that Google accepts, unless a disconnect has    *)
(* just revoked it and is about to delete the row: no switch that overlaps *)
(* another or a disconnect, and no previous credential that could not be   *)
(* read, makes a handler revoke the token another has stored.  A failure   *)
(* between the revocation and the DELETE, or a batch taken for failed that *)
(* was committed, does leave a dead token in the row.                      *)
StoredIsLive ==
    faults \subseteq {"scope", "read"} /\ row # NoToken =>
        row \in live \/ \E r \in Requests : At(r, "delete") /\ request[r].token = row
=============================================================================
