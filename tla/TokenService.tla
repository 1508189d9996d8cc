---------------------------- MODULE TokenService ----------------------------
(***************************************************************************)
(* The token, introspection and revocation endpoints over the two tables   *)
(* they share: authorization_codes and access_tokens.                      *)
(*                                                                         *)
(* A request is a process that is received once.  Between two database     *)
(* calls a handler is suspended, so each action below is one job of the    *)
(* writer thread together with the handler code that runs until the next   *)
(* call is awaited or the response is sent.  Only the job that redeems a   *)
(* code is two actions: it reads the clock twice, and time goes on.        *)
(*                                                                         *)
(* What the consent endpoint does is the environment here: a code may be   *)
(* stored at any time (StoreCode).  Module Consent models how.             *)
(***************************************************************************)
EXTENDS Store

CONSTANTS
  Grants,          \* authorization requests a code can be issued for
  Request,         \* Request[g]: what authorization request g asked for
  Codes,           \* values random_token yields for authorization codes
  Exchanges,       \* POST /auth/token requests; also the tokens they mint
  Introspections,  \* POST /auth/introspection requests
  Revocations,     \* POST /auth/revocation requests
  Forms,           \* bodies of a token request, the code left out
  ClientIds, RedirectUris, ScopeWords, Verifiers,
  Unknown,         \* a code or token value the server never made
  CodeTTL,         \* ten minutes
  TokenTTL,        \* ACCESS_TOKEN_TTL_HOURS
  MaxTime          \* bound: the clock stops here

\* SHA-256 then base64url: one digest per verifier, and never the verifier.
S256(verifier) == [sha256 |-> verifier]

RequestRecord == [client_id : ClientIds, redirect_uri : RedirectUris,
                  scope : SUBSET ScopeWords, method : {"S256", "plain", "absent"},
                  code_challenge : {S256(v) : v \in Verifiers}]

FormRecord == [grant_type : {"authorization_code", "other"}, client_id : ClientIds,
               redirect_uri : RedirectUris, code_verifier : Verifiers]

ASSUME RequestAssumption == Request \in [Grants -> RequestRecord]
ASSUME FormsAssumption == Forms \subseteq FormRecord
ASSUME UnknownAssumption == Unknown \notin Codes \cup Exchanges \cup Grants
ASSUME TimeAssumption == /\ CodeTTL \in Nat \ {0}
                         /\ TokenTTL \in Nat \ {0}
                         /\ MaxTime \in Nat

VARIABLES
  now,             \* the wall clock
  codes,           \* table authorization_codes
  tokens,          \* table access_tokens
  exchanges,       \* state of each token request's handler
  introspections,  \* state of each introspection's handler
  revocations      \* state of each revocation's handler

tables == <<codes, tokens>>
handlers == <<exchanges, introspections, revocations>>
vars == <<now, tables, handlers>>

-----------------------------------------------------------------------------
(* Handler records.  "dropped" is a handler whose future was dropped or    *)
(* panicked: no response, and no further call.                             *)

ExchangeEnd == {"identity", "token", "invalid_request", "unsupported_grant_type",
                "invalid_grant", "dropped"}
ExchangePending == {"redeeming", "claiming", "storing"}
IntrospectionEnd == {"active", "inactive", "invalid_request", "dropped"}
RevocationEnd == {"revoked", "unrevoked", "dropped"}

\* `form` and `code` are the posted body and `received` the instant it had arrived, for
\* the properties only; `grant` is the row redeem_code returned (Unknown until it does)
\* and `since` the instant the handler resumed with it.
ExchangeRecord == [status : {"idle"} \cup ExchangePending \cup ExchangeEnd,
                   form : Forms \cup {Unknown}, code : Codes \cup {Unknown},
                   received : Instant,
                   grant : Grants \cup {Unknown}, since : Instant]

\* `earlier` records, for the properties only, the answers that revocations of the token
\* had been given when the introspection was received.
IntrospectionRecord == [status : {"idle", "asking"} \cup IntrospectionEnd,
                        token : Exchanges \cup {Unknown},
                        earlier : SUBSET {"revoked", "unrevoked"}]

\* "revoked" and "unrevoked" are the same 200 response: the UPDATE ran, or not.
RevocationRecord == [status : {"idle", "revoking"} \cup RevocationEnd,
                     token : Exchanges \cup {Unknown}]

Init ==
  /\ now = 0
  /\ codes = [c \in {} |-> Unknown]
  /\ tokens = [t \in {} |-> Unknown]
  /\ exchanges = [e \in Exchanges |->
       [status |-> "idle", form |-> Unknown, code |-> Unknown, received |-> 0,
        grant |-> Unknown, since |-> 0]]
  /\ introspections = [i \in Introspections |->
       [status |-> "idle", token |-> Unknown, earlier |-> {}]]
  /\ revocations = [r \in Revocations |-> [status |-> "idle", token |-> Unknown]]

-----------------------------------------------------------------------------
(* Environment *)

Tick ==
  /\ now < MaxTime
  /\ now' = now + 1
  /\ UNCHANGED <<tables, handlers>>

\* The consent endpoint stores a code whose lifetime began at some instant
\* before the INSERT ran.
StoreCode(c, g) ==
  /\ c \notin DOMAIN codes
  /\ \E computed \in 0 .. now : codes' = InsertCode(codes, c, g, computed + CodeTTL)
  /\ UNCHANGED <<now, tokens, handlers>>

\* A client knows the codes that exist and the tokens it was sent.
KnownCodes == DOMAIN codes \cup {Unknown}
KnownTokens == {e \in Exchanges : exchanges[e].status = "token"} \cup {Unknown}

-----------------------------------------------------------------------------
(* POST /auth/token *)

\* The body is read and parsed; an unreadable one ends the request here.
ReceiveExchange(e) ==
  /\ exchanges[e].status = "idle"
  /\ \/ exchanges' = [exchanges EXCEPT ![e].status = "invalid_request"]
     \/ \E form \in Forms, code \in KnownCodes :
          exchanges' = [exchanges EXCEPT
            ![e] = IF form.grant_type # "authorization_code"
                   THEN [@ EXCEPT !.status = "unsupported_grant_type"]
                   ELSE [@ EXCEPT !.status = "redeeming", !.form = form, !.code = code,
                                  !.received = now]]
  /\ UNCHANGED <<now, tables, introspections, revocations>>

\* MUTANT: the redirect URI of the form is not compared.
FormMatchesClientOnly(form, g) ==
  /\ form.client_id = Request[g].client_id
  /\ Request[g].method = "S256"
  /\ S256(form.code_verifier) = Request[g].code_challenge

\* The form is the one the code was issued for, and proves possession of the verifier.
FormMatches(form, g) ==
  /\ form.client_id = Request[g].client_id
  /\ form.redirect_uri = Request[g].redirect_uri
  /\ Request[g].method = "S256"
  /\ S256(form.code_verifier) = Request[g].code_challenge

\* What the handler answers once redeem_code has returned grant g, or "storing"
\* when it goes on to store a token: a blank scope asks for the identity only.
AfterRedeem(form, g) ==
  IF ~FormMatches(form, g) THEN "invalid_grant"
  ELSE IF Request[g].scope = {} THEN "identity" ELSE "storing"

\* The writer thread is not within another redemption.  Other jobs neither read nor
\* write what is between the two halves of one.
Free == \A e \in Exchanges : exchanges[e].status # "claiming"

\* redeem_code, up to its UPDATE: the row is there, and usable at this reading of the clock.
FindCode(e) ==
  /\ Free
  /\ exchanges[e].status = "redeeming"
  /\ Redeemable(codes, exchanges[e].code, now)
  /\ exchanges' = [exchanges EXCEPT ![e].status = "claiming"]
  /\ UNCHANGED <<now, tables, introspections, revocations>>

\* The UPDATE, at a second reading, and the handler's checks: the code is used up
\* before any field of the form is compared with it.
ClaimCode(e) ==
  LET x == exchanges[e]
      row == codes[x.code]
  IN
  /\ x.status = "claiming"
  /\ codes' = MarkUsed(codes, x.code, now)
  /\ exchanges' = [exchanges EXCEPT ![e] =
       IF row.used_at = Null
       THEN [x EXCEPT !.status = AfterRedeem(x.form, row.grant),
                      !.grant = row.grant, !.since = now]
       ELSE [x EXCEPT !.status = "invalid_grant"]]
  /\ UNCHANGED <<now, tokens, introspections, revocations>>

\* MUTANT: an unknown code is not answered.
RefuseKnownCode(e) ==
  /\ Free
  /\ exchanges[e].status = "redeeming"
  /\ exchanges[e].code \in DOMAIN codes
  /\ ~Redeemable(codes, exchanges[e].code, now)
  /\ exchanges' = [exchanges EXCEPT ![e].status = "invalid_grant"]
  /\ UNCHANGED <<now, tables, introspections, revocations>>

\* No usable code: unknown, used or expired.
RefuseCode(e) ==
  /\ Free
  /\ exchanges[e].status = "redeeming"
  /\ ~Redeemable(codes, exchanges[e].code, now)
  /\ exchanges' = [exchanges EXCEPT ![e].status = "invalid_grant"]
  /\ UNCHANGED <<now, tables, introspections, revocations>>

\* The token's lifetime was computed at some instant after the handler resumed.
\* The row is stored even when the handler is gone before it can respond.
StoreToken(e) ==
  LET request == Request[exchanges[e].grant] IN
  /\ exchanges[e].status = "storing"
  /\ \E computed \in exchanges[e].since .. now :
       tokens' = InsertToken(tokens, e, request.client_id, request.scope,
                             computed + TokenTTL, now)
  /\ \E outcome \in {"token", "dropped"} :
       exchanges' = [exchanges EXCEPT ![e].status = outcome]
  /\ UNCHANGED <<now, codes, introspections, revocations>>

-----------------------------------------------------------------------------
(* POST /auth/introspection *)

\* The answers that revocations of token t have been given.
AnswersOf(t) ==
  {revocations[r].status : r \in {q \in Revocations : revocations[q].token = t}}
    \cap {"revoked", "unrevoked"}

\* An unreadable body is refused, one without a token is answered inactive.
ReceiveIntrospection(i) ==
  /\ introspections[i].status = "idle"
  /\ \/ \E answer \in {"invalid_request", "inactive"} :
          introspections' = [introspections EXCEPT ![i].status = answer]
     \/ \E t \in KnownTokens :
          introspections' = [introspections EXCEPT
            ![i] = [status |-> "asking", token |-> t, earlier |-> AnswersOf(t)]]
  /\ UNCHANGED <<now, tables, exchanges, revocations>>

AnswerIntrospection(i) ==
  /\ introspections[i].status = "asking"
  /\ introspections' = [introspections EXCEPT ![i].status =
       IF ActiveToken(tokens, introspections[i].token, now) THEN "active" ELSE "inactive"]
  /\ UNCHANGED <<now, tables, exchanges, revocations>>

-----------------------------------------------------------------------------
(* POST /auth/revocation *)

ReceiveRevocation(r) ==
  /\ revocations[r].status = "idle"
  /\ \/ revocations' = [revocations EXCEPT ![r].status = "unrevoked"]
     \/ \E t \in KnownTokens :
          revocations' = [revocations EXCEPT ![r] = [status |-> "revoking", token |-> t]]
  /\ UNCHANGED <<now, tables, exchanges, introspections>>

Revoke(r) ==
  /\ revocations[r].status = "revoking"
  /\ tokens' = RevokeToken(tokens, revocations[r].token, now)
  /\ revocations' = [revocations EXCEPT ![r].status = "revoked"]
  /\ UNCHANGED <<now, codes, exchanges, introspections>>

-----------------------------------------------------------------------------
(* Failures *)

\* The statement of the pending job fails (disk full, I/O error): the token
\* endpoint answers invalid_grant before the claim and panics after it, an
\* introspection is answered inactive, a revocation is answered 200 all the same.
ExchangeStatementFails(e) ==
  /\ exchanges[e].status \in ExchangePending
  /\ exchanges' = [exchanges EXCEPT ![e].status =
       IF @ = "storing" THEN "dropped" ELSE "invalid_grant"]
  /\ UNCHANGED <<now, tables, introspections, revocations>>

IntrospectionStatementFails(i) ==
  /\ introspections[i].status = "asking"
  /\ introspections' = [introspections EXCEPT ![i].status = "inactive"]
  /\ UNCHANGED <<now, tables, exchanges, revocations>>

RevocationStatementFails(r) ==
  /\ revocations[r].status = "revoking"
  /\ revocations' = [revocations EXCEPT ![r].status = "unrevoked"]
  /\ UNCHANGED <<now, tables, exchanges, introspections>>

\* The client goes away and hyper drops the handler's future: the claim has run,
\* the INSERT is never queued.
DropExchange(e) ==
  /\ exchanges[e].status = "storing"
  /\ exchanges' = [exchanges EXCEPT ![e].status = "dropped"]
  /\ UNCHANGED <<now, tables, introspections, revocations>>

\* The process dies and is started again: the handlers are gone, the tables stay.
Restart ==
  /\ exchanges' = [e \in Exchanges |->
       IF exchanges[e].status \in ExchangePending
       THEN [exchanges[e] EXCEPT !.status = "dropped"] ELSE exchanges[e]]
  /\ introspections' = [i \in Introspections |->
       IF introspections[i].status = "asking"
       THEN [introspections[i] EXCEPT !.status = "dropped"] ELSE introspections[i]]
  /\ revocations' = [r \in Revocations |->
       IF revocations[r].status = "revoking"
       THEN [revocations[r] EXCEPT !.status = "dropped"] ELSE revocations[r]]
  /\ UNCHANGED <<now, tables>>

-----------------------------------------------------------------------------

HandleExchange(e) == FindCode(e) \/ ClaimCode(e) \/ RefuseCode(e) \/ StoreToken(e)

\* Every operation.
Operate ==
  \/ \E e \in Exchanges : ReceiveExchange(e) \/ HandleExchange(e)
  \/ \E i \in Introspections : ReceiveIntrospection(i) \/ AnswerIntrospection(i)
  \/ \E r \in Revocations : ReceiveRevocation(r) \/ Revoke(r)

\* Every failure that leaves the process alive.
Fail ==
  \/ \E e \in Exchanges : ExchangeStatementFails(e) \/ DropExchange(e)
  \/ \E i \in Introspections : IntrospectionStatementFails(i)
  \/ \E r \in Revocations : RevocationStatementFails(r)

Next ==
  \/ Tick
  \/ \E c \in Codes, g \in Grants : StoreCode(c, g)
  \/ Operate
  \/ Fail
  \/ Restart

Spec == Init /\ [][Next]_vars

\* The writer thread drains its queue and tokio polls every woken handler; clients,
\* failures and the clock promise nothing.
Fairness ==
  /\ \A e \in Exchanges : WF_vars(HandleExchange(e))
  /\ \A i \in Introspections : WF_vars(AnswerIntrospection(i))
  /\ \A r \in Revocations : WF_vars(Revoke(r))

FairSpec == Spec /\ Fairness

-----------------------------------------------------------------------------
(* Properties *)

CodeRow == [grant : Grants, expires_at : Instant, used_at : Instant \cup {Null}]
TokenRow == [client_id : ClientIds, scope : SUBSET ScopeWords, created_at : Instant,
             expires_at : Instant, revoked_at : Instant \cup {Null}]

\* Every variable stays in its type: in particular every row and handler record is
\* complete, whatever order the endpoints' jobs run in.
TypeOK ==
  /\ now \in Instant
  /\ DOMAIN codes \subseteq Codes
  /\ \A c \in DOMAIN codes : codes[c] \in CodeRow
  /\ codes = [c \in DOMAIN codes |-> codes[c]]
  /\ DOMAIN tokens \subseteq Exchanges
  /\ \A t \in DOMAIN tokens : tokens[t] \in TokenRow
  /\ tokens = [t \in DOMAIN tokens |-> tokens[t]]
  /\ exchanges \in [Exchanges -> ExchangeRecord]
  /\ introspections \in [Introspections -> IntrospectionRecord]
  /\ revocations \in [Revocations -> RevocationRecord]

Claimed(e) == exchanges[e].grant # Unknown

\* A code is claimed by at most one token request, however many present it at once
\* and however the first of them ends (codes.rs: "Claims a code for single use").
OneClaimPerCode ==
  \A e, f \in Exchanges :
    e # f /\ Claimed(e) /\ Claimed(f) => exchanges[e].code # exchanges[f].code

\* Every stored token goes back to a code that was issued for the same client and
\* scope and claimed before the token was created, by a request that arrived before the
\* code expired and knew the redirect URI and the PKCE verifier; a blank scope never
\* gets a token.  The claim itself may be later: redeem_code reads the clock once to
\* check the expiry and again to mark the row.
TokensAreAuthorized ==
  \A t \in DOMAIN tokens :
    LET e == exchanges[t]
        request == Request[e.grant]
    IN /\ Claimed(t)
       /\ e.code \in DOMAIN codes
       /\ codes[e.code].grant = e.grant
       /\ codes[e.code].used_at \in 0 .. tokens[t].created_at
       /\ e.received < codes[e.code].expires_at
       /\ tokens[t].client_id = request.client_id
       /\ tokens[t].scope = request.scope
       /\ request.scope # {}
       /\ e.form.redirect_uri = request.redirect_uri
       /\ S256(e.form.code_verifier) = request.code_challenge

\* An introspection received after the UPDATE of a revocation of its token has run never
\* finds the token active, restarts included (revoke_token, active_token).  A revocation
\* whose UPDATE failed is answered alike and promises nothing here.
RevocationIsFinal ==
  \A i \in Introspections :
    "revoked" \in introspections[i].earlier => introspections[i].status # "active"

\* The same of every revocation that was answered: 200 is the answer of one that
\* succeeded, and revoke_token is said to succeed always (db/tokens.rs).
AnsweredRevocationIsFinal ==
  \A i \in Introspections :
    introspections[i].earlier # {} => introspections[i].status # "active"

\* Every request whose body has been read is answered or dropped: no interleaving
\* leaves a handler waiting for a job that never replies.
RequestsSettle ==
  /\ \A e \in Exchanges :
       exchanges[e].status \in ExchangePending ~> exchanges[e].status \in ExchangeEnd
  /\ \A i \in Introspections :
       introspections[i].status = "asking" ~> introspections[i].status \in IntrospectionEnd
  /\ \A r \in Revocations :
       revocations[r].status = "revoking" ~> revocations[r].status \in RevocationEnd

-----------------------------------------------------------------------------
(* The endpoints implement the lifecycle GrantLifecycle promises. *)

\* A redemption is between its reading of the row and its UPDATE.
Taken(c) == \E e \in Exchanges : exchanges[e].status = "claiming" /\ exchanges[e].code = c

CodeState == [c \in Codes |->
  IF c \notin DOMAIN codes THEN "unissued"
  ELSE IF codes[c].used_at # Null THEN "spent"
  ELSE IF Taken(c) THEN "taken"
  ELSE IF IsPast(codes[c].expires_at, now) THEN "lapsed" ELSE "valid"]

TokenState == [t \in Exchanges |->
  IF t \notin DOMAIN tokens THEN "unminted"
  ELSE IF ActiveToken(tokens, t, now) THEN "active" ELSE "dead"]

Backing == [t \in Exchanges |-> IF Claimed(t) THEN {exchanges[t].code} ELSE {}]

Lifecycle == INSTANCE GrantLifecycle WITH
  Tokens <- Exchanges, code <- CodeState, token <- TokenState, backing <- Backing

\* The three endpoints, their failures and the passing of time implement the
\* lifecycle: codes taken in time and spent once, tokens only for spent codes, and no
\* token back to life once introspection has called it inactive.
ImplementsLifecycle == Lifecycle!Spec
=============================================================================
