------------------------- MODULE TokenServiceProofs -------------------------
(***************************************************************************)
(* Proofs about TokenService, for every value of its constants.            *)
(***************************************************************************)
EXTENDS TokenService, TLAPS

-----------------------------------------------------------------------------
(* The inductive invariant *)

\* A request that got a grant got it from the code it presented, which it marked used,
\* and had arrived in time.
ClaimOK(e) ==
  LET x == exchanges[e]
      row == codes[x.code]
  IN /\ x.code \in DOMAIN codes
     /\ row.grant = x.grant
     /\ row.used_at \in 0 .. x.since
     /\ x.received < row.expires_at
     /\ x.since <= now

\* What a redemption between its reading of the row and its UPDATE has found.
FoundOK(e) ==
  LET x == exchanges[e] IN
  /\ x.code \in DOMAIN codes
  /\ codes[x.code].used_at = Null
  /\ x.received < codes[x.code].expires_at

\* What the state of a token request says of its claim.
ClaimsOK ==
  \A e \in Exchanges :
    /\ exchanges[e].status \in {"idle", "redeeming", "claiming"} => ~Claimed(e)
    /\ exchanges[e].status = "redeeming" => exchanges[e].received <= now
    /\ exchanges[e].status = "claiming" => FoundOK(e)
    /\ exchanges[e].status = "storing" => Claimed(e)
    /\ Claimed(e) => ClaimOK(e)

\* The thread runs one redemption at a time.
OneAtATime ==
  \A e, f \in Exchanges :
    exchanges[e].status = "claiming" /\ exchanges[f].status = "claiming" => e = f

\* OneClaimPerCode alone is not inductive: that a second claim is refused needs to
\* know that the first one marked the row, and that none can come between a
\* redemption's reading of the row and its UPDATE.
ClaimInv == TypeOK /\ ClaimsOK /\ OneAtATime /\ OneClaimPerCode

\* What the handler has checked before it stores a token.
MayStore(e) == /\ Claimed(e)
               /\ FormMatches(exchanges[e].form, exchanges[e].grant)
               /\ Request[exchanges[e].grant].scope # {}

\* A request has stored its token only at its end, and knows it only if it has.
TokensInv ==
  /\ \A e \in Exchanges :
       /\ exchanges[e].status = "storing" => MayStore(e)
       /\ exchanges[e].status \in {"idle"} \cup ExchangePending => e \notin DOMAIN tokens
       /\ exchanges[e].status = "token" => e \in DOMAIN tokens
  /\ \A t \in DOMAIN tokens :
       /\ MayStore(t)
       /\ exchanges[t].since <= tokens[t].created_at
       /\ tokens[t].client_id = Request[exchanges[t].grant].client_id
       /\ tokens[t].scope = Request[exchanges[t].grant].scope

\* A revocation of token t has run.
Revoked(t) == \E r \in Revocations : /\ revocations[r].status = "revoked"
                                     /\ revocations[r].token = t

\* A revocation names a token that exists, and once its UPDATE has run the row is marked;
\* only of such a token does an introspection remember that it was revoked.
RevocationInv ==
  /\ \A r \in Revocations :
       LET t == revocations[r].token IN
       /\ t # Unknown => t \in DOMAIN tokens
       /\ t # Unknown /\ revocations[r].status = "revoked" => tokens[t].revoked_at # Null
  /\ \A i \in Introspections :
       "revoked" \in introspections[i].earlier =>
         Revoked(introspections[i].token) /\ introspections[i].status # "active"

-----------------------------------------------------------------------------
(* Types *)

\* Only what the types say of the two tables.
CodesOK == /\ DOMAIN codes \subseteq Codes
           /\ \A c \in DOMAIN codes : codes[c] \in CodeRow
           /\ codes = [c \in DOMAIN codes |-> codes[c]]
TokensOK == /\ DOMAIN tokens \subseteq Exchanges
            /\ \A t \in DOMAIN tokens : tokens[t] \in TokenRow
            /\ tokens = [t \in DOMAIN tokens |-> tokens[t]]

LEMMA InitType == Init => TypeOK
BY DEF Init, TypeOK, Instant, ExchangeRecord, IntrospectionRecord, RevocationRecord

\* A new status in its range keeps the type of a handler record.
LEMMA ExchangeStatus ==
  ASSUME exchanges \in [Exchanges -> ExchangeRecord], NEW e \in Exchanges,
         NEW s \in {"idle"} \cup ExchangePending \cup ExchangeEnd
  PROVE  [exchanges EXCEPT ![e].status = s] \in [Exchanges -> ExchangeRecord]
BY DEF ExchangeRecord

LEMMA IntrospectionStatus ==
  ASSUME introspections \in [Introspections -> IntrospectionRecord],
         NEW i \in Introspections, NEW s \in {"idle", "asking"} \cup IntrospectionEnd
  PROVE  [introspections EXCEPT ![i].status = s] \in [Introspections -> IntrospectionRecord]
BY DEF IntrospectionRecord

LEMMA RevocationStatus ==
  ASSUME revocations \in [Revocations -> RevocationRecord], NEW r \in Revocations,
         NEW s \in {"idle", "revoking"} \cup RevocationEnd
  PROVE  [revocations EXCEPT ![r].status = s] \in [Revocations -> RevocationRecord]
BY DEF RevocationRecord

LEMMA StoreCodeType ==
  ASSUME TypeOK, NEW c \in Codes, NEW g \in Grants, StoreCode(c, g)
  PROVE  TypeOK'
<1>1. PICK computed \in 0 .. now : codes' = InsertCode(codes, c, g, computed + CodeTTL)
  BY DEF StoreCode
<1>2. [grant |-> g, expires_at |-> computed + CodeTTL, used_at |-> Null] \in CodeRow
  BY TimeAssumption DEF CodeRow, Instant, TypeOK
<1>3. CodesOK'
  <2> DEFINE row == [grant |-> g, expires_at |-> computed + CodeTTL, used_at |-> Null]
  <2>1. codes' = Put(codes, c, row)
    BY <1>1 DEF InsertCode
  <2>2. /\ DOMAIN codes' = DOMAIN codes \cup {c}
        /\ codes'[c] = row
        /\ \A k \in DOMAIN codes \ {c} : codes'[k] = codes[k]
        /\ codes' = [k \in DOMAIN codes' |-> codes'[k]]
    BY <2>1 DEF Put
  <2>3. \A k \in DOMAIN codes' : codes'[k] \in CodeRow
    BY <1>2, <2>2 DEF TypeOK
  <2> QED BY <2>2, <2>3 DEF CodesOK, TypeOK
<1> QED BY <1>3 DEF StoreCode, tables, handlers, TypeOK, CodesOK

LEMMA ReceiveExchangeType ==
  ASSUME TypeOK, NEW e \in Exchanges, ReceiveExchange(e)
  PROVE  TypeOK'
<1>1. exchanges' \in [Exchanges -> ExchangeRecord]
  <2>1. CASE exchanges' = [exchanges EXCEPT ![e].status = "invalid_request"]
    BY <2>1, ExchangeStatus DEF TypeOK, ExchangeEnd
  <2>2. ASSUME NEW form \in Forms, NEW code \in KnownCodes,
               exchanges' = [exchanges EXCEPT
                 ![e] = IF form.grant_type # "authorization_code"
                        THEN [@ EXCEPT !.status = "unsupported_grant_type"]
                        ELSE [@ EXCEPT !.status = "redeeming", !.form = form, !.code = code,
                                       !.received = now]]
        PROVE  exchanges' \in [Exchanges -> ExchangeRecord]
    <3>1. code \in Codes \cup {Unknown}
      BY DEF TypeOK, KnownCodes
    <3>2. exchanges[e] \in ExchangeRecord /\ now \in Instant
      BY DEF TypeOK
    <3>3. CASE form.grant_type # "authorization_code"
      <4>1. [exchanges[e] EXCEPT !.status = "unsupported_grant_type"] \in ExchangeRecord
        BY <3>2 DEF ExchangeRecord, ExchangeEnd
      <4> QED BY <2>2, <3>3, <4>1 DEF TypeOK
    <3>4. CASE form.grant_type = "authorization_code"
      <4>1. [exchanges[e] EXCEPT !.status = "redeeming", !.form = form, !.code = code,
                                 !.received = now] \in ExchangeRecord
        BY <3>1, <3>2 DEF ExchangeRecord, ExchangePending
      <4> QED BY <2>2, <3>4, <4>1 DEF TypeOK
    <3> QED BY <3>3, <3>4
  <2> QED BY <2>1, <2>2 DEF ReceiveExchange
<1> QED BY <1>1 DEF ReceiveExchange, tables, TypeOK

\* The UPDATE hits the row the redemption has read, which nobody has used since.
LEMMA ClaimCodeEffect ==
  ASSUME TypeOK, ClaimsOK, NEW e \in Exchanges, ClaimCode(e)
  PROVE  LET code == exchanges[e].code
             grant == codes[code].grant
         IN /\ code \in DOMAIN codes /\ codes[code] \in CodeRow
            /\ codes[code].used_at = Null /\ exchanges[e].received < codes[code].expires_at
            /\ codes' = [codes EXCEPT ![code].used_at = now]
            /\ exchanges' = [exchanges EXCEPT ![e] =
                 [exchanges[e] EXCEPT !.status = AfterRedeem(exchanges[e].form, grant),
                                      !.grant = grant, !.since = now]]
            /\ UNCHANGED <<now, tokens, introspections, revocations>>
<1> DEFINE code == exchanges[e].code
<1>1. FoundOK(e)
  BY DEF ClaimCode, ClaimsOK
<1>2. code \in DOMAIN codes /\ codes[code] \in CodeRow
  BY <1>1 DEF FoundOK, TypeOK
<1> QED BY <1>1, <1>2 DEF ClaimCode, MarkUsed, FoundOK

LEMMA ClaimCodeType ==
  ASSUME TypeOK, ClaimsOK, NEW e \in Exchanges, ClaimCode(e)
  PROVE  TypeOK'
<1> DEFINE code == exchanges[e].code
           answer == AfterRedeem(exchanges[e].form, codes[code].grant)
           next == [exchanges[e] EXCEPT !.status = answer,
                                        !.grant = codes[code].grant, !.since = now]
<1>1. /\ code \in DOMAIN codes /\ codes[code] \in CodeRow
      /\ codes' = [codes EXCEPT ![code].used_at = now]
      /\ exchanges' = [exchanges EXCEPT ![e] = next]
      /\ UNCHANGED <<now, tokens, introspections, revocations>>
  BY ClaimCodeEffect
<1>2. CodesOK'
  BY <1>1 DEF CodesOK, CodeRow, TypeOK
<1>3. exchanges' \in [Exchanges -> ExchangeRecord]
  <2>1. answer \in {"idle"} \cup ExchangePending \cup ExchangeEnd
    BY DEF AfterRedeem, ExchangePending, ExchangeEnd
  <2>2. next \in ExchangeRecord
    <3>1. exchanges[e] \in ExchangeRecord /\ now \in Instant
      BY DEF TypeOK
    <3>2. codes[code].grant \in Grants
      BY <1>1 DEF CodeRow
    <3> HIDE DEF answer, code
    <3> QED BY <2>1, <3>1, <3>2 DEF ExchangeRecord
  <2> HIDE DEF next
  <2> QED BY <1>1, <2>2 DEF TypeOK
<1> QED BY <1>1, <1>2, <1>3 DEF CodesOK, TypeOK

LEMMA StoreTokenType ==
  ASSUME TypeOK, NEW e \in Exchanges, StoreToken(e), exchanges[e].grant \in Grants
  PROVE  TypeOK'
<1> DEFINE request == Request[exchanges[e].grant]
<1>1. PICK computed \in exchanges[e].since .. now :
        tokens' = InsertToken(tokens, e, request.client_id, request.scope,
                              computed + TokenTTL, now)
  BY DEF StoreToken
<1> DEFINE row == [client_id |-> request.client_id, scope |-> request.scope,
                   created_at |-> now, expires_at |-> computed + TokenTTL,
                   revoked_at |-> Null]
<1>2. row \in TokenRow
  <2>1. request \in RequestRecord
    BY RequestAssumption
  <2>2. request.client_id \in ClientIds /\ request.scope \in SUBSET ScopeWords
    BY <2>1 DEF RequestRecord
  <2>3. exchanges[e].since \in Nat /\ now \in Nat
    BY DEF TypeOK, ExchangeRecord, Instant
  <2>4. computed + TokenTTL \in Nat
    BY <2>3, TimeAssumption
  <2> HIDE DEF request
  <2> QED BY <2>2, <2>3, <2>4 DEF TokenRow, Instant
<1>3. TokensOK'
  <2>1. tokens' = Put(tokens, e, row)
    BY <1>1 DEF InsertToken
  <2> HIDE DEF row
  <2>2. /\ DOMAIN tokens' = DOMAIN tokens \cup {e}
        /\ tokens'[e] = row
        /\ \A k \in DOMAIN tokens \ {e} : tokens'[k] = tokens[k]
        /\ tokens' = [k \in DOMAIN tokens' |-> tokens'[k]]
    BY <2>1 DEF Put
  <2>3. \A k \in DOMAIN tokens' : tokens'[k] \in TokenRow
    BY <1>2, <2>2 DEF TypeOK
  <2> QED BY <2>2, <2>3 DEF TokensOK, TypeOK
<1>4. exchanges' \in [Exchanges -> ExchangeRecord]
  <2>1. PICK outcome \in {"token", "dropped"} :
          exchanges' = [exchanges EXCEPT ![e].status = outcome]
    BY DEF StoreToken
  <2> QED BY <2>1, ExchangeStatus DEF TypeOK, ExchangeEnd
<1> QED BY <1>3, <1>4 DEF StoreToken, TokensOK, TypeOK

LEMMA ReceiveIntrospectionType ==
  ASSUME TypeOK, NEW i \in Introspections, ReceiveIntrospection(i)
  PROVE  TypeOK'
<1>1. introspections' \in [Introspections -> IntrospectionRecord]
  <2>1. ASSUME NEW answer \in {"invalid_request", "inactive"},
               introspections' = [introspections EXCEPT ![i].status = answer]
        PROVE  introspections' \in [Introspections -> IntrospectionRecord]
    BY <2>1, IntrospectionStatus DEF TypeOK, IntrospectionEnd
  <2>2. ASSUME NEW t \in KnownTokens,
               introspections' = [introspections EXCEPT
                 ![i] = [status |-> "asking", token |-> t, earlier |-> AnswersOf(t)]]
        PROVE  introspections' \in [Introspections -> IntrospectionRecord]
    <3>1. t \in Exchanges \cup {Unknown} /\ AnswersOf(t) \subseteq {"revoked", "unrevoked"}
      BY DEF KnownTokens, AnswersOf
    <3>2. [status |-> "asking", token |-> t, earlier |-> AnswersOf(t)] \in IntrospectionRecord
      BY <3>1 DEF IntrospectionRecord
    <3> QED BY <2>2, <3>2 DEF TypeOK
  <2> QED BY <2>1, <2>2 DEF ReceiveIntrospection
<1> QED BY <1>1 DEF ReceiveIntrospection, tables, TypeOK

LEMMA ReceiveRevocationType ==
  ASSUME TypeOK, NEW r \in Revocations, ReceiveRevocation(r)
  PROVE  TypeOK'
<1>1. revocations' \in [Revocations -> RevocationRecord]
  <2>1. CASE revocations' = [revocations EXCEPT ![r].status = "unrevoked"]
    BY <2>1, RevocationStatus DEF TypeOK, RevocationEnd
  <2>2. ASSUME NEW t \in KnownTokens,
               revocations' = [revocations EXCEPT ![r] = [status |-> "revoking", token |-> t]]
        PROVE  revocations' \in [Revocations -> RevocationRecord]
    <3>1. [status |-> "revoking", token |-> t] \in RevocationRecord
      BY DEF RevocationRecord, KnownTokens
    <3> QED BY <2>2, <3>1 DEF TypeOK
  <2> QED BY <2>1, <2>2 DEF ReceiveRevocation
<1> QED BY <1>1 DEF ReceiveRevocation, tables, TypeOK

LEMMA RevokeType ==
  ASSUME TypeOK, NEW r \in Revocations, Revoke(r)
  PROVE  TypeOK'
<1> DEFINE t == revocations[r].token
<1>1. TokensOK'
  <2>1. CASE t \in DOMAIN tokens /\ tokens[t].revoked_at = Null
    <3>1. tokens' = [tokens EXCEPT ![t].revoked_at = now]
      BY <2>1 DEF Revoke, RevokeToken
    <3>2. tokens[t] \in TokenRow
      BY <2>1 DEF TypeOK
    <3>3. [tokens[t] EXCEPT !.revoked_at = now] \in TokenRow
      BY <3>2 DEF TokenRow, TypeOK
    <3> QED BY <2>1, <3>1, <3>3 DEF TokensOK, TypeOK
  <2>2. CASE ~(t \in DOMAIN tokens /\ tokens[t].revoked_at = Null)
    BY <2>2 DEF Revoke, RevokeToken, TokensOK, TypeOK
  <2> QED BY <2>1, <2>2
<1>2. revocations' \in [Revocations -> RevocationRecord]
  BY RevocationStatus DEF Revoke, TypeOK, RevocationEnd
<1> QED BY <1>1, <1>2 DEF Revoke, TokensOK, TypeOK

LEMMA RestartType ==
  ASSUME TypeOK, Restart
  PROVE  TypeOK'
<1>1. exchanges' \in [Exchanges -> ExchangeRecord]
  <2>1. ASSUME NEW e \in Exchanges PROVE exchanges'[e] \in ExchangeRecord
    <3>1. exchanges[e] \in ExchangeRecord
      BY DEF TypeOK
    <3>2. [exchanges[e] EXCEPT !.status = "dropped"] \in ExchangeRecord
      BY <3>1 DEF ExchangeRecord, ExchangeEnd
    <3> QED BY <3>1, <3>2 DEF Restart
  <2> QED BY <2>1 DEF Restart
<1>2. introspections' \in [Introspections -> IntrospectionRecord]
  <2>1. \A i \in Introspections : introspections'[i] \in IntrospectionRecord
    BY DEF Restart, TypeOK, IntrospectionRecord, IntrospectionEnd
  <2> QED BY <2>1 DEF Restart
<1>3. revocations' \in [Revocations -> RevocationRecord]
  <2>1. \A r \in Revocations : revocations'[r] \in RevocationRecord
    BY DEF Restart, TypeOK, RevocationRecord, RevocationEnd
  <2> QED BY <2>1 DEF Restart
<1> QED BY <1>1, <1>2, <1>3 DEF Restart, tables, TypeOK

-----------------------------------------------------------------------------
(* Every step keeps TypeOK *)

LEMMA NextType ==
  ASSUME TypeOK, ClaimsOK, [Next]_vars
  PROVE  TypeOK'
<1>1. CASE Tick
  BY <1>1 DEF Tick, tables, handlers, TypeOK, Instant
<1>2. ASSUME NEW c \in Codes, NEW g \in Grants, StoreCode(c, g)
      PROVE  TypeOK'
  BY <1>2, StoreCodeType
<1>3. ASSUME NEW e \in Exchanges,
             ReceiveExchange(e) \/ HandleExchange(e) \/ ExchangeStatementFails(e) \/ DropExchange(e)
      PROVE  TypeOK'
  <2>1. CASE ReceiveExchange(e)
    BY <2>1, ReceiveExchangeType
  <2>2. CASE ClaimCode(e)
    BY <2>2, ClaimCodeType
  <2>3. CASE FindCode(e) \/ RefuseCode(e)
    <3>1. PICK s \in {"claiming", "invalid_grant"} :
            exchanges' = [exchanges EXCEPT ![e].status = s]
      BY <2>3 DEF FindCode, RefuseCode
    <3>2. s \in {"idle"} \cup ExchangePending \cup ExchangeEnd
      BY DEF ExchangePending, ExchangeEnd
    <3>3. exchanges' \in [Exchanges -> ExchangeRecord]
      BY <3>1, <3>2, ExchangeStatus DEF TypeOK
    <3> QED BY <2>3, <3>3 DEF FindCode, RefuseCode, tables, TypeOK
  <2>4. CASE StoreToken(e)
    <3>1. exchanges[e] \in ExchangeRecord
      BY DEF TypeOK
    <3>2. exchanges[e].grant \in Grants
      BY <2>4, <3>1 DEF ClaimsOK, Claimed, StoreToken, ExchangeRecord
    <3> QED BY <2>4, <3>2, StoreTokenType
  <2>5. CASE ExchangeStatementFails(e)
    <3>1. exchanges' \in [Exchanges -> ExchangeRecord]
      BY <2>5, ExchangeStatus DEF ExchangeStatementFails, TypeOK, ExchangeEnd
    <3> QED BY <2>5, <3>1 DEF ExchangeStatementFails, tables, TypeOK
  <2>6. CASE DropExchange(e)
    <3>1. exchanges' \in [Exchanges -> ExchangeRecord]
      BY <2>6, ExchangeStatus DEF DropExchange, TypeOK, ExchangeEnd
    <3> QED BY <2>6, <3>1 DEF DropExchange, tables, TypeOK
  <2> QED BY <1>3, <2>1, <2>2, <2>3, <2>4, <2>5, <2>6 DEF HandleExchange
<1>4. ASSUME NEW i \in Introspections,
             ReceiveIntrospection(i) \/ AnswerIntrospection(i) \/ IntrospectionStatementFails(i)
      PROVE  TypeOK'
  <2>1. CASE ReceiveIntrospection(i)
    BY <2>1, ReceiveIntrospectionType
  <2>2. CASE AnswerIntrospection(i)
    <3>1. introspections' \in [Introspections -> IntrospectionRecord]
      BY <2>2, IntrospectionStatus DEF AnswerIntrospection, TypeOK, IntrospectionEnd
    <3> QED BY <2>2, <3>1 DEF AnswerIntrospection, tables, TypeOK
  <2>3. CASE IntrospectionStatementFails(i)
    <3>1. introspections' \in [Introspections -> IntrospectionRecord]
      BY <2>3, IntrospectionStatus DEF IntrospectionStatementFails, TypeOK, IntrospectionEnd
    <3> QED BY <2>3, <3>1 DEF IntrospectionStatementFails, tables, TypeOK
  <2> QED BY <1>4, <2>1, <2>2, <2>3
<1>5. ASSUME NEW r \in Revocations,
             ReceiveRevocation(r) \/ Revoke(r) \/ RevocationStatementFails(r)
      PROVE  TypeOK'
  <2>1. CASE RevocationStatementFails(r)
    <3>1. revocations' \in [Revocations -> RevocationRecord]
      BY <2>1, RevocationStatus DEF RevocationStatementFails, TypeOK, RevocationEnd
    <3> QED BY <2>1, <3>1 DEF RevocationStatementFails, tables, TypeOK
  <2> QED BY <1>5, <2>1, ReceiveRevocationType, RevokeType
<1>6. CASE Restart
  BY <1>6, RestartType
<1>7. CASE UNCHANGED vars
  BY <1>7 DEF vars, tables, handlers, TypeOK
<1> QED BY <1>1, <1>2, <1>3, <1>4, <1>5, <1>6, <1>7 DEF Next, Operate, Fail

-----------------------------------------------------------------------------
(* Every step keeps the claims *)

\* What every step but a claim does: it writes no row of a code, lets no request that
\* has a claim go back, nor one that has none go on, and finds only usable codes.
KeepsClaims ==
  /\ now <= now'
  /\ \A c \in DOMAIN codes : c \in DOMAIN codes' /\ codes'[c] = codes[c]
  /\ \A e \in Exchanges :
       /\ exchanges'[e].grant = exchanges[e].grant
       /\ Claimed(e) => /\ exchanges'[e].code = exchanges[e].code
                        /\ exchanges'[e].received = exchanges[e].received
                        /\ exchanges'[e].since = exchanges[e].since
                        /\ exchanges'[e].status \notin {"idle", "redeeming", "claiming"}
       /\ ~Claimed(e) => exchanges'[e].status # "storing"
       /\ exchanges'[e].status = "redeeming" => exchanges'[e].received <= now'
       /\ exchanges'[e].status = "claiming" => /\ exchanges'[e].code = exchanges[e].code
                                              /\ exchanges'[e].received = exchanges[e].received
                                              /\ FoundOK(e)
  /\ OneAtATime'

LEMMA KeptClaims ==
  ASSUME ClaimInv, TypeOK', KeepsClaims
  PROVE  ClaimsOK' /\ OneAtATime' /\ OneClaimPerCode'
<1>1. \A e \in Exchanges : Claimed(e)' <=> Claimed(e)
  BY DEF KeepsClaims, Claimed
<1>2. ASSUME NEW e \in Exchanges, Claimed(e)
      PROVE  ClaimOK(e)'
  <2>1. ClaimOK(e)
    BY <1>2 DEF ClaimInv, ClaimsOK
  <2>2. exchanges[e].since \in Nat /\ now \in Nat /\ now' \in Nat
    BY DEF ClaimInv, TypeOK, ExchangeRecord, Instant
  <2> QED BY <1>2, <2>1, <2>2 DEF ClaimOK, KeepsClaims
<1>3. ASSUME NEW e \in Exchanges, exchanges'[e].status = "claiming"
      PROVE  FoundOK(e)'
  BY <1>3 DEF FoundOK, KeepsClaims
<1>4. ClaimsOK'
  BY <1>1, <1>2, <1>3 DEF ClaimsOK, KeepsClaims
<1>5. OneClaimPerCode'
  BY <1>1 DEF OneClaimPerCode, ClaimInv, KeepsClaims
<1> QED BY <1>4, <1>5 DEF KeepsClaims

\* The claim itself: the row was unused, so nobody had claimed it.
LEMMA ClaimCodeClaims ==
  ASSUME ClaimInv, TypeOK', NEW e \in Exchanges, ClaimCode(e)
  PROVE  ClaimsOK' /\ OneAtATime' /\ OneClaimPerCode'
<1> DEFINE code == exchanges[e].code
           answer == AfterRedeem(exchanges[e].form, codes[code].grant)
<1>1. /\ code \in DOMAIN codes /\ codes[code] \in CodeRow
      /\ codes[code].used_at = Null /\ exchanges[e].received < codes[code].expires_at
      /\ codes' = [codes EXCEPT ![code].used_at = now]
      /\ exchanges' = [exchanges EXCEPT ![e] =
           [exchanges[e] EXCEPT !.status = answer, !.grant = codes[code].grant, !.since = now]]
      /\ now' = now
  BY ClaimCodeEffect DEF ClaimInv
<1>2. /\ DOMAIN codes' = DOMAIN codes
      /\ codes'[code] = [codes[code] EXCEPT !.used_at = now]
      /\ \A c \in DOMAIN codes \ {code} : codes'[c] = codes[c]
  BY <1>1
<1>3. /\ exchanges'[e].status \notin {"idle", "redeeming", "claiming"}
      /\ exchanges'[e].grant = codes[code].grant
      /\ exchanges'[e].code = code
      /\ exchanges'[e].received = exchanges[e].received
      /\ exchanges'[e].since = now
      /\ \A f \in Exchanges \ {e} : exchanges'[f] = exchanges[f]
  BY <1>1 DEF AfterRedeem, ClaimInv, TypeOK, ExchangeRecord
<1>4. now \in Nat
  BY DEF ClaimInv, TypeOK, Instant
<1>5. \A f \in Exchanges : Claimed(f) => exchanges[f].code # code
  <2> SUFFICES ASSUME NEW f \in Exchanges, Claimed(f), exchanges[f].code = code
               PROVE  FALSE
    OBVIOUS
  <2>1. codes[code].used_at \in 0 .. exchanges[f].since
    BY DEF ClaimInv, ClaimsOK, ClaimOK
  <2>2. exchanges[f].since \in Nat
    BY DEF ClaimInv, TypeOK, ExchangeRecord, Instant
  <2> QED BY <1>1, <2>1, <2>2 DEF Null
<1>6. ClaimOK(e)' /\ Claimed(e)'
  <2>1. codes'[code].grant = codes[code].grant /\ codes'[code].used_at = now
        /\ codes'[code].expires_at = codes[code].expires_at
    BY <1>1, <1>2 DEF CodeRow
  <2>2. codes[code].grant # Unknown
    BY <1>1, UnknownAssumption DEF CodeRow
  <2>3. Claimed(e)'
    BY <1>3, <2>2 DEF Claimed
  <2>4. /\ exchanges'[e].code \in DOMAIN codes'
        /\ codes'[exchanges'[e].code].grant = exchanges'[e].grant
    BY <1>1, <1>2, <1>3, <2>1
  <2>5. codes'[exchanges'[e].code].used_at \in 0 .. exchanges'[e].since
    BY <1>3, <1>4, <2>1
  <2>6. exchanges'[e].received < codes'[exchanges'[e].code].expires_at
    BY <1>1, <1>3, <2>1
  <2>7. exchanges'[e].since <= now'
    BY <1>1, <1>3, <1>4
  <2> QED BY <2>3, <2>4, <2>5, <2>6, <2>7 DEF ClaimOK
<1>7. ASSUME NEW f \in Exchanges \ {e}
      PROVE  /\ Claimed(f)' <=> Claimed(f)
             /\ Claimed(f) => ClaimOK(f)'
             /\ exchanges'[f].status # "claiming"
  <2>1. Claimed(f)' <=> Claimed(f)
    BY <1>3 DEF Claimed
  <2>2. ASSUME Claimed(f) PROVE ClaimOK(f)'
    <3>1. ClaimOK(f) /\ exchanges[f].code # code
      BY <1>5, <2>2 DEF ClaimInv, ClaimsOK
    <3> QED BY <1>1, <1>2, <1>3, <3>1 DEF ClaimOK
  <2>3. exchanges'[f].status # "claiming"
    BY <1>3 DEF ClaimCode, ClaimInv, OneAtATime
  <2> QED BY <2>1, <2>2, <2>3
<1> HIDE DEF code, answer
<1>8. ClaimsOK'
  <2>1. ASSUME NEW f \in Exchanges \ {e}
        PROVE  /\ exchanges'[f].status \in {"idle", "redeeming"} => ~Claimed(f)
               /\ exchanges'[f].status = "redeeming" => exchanges'[f].received <= now'
               /\ exchanges'[f].status = "storing" => Claimed(f)
    BY <1>1, <1>3 DEF ClaimInv, ClaimsOK
  <2> QED BY <1>3, <1>6, <1>7, <2>1 DEF ClaimsOK
<1>9. OneClaimPerCode'
  BY <1>3, <1>5, <1>7 DEF OneClaimPerCode, ClaimInv
<1>10. OneAtATime'
  BY <1>3, <1>7 DEF OneAtATime
<1> QED BY <1>8, <1>9, <1>10

\* A step that moves no request to "claiming" keeps OneAtATime.
LEMMA NoNewRedemption ==
  ASSUME OneAtATime,
         \A e \in Exchanges :
           exchanges'[e].status = "claiming" => exchanges[e].status = "claiming"
  PROVE  OneAtATime'
BY DEF OneAtATime

LEMMA ExchangeKeepsClaims ==
  ASSUME ClaimInv, NEW e \in Exchanges,
         \/ ReceiveExchange(e) \/ FindCode(e) \/ RefuseCode(e) \/ StoreToken(e)
         \/ ExchangeStatementFails(e) \/ DropExchange(e)
  PROVE  KeepsClaims
<1> USE DEF ClaimInv
<1>1. now' = now /\ codes' = codes /\ now \in Int
  <2>1. UNCHANGED <<now, codes>>
    BY DEF ReceiveExchange, FindCode, RefuseCode, StoreToken, ExchangeStatementFails,
           DropExchange, tables
  <2> QED BY <2>1 DEF TypeOK, Instant
<1>2. \A f \in Exchanges \ {e} : exchanges'[f] = exchanges[f]
  BY DEF ReceiveExchange, FindCode, RefuseCode, StoreToken, ExchangeStatementFails,
         DropExchange, TypeOK
<1>3. exchanges[e] \in ExchangeRecord
  BY DEF TypeOK
<1> DEFINE Kept ==
      /\ exchanges'[e].grant = exchanges[e].grant
      /\ Claimed(e) => /\ exchanges'[e].code = exchanges[e].code
                       /\ exchanges'[e].received = exchanges[e].received
                       /\ exchanges'[e].since = exchanges[e].since
                       /\ exchanges'[e].status \notin {"idle", "redeeming", "claiming"}
      /\ ~Claimed(e) => exchanges'[e].status # "storing"
      /\ exchanges'[e].status = "redeeming" => exchanges'[e].received <= now
      /\ exchanges'[e].status = "claiming" => /\ exchanges'[e].code = exchanges[e].code
                                             /\ exchanges'[e].received = exchanges[e].received
                                             /\ FoundOK(e)
      /\ OneAtATime'
<1>4. Kept
  <2>1. CASE ReceiveExchange(e)
    <3>1. ~Claimed(e) /\ exchanges[e].status = "idle"
      BY <2>1 DEF ReceiveExchange, ClaimsOK
    <3>2. CASE exchanges' = [exchanges EXCEPT ![e].status = "invalid_request"]
      BY <1>2, <1>3, <3>1, <3>2, NoNewRedemption DEF TypeOK, ExchangeRecord
    <3>3. ASSUME NEW form \in Forms, NEW code \in KnownCodes,
                 exchanges' = [exchanges EXCEPT
                   ![e] = IF form.grant_type # "authorization_code"
                          THEN [@ EXCEPT !.status = "unsupported_grant_type"]
                          ELSE [@ EXCEPT !.status = "redeeming", !.form = form, !.code = code,
                                         !.received = now]]
          PROVE  Kept
      <4>1. /\ exchanges'[e].grant = exchanges[e].grant
            /\ exchanges'[e].status \notin {"claiming", "storing"}
            /\ exchanges'[e].status = "redeeming" => exchanges'[e].received = now
        BY <1>3, <3>3 DEF TypeOK, ExchangeRecord
      <4> QED BY <1>1, <1>2, <3>1, <4>1, NoNewRedemption
    <3> QED BY <2>1, <3>1, <3>2, <3>3 DEF ReceiveExchange
  <2>2. CASE FindCode(e)
    <3>1. /\ exchanges[e].status = "redeeming" /\ exchanges'[e].status = "claiming"
          /\ exchanges'[e].grant = exchanges[e].grant
          /\ exchanges'[e].code = exchanges[e].code
          /\ exchanges'[e].received = exchanges[e].received
      BY <1>3, <2>2 DEF FindCode, TypeOK, ExchangeRecord
    <3>2. ~Claimed(e) /\ exchanges[e].received <= now
      BY <3>1 DEF ClaimsOK
    <3>3. FoundOK(e)
      <4>1. /\ exchanges[e].code \in DOMAIN codes
            /\ codes[exchanges[e].code].used_at = Null
            /\ ~(codes[exchanges[e].code].expires_at <= now)
        BY <2>2 DEF FindCode, Redeemable, IsPast
      <4>2. codes[exchanges[e].code].expires_at \in Nat /\ now \in Nat
            /\ exchanges[e].received \in Nat
        BY <1>3, <4>1 DEF TypeOK, CodeRow, ExchangeRecord, Instant
      <4> QED BY <3>2, <4>1, <4>2 DEF FoundOK
    <3>4. OneAtATime'
      BY <1>2, <2>2 DEF FindCode, Free, OneAtATime
    <3> QED BY <3>1, <3>2, <3>3, <3>4
  <2>3. CASE RefuseCode(e) \/ StoreToken(e) \/ ExchangeStatementFails(e) \/ DropExchange(e)
    <3>1. /\ exchanges[e].status \in ExchangePending
          /\ exchanges'[e].status \in ExchangeEnd
          /\ exchanges'[e].grant = exchanges[e].grant
          /\ exchanges'[e].code = exchanges[e].code
          /\ exchanges'[e].received = exchanges[e].received
          /\ exchanges'[e].since = exchanges[e].since
      BY <1>3, <2>3 DEF RefuseCode, StoreToken, ExchangeStatementFails, DropExchange,
                        TypeOK, ExchangeRecord, ExchangePending, ExchangeEnd
    <3>2. OneAtATime'
      BY <1>2, <3>1, NoNewRedemption DEF ExchangeEnd
    <3> QED BY <3>1, <3>2 DEF ExchangeEnd
  <2> QED BY <2>1, <2>2, <2>3
<1>5. ASSUME NEW f \in Exchanges \ {e}
      PROVE  /\ Claimed(f) => exchanges[f].status \notin {"idle", "redeeming", "claiming"}
             /\ ~Claimed(f) => exchanges[f].status # "storing"
             /\ exchanges[f].status = "redeeming" => exchanges[f].received <= now
             /\ exchanges[f].status = "claiming" => FoundOK(f)
  BY DEF ClaimsOK
<1> QED BY <1>1, <1>2, <1>4, <1>5 DEF KeepsClaims

LEMMA NextKeepsClaims ==
  ASSUME ClaimInv, [Next]_vars, \A e \in Exchanges : ~ClaimCode(e)
  PROVE  KeepsClaims
<1> USE DEF ClaimInv
<1>0. now \in Int /\ \A e \in Exchanges : exchanges[e].received \in Int
  BY DEF TypeOK, ExchangeRecord, Instant
<1>1. CASE Tick
  BY <1>0, <1>1, NoNewRedemption DEF Tick, tables, handlers, KeepsClaims, ClaimsOK, Claimed
<1>2. ASSUME NEW c \in Codes, NEW g \in Grants, StoreCode(c, g)
      PROVE  KeepsClaims
  BY <1>0, <1>2, NoNewRedemption
  DEF StoreCode, InsertCode, Put, handlers, KeepsClaims, ClaimsOK, Claimed
<1>3. ASSUME NEW e \in Exchanges,
             ReceiveExchange(e) \/ HandleExchange(e) \/ ExchangeStatementFails(e) \/ DropExchange(e)
      PROVE  KeepsClaims
  BY <1>3, ExchangeKeepsClaims DEF HandleExchange
<1>4. ASSUME UNCHANGED <<now, codes, exchanges>>
      PROVE  KeepsClaims
  BY <1>0, <1>4, NoNewRedemption DEF KeepsClaims, ClaimsOK
<1>5. CASE Restart
  <2>1. \A e \in Exchanges :
          /\ exchanges'[e].grant = exchanges[e].grant
          /\ exchanges'[e].code = exchanges[e].code
          /\ exchanges'[e].received = exchanges[e].received
          /\ exchanges'[e].since = exchanges[e].since
          /\ exchanges'[e].status \notin ExchangePending
          /\ exchanges'[e].status = "idle" => exchanges[e].status = "idle"
    BY <1>5 DEF Restart, ExchangePending, TypeOK, ExchangeRecord
  <2>2. OneAtATime'
    BY <2>1, NoNewRedemption DEF ExchangePending
  <2> QED BY <1>0, <1>5, <2>1, <2>2 DEF Restart, tables, KeepsClaims, ClaimsOK, ExchangePending
<1>6. ASSUME NEW i \in Introspections,
             ReceiveIntrospection(i) \/ AnswerIntrospection(i) \/ IntrospectionStatementFails(i)
      PROVE  KeepsClaims
  BY <1>4, <1>6 DEF ReceiveIntrospection, AnswerIntrospection, IntrospectionStatementFails, tables
<1>7. ASSUME NEW r \in Revocations,
             ReceiveRevocation(r) \/ Revoke(r) \/ RevocationStatementFails(r)
      PROVE  KeepsClaims
  BY <1>4, <1>7 DEF ReceiveRevocation, Revoke, RevocationStatementFails, tables
<1>8. CASE UNCHANGED vars
  BY <1>4, <1>8 DEF vars, tables, handlers
<1> QED BY <1>1, <1>2, <1>3, <1>5, <1>6, <1>7, <1>8 DEF Next, Operate, Fail

LEMMA ClaimInvInductive ==
  /\ Init => ClaimInv
  /\ ClaimInv /\ [Next]_vars => ClaimInv'
<1>1. ASSUME Init PROVE ClaimInv
  <2>1. ClaimsOK /\ OneAtATime /\ OneClaimPerCode
    BY <1>1 DEF Init, ClaimsOK, OneAtATime, OneClaimPerCode, Claimed
  <2> QED BY <1>1, <2>1, InitType DEF ClaimInv
<1>2. ASSUME ClaimInv, [Next]_vars PROVE ClaimInv'
  <2>1. TypeOK'
    BY <1>2, NextType DEF ClaimInv
  <2>2. CASE \E e \in Exchanges : ClaimCode(e)
    BY <1>2, <2>1, <2>2, ClaimCodeClaims DEF ClaimInv
  <2>3. CASE \A e \in Exchanges : ~ClaimCode(e)
    BY <1>2, <2>1, <2>3, NextKeepsClaims, KeptClaims DEF ClaimInv
  <2> QED BY <2>2, <2>3
<1> QED BY <1>1, <1>2

\* Every table row and every handler record is well typed in every reachable state.
THEOREM TypeCorrect == Spec => []TypeOK
<1>1. ClaimInv => TypeOK
  BY DEF ClaimInv
<1> QED BY <1>1, ClaimInvInductive, PTL DEF Spec

\* However many token requests present a code, in any order, and through any failure,
\* at most one of them claims it (redeem_code).
THEOREM SingleClaim == Spec => []OneClaimPerCode
<1>1. ClaimInv => OneClaimPerCode
  BY DEF ClaimInv
<1> QED BY <1>1, ClaimInvInductive, PTL DEF Spec

-----------------------------------------------------------------------------
(* Tokens are authorized *)

\* The steps of one token request that write no token.
LEMMA ExchangeTokens ==
  ASSUME ClaimInv, TokensInv, NEW e \in Exchanges,
         ReceiveExchange(e) \/ FindCode(e) \/ ClaimCode(e) \/ RefuseCode(e)
           \/ ExchangeStatementFails(e) \/ DropExchange(e)
  PROVE  TokensInv'
<1>1. tokens' = tokens
  BY DEF ReceiveExchange, FindCode, ClaimCode, RefuseCode, ExchangeStatementFails, DropExchange, tables
<1>2. \A f \in Exchanges \ {e} : exchanges'[f] = exchanges[f]
  BY DEF ReceiveExchange, FindCode, ClaimCode, RefuseCode, ExchangeStatementFails, DropExchange,
         ClaimInv, TypeOK
<1>3. e \notin DOMAIN tokens
  BY DEF ReceiveExchange, FindCode, ClaimCode, RefuseCode, ExchangeStatementFails, DropExchange,
         TokensInv, ExchangePending
<1>4. exchanges[e] \in ExchangeRecord
  BY DEF ClaimInv, TypeOK
<1>5. exchanges'[e].status # "token" /\ (exchanges'[e].status = "storing" => MayStore(e)')
  <2>1. CASE ReceiveExchange(e)
    <3>1. CASE exchanges' = [exchanges EXCEPT ![e].status = "invalid_request"]
      BY <1>4, <3>1 DEF ClaimInv, TypeOK, ExchangeRecord
    <3>2. ASSUME NEW form \in Forms, NEW code \in KnownCodes,
                 exchanges' = [exchanges EXCEPT
                   ![e] = IF form.grant_type # "authorization_code"
                          THEN [@ EXCEPT !.status = "unsupported_grant_type"]
                          ELSE [@ EXCEPT !.status = "redeeming", !.form = form, !.code = code,
                                         !.received = now]]
          PROVE  exchanges'[e].status \notin {"token", "storing"}
      BY <1>4, <3>2 DEF ClaimInv, TypeOK, ExchangeRecord
    <3> QED BY <2>1, <3>1, <3>2 DEF ReceiveExchange
  <2>2. CASE ClaimCode(e)
    <3> DEFINE g == codes[exchanges[e].code].grant
    <3>1. /\ exchanges'[e].status = AfterRedeem(exchanges[e].form, g)
          /\ exchanges'[e].grant = g
          /\ exchanges'[e].form = exchanges[e].form
      <4>1. exchanges' = [exchanges EXCEPT ![e] =
              [exchanges[e] EXCEPT !.status = AfterRedeem(exchanges[e].form, g),
                                   !.grant = g, !.since = now]]
        BY <2>2, ClaimCodeEffect DEF ClaimInv
      <4> HIDE DEF g
      <4> QED BY <1>4, <4>1 DEF ClaimInv, TypeOK, ExchangeRecord
    <3>2. codes[exchanges[e].code] \in CodeRow
      BY <2>2, ClaimCodeEffect DEF ClaimInv
    <3>3. g # Unknown
      BY <3>2, UnknownAssumption DEF CodeRow
    <3>4. AfterRedeem(exchanges[e].form, g) # "token"
      BY DEF AfterRedeem
    <3>5. ASSUME AfterRedeem(exchanges[e].form, g) = "storing"
          PROVE  FormMatches(exchanges[e].form, g) /\ Request[g].scope # {}
      BY <3>5 DEF AfterRedeem
    <3> HIDE DEF g
    <3> QED BY <3>1, <3>3, <3>4, <3>5 DEF MayStore, Claimed, FormMatches
  <2>3. CASE FindCode(e) \/ RefuseCode(e) \/ ExchangeStatementFails(e) \/ DropExchange(e)
    BY <1>4, <2>3 DEF FindCode, RefuseCode, ExchangeStatementFails, DropExchange, ClaimInv, TypeOK,
                      ExchangeRecord
  <2> QED BY <2>1, <2>2, <2>3
<1>6. \A f \in Exchanges \ {e} : MayStore(f)' <=> MayStore(f)
  BY <1>2 DEF MayStore, Claimed, FormMatches
<1>7. DOMAIN tokens \subseteq Exchanges \ {e}
  BY <1>3 DEF ClaimInv, TypeOK
<1> QED BY <1>1, <1>2, <1>3, <1>5, <1>6, <1>7 DEF TokensInv

LEMMA StoreTokenTokens ==
  ASSUME ClaimInv, TokensInv, NEW e \in Exchanges, StoreToken(e)
  PROVE  TokensInv'
<1> DEFINE request == Request[exchanges[e].grant]
<1>1. PICK computed \in exchanges[e].since .. now :
        tokens' = InsertToken(tokens, e, request.client_id, request.scope,
                              computed + TokenTTL, now)
  BY DEF StoreToken
<1> DEFINE row == [client_id |-> request.client_id, scope |-> request.scope,
                   created_at |-> now, expires_at |-> computed + TokenTTL,
                   revoked_at |-> Null]
<1>2. /\ DOMAIN tokens' = DOMAIN tokens \cup {e}
      /\ tokens'[e] = row
      /\ \A t \in DOMAIN tokens \ {e} : tokens'[t] = tokens[t]
  BY <1>1 DEF InsertToken, Put
<1>3. MayStore(e)
  BY DEF StoreToken, TokensInv
<1>4. exchanges[e].since <= now
  BY <1>3 DEF MayStore, ClaimInv, ClaimsOK, ClaimOK
<1>5. /\ exchanges'[e].status \in {"token", "dropped"}
      /\ exchanges'[e].grant = exchanges[e].grant
      /\ exchanges'[e].form = exchanges[e].form
      /\ exchanges'[e].since = exchanges[e].since
      /\ \A f \in Exchanges \ {e} : exchanges'[f] = exchanges[f]
  BY DEF StoreToken, ClaimInv, TypeOK, ExchangeRecord
<1>6. \A f \in Exchanges : MayStore(f)' <=> MayStore(f)
  BY <1>5 DEF MayStore, Claimed, FormMatches
<1>7. DOMAIN tokens \subseteq Exchanges
  BY DEF ClaimInv, TypeOK
<1>8. ASSUME NEW f \in Exchanges
      PROVE  /\ exchanges'[f].status = "storing" => MayStore(f)'
             /\ exchanges'[f].status \in {"idle"} \cup ExchangePending => f \notin DOMAIN tokens'
             /\ exchanges'[f].status = "token" => f \in DOMAIN tokens'
  BY <1>2, <1>5, <1>6 DEF TokensInv, ExchangePending
<1>9. ASSUME NEW t \in DOMAIN tokens'
      PROVE  /\ MayStore(t)'
             /\ exchanges'[t].since <= tokens'[t].created_at
             /\ tokens'[t].client_id = Request[exchanges'[t].grant].client_id
             /\ tokens'[t].scope = Request[exchanges'[t].grant].scope
  <2>1. CASE t = e
    BY <1>2, <1>3, <1>4, <1>5, <1>6, <2>1
  <2>2. CASE t # e
    BY <1>2, <1>5, <1>6, <1>7, <2>2 DEF TokensInv
  <2> QED BY <2>1, <2>2
<1> QED BY <1>8, <1>9 DEF TokensInv

LEMMA RevokeTokens ==
  ASSUME ClaimInv, TokensInv, NEW r \in Revocations, Revoke(r)
  PROVE  TokensInv'
<1> DEFINE t == revocations[r].token
<1>1. exchanges' = exchanges
  BY DEF Revoke
<1>2. DOMAIN tokens' = DOMAIN tokens
  BY DEF Revoke, RevokeToken
<1>3. \A u \in DOMAIN tokens : /\ tokens'[u].created_at = tokens[u].created_at
                               /\ tokens'[u].client_id = tokens[u].client_id
                               /\ tokens'[u].scope = tokens[u].scope
  BY DEF Revoke, RevokeToken, ClaimInv, TypeOK, TokenRow
<1> QED BY <1>1, <1>2, <1>3 DEF TokensInv, MayStore, Claimed

LEMMA RestartTokens ==
  ASSUME ClaimInv, TokensInv, Restart
  PROVE  TokensInv'
<1>1. tokens' = tokens
  BY DEF Restart, tables
<1>2. \A e \in Exchanges :
        /\ exchanges'[e].grant = exchanges[e].grant
        /\ exchanges'[e].form = exchanges[e].form
        /\ exchanges'[e].since = exchanges[e].since
        /\ exchanges'[e].status \notin ExchangePending
        /\ exchanges'[e].status \in {"idle", "token"} => exchanges'[e].status = exchanges[e].status
  BY DEF Restart, ClaimInv, TypeOK, ExchangeRecord, ExchangePending
<1>3. \A e \in Exchanges : MayStore(e)' <=> MayStore(e)
  BY <1>2 DEF MayStore, Claimed, FormMatches
<1>4. DOMAIN tokens \subseteq Exchanges
  BY DEF ClaimInv, TypeOK
<1> QED BY <1>1, <1>2, <1>3, <1>4 DEF TokensInv, ExchangePending

LEMMA TokensStep ==
  ASSUME ClaimInv, TokensInv, [Next]_vars
  PROVE  TokensInv'
<1>1. ASSUME UNCHANGED <<tokens, exchanges>> PROVE TokensInv'
  BY <1>1 DEF TokensInv, MayStore, Claimed
<1>2. CASE Tick \/ UNCHANGED vars
  BY <1>1, <1>2 DEF Tick, vars, tables, handlers
<1>3. ASSUME NEW c \in Codes, NEW g \in Grants, StoreCode(c, g) PROVE TokensInv'
  BY <1>1, <1>3 DEF StoreCode, handlers
<1>4. ASSUME NEW e \in Exchanges,
             ReceiveExchange(e) \/ HandleExchange(e) \/ ExchangeStatementFails(e) \/ DropExchange(e)
      PROVE  TokensInv'
  BY <1>4, ExchangeTokens, StoreTokenTokens DEF HandleExchange
<1>5. ASSUME NEW i \in Introspections,
             ReceiveIntrospection(i) \/ AnswerIntrospection(i) \/ IntrospectionStatementFails(i)
      PROVE  TokensInv'
  BY <1>1, <1>5 DEF ReceiveIntrospection, AnswerIntrospection, IntrospectionStatementFails, tables
<1>6. ASSUME NEW r \in Revocations, ReceiveRevocation(r) \/ RevocationStatementFails(r)
      PROVE  TokensInv'
  BY <1>1, <1>6 DEF ReceiveRevocation, RevocationStatementFails, tables
<1>7. ASSUME NEW r \in Revocations, Revoke(r) PROVE TokensInv'
  BY <1>7, RevokeTokens
<1>8. CASE Restart
  BY <1>8, RestartTokens
<1> QED BY <1>2, <1>3, <1>4, <1>5, <1>6, <1>7, <1>8 DEF Next, Operate, Fail

LEMMA InvariantsImplyAuthorized == ClaimInv /\ TokensInv => TokensAreAuthorized
<1> SUFFICES ASSUME ClaimInv, TokensInv, NEW t \in DOMAIN tokens
             PROVE  LET e == exchanges[t]
                        request == Request[e.grant]
                    IN /\ Claimed(t)
                       /\ e.code \in DOMAIN codes
                       /\ codes[e.code].grant = e.grant
                       /\ codes[e.code].used_at \in 0 .. tokens[t].created_at
                       /\ e.received < codes[e.code].expires_at
                       /\ tokens[t].client_id = request.client_id
                       /\ tokens[t].scope = request.scope
                       /\ request.scope # {}
                       /\ e.form.redirect_uri = request.redirect_uri
                       /\ S256(e.form.code_verifier) = request.code_challenge
  BY DEF TokensAreAuthorized
<1>1. t \in Exchanges /\ MayStore(t)
  BY DEF TokensInv, ClaimInv, TypeOK
<1>2. ClaimOK(t)
  BY <1>1 DEF MayStore, ClaimInv, ClaimsOK
<1>3. exchanges[t].since \in Nat /\ tokens[t].created_at \in Nat
  BY <1>1 DEF ClaimInv, TypeOK, ExchangeRecord, TokenRow, Instant
<1>4. codes[exchanges[t].code].used_at \in 0 .. tokens[t].created_at
  BY <1>2, <1>3 DEF ClaimOK, TokensInv
<1> QED BY <1>1, <1>2, <1>4 DEF MayStore, ClaimOK, FormMatches, TokensInv

LEMMA TokensInductive == Spec => []TokensInv
<1>1. Init => TokensInv
  BY DEF Init, TokensInv, ExchangePending
<1>2. ClaimInv /\ TokensInv /\ [Next]_vars => TokensInv'
  BY TokensStep
<1> QED BY <1>1, <1>2, ClaimInvInductive, PTL DEF Spec

\* Every stored token goes back to one code, claimed by a request that came in time and
\* had the redirect URI and the verifier the code was issued for (token.rs).
THEOREM Authorized == Spec => []TokensAreAuthorized
<1> QED BY TokensInductive, ClaimInvInductive, InvariantsImplyAuthorized, PTL DEF Spec

-----------------------------------------------------------------------------
(* Revocation is final *)

\* No step removes a token or clears its revocation.
LEMMA RevokedRowsStay ==
  ASSUME ClaimInv, TokensInv, [Next]_vars, NEW t \in DOMAIN tokens
  PROVE  /\ t \in DOMAIN tokens'
         /\ tokens[t].revoked_at # Null => tokens'[t].revoked_at # Null
<1>1. ASSUME NEW e \in Exchanges, StoreToken(e)
      PROVE  t \in DOMAIN tokens' /\ tokens'[t] = tokens[t]
  <2>1. e \notin DOMAIN tokens
    BY <1>1 DEF StoreToken, TokensInv, ExchangePending
  <2> QED BY <1>1, <2>1 DEF StoreToken, InsertToken, Put
<1>2. ASSUME NEW r \in Revocations, Revoke(r)
      PROVE  /\ t \in DOMAIN tokens'
             /\ tokens[t].revoked_at # Null => tokens'[t].revoked_at # Null
  BY <1>2 DEF Revoke, RevokeToken
<1>3. CASE UNCHANGED tokens
  BY <1>3
<1>4. \/ \E e \in Exchanges : StoreToken(e)
      \/ \E r \in Revocations : Revoke(r)
      \/ UNCHANGED tokens
  BY DEF Next, Operate, Fail, Tick, StoreCode, ReceiveExchange, HandleExchange, FindCode, ClaimCode,
         RefuseCode, ReceiveIntrospection, AnswerIntrospection, ReceiveRevocation,
         ExchangeStatementFails, DropExchange, IntrospectionStatementFails,
         RevocationStatementFails, Restart, vars, tables, handlers
<1> QED BY <1>1, <1>2, <1>3, <1>4

\* The record of revocation r says what it may.
RevocationOK(r) ==
  LET t == revocations[r].token IN
  /\ t # Unknown => t \in DOMAIN tokens
  /\ t # Unknown /\ revocations[r].status = "revoked" => tokens[t].revoked_at # Null

\* A request that does not move keeps saying so.
LEMMA RevocationStays ==
  ASSUME ClaimInv, TokensInv, [Next]_vars, NEW r \in Revocations, RevocationOK(r),
         revocations'[r].token = revocations[r].token,
         revocations'[r].status = "revoked" => revocations[r].status = "revoked"
  PROVE  RevocationOK(r)'
BY RevokedRowsStay DEF RevocationOK

LEMMA RevocationStep ==
  ASSUME ClaimInv, TokensInv, RevocationInv, [Next]_vars
  PROVE  \A r \in Revocations : RevocationOK(r)'
<1> SUFFICES ASSUME NEW r \in Revocations PROVE RevocationOK(r)'
  OBVIOUS
<1>0. RevocationOK(r) /\ revocations[r] \in RevocationRecord
  BY DEF RevocationInv, RevocationOK, ClaimInv, TypeOK
<1>1. CASE UNCHANGED revocations
  BY <1>0, <1>1, RevocationStays
<1>2. ASSUME NEW q \in Revocations, ReceiveRevocation(q) PROVE RevocationOK(r)'
  <2>1. CASE revocations' = [revocations EXCEPT ![q].status = "unrevoked"]
    BY <1>0, <2>1, RevocationStays DEF ClaimInv, TypeOK, RevocationRecord
  <2>2. ASSUME NEW t \in KnownTokens,
               revocations' = [revocations EXCEPT ![q] = [status |-> "revoking", token |-> t]]
        PROVE  RevocationOK(r)'
    <3>1. CASE r = q
      <4>1. t # Unknown => t \in DOMAIN tokens'
        BY <1>2 DEF KnownTokens, TokensInv, ReceiveRevocation, tables
      <4> QED BY <2>2, <3>1, <4>1 DEF RevocationOK, ClaimInv, TypeOK
    <3>2. CASE r # q
      BY <1>0, <2>2, <3>2, RevocationStays DEF ClaimInv, TypeOK
    <3> QED BY <3>1, <3>2
  <2> QED BY <1>2, <2>1, <2>2 DEF ReceiveRevocation
<1>3. ASSUME NEW q \in Revocations, Revoke(q) PROVE RevocationOK(r)'
  <2>1. CASE r = q
    <3> DEFINE t == revocations[r].token
    <3>1. revocations'[r].token = t
      BY <1>0, <1>3, <2>1 DEF Revoke, ClaimInv, TypeOK, RevocationRecord
    <3>2. ASSUME t # Unknown
          PROVE  t \in DOMAIN tokens' /\ tokens'[t].revoked_at # Null
      <4>1. t \in DOMAIN tokens
        BY <1>0, <3>2 DEF RevocationOK
      <4>2. tokens[t] \in TokenRow /\ now \in Nat
        BY <4>1 DEF ClaimInv, TypeOK, Instant
      <4> QED BY <1>3, <2>1, <4>1, <4>2 DEF Revoke, RevokeToken, TokenRow, Null
    <3> QED BY <3>1, <3>2 DEF RevocationOK
  <2>2. CASE r # q
    BY <1>0, <1>3, <2>2, RevocationStays DEF Revoke, ClaimInv, TypeOK
  <2> QED BY <2>1, <2>2
<1>4. ASSUME NEW q \in Revocations, RevocationStatementFails(q) PROVE RevocationOK(r)'
  BY <1>0, <1>4, RevocationStays
  DEF RevocationStatementFails, ClaimInv, TypeOK, RevocationRecord
<1>5. CASE Restart
  BY <1>0, <1>5, RevocationStays DEF Restart, ClaimInv, TypeOK, RevocationRecord
<1>6. \/ \E q \in Revocations : \/ ReceiveRevocation(q) \/ Revoke(q)
                                \/ RevocationStatementFails(q)
      \/ Restart
      \/ UNCHANGED revocations
  BY DEF Next, Operate, Fail, Tick, StoreCode, ReceiveExchange, HandleExchange, FindCode, ClaimCode,
         RefuseCode, StoreToken, ReceiveIntrospection, AnswerIntrospection,
         ExchangeStatementFails, DropExchange, IntrospectionStatementFails,
         vars, tables, handlers
<1> QED BY <1>1, <1>2, <1>3, <1>4, <1>5, <1>6

\* A revocation that has run stays so.
LEMMA RevokedStays ==
  ASSUME ClaimInv, [Next]_vars, NEW t, Revoked(t)
  PROVE  Revoked(t)'
<1>1. PICK r \in Revocations : revocations[r].status = "revoked" /\ revocations[r].token = t
  BY DEF Revoked
<1>2. \/ \E q \in Revocations : \/ ReceiveRevocation(q) \/ Revoke(q)
                                \/ RevocationStatementFails(q)
      \/ Restart
      \/ UNCHANGED revocations
  BY DEF Next, Operate, Fail, Tick, StoreCode, ReceiveExchange, HandleExchange, FindCode, ClaimCode,
         RefuseCode, StoreToken, ReceiveIntrospection, AnswerIntrospection,
         ExchangeStatementFails, DropExchange, IntrospectionStatementFails,
         vars, tables, handlers
<1>3. revocations'[r] = revocations[r]
  BY <1>1, <1>2 DEF ReceiveRevocation, Revoke, RevocationStatementFails, Restart,
                    ClaimInv, TypeOK, RevocationRecord
<1> QED BY <1>1, <1>3 DEF Revoked

\* The record of introspection i says what it may.
LateOK(i) == "revoked" \in introspections[i].earlier =>
               Revoked(introspections[i].token) /\ introspections[i].status # "active"

LEMMA LateStep ==
  ASSUME ClaimInv, TokensInv, RevocationInv, [Next]_vars
  PROVE  \A i \in Introspections : LateOK(i)'
<1> SUFFICES ASSUME NEW i \in Introspections PROVE LateOK(i)'
  OBVIOUS
<1>0. LateOK(i) /\ introspections[i] \in IntrospectionRecord
  BY DEF RevocationInv, LateOK, ClaimInv, TypeOK
<1>1. ASSUME introspections'[i].token = introspections[i].token,
             introspections'[i].earlier = introspections[i].earlier,
             introspections'[i].status = "active" =>
               introspections[i].status = "active"
                 \/ "revoked" \notin introspections[i].earlier
      PROVE  LateOK(i)'
  BY <1>0, <1>1, RevokedStays DEF LateOK
<1>2. ASSUME NEW j \in Introspections, ReceiveIntrospection(j) PROVE LateOK(i)'
  <2>1. ASSUME NEW answer \in {"invalid_request", "inactive"},
               introspections' = [introspections EXCEPT ![j].status = answer]
        PROVE  LateOK(i)'
    BY <1>0, <1>1, <2>1 DEF ClaimInv, TypeOK, IntrospectionRecord
  <2>2. ASSUME NEW t \in KnownTokens,
               introspections' = [introspections EXCEPT
                 ![j] = [status |-> "asking", token |-> t, earlier |-> AnswersOf(t)]]
        PROVE  LateOK(i)'
    <3>1. CASE i = j
      <4>1. introspections'[i] = [status |-> "asking", token |-> t, earlier |-> AnswersOf(t)]
        BY <2>2, <3>1 DEF ClaimInv, TypeOK
      <4>2. "revoked" \in AnswersOf(t) => Revoked(t)'
        BY RevokedStays DEF AnswersOf, Revoked
      <4> QED BY <4>1, <4>2 DEF LateOK
    <3>2. CASE i # j
      BY <1>1, <2>2, <3>2 DEF ClaimInv, TypeOK
    <3> QED BY <3>1, <3>2
  <2> QED BY <1>2, <2>1, <2>2 DEF ReceiveIntrospection
<1>3. ASSUME NEW j \in Introspections, AnswerIntrospection(j) PROVE LateOK(i)'
  <2>1. CASE i = j
    <3> DEFINE t == introspections[i].token
    <3>1. ASSUME "revoked" \in introspections[i].earlier PROVE ~ActiveToken(tokens, t, now)
      <4>1. PICK r \in Revocations : revocations[r].status = "revoked"
                                     /\ revocations[r].token = t
        BY <1>0, <3>1 DEF LateOK, Revoked
      <4>2. CASE t = Unknown
        <5>1. t \notin DOMAIN tokens
          BY <4>2, UnknownAssumption DEF ClaimInv, TypeOK
        <5> QED BY <5>1 DEF ActiveToken
      <4>3. CASE t # Unknown
        <5>1. tokens[t].revoked_at # Null
          BY <4>1, <4>3 DEF RevocationInv
        <5> QED BY <5>1 DEF ActiveToken
      <4> QED BY <4>2, <4>3
    <3>2. /\ introspections'[i].token = t
          /\ introspections'[i].earlier = introspections[i].earlier
          /\ introspections'[i].status = IF ActiveToken(tokens, t, now)
                                         THEN "active" ELSE "inactive"
      BY <1>0, <1>3, <2>1 DEF AnswerIntrospection, ClaimInv, TypeOK, IntrospectionRecord
    <3> QED BY <1>1, <3>1, <3>2
  <2>2. CASE i # j
    BY <1>1, <1>3, <2>2 DEF AnswerIntrospection, ClaimInv, TypeOK
  <2> QED BY <2>1, <2>2
<1>4. ASSUME NEW j \in Introspections, IntrospectionStatementFails(j) PROVE LateOK(i)'
  BY <1>0, <1>1, <1>4 DEF IntrospectionStatementFails, ClaimInv, TypeOK, IntrospectionRecord
<1>5. CASE Restart
  BY <1>0, <1>1, <1>5 DEF Restart, ClaimInv, TypeOK, IntrospectionRecord
<1>6. CASE UNCHANGED introspections
  BY <1>1, <1>6
<1>7. \/ \E j \in Introspections : \/ ReceiveIntrospection(j) \/ AnswerIntrospection(j)
                                   \/ IntrospectionStatementFails(j)
      \/ Restart
      \/ UNCHANGED introspections
  BY DEF Next, Operate, Fail, Tick, StoreCode, ReceiveExchange, HandleExchange, FindCode, ClaimCode,
         RefuseCode, StoreToken, ReceiveRevocation, Revoke,
         ExchangeStatementFails, DropExchange, RevocationStatementFails,
         vars, tables, handlers
<1> QED BY <1>2, <1>3, <1>4, <1>5, <1>6, <1>7

\* Once the UPDATE of a revocation has run, no introspection that arrives later calls
\* the token active (revocation.rs, introspection.rs).
THEOREM RevocationFinal == Spec => []RevocationIsFinal
<1>1. Init => RevocationInv
  BY DEF Init, RevocationInv
<1>2. ClaimInv /\ TokensInv /\ RevocationInv /\ [Next]_vars => RevocationInv'
  BY RevocationStep, LateStep DEF RevocationInv, RevocationOK, LateOK
<1>3. RevocationInv => RevocationIsFinal
  BY DEF RevocationInv, RevocationIsFinal
<1> QED BY <1>1, <1>2, <1>3, ClaimInvInductive, TokensInductive, PTL DEF Spec
=============================================================================
