--------------------------- MODULE LifecycleProofs ---------------------------
(***************************************************************************)
(* The token, introspection and revocation endpoints implement the         *)
(* lifecycle of module GrantLifecycle, for every value of the constants.   *)
(*                                                                         *)
(* A stored code is Issue; of a redemption the reading of the row is Take, *)
(* the UPDATE Spend, and an end before it, by failure or restart, Release; *)
(* a stored token is Mint; a tick and a revocation are Elapse, the one for *)
(* whatever lapses at that instant, the other for one token; and all else  *)
(* a handler does is not seen.  That a claimed code was unused and its     *)
(* token had no other code is what the inductive invariants of             *)
(* TokenServiceProofs say.                                                 *)
(***************************************************************************)
EXTENDS TokenServiceProofs

\* A step that neither begins nor ends a redemption.
SameTaken == \A e \in Exchanges :
  \/ exchanges'[e].status = "claiming" /\ exchanges[e].status = "claiming"
     /\ exchanges'[e].code = exchanges[e].code
  \/ exchanges'[e].status # "claiming" /\ exchanges[e].status # "claiming"

LEMMA TakenKept == SameTaken => \A c : Taken(c)' <=> Taken(c)
BY DEF SameTaken, Taken

LEMMA SameCodes == UNCHANGED <<codes, now>> /\ SameTaken => CodeState' = CodeState
BY TakenKept DEF CodeState

LEMMA SameTokens == UNCHANGED <<tokens, now>> => TokenState' = TokenState
BY DEF TokenState, ActiveToken

\* A handler changes its code only before it has claimed it.
LEMMA SameBacking ==
  ASSUME \A e \in Exchanges : /\ exchanges'[e].grant = exchanges[e].grant
                              /\ Claimed(e) => exchanges'[e].code = exchanges[e].code
  PROVE  Backing' = Backing
BY DEF Backing, Claimed

LEMMA StoreCodeIssues ==
  ASSUME ClaimInv, NEW c \in Codes, NEW g \in Grants, StoreCode(c, g)
  PROVE  Lifecycle!Issue(c)
<1>1. PICK computed \in 0 .. now : codes' = InsertCode(codes, c, g, computed + CodeTTL)
  BY DEF StoreCode
<1>2. PICK row : row = [grant |-> g, expires_at |-> computed + CodeTTL, used_at |-> Null]
  OBVIOUS
<1>3. /\ DOMAIN codes' = DOMAIN codes \cup {c} /\ codes'[c] = row
      /\ \A k \in DOMAIN codes \ {c} : codes'[k] = codes[k]
  BY <1>1, <1>2 DEF InsertCode, Put
<1>4. c \notin DOMAIN codes /\ UNCHANGED <<now, tokens, exchanges>>
  BY DEF StoreCode, handlers
<1>0. (\A d : Taken(d)' <=> Taken(d)) /\ ~Taken(c)
  BY <1>4 DEF Taken, ClaimInv, ClaimsOK, FoundOK
<1>5. PICK birth \in {"valid", "lapsed"} :
        birth = IF IsPast(row.expires_at, now) THEN "lapsed" ELSE "valid"
  OBVIOUS
<1>6. CodeState[c] = "unissued" /\ CodeState' = [CodeState EXCEPT ![c] = birth]
  <2>1. row.used_at = Null
    BY <1>2
  <2>2. CodeState'[c] = birth
    BY <1>0, <1>3, <1>4, <1>5, <2>1 DEF CodeState
  <2>3. \A d \in Codes \ {c} : CodeState'[d] = CodeState[d]
    BY <1>0, <1>3, <1>4 DEF CodeState
  <2> QED BY <1>4, <2>2, <2>3 DEF CodeState
<1>7. UNCHANGED <<TokenState, Backing>>
  BY <1>4, SameTokens, SameBacking
<1> QED BY <1>6, <1>7 DEF Lifecycle!Issue

LEMMA FindCodeTakes ==
  ASSUME ClaimInv, NEW e \in Exchanges, FindCode(e)
  PROVE  \E c \in Codes : Lifecycle!Take(c)
<1>1. PICK c : c = exchanges[e].code
  OBVIOUS
<1>2. /\ Free /\ exchanges[e].status = "redeeming" /\ Redeemable(codes, c, now)
      /\ exchanges' = [exchanges EXCEPT ![e].status = "claiming"]
      /\ UNCHANGED <<now, codes, tokens>>
  BY <1>1 DEF FindCode, tables
<1>3. c \in DOMAIN codes /\ c \in Codes /\ exchanges \in [Exchanges -> ExchangeRecord]
  BY <1>2 DEF Redeemable, ClaimInv, TypeOK
<1>4. \A d : ~Taken(d)
  BY <1>2 DEF Free, Taken
<1>5. /\ exchanges'[e].status = "claiming" /\ exchanges'[e].code = c
      /\ exchanges'[e].grant = exchanges[e].grant
      /\ \A f \in Exchanges \ {e} : exchanges'[f] = exchanges[f]
  BY <1>1, <1>2, <1>3 DEF ExchangeRecord
<1>6. \A d : Taken(d)' <=> d = c
  BY <1>2, <1>5 DEF Free, Taken
<1>7. CodeState[c] = "valid" /\ \A d \in Codes : CodeState[d] # "taken"
  BY <1>2, <1>3, <1>4 DEF Redeemable, CodeState
<1>8. CodeState' = [CodeState EXCEPT ![c] = "taken"]
  <2>1. CodeState'[c] = "taken" /\ \A d \in Codes \ {c} : CodeState'[d] = CodeState[d]
    BY <1>2, <1>3, <1>4, <1>6 DEF Redeemable, CodeState
  <2> QED BY <2>1 DEF CodeState
<1>9. UNCHANGED <<TokenState, Backing>>
  BY <1>1, <1>2, <1>5, SameTokens, SameBacking
<1> QED BY <1>3, <1>7, <1>8, <1>9 DEF Lifecycle!Take

LEMMA ClaimCodeSpends ==
  ASSUME ClaimInv, NEW e \in Exchanges, ClaimCode(e)
  PROVE  \E c \in Codes : Lifecycle!Spend(c, e)
<1>1. PICK c : c = exchanges[e].code
  OBVIOUS
<1>2. PICK s, g : s = AfterRedeem(exchanges[e].form, codes[c].grant) /\ g = codes[c].grant
  OBVIOUS
<1>3. /\ exchanges[e].status = "claiming" /\ codes[c].used_at = Null
      /\ codes' = [codes EXCEPT ![c].used_at = now]
      /\ exchanges' = [exchanges EXCEPT ![e] =
           [exchanges[e] EXCEPT !.status = s, !.grant = g, !.since = now]]
      /\ UNCHANGED <<now, tokens>>
      /\ c \in DOMAIN codes /\ codes[c] \in CodeRow
  BY <1>1, <1>2, ClaimCodeEffect DEF ClaimCode, ClaimInv
<1>4. /\ c \in Codes /\ g \in Grants /\ now \in Nat /\ g # Unknown
      /\ exchanges \in [Exchanges -> ExchangeRecord] /\ exchanges[e] \in ExchangeRecord
  BY <1>2, <1>3, UnknownAssumption DEF ClaimInv, TypeOK, CodeRow, Instant
<1>5. Taken(c) /\ \A d : Taken(d) => d = c
  BY <1>1, <1>3 DEF Taken, ClaimInv, OneAtATime
<1>6. Backing[e] = {} /\ CodeState[c] = "taken"
  BY <1>3, <1>4, <1>5 DEF ClaimInv, ClaimsOK, Backing, CodeState
<1>7. CodeState' = [CodeState EXCEPT ![c] = "spent"]
  <2>1. DOMAIN codes' = DOMAIN codes /\ codes'[c].used_at = now
        /\ \A d \in DOMAIN codes \ {c} : codes'[d] = codes[d]
    BY <1>3, <1>4 DEF CodeRow
  <2>2. now # Null
    BY <1>4 DEF Null
  <2>3. exchanges'[e].status # "claiming"
        /\ \A f \in Exchanges \ {e} : exchanges'[f] = exchanges[f]
    BY <1>2, <1>3, <1>4 DEF ExchangeRecord, AfterRedeem
  <2>4. \A d : d # c => (Taken(d)' <=> Taken(d))
    BY <1>5, <2>3 DEF Taken
  <2>5. CodeState'[c] = "spent" /\ \A d \in Codes \ {c} : CodeState'[d] = CodeState[d]
    BY <1>3, <1>4, <2>1, <2>2, <2>4 DEF CodeState
  <2> QED BY <2>5 DEF CodeState
<1>8. Backing' = [Backing EXCEPT ![e] = {c}]
  <2>1. exchanges'[e].grant = g /\ exchanges'[e].code = c
        /\ \A f \in Exchanges \ {e} : exchanges'[f] = exchanges[f]
    BY <1>1, <1>3, <1>4 DEF ExchangeRecord
  <2>2. Backing'[e] = {c} /\ \A f \in Exchanges \ {e} : Backing'[f] = Backing[f]
    BY <1>4, <2>1 DEF Backing, Claimed
  <2> QED BY <2>2 DEF Backing
<1>9. TokenState' = TokenState
  BY <1>3, SameTokens
<1> QED BY <1>4, <1>6, <1>7, <1>8, <1>9 DEF Lifecycle!Spend

\* A redemption that ends before its UPDATE leaves the code as it found it, or lapsed.
LEMMA EndedEarlyReleases ==
  ASSUME ClaimInv, NEW e \in Exchanges, exchanges[e].status = "claiming",
         \A f \in Exchanges : /\ exchanges'[f].status # "claiming"
                              /\ exchanges'[f].grant = exchanges[f].grant
                              /\ exchanges'[f].code = exchanges[f].code,
         UNCHANGED <<now, codes, tokens>>
  PROVE  \E c \in Codes : Lifecycle!Release(c)
<1>1. PICK c : c = exchanges[e].code
  OBVIOUS
<1>2. c \in DOMAIN codes /\ c \in Codes /\ codes[c].used_at = Null
  BY <1>1 DEF ClaimInv, ClaimsOK, FoundOK, TypeOK
<1>3. Taken(c) /\ \A d : (Taken(d) => d = c) /\ ~Taken(d)'
  BY <1>1 DEF Taken, ClaimInv, OneAtATime
<1>4. PICK left \in {"valid", "lapsed"} :
        left = IF IsPast(codes[c].expires_at, now) THEN "lapsed" ELSE "valid"
  OBVIOUS
<1>5. CodeState[c] = "taken" /\ CodeState' = [CodeState EXCEPT ![c] = left]
  <2>1. CodeState'[c] = left /\ \A d \in Codes \ {c} : CodeState'[d] = CodeState[d]
    BY <1>2, <1>3, <1>4 DEF CodeState
  <2> QED BY <1>2, <1>3, <2>1 DEF CodeState
<1>6. UNCHANGED <<TokenState, Backing>>
  BY SameTokens, SameBacking
<1> QED BY <1>2, <1>5, <1>6 DEF Lifecycle!Release

LEMMA StoreTokenMints ==
  ASSUME ClaimInv, TokensInv, NEW e \in Exchanges, StoreToken(e)
  PROVE  Lifecycle!Mint(e)
<1>1. PICK row : tokens' = Put(tokens, e, row)
  BY DEF StoreToken, InsertToken
<1>2. PICK outcome : exchanges' = [exchanges EXCEPT ![e].status = outcome]
  BY DEF StoreToken
<1>3. exchanges[e].status = "storing" /\ e \notin DOMAIN tokens /\ UNCHANGED <<now, codes>>
  BY DEF StoreToken, TokensInv, ExchangePending
<1>4. /\ DOMAIN tokens' = DOMAIN tokens \cup {e}
      /\ \A t \in DOMAIN tokens \ {e} : tokens'[t] = tokens[t]
  BY <1>1 DEF Put
<1>5. Backing[e] # {}
  BY <1>3 DEF ClaimInv, ClaimsOK, Backing
<1>6. PICK birth \in {"active", "dead"} :
        birth = IF ActiveToken(tokens', e, now) THEN "active" ELSE "dead"
  OBVIOUS
<1>7. TokenState[e] = "unminted" /\ TokenState' = [TokenState EXCEPT ![e] = birth]
  <2>1. TokenState'[e] = birth
    BY <1>3, <1>4, <1>6 DEF TokenState, ActiveToken
  <2>2. \A t \in Exchanges \ {e} : TokenState'[t] = TokenState[t]
    BY <1>3, <1>4 DEF TokenState, ActiveToken
  <2> QED BY <1>3, <2>1, <2>2 DEF TokenState
<1>8. Backing' = Backing
  BY <1>2, SameBacking DEF ClaimInv, TypeOK, ExchangeRecord
<1>9. CodeState' = CodeState
  <2>1. PICK o \in {"token", "dropped"} : exchanges' = [exchanges EXCEPT ![e].status = o]
    BY DEF StoreToken
  <2>2. SameTaken
    BY <1>3, <2>1 DEF SameTaken, ClaimInv, TypeOK, ExchangeRecord
  <2> QED BY <1>3, <2>2, SameCodes
<1> QED BY <1>5, <1>7, <1>8, <1>9 DEF Lifecycle!Mint

\* Time only lets codes lapse and tokens die.
LEMMA TickElapses ==
  ASSUME TypeOK, Tick
  PROVE  \E lapsing \in SUBSET Codes, dying \in SUBSET Exchanges :
           Lifecycle!Elapse(lapsing, dying)
<1> DEFINE lapsing == {c \in Codes : CodeState[c] = "valid" /\ CodeState'[c] = "lapsed"}
           dying == {t \in Exchanges : TokenState[t] = "active" /\ TokenState'[t] = "dead"}
<1>1. now' = now + 1 /\ now \in Nat /\ UNCHANGED <<codes, tokens, exchanges>>
  BY DEF Tick, tables, handlers, TypeOK, Instant
<1>2. CodeState' = [c \in Codes |-> IF c \in lapsing THEN "lapsed" ELSE CodeState[c]]
  <2>1. ASSUME NEW c \in DOMAIN codes
        PROVE  IsPast(codes[c].expires_at, now) => IsPast(codes[c].expires_at, now')
    BY <1>1 DEF TypeOK, CodeRow, Instant, IsPast
  <2>2. \A c : Taken(c)' <=> Taken(c)
    BY <1>1 DEF Taken
  <2>3. \A c \in Codes : CodeState'[c] = IF c \in lapsing THEN "lapsed" ELSE CodeState[c]
    BY <1>1, <2>1, <2>2 DEF CodeState
  <2> QED BY <2>3 DEF CodeState
<1>3. TokenState' = [t \in Exchanges |-> IF t \in dying THEN "dead" ELSE TokenState[t]]
  <2>1. ASSUME NEW t \in DOMAIN tokens
        PROVE  IsPast(tokens[t].expires_at, now) => IsPast(tokens[t].expires_at, now')
    BY <1>1 DEF TypeOK, TokenRow, Instant, IsPast
  <2>2. \A t \in Exchanges : TokenState'[t] = IF t \in dying THEN "dead" ELSE TokenState[t]
    BY <1>1, <2>1 DEF TokenState, ActiveToken
  <2> QED BY <2>2 DEF TokenState
<1>4. Backing' = Backing
  BY <1>1, SameBacking
<1>5. /\ lapsing \in SUBSET Codes /\ dying \in SUBSET Exchanges
      /\ \A c \in lapsing : CodeState[c] = "valid"
      /\ \A t \in dying : TokenState[t] = "active"
  OBVIOUS
<1> HIDE DEF lapsing, dying
<1>6. Lifecycle!Elapse(lapsing, dying)
  BY <1>2, <1>3, <1>4, <1>5 DEF Lifecycle!Elapse
<1> QED BY <1>5, <1>6

LEMMA RevokeElapses ==
  ASSUME TypeOK, NEW r \in Revocations, Revoke(r)
  PROVE  \E lapsing \in SUBSET Codes, dying \in SUBSET Exchanges :
           Lifecycle!Elapse(lapsing, dying)
<1>1. PICK t : t = revocations[r].token
  OBVIOUS
<1>2. tokens' = RevokeToken(tokens, t, now) /\ UNCHANGED <<now, codes, exchanges>>
  BY <1>1 DEF Revoke
<1> DEFINE dying == {u \in Exchanges : TokenState[u] = "active" /\ u = t}
<1>3. TokenState' = [u \in Exchanges |-> IF u \in dying THEN "dead" ELSE TokenState[u]]
  <2>1. CASE t \in DOMAIN tokens /\ tokens[t].revoked_at = Null
    <3>1. tokens[t] \in TokenRow /\ now \in Nat /\ now # Null
      BY <2>1 DEF TypeOK, Instant, Null
    <3>2. /\ DOMAIN tokens' = DOMAIN tokens /\ tokens'[t].revoked_at # Null
          /\ \A u \in DOMAIN tokens \ {t} : tokens'[u] = tokens[u]
      BY <1>2, <2>1, <3>1 DEF RevokeToken, TokenRow
    <3>3. ASSUME NEW u \in Exchanges
          PROVE  TokenState'[u] = IF u \in dying THEN "dead" ELSE TokenState[u]
      <4>1. CASE u = t
        BY <2>1, <3>2, <4>1 DEF TokenState, ActiveToken
      <4>2. CASE u # t
        BY <1>2, <3>2, <4>2 DEF TokenState, ActiveToken
      <4> QED BY <4>1, <4>2
    <3> QED BY <3>3 DEF TokenState
  <2>2. CASE ~(t \in DOMAIN tokens /\ tokens[t].revoked_at = Null)
    <3>1. tokens' = tokens /\ TokenState' = TokenState
      BY <1>2, <2>2, SameTokens DEF RevokeToken
    <3>2. \A u \in Exchanges : u \notin dying
      BY <2>2 DEF TokenState, ActiveToken
    <3> QED BY <3>1, <3>2 DEF TokenState
  <2> QED BY <2>1, <2>2
<1>4. CodeState' = [c \in Codes |-> IF c \in {} THEN "lapsed" ELSE CodeState[c]]
  <2>1. SameTaken
    BY <1>2 DEF SameTaken
  <2> QED BY <1>2, <2>1, SameCodes DEF CodeState
<1>5. Backing' = Backing
  BY <1>2, SameBacking
<1>6. dying \in SUBSET Exchanges /\ \A u \in dying : TokenState[u] = "active"
  OBVIOUS
<1> HIDE DEF dying
<1>7. Lifecycle!Elapse({}, dying)
  BY <1>3, <1>4, <1>5, <1>6 DEF Lifecycle!Elapse
<1> QED BY <1>6, <1>7

\* What a handler does between its calls to the database, and how it ends; a redemption
\* that ends early is apart.
HandlerOnly ==
  \/ \E e \in Exchanges : \/ ReceiveExchange(e) \/ RefuseCode(e) \/ DropExchange(e)
                          \/ ExchangeStatementFails(e) /\ exchanges[e].status # "claiming"
  \/ \E i \in Introspections : \/ ReceiveIntrospection(i) \/ AnswerIntrospection(i)
                               \/ IntrospectionStatementFails(i)
  \/ \E r \in Revocations : ReceiveRevocation(r) \/ RevocationStatementFails(r)
  \/ Restart /\ Free
  \/ UNCHANGED vars

LEMMA HandlersStutter ==
  ASSUME ClaimInv, HandlerOnly
  PROVE  UNCHANGED <<CodeState, TokenState, Backing>>
<1>1. UNCHANGED <<now, codes, tokens>>
  BY DEF HandlerOnly, ReceiveExchange, RefuseCode, ExchangeStatementFails, DropExchange,
         ReceiveIntrospection, AnswerIntrospection, IntrospectionStatementFails,
         ReceiveRevocation, RevocationStatementFails, Restart, vars, tables
<1>2. exchanges \in [Exchanges -> ExchangeRecord]
  BY DEF ClaimInv, TypeOK
<1>3. ASSUME NEW e \in Exchanges, NEW s, exchanges' = [exchanges EXCEPT ![e].status = s],
             s # "claiming", exchanges[e].status # "claiming"
      PROVE  Backing' = Backing /\ SameTaken
  BY <1>2, <1>3, SameBacking DEF ExchangeRecord, SameTaken
<1>4. ASSUME NEW e \in Exchanges, ReceiveExchange(e)
      PROVE  Backing' = Backing /\ SameTaken
  <2>1. ~Claimed(e) /\ exchanges[e].status = "idle"
    BY <1>4 DEF ReceiveExchange, ClaimInv, ClaimsOK
  <2>2. ASSUME NEW form \in Forms, NEW code \in KnownCodes,
               exchanges' = [exchanges EXCEPT
                 ![e] = IF form.grant_type # "authorization_code"
                        THEN [@ EXCEPT !.status = "unsupported_grant_type"]
                        ELSE [@ EXCEPT !.status = "redeeming", !.form = form, !.code = code,
                                       !.received = now]]
        PROVE  Backing' = Backing /\ SameTaken
    <3>1. /\ exchanges'[e].grant = exchanges[e].grant
          /\ exchanges'[e].status # "claiming"
          /\ \A f \in Exchanges \ {e} : exchanges'[f] = exchanges[f]
      BY <1>2, <2>2 DEF ExchangeRecord
    <3>2. SameTaken
      BY <2>1, <3>1 DEF SameTaken
    <3> QED BY <2>1, <3>1, <3>2, SameBacking
  <2> QED BY <1>3, <1>4, <2>1, <2>2 DEF ReceiveExchange
<1>5. ASSUME NEW e \in Exchanges,
             \/ RefuseCode(e) \/ DropExchange(e)
             \/ ExchangeStatementFails(e) /\ exchanges[e].status # "claiming"
      PROVE  Backing' = Backing /\ SameTaken
  BY <1>3, <1>5 DEF RefuseCode, ExchangeStatementFails, DropExchange
<1>6. ASSUME Restart, Free PROVE Backing' = Backing /\ SameTaken
  <2>1. \A e \in Exchanges : /\ exchanges'[e].grant = exchanges[e].grant
                             /\ exchanges'[e].code = exchanges[e].code
                             /\ exchanges'[e].status # "claiming"
    BY <1>2, <1>6 DEF Restart, ExchangeRecord, ExchangePending
  <2> QED BY <1>6, <2>1, SameBacking DEF Free, SameTaken
<1>7. ASSUME UNCHANGED exchanges PROVE Backing' = Backing /\ SameTaken
  BY <1>7, SameBacking DEF SameTaken
<1>8. \/ \E e \in Exchanges : \/ ReceiveExchange(e) \/ RefuseCode(e) \/ DropExchange(e)
                              \/ ExchangeStatementFails(e) /\ exchanges[e].status # "claiming"
      \/ Restart /\ Free
      \/ UNCHANGED exchanges
  BY DEF HandlerOnly, ReceiveIntrospection, AnswerIntrospection, IntrospectionStatementFails,
         ReceiveRevocation, RevocationStatementFails, vars, handlers
<1>9. Backing' = Backing /\ SameTaken
  BY <1>4, <1>5, <1>6, <1>7, <1>8
<1> QED BY <1>1, <1>9, SameCodes, SameTokens

\* A redemption whose UPDATE fails, or whose process dies before it has run.
LEMMA EarlyEnd ==
  ASSUME ClaimInv, \/ Restart /\ ~Free
                   \/ \E e \in Exchanges : /\ ExchangeStatementFails(e)
                                           /\ exchanges[e].status = "claiming"
  PROVE  \E c \in Codes : Lifecycle!Release(c)
<1>1. exchanges \in [Exchanges -> ExchangeRecord]
  BY DEF ClaimInv, TypeOK
<1>2. CASE Restart /\ ~Free
  <2>1. PICK e \in Exchanges : exchanges[e].status = "claiming"
    BY <1>2 DEF Free
  <2>2. \A f \in Exchanges : /\ exchanges'[f].status # "claiming"
                             /\ exchanges'[f].grant = exchanges[f].grant
                             /\ exchanges'[f].code = exchanges[f].code
    BY <1>1, <1>2 DEF Restart, ExchangeRecord, ExchangePending
  <2>3. UNCHANGED <<now, codes, tokens>>
    BY <1>2 DEF Restart, tables
  <2> QED BY <2>1, <2>2, <2>3, EndedEarlyReleases
<1>3. ASSUME NEW e \in Exchanges, ExchangeStatementFails(e), exchanges[e].status = "claiming"
      PROVE  \E c \in Codes : Lifecycle!Release(c)
  <2>1. exchanges' = [exchanges EXCEPT ![e].status = "invalid_grant"]
        /\ UNCHANGED <<now, codes, tokens>>
    BY <1>3 DEF ExchangeStatementFails, tables
  <2>2. \A f \in Exchanges : /\ exchanges'[f].status # "claiming"
                             /\ exchanges'[f].grant = exchanges[f].grant
                             /\ exchanges'[f].code = exchanges[f].code
    BY <1>1, <1>3, <2>1 DEF ExchangeRecord, ClaimInv, OneAtATime
  <2> QED BY <1>3, <2>1, <2>2, EndedEarlyReleases
<1> QED BY <1>2, <1>3

\* The endpoints, their failures and time are the lifecycle of codes and tokens: a code
\* is taken before it lapses and spent once, a token is minted for a spent code only, and
\* no dead token is active again (codes.rs, tokens.rs).
THEOREM Implements == Spec => ImplementsLifecycle
<1>1. Init => Lifecycle!Init
  BY DEF Init, Lifecycle!Init, CodeState, TokenState, Backing, Claimed, Taken
<1>2. ClaimInv /\ TokensInv /\ [Next]_vars => [Lifecycle!Next]_Lifecycle!lifecycle
  <2> SUFFICES ASSUME ClaimInv, TokensInv, [Next]_vars
               PROVE  [Lifecycle!Next]_Lifecycle!lifecycle
    OBVIOUS
  <2>1. CASE \E c \in Codes, g \in Grants : StoreCode(c, g)
    BY <2>1, StoreCodeIssues DEF Lifecycle!Next
  <2>2. CASE \E e \in Exchanges : FindCode(e) \/ ClaimCode(e)
    BY <2>2, FindCodeTakes, ClaimCodeSpends DEF Lifecycle!Next
  <2>3. CASE \E e \in Exchanges : StoreToken(e)
    BY <2>3, StoreTokenMints DEF Lifecycle!Next
  <2>4. CASE Tick \/ \E r \in Revocations : Revoke(r)
    BY <2>4, TickElapses, RevokeElapses DEF ClaimInv, Lifecycle!Next
  <2>5. CASE HandlerOnly
    BY <2>5, HandlersStutter DEF Lifecycle!lifecycle
  <2>6. CASE \/ Restart /\ ~Free
             \/ \E e \in Exchanges : /\ ExchangeStatementFails(e)
                                     /\ exchanges[e].status = "claiming"
    BY <2>6, EarlyEnd DEF Lifecycle!Next
  <2> QED BY <2>1, <2>2, <2>3, <2>4, <2>5, <2>6
          DEF Next, Operate, Fail, HandleExchange, HandlerOnly
<1> QED BY <1>1, <1>2, ClaimInvInductive, TokensInductive, PTL
        DEF Spec, ImplementsLifecycle, Lifecycle!Spec
=============================================================================
