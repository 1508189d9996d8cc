-------------------------- MODULE IndieAuthProofs --------------------------
(***************************************************************************)
(* Proofs about IndieAuth, for every value of its constants: each endpoint *)
(* is, to the others, what they take their environment to be, so what was  *)
(* proved of each alone holds of the whole.                                *)
(*                                                                         *)
(* The argument is circular only in appearance.  The invariants of the     *)
(* three modules hold together (ServerInv), and while they do, every step  *)
(* of the server is a step of each module or none of it, and so keeps the  *)
(* invariant that the module was shown to keep.                            *)
(***************************************************************************)
EXTENDS IndieAuth, TLAPS

\* What was proved of the parts, said of the server's state.
ServiceP == INSTANCE TokenServiceProofs WITH Grants <- Gets, Codes <- Posts
AuthorizeP == INSTANCE ConsentProofs WITH codes <- Issued, SessionIds <- Finishes
SignInP == INSTANCE PasskeysProofs WITH sessions <- ceremonies \cup LiveOwners, Earlier <- {}

-----------------------------------------------------------------------------
(* The proofs are about the modules that IndieAuth puts together: their    *)
(* instances are equal, definition for definition.                         *)

LEMMA SameService ==
  /\ Service!Init => ServiceP!Init
  /\ [Service!Next]_(Service!vars) => [ServiceP!Next]_(ServiceP!vars)
BY DEF Service!Init, ServiceP!Init, Service!Next, ServiceP!Next, Service!Tick,
       ServiceP!Tick, Service!tables, ServiceP!tables, Service!handlers, ServiceP!handlers,
       Service!StoreCode, ServiceP!StoreCode, Service!InsertCode, ServiceP!InsertCode,
       Service!Put, ServiceP!Put, Service!Null, ServiceP!Null, Service!Operate,
       ServiceP!Operate, Service!ReceiveExchange, ServiceP!ReceiveExchange,
       Service!KnownCodes, ServiceP!KnownCodes, Service!HandleExchange,
       ServiceP!HandleExchange, Service!Free, ServiceP!Free, Service!FindCode,
       ServiceP!FindCode, Service!ClaimCode, ServiceP!ClaimCode,
       Service!Redeemable, ServiceP!Redeemable, Service!IsPast, ServiceP!IsPast,
       Service!MarkUsed, ServiceP!MarkUsed, Service!AfterRedeem, ServiceP!AfterRedeem,
       Service!FormMatches, ServiceP!FormMatches, Service!S256, ServiceP!S256,
       Service!RefuseCode, ServiceP!RefuseCode, Service!StoreToken, ServiceP!StoreToken,
       Service!InsertToken, ServiceP!InsertToken, Service!ReceiveIntrospection,
       ServiceP!ReceiveIntrospection, Service!KnownTokens, ServiceP!KnownTokens,
       Service!AnswersOf, ServiceP!AnswersOf, Service!AnswerIntrospection,
       ServiceP!AnswerIntrospection, Service!ActiveToken, ServiceP!ActiveToken,
       Service!ReceiveRevocation, ServiceP!ReceiveRevocation, Service!Revoke,
       ServiceP!Revoke, Service!RevokeToken, ServiceP!RevokeToken, Service!Fail,
       ServiceP!Fail, Service!ExchangeStatementFails, ServiceP!ExchangeStatementFails,
       Service!ExchangePending, ServiceP!ExchangePending, Service!DropExchange,
       ServiceP!DropExchange, Service!IntrospectionStatementFails,
       ServiceP!IntrospectionStatementFails, Service!RevocationStatementFails,
       ServiceP!RevocationStatementFails, Service!Restart, ServiceP!Restart, Service!vars,
       ServiceP!vars

LEMMA SameAuthorize ==
  /\ AuthorizeView!Init => AuthorizeP!Init
  /\ [AuthorizeView!Next]_(AuthorizeView!vars) => [AuthorizeP!Next]_(AuthorizeP!vars)
BY DEF AuthorizeView!Init, AuthorizeP!Init, AuthorizeView!EmptyGet, AuthorizeP!EmptyGet,
       AuthorizeView!EmptyPost, AuthorizeP!EmptyPost, AuthorizeView!Next, AuthorizeP!Next,
       AuthorizeView!Tick, AuthorizeP!Tick, AuthorizeView!handlers, AuthorizeP!handlers,
       AuthorizeView!browsers, AuthorizeP!browsers, AuthorizeView!SignIn,
       AuthorizeP!SignIn, AuthorizeView!StoreSession, AuthorizeP!StoreSession,
       AuthorizeView!UpsertSession, AuthorizeP!UpsertSession, AuthorizeView!Put,
       AuthorizeP!Put, AuthorizeView!Owner, AuthorizeP!Owner, AuthorizeView!Operate,
       AuthorizeP!Operate, AuthorizeView!ReceiveGet, AuthorizeP!ReceiveGet,
       AuthorizeView!SetGet, AuthorizeP!SetGet, AuthorizeView!GoOn, AuthorizeP!GoOn,
       AuthorizeView!GetPending, AuthorizeP!GetPending, AuthorizeView!WellFormed,
       AuthorizeP!WellFormed, AuthorizeView!ProfileUrl, AuthorizeP!ProfileUrl,
       AuthorizeView!IsLoopback, AuthorizeP!IsLoopback, AuthorizeView!AfterMetadata,
       AuthorizeP!AfterMetadata, AuthorizeView!ValidRedirect, AuthorizeP!ValidRedirect,
       AuthorizeView!SameOrigin, AuthorizeP!SameOrigin, AuthorizeView!Port,
       AuthorizeP!Port, AuthorizeView!Acceptable, AuthorizeP!Acceptable,
       AuthorizeView!LookUp, AuthorizeP!LookUp, AuthorizeView!MayFetch,
       AuthorizeP!MayFetch, AuthorizeView!Disallowed, AuthorizeP!Disallowed,
       AuthorizeView!HandleGet, AuthorizeP!HandleGet, AuthorizeView!FinishFetch,
       AuthorizeP!FinishFetch, AuthorizeView!FetchOutcomes, AuthorizeP!FetchOutcomes,
       AuthorizeView!Accepted, AuthorizeP!Accepted, AuthorizeView!LoadForConsent,
       AuthorizeP!LoadForConsent, AuthorizeView!AfterLoad, AuthorizeP!AfterLoad,
       AuthorizeView!OwnerSession, AuthorizeP!OwnerSession, AuthorizeView!LiveSession,
       AuthorizeP!LiveSession, AuthorizeView!SortsAfter, AuthorizeP!SortsAfter,
       AuthorizeView!Second, AuthorizeP!Second, AuthorizeView!TicksPerSecond,
       AuthorizeP!TicksPerSecond, AuthorizeView!Char, AuthorizeP!Char,
       AuthorizeView!AttachPending, AuthorizeP!AttachPending, AuthorizeView!ReceivePost,
       AuthorizeP!ReceivePost, AuthorizeView!ForeignHeaders, AuthorizeP!ForeignHeaders,
       AuthorizeView!OwnHeaders, AuthorizeP!OwnHeaders, AuthorizeView!SetPost,
       AuthorizeP!SetPost, AuthorizeView!IsSameSite, AuthorizeP!IsSameSite,
       AuthorizeView!ReadDecision, AuthorizeP!ReadDecision, AuthorizeView!HandlePost,
       AuthorizeP!HandlePost, AuthorizeView!LoadPending, AuthorizeP!LoadPending,
       AuthorizeView!ClearPending, AuthorizeP!ClearPending, AuthorizeView!Left,
       AuthorizeP!Left, AuthorizeView!Decided, AuthorizeP!Decided, AuthorizeView!StoreCode,
       AuthorizeP!StoreCode, AuthorizeView!InsertCode, AuthorizeP!InsertCode,
       AuthorizeView!Null, AuthorizeP!Null, AuthorizeView!CodeExpiry,
       AuthorizeP!CodeExpiry, AuthorizeView!ReceiveLogout, AuthorizeP!ReceiveLogout,
       AuthorizeView!EndSession, AuthorizeP!EndSession, AuthorizeView!DeleteSession,
       AuthorizeP!DeleteSession, AuthorizeView!Restrict, AuthorizeP!Restrict,
       AuthorizeView!Sweep, AuthorizeP!Sweep, AuthorizeView!CleanupExpiredSessions,
       AuthorizeP!CleanupExpiredSessions, AuthorizeView!Fail, AuthorizeP!Fail,
       AuthorizeView!GetStatementFails, AuthorizeP!GetStatementFails,
       AuthorizeView!DropGet, AuthorizeP!DropGet, AuthorizeView!PostStatementFails,
       AuthorizeP!PostStatementFails, AuthorizeView!DropPost, AuthorizeP!DropPost,
       AuthorizeView!LogoutStatementFails, AuthorizeP!LogoutStatementFails,
       AuthorizeView!Restart, AuthorizeP!Restart, AuthorizeView!DropPending,
       AuthorizeP!DropPending, AuthorizeView!PostPending, AuthorizeP!PostPending,
       AuthorizeView!vars, AuthorizeP!vars

LEMMA SameSignIn ==
  /\ SignIn!Init => SignInP!Init
  /\ [SignIn!Next]_(SignIn!vars) => [SignInP!Next]_(SignInP!vars)
BY DEF SignIn!Init, SignInP!Init, SignIn!Next, SignInP!Next, SignIn!Operate,
       SignInP!Operate, SignIn!ReceivePage, SignInP!ReceivePage, SignIn!Kinds,
       SignInP!Kinds, SignIn!SetPage, SignInP!SetPage, SignIn!tables, SignInP!tables,
       SignIn!browsers, SignInP!browsers, SignIn!HandlePage, SignInP!HandlePage,
       SignIn!CountForPage, SignInP!CountForPage, SignIn!AfterCount, SignInP!AfterCount,
       SignIn!MayBootstrap, SignInP!MayBootstrap, SignIn!Cardinality, SignInP!Cardinality,
       SignIn!LoadForPage, SignInP!LoadForPage, SignIn!ListForPage, SignInP!ListForPage,
       SignIn!AfterList, SignInP!AfterList, SignIn!StartCeremony, SignInP!StartCeremony,
       SignIn!ReceiveFinish, SignInP!ReceiveFinish, SignIn!SetFinish, SignInP!SetFinish,
       SignIn!ReadResponse, SignInP!ReadResponse, SignIn!OnlyFinish, SignInP!OnlyFinish,
       SignIn!Verifies, SignInP!Verifies, SignIn!HandleFinish, SignInP!HandleFinish,
       SignIn!LoadCeremony, SignInP!LoadCeremony, SignIn!AfterCeremony,
       SignInP!AfterCeremony, SignIn!EndCeremony, SignInP!EndCeremony, SignIn!InsertKey,
       SignInP!InsertKey, SignIn!InsertCredential, SignInP!InsertCredential, SignIn!Put,
       SignInP!Put, SignIn!ListForCounter, SignInP!ListForCounter, SignIn!UpdateCounter,
       SignInP!UpdateCounter, SignIn!UpdateAfterAuth, SignInP!UpdateAfterAuth,
       SignIn!StartOwner, SignInP!StartOwner, SignIn!ReceiveEdit, SignInP!ReceiveEdit,
       SignIn!OnlyEdit, SignInP!OnlyEdit, SignIn!ReadEdit, SignInP!ReadEdit,
       SignIn!HandleEdit, SignInP!HandleEdit, SignIn!LoadForEdit, SignInP!LoadForEdit,
       SignIn!CountForDelete, SignInP!CountForDelete, SignIn!DeleteKey, SignInP!DeleteKey,
       SignIn!DeleteCredential, SignInP!DeleteCredential, SignIn!Restrict,
       SignInP!Restrict, SignIn!RenameKey, SignInP!RenameKey, SignIn!RenameCredential,
       SignInP!RenameCredential, SignIn!Elsewhere, SignInP!Elsewhere, SignIn!handlers,
       SignInP!handlers, SignIn!Fail, SignInP!Fail, SignIn!PageStatementFails,
       SignInP!PageStatementFails, SignIn!PagePending, SignInP!PagePending,
       SignIn!FinishStatementFails, SignInP!FinishStatementFails, SignIn!FinishPending,
       SignInP!FinishPending, SignIn!EditStatementFails, SignInP!EditStatementFails,
       SignIn!EditPending, SignInP!EditPending, SignIn!Drop, SignInP!Drop, SignIn!Restart,
       SignInP!Restart, SignIn!DropPending, SignInP!DropPending, SignIn!vars, SignInP!vars

-----------------------------------------------------------------------------
(* What the parts assume, and what was proved of them from it *)

LEMMA ServiceAssumptions ==
  /\ Request \in [Gets -> ServiceP!RequestRecord]
  /\ Forms \subseteq ServiceP!FormRecord
  /\ Unknown \notin Posts \cup Exchanges \cup Gets
  /\ CodeTTL \in Nat \ {0} /\ TokenTTL \in Nat \ {0} /\ MaxTime \in Nat
BY PartsAssumption
   DEF Request, Challenges, Authorize!QueryRecord, Service!FormRecord, Service!S256,
       ServiceP!RequestRecord, ServiceP!FormRecord, ServiceP!S256

LEMMA ServiceKeeps ==
  /\ ServiceP!Init => ServiceP!ClaimInv
  /\ ServiceP!ClaimInv /\ [ServiceP!Next]_(ServiceP!vars) => ServiceP!ClaimInv'
BY ServiceAssumptions, ServiceP!ClaimInvInductive

LEMMA ServiceAuthorizes == ServiceP!Spec => []ServiceP!TokensAreAuthorized
BY ServiceAssumptions, ServiceP!Authorized

LEMMA AuthorizeKeeps ==
  /\ AuthorizeP!Init => AuthorizeP!ConsentInv
  /\ AuthorizeP!ConsentInv /\ [AuthorizeP!Next]_(AuthorizeP!vars) => AuthorizeP!ConsentInv'
BY AuthorizeP!InitInv, AuthorizeP!NextInv, PartsAssumption
   DEF Authorize!AddressRecord, Authorize!QueryRecord, Authorize!TicksPerSecond,
       AuthorizeP!AddressRecord, AuthorizeP!QueryRecord, AuthorizeP!TicksPerSecond

LEMMA SignInKeeps ==
  /\ SignInP!Init => SignInP!PasskeysInv
  /\ SignInP!PasskeysInv /\ [SignInP!Next]_(SignInP!vars) => SignInP!PasskeysInv'
BY SignInP!InitInv, SignInP!NextInv, PartsAssumption

-----------------------------------------------------------------------------
(* The invariants together *)

ServerInv ==
  /\ AuthorizeP!ConsentInv /\ ServiceP!ClaimInv /\ SignInP!PasskeysInv
  /\ ceremonies \subseteq Pages

LEMMA InitParts ==
  ASSUME Init
  PROVE  AuthorizeView!Init /\ Service!Init /\ SignIn!Init
<1>1. Authorize!Init /\ Service!Init /\ SignIn!Init
  BY DEF Init
<1>2. Issued = [c \in {} |-> None]
  BY <1>1 DEF Authorize!Init, Issued
<1> QED BY <1>1, <1>2 DEF Authorize!Init, AuthorizeView!Init, Authorize!EmptyGet,
             Authorize!EmptyPost, AuthorizeView!EmptyGet, AuthorizeView!EmptyPost

LEMMA InitInv == Init => ServerInv
<1> SUFFICES ASSUME Init PROVE ServerInv
  OBVIOUS
<1>1. AuthorizeP!Init /\ ServiceP!Init /\ SignInP!Init
  BY InitParts, SameAuthorize, SameService, SameSignIn
<1>2. ceremonies \subseteq Pages
  BY DEF Init
<1> QED BY <1>1, <1>2, AuthorizeKeeps, ServiceKeeps, SignInKeeps DEF ServerInv

-----------------------------------------------------------------------------
(* What the consent endpoint sees of a step *)

LEMMA StoreCodeSeen ==
  ASSUME NEW p, Authorize!StoreCode(p)
  PROVE  AuthorizeView!StoreCode(p)
<1>1. PICK computed \in posts[p].since .. now :
        codes' = Authorize!InsertCode(codes, p, posts[p].pending, Authorize!CodeExpiry(computed))
  BY DEF Authorize!StoreCode
<1>2. PICK row : row = [grant |-> posts[p].pending, expires_at |-> computed + CodeTTL,
                        used_at |-> -1]
  OBVIOUS
<1>3. codes' = [c \in DOMAIN codes \cup {p} |-> IF c = p THEN row ELSE codes[c]]
  BY <1>1, <1>2 DEF Authorize!InsertCode, Authorize!Put, Authorize!CodeExpiry, Authorize!Null
<1>4. [row EXCEPT !.used_at = -1] = row
  BY <1>2
<1>5. Issued' = [c \in DOMAIN Issued \cup {p} |-> IF c = p THEN row ELSE Issued[c]]
  BY <1>3, <1>4 DEF Issued
<1>6. Issued' = AuthorizeView!InsertCode(Issued, p, posts[p].pending,
                                         AuthorizeView!CodeExpiry(computed))
  BY <1>2, <1>5 DEF AuthorizeView!InsertCode, AuthorizeView!Put, AuthorizeView!CodeExpiry,
                    AuthorizeView!Null
<1> QED BY <1>1, <1>6 DEF Authorize!StoreCode, AuthorizeView!StoreCode,
                          Authorize!browsers, AuthorizeView!browsers

\* A step of a GET handler that writes no table, and one that stores its request.
LEMMA GetSeen ==
  ASSUME UNCHANGED codes, NEW g, NEW b
  PROVE  /\ Authorize!ReceiveGet(g, b) => AuthorizeView!ReceiveGet(g, b)
         /\ Authorize!LookUp(g) => AuthorizeView!LookUp(g)
         /\ Authorize!FinishFetch(g) => AuthorizeView!FinishFetch(g)
         /\ Authorize!LoadForConsent(g) => AuthorizeView!LoadForConsent(g)
         /\ Authorize!AttachPending(g) => AuthorizeView!AttachPending(g)
         /\ Authorize!GetStatementFails(g) => AuthorizeView!GetStatementFails(g)
         /\ Authorize!DropGet(g) => AuthorizeView!DropGet(g)
<1>1. UNCHANGED Issued
  BY DEF Issued
<1>2. \A record : Authorize!SetGet(g, record) => AuthorizeView!SetGet(g, record)
  BY <1>1 DEF Authorize!SetGet, AuthorizeView!SetGet, Authorize!browsers, AuthorizeView!browsers
<1>3. \A r, status : Authorize!GoOn(r, status) = AuthorizeView!GoOn(r, status)
  BY DEF Authorize!GoOn, AuthorizeView!GoOn, Authorize!GetPending, AuthorizeView!GetPending,
       Authorize!EmptyGet, AuthorizeView!EmptyGet
<1>4. \A q, cookie, published : Authorize!AfterMetadata(q, cookie, published)
                                  = AuthorizeView!AfterMetadata(q, cookie, published)
  BY DEF Authorize!AfterMetadata, AuthorizeView!AfterMetadata, Authorize!ValidRedirect,
       AuthorizeView!ValidRedirect, Authorize!SameOrigin, AuthorizeView!SameOrigin,
       Authorize!Port, AuthorizeView!Port, Authorize!Acceptable, AuthorizeView!Acceptable
<1>5. \A c : /\ Authorize!FetchOutcomes(c) = AuthorizeView!FetchOutcomes(c)
             /\ Authorize!MayFetch(c) = AuthorizeView!MayFetch(c)
             /\ Authorize!IsLoopback(c) = AuthorizeView!IsLoopback(c)
  BY DEF Authorize!FetchOutcomes, AuthorizeView!FetchOutcomes, Authorize!Accepted,
       AuthorizeView!Accepted, Authorize!MayFetch, AuthorizeView!MayFetch,
       Authorize!Disallowed, AuthorizeView!Disallowed, Authorize!IsLoopback,
       AuthorizeView!IsLoopback
<1>6. /\ \A q : Authorize!WellFormed(q) = AuthorizeView!WellFormed(q)
      /\ \A found : Authorize!AfterLoad(found) = AuthorizeView!AfterLoad(found)
      /\ \A s : Authorize!OwnerSession(s) = AuthorizeView!OwnerSession(s)
  BY DEF Authorize!WellFormed, AuthorizeView!WellFormed, Authorize!ProfileUrl,
       AuthorizeView!ProfileUrl, Authorize!AfterLoad, AuthorizeView!AfterLoad,
       Authorize!OwnerSession, AuthorizeView!OwnerSession, Authorize!LiveSession,
       AuthorizeView!LiveSession, Authorize!SortsAfter, AuthorizeView!SortsAfter,
       Authorize!Second, AuthorizeView!Second, Authorize!TicksPerSecond,
       AuthorizeView!TicksPerSecond, Authorize!Char, AuthorizeView!Char
<1>7. Authorize!ReceiveGet(g, b) => AuthorizeView!ReceiveGet(g, b)
  BY <1>2, <1>3, <1>4, <1>5, <1>6 DEF Authorize!ReceiveGet, AuthorizeView!ReceiveGet
<1>8. /\ Authorize!LookUp(g) => AuthorizeView!LookUp(g)
      /\ Authorize!FinishFetch(g) => AuthorizeView!FinishFetch(g)
  BY <1>2, <1>3, <1>4, <1>5
     DEF Authorize!LookUp, AuthorizeView!LookUp, Authorize!FinishFetch, AuthorizeView!FinishFetch
<1>9. Authorize!LoadForConsent(g) => AuthorizeView!LoadForConsent(g)
  BY <1>2, <1>3, <1>6 DEF Authorize!LoadForConsent, AuthorizeView!LoadForConsent
<1>10. Authorize!AttachPending(g) => AuthorizeView!AttachPending(g)
  BY <1>1 DEF Authorize!AttachPending, AuthorizeView!AttachPending, Authorize!StoreSession,
       AuthorizeView!StoreSession, Authorize!UpsertSession, AuthorizeView!UpsertSession,
       Authorize!Put, AuthorizeView!Put, Authorize!Owner, AuthorizeView!Owner
<1>11. /\ Authorize!GetStatementFails(g) => AuthorizeView!GetStatementFails(g)
       /\ Authorize!DropGet(g) => AuthorizeView!DropGet(g)
  BY <1>1 DEF Authorize!GetStatementFails, AuthorizeView!GetStatementFails, Authorize!SetGet,
       AuthorizeView!SetGet, Authorize!browsers, AuthorizeView!browsers, Authorize!GoOn,
       AuthorizeView!GoOn, Authorize!GetPending, AuthorizeView!GetPending,
       Authorize!EmptyGet, AuthorizeView!EmptyGet, Authorize!AfterLoad,
       AuthorizeView!AfterLoad, Authorize!DropGet, AuthorizeView!DropGet
<1> QED BY <1>7, <1>8, <1>9, <1>10, <1>11

LEMMA PostSeen ==
  ASSUME UNCHANGED codes, NEW p, NEW b
  PROVE  /\ Authorize!ReceivePost(p, b) => AuthorizeView!ReceivePost(p, b)
         /\ Authorize!LoadPending(p) => AuthorizeView!LoadPending(p)
         /\ Authorize!ReadDecision(p) => AuthorizeView!ReadDecision(p)
         /\ Authorize!ClearPending(p) => AuthorizeView!ClearPending(p)
         /\ Authorize!PostStatementFails(p) => AuthorizeView!PostStatementFails(p)
         /\ Authorize!DropPost(p) => AuthorizeView!DropPost(p)
<1>1. UNCHANGED Issued
  BY DEF Issued
<1>2. /\ Authorize!ReceivePost(p, b) => AuthorizeView!ReceivePost(p, b)
      /\ Authorize!LoadPending(p) => AuthorizeView!LoadPending(p)
      /\ Authorize!ReadDecision(p) => AuthorizeView!ReadDecision(p)
      /\ Authorize!PostStatementFails(p) => AuthorizeView!PostStatementFails(p)
      /\ Authorize!DropPost(p) => AuthorizeView!DropPost(p)
  BY <1>1 DEF Authorize!ReceivePost, AuthorizeView!ReceivePost, Authorize!ForeignHeaders,
       AuthorizeView!ForeignHeaders, Authorize!OwnHeaders, AuthorizeView!OwnHeaders,
       Authorize!SetPost, AuthorizeView!SetPost, Authorize!browsers,
       AuthorizeView!browsers, Authorize!IsSameSite, AuthorizeView!IsSameSite,
       Authorize!EmptyPost, AuthorizeView!EmptyPost, Authorize!LoadPending,
       AuthorizeView!LoadPending, Authorize!OwnerSession, AuthorizeView!OwnerSession,
       Authorize!LiveSession, AuthorizeView!LiveSession, Authorize!SortsAfter,
       AuthorizeView!SortsAfter, Authorize!Second, AuthorizeView!Second,
       Authorize!TicksPerSecond, AuthorizeView!TicksPerSecond, Authorize!Char,
       AuthorizeView!Char, Authorize!ReadDecision, AuthorizeView!ReadDecision,
       Authorize!PostStatementFails, AuthorizeView!PostStatementFails, Authorize!Decided,
       AuthorizeView!Decided, Authorize!DropPost, AuthorizeView!DropPost
<1>3. Authorize!ClearPending(p) => AuthorizeView!ClearPending(p)
  BY <1>1 DEF Authorize!ClearPending, AuthorizeView!ClearPending, Authorize!StoreSession,
       AuthorizeView!StoreSession, Authorize!UpsertSession, AuthorizeView!UpsertSession,
       Authorize!Put, AuthorizeView!Put, Authorize!Owner, AuthorizeView!Owner,
       Authorize!Left, AuthorizeView!Left, Authorize!Decided, AuthorizeView!Decided,
       Authorize!browsers, AuthorizeView!browsers
<1> QED BY <1>2, <1>3

LEMMA OthersSeen ==
  ASSUME UNCHANGED codes, NEW x, NEW b
  PROVE  /\ Authorize!ReceiveLogout(x, b) => AuthorizeView!ReceiveLogout(x, b)
         /\ Authorize!EndSession(x) => AuthorizeView!EndSession(x)
         /\ Authorize!LogoutStatementFails(x) => AuthorizeView!LogoutStatementFails(x)
         /\ Authorize!Sweep => AuthorizeView!Sweep
         /\ Authorize!Tick => AuthorizeView!Tick
         /\ Authorize!SignIn(x, b) => AuthorizeView!SignIn(x, b)
         /\ Authorize!Restart => AuthorizeView!Restart
<1>1. UNCHANGED Issued
  BY DEF Issued
<1>2. /\ Authorize!ReceiveLogout(x, b) => AuthorizeView!ReceiveLogout(x, b)
      /\ Authorize!EndSession(x) => AuthorizeView!EndSession(x)
      /\ Authorize!LogoutStatementFails(x) => AuthorizeView!LogoutStatementFails(x)
  BY <1>1 DEF Authorize!ReceiveLogout, AuthorizeView!ReceiveLogout, Authorize!OwnHeaders,
       AuthorizeView!OwnHeaders, Authorize!ForeignHeaders, AuthorizeView!ForeignHeaders,
       Authorize!IsSameSite, AuthorizeView!IsSameSite, Authorize!browsers,
       AuthorizeView!browsers, Authorize!EndSession, AuthorizeView!EndSession,
       Authorize!DeleteSession, AuthorizeView!DeleteSession, Authorize!Restrict,
       AuthorizeView!Restrict, Authorize!LogoutStatementFails,
       AuthorizeView!LogoutStatementFails
<1>3. /\ Authorize!Sweep => AuthorizeView!Sweep
      /\ Authorize!Tick => AuthorizeView!Tick
      /\ Authorize!SignIn(x, b) => AuthorizeView!SignIn(x, b)
      /\ Authorize!Restart => AuthorizeView!Restart
  BY <1>1 DEF Authorize!Sweep, AuthorizeView!Sweep, Authorize!CleanupExpiredSessions,
       AuthorizeView!CleanupExpiredSessions, Authorize!Restrict, AuthorizeView!Restrict,
       Authorize!LiveSession, AuthorizeView!LiveSession, Authorize!SortsAfter,
       AuthorizeView!SortsAfter, Authorize!Second, AuthorizeView!Second,
       Authorize!TicksPerSecond, AuthorizeView!TicksPerSecond, Authorize!Char,
       AuthorizeView!Char, Authorize!handlers, AuthorizeView!handlers, Authorize!browsers,
       AuthorizeView!browsers, Authorize!Tick, AuthorizeView!Tick, Authorize!SignIn,
       AuthorizeView!SignIn, Authorize!StoreSession, AuthorizeView!StoreSession,
       Authorize!UpsertSession, AuthorizeView!UpsertSession, Authorize!Put,
       AuthorizeView!Put, Authorize!Owner, AuthorizeView!Owner, Authorize!Restart,
       AuthorizeView!Restart, Authorize!DropPending, AuthorizeView!DropPending,
       Authorize!GetPending, AuthorizeView!GetPending, Authorize!PostPending,
       AuthorizeView!PostPending
<1> QED BY <1>2, <1>3

LEMMA NextSeen == Authorize!Next => AuthorizeView!Next
<1> SUFFICES ASSUME Authorize!Next PROVE AuthorizeView!Next
  OBVIOUS
<1>1. CASE \E p \in Posts : Authorize!StoreCode(p)
  BY <1>1, StoreCodeSeen
     DEF AuthorizeView!Next, AuthorizeView!Operate, AuthorizeView!HandlePost
<1>2. CASE ~\E p \in Posts : Authorize!StoreCode(p)
  <2>1. UNCHANGED codes
    BY <1>2 DEF Authorize!Next, Authorize!Tick, Authorize!SignIn, Authorize!Operate,
         Authorize!Fail, Authorize!Restart, Authorize!ReceiveGet, Authorize!LookUp,
         Authorize!HandleGet, Authorize!FinishFetch, Authorize!LoadForConsent,
         Authorize!AttachPending, Authorize!ReceivePost, Authorize!ReadDecision,
         Authorize!HandlePost, Authorize!LoadPending, Authorize!ClearPending,
         Authorize!ReceiveLogout, Authorize!EndSession, Authorize!Sweep,
         Authorize!GetStatementFails, Authorize!DropGet, Authorize!PostStatementFails,
         Authorize!DropPost, Authorize!LogoutStatementFails, Authorize!SetGet,
         Authorize!SetPost
  <2> QED BY <1>2, <2>1, GetSeen, PostSeen, OthersSeen
          DEF Authorize!Next, AuthorizeView!Next, Authorize!Operate, AuthorizeView!Operate,
       Authorize!HandleGet, AuthorizeView!HandleGet, Authorize!HandlePost,
       AuthorizeView!HandlePost, Authorize!Fail, AuthorizeView!Fail
<1> QED BY <1>1, <1>2

\* That a code is used is not seen.
LEMMA UsedNotSeen ==
  ASSUME ServerInv, Service!Operate \/ Service!Fail
  PROVE  UNCHANGED Issued
<1>1. CASE \E e \in Exchanges : Service!ClaimCode(e)
  <2>1. PICK e \in Exchanges : Service!ClaimCode(e)
    BY <1>1
  <2>2. PICK c : c = exchanges[e].code
    OBVIOUS
  <2>3. c \in DOMAIN codes /\ codes' = [codes EXCEPT ![c].used_at = now]
    <3>1. c \in DOMAIN codes /\ codes[c].used_at = -1
      BY <2>1, <2>2 DEF Service!ClaimCode, ServerInv, ServiceP!ClaimInv, ServiceP!ClaimsOK,
                        ServiceP!FoundOK, ServiceP!Null
    <3> QED BY <2>1, <2>2, <3>1 DEF Service!ClaimCode, Service!MarkUsed, Service!Null
  <2>4. \A d \in DOMAIN codes :
          [codes'[d] EXCEPT !.used_at = -1] = [codes[d] EXCEPT !.used_at = -1]
    <3>1. codes[c] \in ServiceP!CodeRow
      BY <2>3 DEF ServerInv, ServiceP!ClaimInv, ServiceP!TypeOK
    <3>2. codes'[c] = [codes[c] EXCEPT !.used_at = now]
      BY <2>3
    <3>3. [codes'[c] EXCEPT !.used_at = -1] = [codes[c] EXCEPT !.used_at = -1]
      BY <3>1, <3>2 DEF ServiceP!CodeRow
    <3> QED BY <2>3, <3>3
  <2>5. DOMAIN codes' = DOMAIN codes
    BY <2>3
  <2> QED BY <2>4, <2>5 DEF Issued
<1>2. CASE ~\E e \in Exchanges : Service!ClaimCode(e)
  <2>1. UNCHANGED codes
    BY <1>2 DEF Service!Operate, Service!Fail, Service!HandleExchange, Service!ReceiveExchange,
         Service!FindCode, Service!RefuseCode, Service!StoreToken,
         Service!ReceiveIntrospection, Service!AnswerIntrospection,
         Service!ReceiveRevocation, Service!Revoke,
         Service!ExchangeStatementFails, Service!DropExchange,
         Service!IntrospectionStatementFails, Service!RevocationStatementFails,
         Service!tables
  <2> QED BY <2>1 DEF Issued
<1> QED BY <1>1, <1>2

LEMMA AuthorizeSees ==
  ASSUME ServerInv, [Next]_vars
  PROVE  [AuthorizeView!Next]_(AuthorizeView!vars)
<1>1. CASE Authorize!Next
  BY <1>1, NextSeen
<1>2. CASE Tick \/ AuthorizeStep \/ Restart
  BY <1>1, <1>2 DEF Tick, AuthorizeStep, Restart, Authorize!Next
<1>3. CASE StartSession
  <2>1. PICK f \in Finishes : /\ finishes[f].status = "starting"
                              /\ Authorize!SignIn(f, finishes[f].browser)
    BY <1>3 DEF StartSession
  <2>2. finishes[f].browser \in Browsers
    BY <2>1 DEF ServerInv, SignInP!PasskeysInv, SignInP!FinishOK, SignInP!MadeOn
  <2> QED BY <1>1, <2>1, <2>2 DEF Authorize!Next
<1>4. CASE ServiceStep
  <2>1. UNCHANGED <<now, authorizeVars>>
    BY <1>4 DEF ServiceStep, Service!Operate, Service!Fail, Service!HandleExchange,
         Service!ReceiveExchange, Service!FindCode, Service!ClaimCode, Service!RefuseCode,
         Service!StoreToken, Service!ReceiveIntrospection, Service!AnswerIntrospection,
         Service!ReceiveRevocation, Service!Revoke, Service!ExchangeStatementFails,
         Service!DropExchange, Service!IntrospectionStatementFails,
         Service!RevocationStatementFails
  <2>2. UNCHANGED Issued
    BY <1>4, UsedNotSeen DEF ServiceStep
  <2> QED BY <2>1, <2>2 DEF authorizeVars, AuthorizeView!vars, AuthorizeView!handlers,
                            AuthorizeView!browsers
<1>5. CASE UNCHANGED <<now, codes, authorizeVars>>
  <2>1. UNCHANGED Issued
    BY <1>5 DEF Issued
  <2> QED BY <1>5, <2>1 DEF authorizeVars, AuthorizeView!vars, AuthorizeView!handlers,
                            AuthorizeView!browsers
<1> QED BY <1>2, <1>3, <1>4, <1>5 DEF Next, vars, PasskeyStep, CeremoniesLapse

-----------------------------------------------------------------------------
(* What the token endpoints see of a step *)

\* The consent endpoint stores a fresh code for a request, in time, or no code.
LEMMA CodesStored ==
  ASSUME ServerInv, Authorize!Operate \/ Authorize!Fail
  PROVE  /\ UNCHANGED now
         /\ \/ \E p \in Posts, g \in Gets :
                 /\ p \notin DOMAIN codes
                 /\ \E computed \in 0 .. now :
                      codes' = Service!InsertCode(codes, p, g, computed + CodeTTL)
            \/ UNCHANGED codes
<1>1. CASE \E p \in Posts : Authorize!StoreCode(p)
  <2>1. PICK p \in Posts : Authorize!StoreCode(p)
    BY <1>1
  <2>2. PICK computed \in posts[p].since .. now :
          codes' = Authorize!InsertCode(codes, p, posts[p].pending,
                                        Authorize!CodeExpiry(computed))
    BY <2>1 DEF Authorize!StoreCode
  <2>3. posts[p].status = "storing" /\ UNCHANGED now
    BY <2>1 DEF Authorize!StoreCode
  <2>4. /\ AuthorizeP!PostOK(posts[p]) /\ now \in Nat
        /\ \A q \in DOMAIN Issued : posts[q].status \in {"approved", "dropped"}
    BY DEF ServerInv, AuthorizeP!ConsentInv, AuthorizeP!TypeOK, AuthorizeP!CodeOK,
           AuthorizeP!Instant
  <2>5. p \notin DOMAIN codes
    BY <2>3, <2>4 DEF Issued
  <2>6. posts[p].pending \in Gets /\ posts[p].since \in Nat
    BY <2>3, <2>4 DEF AuthorizeP!PostOK, AuthorizeP!PostRecord, AuthorizeP!Instant
  <2>7. computed \in 0 .. now
    BY <2>4, <2>6
  <2>8. codes' = Service!InsertCode(codes, p, posts[p].pending, computed + CodeTTL)
    BY <2>2 DEF Authorize!InsertCode, Authorize!Put, Authorize!CodeExpiry, Authorize!Null,
                Service!InsertCode, Service!Put, Service!Null
  <2> QED BY <2>3, <2>5, <2>6, <2>7, <2>8
<1>2. CASE ~\E p \in Posts : Authorize!StoreCode(p)
  BY <1>2 DEF Authorize!Operate, Authorize!Fail, Authorize!ReceiveGet, Authorize!LookUp,
         Authorize!HandleGet, Authorize!FinishFetch, Authorize!LoadForConsent,
         Authorize!AttachPending, Authorize!ReceivePost, Authorize!ReadDecision,
         Authorize!HandlePost, Authorize!LoadPending, Authorize!ClearPending,
         Authorize!ReceiveLogout, Authorize!EndSession, Authorize!Sweep,
         Authorize!GetStatementFails, Authorize!DropGet, Authorize!PostStatementFails,
         Authorize!DropPost, Authorize!LogoutStatementFails, Authorize!SetGet,
         Authorize!SetPost
<1> QED BY <1>1, <1>2

LEMMA ServiceSees ==
  ASSUME ServerInv, [Next]_vars
  PROVE  [Service!Next]_(Service!vars)
<1>1. CASE Tick \/ ServiceStep \/ Restart
  BY <1>1 DEF Tick, ServiceStep, Restart, Service!Next
<1>2. CASE AuthorizeStep
  BY <1>2, CodesStored
     DEF AuthorizeStep, serviceVars, Service!Next, Service!StoreCode, Service!vars,
         Service!tables, Service!handlers
<1>3. CASE StartSession
  BY <1>3 DEF StartSession, Authorize!SignIn, serviceVars, Service!vars, Service!tables,
              Service!handlers
<1>4. CASE UNCHANGED <<now, codes, serviceVars>>
  BY <1>4 DEF serviceVars, Service!vars, Service!tables, Service!handlers
<1> QED BY <1>1, <1>2, <1>3, <1>4 DEF Next, vars, PasskeyStep, CeremoniesLapse

-----------------------------------------------------------------------------
(* What sign-in sees of a step *)

\* The other endpoints and the clock change rows of started sessions, let ceremonies
\* lapse and clear a cookie.
LEMMA ElsewhereSeen ==
  ASSUME ServerInv, AuthorizeP!ConsentInv',
         ceremonies' \subseteq ceremonies, UNCHANGED minted,
         UNCHANGED <<credentials, ceremonyJar, signed, pages, finishes, edits>>,
         NEW b, jar' \in {jar, [jar EXCEPT ![b] = None]}
  PROVE  SignIn!Elsewhere
<1>1. LiveOwners' \subseteq minted
  <2>1. LiveOwners' \subseteq DOMAIN sessions'
    BY DEF LiveOwners
  <2>2. DOMAIN sessions' \subseteq minted'
    BY DEF AuthorizeP!ConsentInv, AuthorizeP!TypeOK
  <2> QED BY <2>1, <2>2
<1>2. ceremonies' \subseteq (ceremonies \cup LiveOwners) \cap Pages
  BY DEF ServerInv
<1>3. jar' \in {jar} \cup {[jar EXCEPT ![c] = None] : c \in Browsers}
  <2>1. CASE b \in Browsers
    BY <2>1
  <2>2. CASE b \notin Browsers
    <3>1. jar \in [Browsers -> Finishes \cup {None}]
      BY DEF ServerInv, AuthorizeP!ConsentInv, AuthorizeP!TypeOK
    <3>2. [jar EXCEPT ![b] = None] = jar
      BY <2>2, <3>1
    <3> QED BY <3>2
  <2> QED BY <2>1, <2>2
<1> QED BY <1>1, <1>2, <1>3 DEF SignIn!Elsewhere, SignIn!handlers

\* No step of the consent endpoint starts a session, and one that changes a cookie
\* clears it.
LEMMA CookiesCleared ==
  ASSUME Authorize!Operate \/ Authorize!Fail
  PROVE  UNCHANGED minted /\ \E b : jar' \in {jar, [jar EXCEPT ![b] = None]}
BY DEF Authorize!Operate, Authorize!Fail, Authorize!ReceiveGet, Authorize!LookUp,
       Authorize!HandleGet, Authorize!FinishFetch, Authorize!LoadForConsent,
       Authorize!AttachPending, Authorize!ReceivePost, Authorize!ReadDecision,
       Authorize!HandlePost, Authorize!LoadPending, Authorize!ClearPending,
       Authorize!StoreCode, Authorize!ReceiveLogout, Authorize!EndSession, Authorize!Sweep,
       Authorize!GetStatementFails, Authorize!DropGet, Authorize!PostStatementFails,
       Authorize!DropPost, Authorize!LogoutStatementFails, Authorize!SetGet,
       Authorize!SetPost, Authorize!browsers

LEMMA SignInSees ==
  ASSUME ServerInv, AuthorizeP!ConsentInv', [Next]_vars
  PROVE  [SignIn!Next]_(SignIn!vars)
<1>1. CASE Tick
  BY <1>1, ElsewhereSeen DEF Tick, Authorize!Tick, Authorize!browsers, passkeyVars, SignIn!Next
<1>2. CASE AuthorizeStep
  <2>1. UNCHANGED minted /\ \E b : jar' \in {jar, [jar EXCEPT ![b] = None]}
    BY <1>2, CookiesCleared DEF AuthorizeStep
  <2> QED BY <1>2, <2>1, ElsewhereSeen DEF AuthorizeStep, passkeyVars, SignIn!Next
<1>3. CASE ServiceStep \/ CeremoniesLapse
  BY <1>3, ElsewhereSeen
     DEF ServiceStep, CeremoniesLapse, authorizeVars, passkeyVars, SignIn!Next
<1>4. CASE PasskeyStep \/ StartSession \/ Restart
  BY <1>4 DEF PasskeyStep, StartSession, Restart, SignIn!Next, SignIn!Operate,
              SignIn!HandleFinish
<1>5. CASE UNCHANGED vars
  <2>1. UNCHANGED LiveOwners
    BY <1>5 DEF vars, authorizeVars, LiveOwners, Authorize!LiveSession
  <2> QED BY <1>5, <2>1 DEF vars, authorizeVars, passkeyVars, SignIn!vars, SignIn!tables,
                            SignIn!browsers, SignIn!handlers
<1> QED BY <1>1, <1>2, <1>3, <1>4, <1>5 DEF Next

-----------------------------------------------------------------------------
(* The invariants hold together, and the server implements each part *)

LEMMA NextInv == ServerInv /\ [Next]_vars => ServerInv'
<1> SUFFICES ASSUME ServerInv, [Next]_vars PROVE ServerInv'
  OBVIOUS
<1>1. AuthorizeP!ConsentInv'
  BY AuthorizeSees, SameAuthorize, AuthorizeKeeps DEF ServerInv
<1>2. ServiceP!ClaimInv'
  BY ServiceSees, SameService, ServiceKeeps DEF ServerInv
<1>3. SignInP!PasskeysInv'
  BY <1>1, SignInSees, SameSignIn, SignInKeeps DEF ServerInv
<1>4. ceremonies' \subseteq Pages
  BY DEF ServerInv, Next, vars, passkeyVars, Tick, AuthorizeStep, ServiceStep, PasskeyStep,
         StartSession, CeremoniesLapse, Restart
<1> QED BY <1>1, <1>2, <1>3, <1>4 DEF ServerInv

LEMMA Inductive == Spec => []ServerInv
BY InitInv, NextInv, PTL DEF Spec

\* To the consent endpoint every step of the server is one of its own or none: the other
\* endpoints never touch a session or what a code was issued for.
THEOREM ServesConsent == Spec => ImplementsConsent
BY InitParts, AuthorizeSees, Inductive, PTL DEF Spec, ImplementsConsent, AuthorizeView!Spec

\* To the token endpoints every step of the server is one of theirs, the storing of a
\* fresh code, or none.
THEOREM ServesTokens == Spec => ImplementsTokenService
BY InitParts, ServiceSees, Inductive, PTL DEF Spec, ImplementsTokenService, Service!Spec

\* To sign-in every step of the server is one of its own, or what it lets the other
\* endpoints and the clock do: nothing else signs anybody in.
THEOREM ServesSignIn == Spec => ImplementsPasskeys
<1>1. ServerInv => AuthorizeP!ConsentInv
  BY DEF ServerInv
<1> QED BY <1>1, InitParts, SignInSees, Inductive, PTL DEF Spec, ImplementsPasskeys, SignIn!Spec

-----------------------------------------------------------------------------
(* What follows of the whole *)

\* A code that the consent endpoint stored was approved in a session that was started,
\* and is for a request of that session that passed the checks.
LEMMA CodeFacts ==
  ASSUME ServerInv, NEW p \in DOMAIN codes
  PROVE  LET g == codes[p].grant IN
         /\ p \in Posts /\ g \in Gets
         /\ posts[p].approve /\ posts[p].page # None /\ posts[p].pending = g
         /\ posts[p].session = gets[g].session /\ posts[p].session \in minted
         /\ Query[g].response_type = "code" /\ Query[g].method = "S256"
         /\ Authorize!BelongsTo(Query[g].redirect_uri, Query[g].client_id)
<1>1. p \in DOMAIN Issued
  BY DEF Issued
<1>2. Issued[p].grant = codes[p].grant
  <2>1. codes[p] \in ServiceP!CodeRow
    BY DEF ServerInv, ServiceP!ClaimInv, ServiceP!TypeOK
  <2> QED BY <2>1 DEF Issued, ServiceP!CodeRow
<1>3. /\ p \in Posts /\ codes[p].grant \in Gets
      /\ AuthorizeP!CodeOK(p) /\ AuthorizeP!PostOK(posts[p])
  BY <1>1, <1>2 DEF ServerInv, AuthorizeP!ConsentInv, AuthorizeP!TypeOK, AuthorizeP!CodeRow
<1>4. /\ posts[p].approve /\ posts[p].page # None /\ posts[p].pending = codes[p].grant
  BY <1>2, <1>3 DEF AuthorizeP!CodeOK
<1>5. None \notin Gets
  BY PartsAssumption DEF Authorize!NoneAssumption
<1>6. posts[p].session \in minted /\ AuthorizeP!StoredIn(codes[p].grant, posts[p].session)
  BY <1>3, <1>4, <1>5 DEF AuthorizeP!PostOK
<1>7. Authorize!BelongsTo(Query[codes[p].grant].redirect_uri, Query[codes[p].grant].client_id)
  BY <1>6
     DEF AuthorizeP!StoredIn, AuthorizeP!Checked, Authorize!BelongsTo,
         AuthorizeP!BelongsTo, Authorize!SameOrigin, AuthorizeP!SameOrigin,
         Authorize!Port, AuthorizeP!Port, Authorize!IsLoopback, AuthorizeP!IsLoopback
<1> QED BY <1>3, <1>4, <1>6, <1>7
        DEF AuthorizeP!StoredIn, AuthorizeP!Checked, AuthorizeP!Acceptable

\* Every code was approved in a session that a passkey, the owner or the bootstrap
\* secret started.
THEOREM PasskeysBehindCodes == Spec => []CodesComeFromPasskeys
<1>1. ServerInv => CodesComeFromPasskeys
  <2> SUFFICES ASSUME ServerInv, NEW p \in DOMAIN codes
               PROVE  LET f == posts[p].session
                          page == pages[finishes[f].page]
                      IN /\ f \in Finishes
                         /\ finishes[f].ceremony = finishes[f].page
                         /\ page.kind = finishes[f].kind
                         /\ IF page.kind = "login" THEN finishes[f].key \in page.known
                            ELSE page.by # "nobody"
    BY DEF CodesComeFromPasskeys
  <2>1. posts[p].session \in minted \cap Finishes
    BY CodeFacts DEF ServerInv, AuthorizeP!ConsentInv, AuthorizeP!TypeOK
  <2>2. SignInP!SessionsAreEarned
    BY PartsAssumption, SignInP!InvImplies DEF ServerInv
  <2>3. pages \in [Pages -> SignInP!PageRecord]
    BY DEF ServerInv, SignInP!PasskeysInv, SignInP!TypeOK
  <2> QED BY <2>1, <2>2, <2>3 DEF SignInP!SessionsAreEarned, SignInP!PageRecord, SignInP!Kinds
<1> QED BY <1>1, Inductive, PTL

\* Every token goes back to a decision to approve a request that passed the checks, made
\* in the session that asked, and was sent to a holder of that request's verifier.
THEOREM ApprovalsBehindTokens == Spec => []TokensComeFromApprovals
<1>1. ServerInv /\ ServiceP!TokensAreAuthorized => TokensComeFromApprovals
  <2> SUFFICES ASSUME ServerInv, ServiceP!TokensAreAuthorized, NEW t \in DOMAIN tokens
               PROVE  LET p == exchanges[t].code
                          g == posts[p].pending
                          q == Query[g]
                      IN /\ p \in Posts
                         /\ posts[p].approve /\ posts[p].page # None
                         /\ posts[p].session = gets[g].session
                         /\ q.response_type = "code" /\ q.method = "S256"
                         /\ Authorize!BelongsTo(q.redirect_uri, q.client_id)
                         /\ tokens[t].client_id = q.client_id
                         /\ tokens[t].scope = q.scope
                         /\ exchanges[t].form.redirect_uri = q.redirect_uri
                         /\ Service!S256(exchanges[t].form.code_verifier) = q.code_challenge
    BY DEF TokensComeFromApprovals
  <2> DEFINE p == exchanges[t].code
             g == codes[p].grant
  <2>1. /\ p \in DOMAIN codes /\ g = exchanges[t].grant
        /\ tokens[t].client_id = Request[g].client_id
        /\ tokens[t].scope = Request[g].scope
        /\ exchanges[t].form.redirect_uri = Request[g].redirect_uri
        /\ Service!S256(exchanges[t].form.code_verifier) = Request[g].code_challenge
    BY DEF ServiceP!TokensAreAuthorized, ServiceP!S256, Service!S256
  <2>2. g \in Gets /\ posts[p].pending = g
    BY <2>1, CodeFacts
  <2>3. /\ Request[g].client_id = Query[g].client_id /\ Request[g].scope = Query[g].scope
        /\ Request[g].redirect_uri = Query[g].redirect_uri
        /\ Request[g].code_challenge = Query[g].code_challenge
    BY <2>2 DEF Request
  <2> QED BY <2>1, <2>2, <2>3, CodeFacts
<1>2. Spec => []ServiceP!TokensAreAuthorized
  BY InitParts, SameService, ServiceSees, Inductive, ServiceAuthorizes, PTL
     DEF Spec, ServiceP!Spec
<1> QED BY <1>1, <1>2, Inductive, PTL
=============================================================================
