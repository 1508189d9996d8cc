--------------------------- MODULE ConsentProofs ---------------------------
(***************************************************************************)
(* Proofs about Consent and the client metadata it consults, for every     *)
(* value of their constants.                                               *)
(*                                                                         *)
(* The inductive invariant says of each handler record what it may hold    *)
(* (GetOK, PostOK), and of each row where its request comes from (RowOK):  *)
(* a request is only ever in the row of the session that asked, and only   *)
(* after it has passed the checks.  That is why one decision can clear it  *)
(* for good, and why a code is for a request that was checked.             *)
(***************************************************************************)
EXTENDS Consent, TLAPS

-----------------------------------------------------------------------------
(* Client metadata *)

\* What validate_redirect_uri may be given: a loopback client is not fetched, and a
\* client that may not be fetched has published nothing.
Consulted(client) ==
  IF ~IsLoopback(client) /\ MayFetch(client) THEN FetchOutcomes(client) ELSE {{}}

\* A redirect URI passes only if it belongs to the client, whatever the client's host
\* serves and however often it is asked (client_metadata.rs).
LEMMA OwnUris ==
  ASSUME NEW client, NEW uri, NEW published \in Consulted(client),
         ValidRedirect(client, uri, published)
  PROVE  BelongsTo(uri, client)
<1> SUFFICES ASSUME ~SameOrigin(client, uri) PROVE BelongsTo(uri, client)
  BY DEF BelongsTo
<1>1. Url[uri].text \in published
  BY DEF ValidRedirect
<1>2. ~IsLoopback(client) /\ Accepted(client) /\ published = Served[client].redirect_uris
  BY <1>1 DEF Consulted, FetchOutcomes
<1> QED BY <1>1, <1>2 DEF BelongsTo, Accepted

-----------------------------------------------------------------------------
(* The inductive invariant *)

\* Request g has passed the checks of the GET handler.
Checked(g) == /\ Acceptable(Query[g])
              /\ BelongsTo(Query[g].redirect_uri, Query[g].client_id)

\* Request g was stored, if ever, in row s, by a handler that has ended.
StoredIn(g, s) == /\ gets[g].session = s
                  /\ gets[g].status \in {"page", "dropped"}
                  /\ Checked(g)

RowPending(s) == sessions[s].data.pending_authorize

\* A decision of session s has cleared its row.
ClearedIn(s) == \E p \in Posts : posts[p].cleared /\ posts[p].session = s

\* The request that a row holds was stored there, and none later; an empty row has
\* never held one or was cleared.
RowOK(s) ==
  /\ RowPending(s) # None => StoredIn(RowPending(s), s) /\ latest[s] = RowPending(s)
  /\ RowPending(s) = None => latest[s] = None \/ ClearedIn(s)

\* What the handler of request g may know, given how far it is.
GetOK(g, r) ==
  /\ r \in GetRecord
  /\ r.session \in minted \cup {None}
  /\ r.status \in {"resolving", "fetching"} => ~IsLoopback(Query[g].client_id)
  /\ r.status = "fetching" => MayFetch(Query[g].client_id)
  /\ r.status = "error_redirect" => BelongsTo(Query[g].redirect_uri, Query[g].client_id)
  /\ r.status \in {"loading", "attaching", "page"} => r.session # None /\ Checked(g)
  /\ r.status = "bad_request" =>
       ~WellFormed(Query[g]) \/ ~SameOrigin(Query[g].client_id, Query[g].redirect_uri)

\* What the handler of a decision may know: it took a stored request of its own session,
\* and once it has cleared it the request is in no row.
PostOK(r) ==
  /\ r \in PostRecord
  /\ r.session \in minted \cup {None}
  /\ r.status \in PostPending => r.session # None /\ r.page # None
  /\ r.status \in {"idle", "loading"} => r.pending = None
  /\ r.status \in {"reading", "clearing", "storing"} => r.pending # None
  /\ r.status = "storing" => r.approve
  /\ r.pending # None => r.session # None /\ StoredIn(r.pending, r.session)
  /\ r.cleared => /\ r.pending # None
                  /\ r.status \notin {"idle", "loading", "reading", "clearing"}
                  /\ \A s \in DOMAIN sessions : RowPending(s) # r.pending

\* A code is for the request that its decision took and approved.
CodeOK(p) ==
  /\ posts[p].status \in {"approved", "dropped"}
  /\ posts[p].page # None /\ posts[p].approve
  /\ posts[p].pending = codes[p].grant

ConsentInv ==
  /\ TypeOK
  /\ \A b \in Browsers : jar[b] \in minted \cup {None}
  /\ \A s \in DOMAIN sessions : RowOK(s)
  /\ \A s \in SessionIds \ minted : latest[s] = None
  /\ \A g \in Gets : GetOK(g, gets[g])
  /\ \A p \in Posts : PostOK(posts[p])
  /\ \A p \in DOMAIN codes : CodeOK(p)

LEMMA InitInv == Init => ConsentInv
<1> SUFFICES ASSUME Init PROVE ConsentInv
  OBVIOUS
<1>1. TypeOK
  BY DEF Init, TypeOK, EmptyGet, EmptyPost, GetRecord, PostRecord, LogoutRecord, Instant
<1>2. \A g \in Gets : GetOK(g, gets[g])
  BY DEF Init, EmptyGet, GetOK, GetRecord, Instant
<1>3. \A p \in Posts : PostOK(posts[p])
  BY DEF Init, EmptyPost, PostOK, PostRecord, PostPending, Instant
<1> QED BY <1>1, <1>2, <1>3 DEF Init, ConsentInv

-----------------------------------------------------------------------------
(* Steps that change one handler's record *)

LEMMA GetStep ==
  ASSUME ConsentInv, NEW g \in Gets, NEW r, SetGet(g, r), GetOK(g, r),
         gets[g].status \notin {"page", "dropped"}
  PROVE  ConsentInv'
<1>1. /\ gets' = [gets EXCEPT ![g] = r] /\ r \in GetRecord
      /\ UNCHANGED <<now, sessions, codes, posts, logouts, jar, minted, latest>>
  BY DEF SetGet, GetOK, browsers
<1>2. TypeOK'
  BY <1>1 DEF ConsentInv, TypeOK
<1>3. \A h \in Gets : h # g => gets'[h] = gets[h]
  BY <1>1 DEF ConsentInv, TypeOK
<1>4. \A h \in Gets : \A s : StoredIn(h, s) => StoredIn(h, s)'
  BY <1>3 DEF StoredIn, Checked
<1>5. \A s \in DOMAIN sessions : RowPending(s) \in Gets \cup {None}
  BY DEF ConsentInv, TypeOK, SessionRow, RowPending
<1>6. \A s \in DOMAIN sessions' : RowOK(s)'
  BY <1>1, <1>4, <1>5 DEF ConsentInv, RowOK, RowPending, ClearedIn
<1>7. \A h \in Gets : GetOK(h, gets[h])'
  <2>1. gets'[g] = r
    BY <1>1 DEF ConsentInv, TypeOK
  <2> QED BY <1>1, <1>3, <2>1 DEF ConsentInv, GetOK, Checked
<1>8. \A p \in Posts : PostOK(posts[p])'
  <2> SUFFICES ASSUME NEW p \in Posts PROVE PostOK(posts[p])'
    OBVIOUS
  <2>1. PostOK(posts[p]) /\ posts[p].pending \in Gets \cup {None}
    BY DEF ConsentInv, TypeOK, PostRecord
  <2> QED BY <1>1, <1>4, <2>1 DEF PostOK, RowPending
<1> QED BY <1>1, <1>2, <1>6, <1>7, <1>8 DEF ConsentInv, CodeOK

LEMMA PostStep ==
  ASSUME ConsentInv, NEW p \in Posts, NEW r, SetPost(p, r), PostOK(r),
         posts[p].status \notin {"approved", "dropped"},
         posts[p].cleared => r.cleared /\ r.session = posts[p].session
  PROVE  ConsentInv'
<1>1. /\ posts' = [posts EXCEPT ![p] = r] /\ r \in PostRecord
      /\ UNCHANGED <<now, sessions, codes, gets, logouts, jar, minted, latest>>
  BY DEF SetPost, PostOK, browsers
<1>2. TypeOK'
  BY <1>1 DEF ConsentInv, TypeOK
<1>3. \A q \in Posts : q # p => posts'[q] = posts[q]
  BY <1>1 DEF ConsentInv, TypeOK
<1>4. \A q \in Posts : PostOK(posts[q])'
  <2>1. posts'[p] = r
    BY <1>1 DEF ConsentInv, TypeOK
  <2> QED BY <1>1, <1>3, <2>1 DEF ConsentInv, PostOK, StoredIn, Checked, RowPending
<1>5. \A q \in DOMAIN codes' : CodeOK(q)'
  BY <1>1, <1>3 DEF ConsentInv, CodeOK, TypeOK
<1>6. \A k : ClearedIn(k) => ClearedIn(k)'
  <2>1. posts'[p] = r
    BY <1>1 DEF ConsentInv, TypeOK
  <2> QED BY <1>3, <2>1 DEF ClearedIn
<1>7. \A k \in DOMAIN sessions' : RowOK(k)'
  BY <1>1, <1>6 DEF ConsentInv, RowOK, StoredIn, Checked, RowPending
<1> QED BY <1>1, <1>2, <1>4, <1>5, <1>7 DEF ConsentInv, StoredIn, Checked, GetOK

-----------------------------------------------------------------------------
(* GET /auth/authorize *)

\* The checks let a request go on only when it may, and refuse no client its own origin.
LEMMA AfterChecks ==
  ASSUME NEW g \in Gets, NEW base \in GetRecord, base.session \in minted \cup {None},
         NEW published \in Consulted(Query[g].client_id)
  PROVE  GetOK(g, GoOn(base, AfterMetadata(Query[g], base.session, published)))
<1> DEFINE q == Query[g]
           status == AfterMetadata(q, base.session, published)
<1>2. ValidRedirect(q.client_id, q.redirect_uri, published)
        => BelongsTo(q.redirect_uri, q.client_id)
  BY OwnUris
<1>3. CASE status = "loading"
  <2>1. base.session # None /\ Checked(g)
    BY <1>2, <1>3 DEF AfterMetadata, Checked
  <2>2. GoOn(base, status) = [base EXCEPT !.status = "loading"]
    BY <1>3 DEF GoOn, GetPending
  <2> QED BY <2>1, <2>2 DEF GetOK, GetRecord, GetPending
<1>4. CASE status # "loading"
  <2>1. /\ status \in {"bad_request", "error_redirect", "login_redirect"}
        /\ status = "bad_request" => ~SameOrigin(q.client_id, q.redirect_uri)
        /\ status = "error_redirect" => BelongsTo(q.redirect_uri, q.client_id)
    BY <1>2, <1>4 DEF AfterMetadata, ValidRedirect
  <2>2. GoOn(base, status) = EmptyGet(status)
    BY <2>1 DEF GoOn, GetPending
  <2> QED BY <2>1, <2>2 DEF GetOK, GetRecord, GetEnd, EmptyGet, Instant
<1> QED BY <1>3, <1>4

LEMMA ReceiveGetInv ==
  ASSUME ConsentInv, NEW g \in Gets, NEW b \in Browsers, ReceiveGet(g, b)
  PROVE  ConsentInv'
<1> DEFINE base == [gets[g] EXCEPT !.browser = b, !.session = jar[b]]
<1>1. base \in GetRecord /\ base.session = jar[b] /\ jar[b] \in minted \cup {None}
  BY DEF ConsentInv, TypeOK, GetRecord
<1>2. CASE ~WellFormed(Query[g])
  <2>1. GetOK(g, EmptyGet("bad_request"))
    BY <1>2 DEF GetOK, EmptyGet, GetRecord, GetEnd, Instant
  <2>2. SetGet(g, EmptyGet("bad_request"))
    BY <1>2 DEF ReceiveGet, GoOn, GetPending
  <2> QED BY <2>1, <2>2, GetStep DEF ReceiveGet
<1>3. CASE WellFormed(Query[g]) /\ IsLoopback(Query[g].client_id)
  <2> DEFINE r == GoOn(base, AfterMetadata(Query[g], base.session, {}))
  <2>1. GetOK(g, r)
    BY <1>1, <1>3, AfterChecks DEF Consulted
  <2>2. SetGet(g, r)
    BY <1>1, <1>3 DEF ReceiveGet
  <2> HIDE DEF r
  <2> QED BY <2>1, <2>2, GetStep DEF ReceiveGet
<1>4. CASE WellFormed(Query[g]) /\ ~IsLoopback(Query[g].client_id)
  <2> DEFINE r == [base EXCEPT !.status = "resolving"]
  <2>1. GetOK(g, r)
    BY <1>1, <1>4 DEF GetOK, GetRecord, GetPending
  <2>2. SetGet(g, r)
    BY <1>4 DEF ReceiveGet, GoOn, GetPending
  <2> HIDE DEF r
  <2> QED BY <2>1, <2>2, GetStep DEF ReceiveGet
<1> QED BY <1>2, <1>3, <1>4

LEMMA LookUpInv ==
  ASSUME ConsentInv, NEW g \in Gets, LookUp(g)
  PROVE  ConsentInv'
<1>1. /\ gets[g] \in GetRecord /\ gets[g].session \in minted \cup {None}
      /\ ~IsLoopback(Query[g].client_id)
  BY DEF ConsentInv, GetOK, LookUp
<1>2. CASE SetGet(g, GoOn(gets[g], AfterMetadata(Query[g], gets[g].session, {})))
  <2>1. {} \in Consulted(Query[g].client_id)
    BY DEF Consulted, FetchOutcomes
  <2> QED BY <1>1, <1>2, <2>1, AfterChecks, GetStep DEF LookUp
<1>3. CASE MayFetch(Query[g].client_id) /\ SetGet(g, GoOn(gets[g], "fetching"))
  <2>1. GetOK(g, GoOn(gets[g], "fetching"))
    BY <1>1, <1>3 DEF GetOK, GoOn, GetRecord, GetPending
  <2> QED BY <1>3, <2>1, GetStep DEF LookUp
<1> QED BY <1>2, <1>3 DEF LookUp

LEMMA FinishFetchInv ==
  ASSUME ConsentInv, NEW g \in Gets, FinishFetch(g)
  PROVE  ConsentInv'
<1>1. /\ gets[g] \in GetRecord /\ gets[g].session \in minted \cup {None}
      /\ ~IsLoopback(Query[g].client_id) /\ MayFetch(Query[g].client_id)
  BY DEF ConsentInv, GetOK, FinishFetch
<1>2. PICK published \in FetchOutcomes(Query[g].client_id) :
        SetGet(g, GoOn(gets[g], AfterMetadata(Query[g], gets[g].session, published)))
  BY DEF FinishFetch
<1>3. published \in Consulted(Query[g].client_id)
  BY <1>1 DEF Consulted
<1> QED BY <1>1, <1>2, <1>3, AfterChecks, GetStep DEF FinishFetch

LEMMA LoadForConsentInv ==
  ASSUME ConsentInv, NEW g \in Gets, LoadForConsent(g)
  PROVE  ConsentInv'
<1> DEFINE base == [gets[g] EXCEPT !.since = now]
           r == GoOn(base, AfterLoad(OwnerSession(gets[g].session)))
<1>1. GetOK(g, gets[g]) /\ gets[g].status = "loading" /\ now \in Instant
  BY DEF ConsentInv, TypeOK, LoadForConsent
<1>2. GetOK(g, r)
  <2>1. CASE OwnerSession(gets[g].session)
    <3>1. r = [base EXCEPT !.status = "attaching"]
      BY <2>1 DEF GoOn, AfterLoad, GetPending
    <3> QED BY <1>1, <3>1 DEF GetOK, GetRecord, GetPending
  <2>2. CASE ~OwnerSession(gets[g].session)
    <3>1. r = EmptyGet("login_redirect")
      BY <2>2 DEF GoOn, AfterLoad, GetPending
    <3> QED BY <3>1 DEF GetOK, EmptyGet, GetRecord, GetEnd, Instant
  <2> QED BY <2>1, <2>2
<1>3. SetGet(g, r)
  BY DEF LoadForConsent
<1> HIDE DEF r
<1> QED BY <1>1, <1>2, <1>3, GetStep

LEMMA GetFailureInv ==
  ASSUME ConsentInv, NEW g \in Gets, GetStatementFails(g) \/ DropGet(g)
  PROVE  ConsentInv'
<1>1. GetOK(g, gets[g])
  BY DEF ConsentInv
<1>2. CASE gets[g].status = "loading" /\ SetGet(g, GoOn(gets[g], AfterLoad(FALSE)))
  <2>1. GoOn(gets[g], AfterLoad(FALSE)) = EmptyGet("login_redirect")
    BY DEF GoOn, AfterLoad, GetPending
  <2>2. GetOK(g, EmptyGet("login_redirect"))
    BY DEF GetOK, EmptyGet, GetRecord, GetEnd, Instant
  <2> QED BY <1>2, <2>1, <2>2, GetStep
<1>3. CASE gets[g].status = "attaching" /\ SetGet(g, [gets[g] EXCEPT !.status = "page"])
  <2>1. GetOK(g, [gets[g] EXCEPT !.status = "page"])
    BY <1>1, <1>3 DEF GetOK, GetRecord, GetEnd
  <2> QED BY <1>3, <2>1, GetStep
<1>4. CASE DropGet(g)
  <2>1. GetOK(g, EmptyGet("dropped"))
    BY DEF GetOK, EmptyGet, GetRecord, GetEnd, Instant
  <2> QED BY <1>4, <2>1, GetStep DEF DropGet, GetPending
<1> QED BY <1>2, <1>3, <1>4 DEF GetStatementFails

-----------------------------------------------------------------------------
(* Steps that write session rows *)

\* What the upsert of an owner session leaves in the table.
LEMMA StoredRow ==
  ASSUME TypeOK, NEW s, NEW pending \in Gets \cup {None}, NEW since \in Instant,
         StoreSession(s, pending, since)
  PROVE  /\ DOMAIN sessions' = DOMAIN sessions \cup {s}
         /\ sessions'[s] \in SessionRow
         /\ sessions'[s].data.pending_authorize = pending
         /\ \A k \in DOMAIN sessions \ {s} : sessions'[k] = sessions[k]
<1>1. PICK computed \in since .. now :
        sessions' = UpsertSession(sessions, s, Owner(pending), computed + OwnerTTL)
  BY DEF StoreSession
<1> DEFINE row == [data |-> Owner(pending), expires_at |-> computed + OwnerTTL]
<1>2. computed + OwnerTTL \in Nat
  BY TimeAssumption DEF TypeOK, Instant
<1>3. row \in SessionRow /\ row.data.pending_authorize = pending
  BY <1>2 DEF SessionRow, Owner, Instant
<1>4. sessions' = Put(sessions, s, row)
  BY <1>1 DEF UpsertSession
<1> HIDE DEF row
<1> QED BY <1>3, <1>4 DEF Put

LEMMA AttachPendingInv ==
  ASSUME ConsentInv, NEW g \in Gets, AttachPending(g)
  PROVE  ConsentInv'
<1>0. PICK s \in SessionIds : s = gets[g].session
  BY DEF ConsentInv, TypeOK, GetOK, AttachPending
<1>1. /\ GetOK(g, gets[g]) /\ gets[g].status = "attaching"
      /\ s \in minted /\ Checked(g) /\ gets[g].since \in Instant
  BY <1>0 DEF ConsentInv, TypeOK, GetOK, GetRecord, AttachPending
<1>2. /\ DOMAIN sessions' = DOMAIN sessions \cup {s}
      /\ sessions'[s] \in SessionRow /\ RowPending(s)' = g
      /\ \A k \in DOMAIN sessions \ {s} : sessions'[k] = sessions[k]
  <2>1. StoreSession(s, g, gets[g].since) /\ TypeOK
    BY <1>0 DEF AttachPending, ConsentInv
  <2> QED BY <1>1, <2>1, StoredRow DEF AttachPending, RowPending
<1>3. PICK outcome \in {"page", "dropped"} : gets' = [gets EXCEPT ![g].status = outcome]
  BY DEF AttachPending
<1>4. UNCHANGED <<now, codes, posts, logouts, jar, minted>>
  BY DEF AttachPending
<1>5. /\ latest'[s] = g /\ latest' \in [SessionIds -> Gets \cup {None}]
      /\ \A k \in SessionIds \ {s} : latest'[k] = latest[k]
  BY <1>0, <1>1 DEF AttachPending, ConsentInv, TypeOK
<1>6. /\ gets'[g] = [gets[g] EXCEPT !.status = outcome]
      /\ \A h \in Gets \ {g} : gets'[h] = gets[h]
      /\ gets' \in [Gets -> GetRecord]
  BY <1>1, <1>3 DEF ConsentInv, TypeOK, GetRecord, GetEnd
<1>7. TypeOK'
  BY <1>1, <1>2, <1>4, <1>5, <1>6 DEF ConsentInv, TypeOK
<1>8. \A h \in Gets : \A k : StoredIn(h, k) => h # g /\ StoredIn(h, k)'
  BY <1>1, <1>6 DEF StoredIn, Checked
<1>9. StoredIn(g, s)'
  BY <1>0, <1>1, <1>6 DEF StoredIn, Checked, GetRecord, GetOK
<1>10. \A k \in DOMAIN sessions' : RowOK(k)'
  <2> SUFFICES ASSUME NEW k \in DOMAIN sessions', k # s PROVE RowOK(k)'
    BY <1>2, <1>5, <1>9 DEF RowOK
  <2>1. /\ k \in DOMAIN sessions /\ k \in SessionIds /\ RowOK(k)
        /\ RowPending(k) \in Gets \cup {None}
    BY <1>2 DEF ConsentInv, TypeOK, SessionRow, RowPending
  <2>2. RowPending(k)' = RowPending(k) /\ latest'[k] = latest[k]
    BY <1>2, <1>5, <2>1 DEF RowPending
  <2> QED BY <1>4, <1>8, <2>1, <2>2 DEF RowOK, ClearedIn
<1>11. \A h \in Gets : GetOK(h, gets[h])'
  BY <1>1, <1>4, <1>6 DEF ConsentInv, GetOK, GetRecord, Checked
<1>12. \A p \in Posts : PostOK(posts[p])'
  <2> SUFFICES ASSUME NEW p \in Posts PROVE PostOK(posts[p])'
    OBVIOUS
  <2>1. PostOK(posts[p]) /\ posts[p].pending \in Gets \cup {None}
    BY DEF ConsentInv, TypeOK, PostRecord
  <2>2. posts[p].cleared =>
          \A k \in DOMAIN sessions' : RowPending(k)' # posts[p].pending
    BY <1>2, <1>8, <2>1 DEF PostOK, RowPending
  <2> QED BY <1>4, <1>8, <2>1, <2>2 DEF PostOK
<1> QED BY <1>1, <1>4, <1>5, <1>7, <1>10, <1>11, <1>12 DEF ConsentInv, CodeOK

\* A step that leaves every row as it is, gone, or without a request.
LEMMA RowsKept ==
  ASSUME ConsentInv, UNCHANGED <<gets, codes, latest>>,
         \A k \in SessionIds : ClearedIn(k) => ClearedIn(k)',
         \A k \in DOMAIN sessions' :
           \/ RowPending(k)' = None /\ (latest[k] = None \/ ClearedIn(k)')
           \/ k \in DOMAIN sessions /\ sessions'[k] = sessions[k]
  PROVE  /\ \A k \in DOMAIN sessions' : RowOK(k)'
         /\ \A h, k : StoredIn(h, k) => StoredIn(h, k)'
         /\ \A h \in Gets : (\A k \in DOMAIN sessions : RowPending(k) # h)
              => (\A k \in DOMAIN sessions' : RowPending(k)' # h)
<1>1. \A h, k : StoredIn(h, k) => StoredIn(h, k)'
  BY DEF StoredIn, Checked
<1>2. \A k \in DOMAIN sessions' : RowOK(k)'
  <2> SUFFICES ASSUME NEW k \in DOMAIN sessions' PROVE RowOK(k)'
    OBVIOUS
  <2>1. CASE RowPending(k)' = None /\ (latest[k] = None \/ ClearedIn(k)')
    BY <2>1 DEF RowOK
  <2>2. CASE k \in DOMAIN sessions /\ sessions'[k] = sessions[k]
    <3>1. RowOK(k) /\ k \in SessionIds
      BY <2>2 DEF ConsentInv, TypeOK
    <3> QED BY <1>1, <2>2, <3>1 DEF RowOK, RowPending
  <2> QED BY <2>1, <2>2
<1> QED BY <1>1, <1>2, NoneAssumption DEF RowPending

LEMMA SignInInv ==
  ASSUME ConsentInv, NEW s \in SessionIds, NEW b \in Browsers, SignIn(s, b)
  PROVE  ConsentInv'
<1>2. /\ minted' = minted \cup {s} /\ jar' \in {jar, [jar EXCEPT ![b] = s]}
      /\ UNCHANGED <<now, codes, gets, posts, logouts, latest>>
  BY DEF SignIn, handlers
<1>4. /\ DOMAIN sessions' = DOMAIN sessions \cup {s}
      /\ sessions'[s] \in SessionRow /\ RowPending(s)' = None
      /\ \A k \in DOMAIN sessions \ {s} : sessions'[k] = sessions[k]
  <2>1. StoreSession(s, None, 0) /\ TypeOK /\ 0 \in Instant
    BY DEF SignIn, ConsentInv, Instant
  <2> QED BY <2>1, StoredRow DEF RowPending
<1>5. /\ jar' \in [Browsers -> SessionIds \cup {None}]
      /\ \A c \in Browsers : jar'[c] \in minted' \cup {None}
  BY <1>2 DEF ConsentInv, TypeOK
<1>6. TypeOK' /\ latest[s] = None
  BY <1>2, <1>4, <1>5 DEF ConsentInv, TypeOK, SignIn
<1>7. /\ \A k \in DOMAIN sessions' : RowOK(k)'
      /\ \A h, k : StoredIn(h, k) => StoredIn(h, k)'
      /\ \A h \in Gets : (\A k \in DOMAIN sessions : RowPending(k) # h)
           => (\A k \in DOMAIN sessions' : RowPending(k)' # h)
  <2>1. \A k : ClearedIn(k) => ClearedIn(k)'
    BY <1>2 DEF ClearedIn
  <2> QED BY <1>2, <1>4, <1>6, <2>1, RowsKept
<1>8. \A g \in Gets : GetOK(g, gets[g])'
  BY <1>2 DEF ConsentInv, GetOK, Checked
<1>9. \A p \in Posts : PostOK(posts[p])'
  BY <1>2, <1>7 DEF ConsentInv, TypeOK, PostRecord, PostOK
<1> QED BY <1>2, <1>5, <1>6, <1>7, <1>8, <1>9 DEF ConsentInv, CodeOK

\* A step that deletes rows, and may clear cookies and end logouts.
LEMMA DeleteRows ==
  ASSUME ConsentInv, NEW kept \in SUBSET DOMAIN sessions, sessions' = Restrict(sessions, kept),
         UNCHANGED <<now, codes, gets, posts, minted, latest>>,
         logouts' \in [Logouts -> LogoutRecord],
         jar' \in [Browsers -> SessionIds \cup {None}],
         \A b \in Browsers : jar'[b] \in {jar[b], None}
  PROVE  ConsentInv'
<1>1. DOMAIN sessions' = kept /\ \A k \in kept : sessions'[k] = sessions[k]
  BY DEF Restrict
<1>2. TypeOK'
  BY <1>1 DEF ConsentInv, TypeOK
<1>3. /\ \A k \in DOMAIN sessions' : RowOK(k)'
      /\ \A h, k : StoredIn(h, k) => StoredIn(h, k)'
      /\ \A h \in Gets : (\A k \in DOMAIN sessions : RowPending(k) # h)
           => (\A k \in DOMAIN sessions' : RowPending(k)' # h)
  <2>1. \A k : ClearedIn(k) => ClearedIn(k)'
    BY DEF ClearedIn
  <2> QED BY <1>1, <2>1, RowsKept
<1>4. \A p \in Posts : PostOK(posts[p])'
  BY <1>3 DEF ConsentInv, TypeOK, PostRecord, PostOK
<1> QED BY <1>2, <1>3, <1>4 DEF ConsentInv, GetOK, Checked, CodeOK

LEMMA EndSessionInv ==
  ASSUME ConsentInv, NEW o \in Logouts, EndSession(o)
  PROVE  ConsentInv'
<1>1. /\ sessions' = Restrict(sessions, DOMAIN sessions \ {logouts[o].session})
      /\ UNCHANGED <<now, codes, gets, posts, minted, latest>>
  BY DEF EndSession, DeleteSession
<1>2. logouts' \in [Logouts -> LogoutRecord]
  BY DEF EndSession, ConsentInv, TypeOK, LogoutRecord, LogoutEnd
<1>3. /\ jar' \in [Browsers -> SessionIds \cup {None}]
      /\ \A b \in Browsers : jar'[b] \in {jar[b], None}
  BY DEF EndSession, ConsentInv, TypeOK
<1> QED BY <1>1, <1>2, <1>3, DeleteRows

LEMMA SweepInv == ConsentInv /\ Sweep => ConsentInv'
<1> SUFFICES ASSUME ConsentInv, Sweep PROVE ConsentInv'
  OBVIOUS
<1> DEFINE kept == {id \in DOMAIN sessions : LiveSession(sessions, id, now)}
<1>1. kept \in SUBSET DOMAIN sessions /\ sessions' = Restrict(sessions, kept)
  BY DEF Sweep, CleanupExpiredSessions
<1>2. UNCHANGED <<now, codes, gets, posts, logouts, jar, minted, latest>>
  BY DEF Sweep, handlers, browsers
<1> HIDE DEF kept
<1> QED BY <1>1, <1>2, DeleteRows DEF ConsentInv, TypeOK

LEMMA ReceiveLogoutInv ==
  ASSUME ConsentInv, NEW o \in Logouts, NEW b \in Browsers, ReceiveLogout(o, b)
  PROVE  ConsentInv'
<1>1. PICK headers \in OwnHeaders \cup ForeignHeaders :
        logouts' = [logouts EXCEPT
          ![o] = IF ~IsSameSite(headers) THEN [@ EXCEPT !.status = "forbidden"]
                 ELSE [status |-> IF jar[b] = None THEN "kept" ELSE "deleting",
                       browser |-> b, session |-> jar[b]]]
  BY DEF ReceiveLogout
<1>2. logouts[o] \in LogoutRecord /\ jar[b] \in SessionIds \cup {None}
  BY DEF ConsentInv, TypeOK
<1>3. [logouts[o] EXCEPT !.status = "forbidden"] \in LogoutRecord
  BY <1>2 DEF LogoutRecord, LogoutEnd
<1>4. [status |-> IF jar[b] = None THEN "kept" ELSE "deleting",
       browser |-> b, session |-> jar[b]] \in LogoutRecord
  BY <1>2 DEF LogoutRecord, LogoutEnd
<1>5. logouts' \in [Logouts -> LogoutRecord]
  BY <1>1, <1>3, <1>4 DEF ConsentInv, TypeOK
<1> QED BY <1>5 DEF ReceiveLogout, browsers, ConsentInv, TypeOK, RowOK, RowPending, StoredIn,
                    Checked, GetOK, PostOK, CodeOK, ClearedIn

LEMMA LogoutFailureInv ==
  ASSUME ConsentInv, NEW o \in Logouts, LogoutStatementFails(o)
  PROVE  ConsentInv'
<1>1. logouts' \in [Logouts -> LogoutRecord]
  BY DEF LogoutStatementFails, ConsentInv, TypeOK, LogoutRecord, LogoutEnd
<1>2. /\ jar' \in [Browsers -> SessionIds \cup {None}]
      /\ \A b \in Browsers : jar'[b] \in {jar[b], None}
  BY DEF LogoutStatementFails, ConsentInv, TypeOK
<1> QED BY <1>1, <1>2 DEF LogoutStatementFails, ConsentInv, TypeOK, RowOK, RowPending,
                          StoredIn, Checked, GetOK, PostOK, CodeOK, ClearedIn

-----------------------------------------------------------------------------
(* POST /auth/authorize *)

LEMMA EmptyPostOK ==
  ASSUME NEW status \in {"idle"} \cup PostEnd
  PROVE  PostOK(EmptyPost(status))
BY DEF EmptyPost, PostOK, PostRecord, PostPending, PostEnd, Instant

\* A decision that has not cleared the row yet says so.
LEMMA NotCleared ==
  ASSUME ConsentInv, NEW p \in Posts,
         posts[p].status \in {"idle", "loading", "reading", "clearing"}
  PROVE  ~posts[p].cleared
BY DEF ConsentInv, PostOK

LEMMA ReceivePostInv ==
  ASSUME ConsentInv, NEW p \in Posts, NEW b \in Browsers, ReceivePost(p, b)
  PROVE  ConsentInv'
<1>1. PICK page \in Gets \cup {None} :
        \E headers \in IF page = None THEN ForeignHeaders ELSE OwnHeaders :
          SetPost(p, IF IsSameSite(headers) /\ jar[b] # None
                     THEN [posts[p] EXCEPT !.status = "loading", !.page = page,
                                           !.session = jar[b]]
                     ELSE EmptyPost("forbidden"))
  BY DEF ReceivePost
<1>2. PICK headers \in IF page = None THEN ForeignHeaders ELSE OwnHeaders :
        SetPost(p, IF IsSameSite(headers) /\ jar[b] # None
                   THEN [posts[p] EXCEPT !.status = "loading", !.page = page,
                                         !.session = jar[b]]
                   ELSE EmptyPost("forbidden"))
  BY <1>1
<1>3. IsSameSite(headers) => page # None
  BY DEF IsSameSite, ForeignHeaders
<1>4. PostOK(posts[p]) /\ posts[p].status = "idle"
  BY DEF ConsentInv, ReceivePost
<1>5. CASE IsSameSite(headers) /\ jar[b] # None
  <2> DEFINE r == [posts[p] EXCEPT !.status = "loading", !.page = page, !.session = jar[b]]
  <2>1. PostOK(r)
    BY <1>3, <1>4, <1>5 DEF PostOK, PostRecord, PostPending, ConsentInv, TypeOK
  <2>2. SetPost(p, r)
    BY <1>2, <1>5
  <2> HIDE DEF r
  <2> QED BY <1>4, <2>1, <2>2, NotCleared, PostStep
<1>6. CASE ~(IsSameSite(headers) /\ jar[b] # None)
  BY <1>2, <1>4, <1>6, EmptyPostOK, NotCleared, PostStep DEF PostEnd
<1> QED BY <1>5, <1>6

\* The request in the row of a live session is one that was stored there.
LEMMA LoadPendingInv ==
  ASSUME ConsentInv, NEW p \in Posts, LoadPending(p)
  PROVE  ConsentInv'
<1> DEFINE s == posts[p].session
           pending == RowPending(s)
           r == [posts[p] EXCEPT !.status = "reading", !.pending = pending]
<1>1. PostOK(posts[p]) /\ posts[p].status = "loading"
  BY DEF ConsentInv, LoadPending
<1>2. CASE OwnerSession(s) /\ pending # None
  <2>1. s \in DOMAIN sessions
    BY <1>2 DEF OwnerSession, LiveSession
  <2>2. pending \in Gets /\ StoredIn(pending, s)
    BY <1>2, <2>1 DEF ConsentInv, RowOK, TypeOK, SessionRow, RowPending
  <2>3. PostOK(r)
    BY <1>1, <2>2, NoneAssumption DEF PostOK, PostRecord, PostPending
  <2>4. SetPost(p, r)
    BY <1>2 DEF LoadPending, RowPending
  <2> HIDE DEF r
  <2> QED BY <1>1, <2>3, <2>4, NotCleared, PostStep
<1>3. CASE ~(OwnerSession(s) /\ pending # None)
  <2>1. SetPost(p, EmptyPost("bad_request"))
    BY <1>3 DEF LoadPending, RowPending
  <2> QED BY <1>1, <2>1, EmptyPostOK, NotCleared, PostStep DEF PostEnd
<1> QED BY <1>2, <1>3

LEMMA ReadDecisionInv ==
  ASSUME ConsentInv, NEW p \in Posts, ReadDecision(p)
  PROVE  ConsentInv'
<1>1. PostOK(posts[p]) /\ posts[p].status = "reading" /\ now \in Instant
  BY DEF ConsentInv, TypeOK, ReadDecision
<1>2. CASE SetPost(p, EmptyPost("bad_request"))
  BY <1>1, <1>2, EmptyPostOK, NotCleared, PostStep DEF PostEnd
<1>3. ASSUME NEW approve \in BOOLEAN,
             SetPost(p, [posts[p] EXCEPT !.status = "clearing", !.approve = approve,
                                         !.since = now])
      PROVE  ConsentInv'
  <2>1. PostOK([posts[p] EXCEPT !.status = "clearing", !.approve = approve, !.since = now])
    BY <1>1 DEF PostOK, PostRecord, PostPending
  <2> QED BY <1>1, <1>3, <2>1, NotCleared, PostStep
<1> QED BY <1>2, <1>3 DEF ReadDecision

LEMMA ClearPendingInv ==
  ASSUME ConsentInv, NEW p \in Posts, ClearPending(p)
  PROVE  ConsentInv'
<1>0. PICK s : s = posts[p].session
  OBVIOUS
<1>1. /\ PostOK(posts[p]) /\ posts[p].status = "clearing" /\ s \in minted
      /\ posts[p].pending \in Gets /\ StoredIn(posts[p].pending, s)
      /\ posts[p].since \in Instant /\ now \in Instant
  BY <1>0 DEF ConsentInv, TypeOK, ClearPending, PostOK, PostPending, PostRecord
<1>2. /\ DOMAIN sessions' = DOMAIN sessions \cup {s}
      /\ sessions'[s] \in SessionRow /\ RowPending(s)' = None
      /\ \A k \in DOMAIN sessions \ {s} : sessions'[k] = sessions[k]
  <2>1. StoreSession(s, None, posts[p].since) /\ TypeOK
    BY <1>0 DEF ClearPending, Left, ConsentInv
  <2> QED BY <1>1, <2>1, StoredRow DEF RowPending
<1>3. /\ UNCHANGED <<now, codes, gets, logouts, jar, minted, latest>>
      /\ posts' = [posts EXCEPT ![p] = Decided(p, TRUE)]
  BY DEF ClearPending, browsers
<1>4. Decided(p, TRUE) \in PostRecord
  BY <1>1 DEF Decided, PostOK, PostRecord, PostPending, PostEnd
<1>5. posts'[p] = Decided(p, TRUE) /\ \A q \in Posts \ {p} : posts'[q] = posts[q]
  BY <1>3 DEF ConsentInv, TypeOK
<1>6. /\ \A k \in DOMAIN sessions' : RowOK(k)'
      /\ \A h, k : StoredIn(h, k) => StoredIn(h, k)'
      /\ \A h \in Gets : (\A k \in DOMAIN sessions : RowPending(k) # h)
           => (\A k \in DOMAIN sessions' : RowPending(k)' # h)
  <2>1. posts'[p].cleared /\ posts'[p].session = s
    BY <1>0, <1>1, <1>5 DEF Decided, PostOK, PostRecord
  <2>2. ClearedIn(s)' /\ \A k : ClearedIn(k) => ClearedIn(k)'
    BY <1>0, <1>5, <2>1 DEF ClearedIn
  <2> QED BY <1>2, <1>3, <2>2, RowsKept
<1>7. TypeOK'
  BY <1>1, <1>2, <1>3, <1>4 DEF ConsentInv, TypeOK
<1>8. \A k \in DOMAIN sessions' : RowPending(k)' # posts[p].pending
  <2> SUFFICES ASSUME NEW k \in DOMAIN sessions', k # s
               PROVE  RowPending(k)' # posts[p].pending
    BY <1>1, <1>2, NoneAssumption
  <2>1. k \in DOMAIN sessions /\ RowPending(k)' = RowPending(k) /\ RowOK(k)
    BY <1>2 DEF ConsentInv, RowPending
  <2> QED BY <1>1, <2>1, NoneAssumption DEF RowOK, StoredIn
<1>9. PostOK(posts[p])'
  BY <1>0, <1>1, <1>3, <1>4, <1>5, <1>6, <1>8, NoneAssumption
     DEF PostOK, Decided, PostRecord, PostPending
<1>10. \A q \in Posts \ {p} : PostOK(posts[q])'
  BY <1>3, <1>5, <1>6 DEF ConsentInv, TypeOK, PostRecord, PostOK
<1>11. \A c \in DOMAIN codes' : CodeOK(c)'
  BY <1>1, <1>3, <1>5 DEF ConsentInv, TypeOK, CodeOK
<1> QED BY <1>3, <1>6, <1>7, <1>9, <1>10, <1>11 DEF ConsentInv, GetOK, Checked

LEMMA StoreCodeInv ==
  ASSUME ConsentInv, NEW p \in Posts, StoreCode(p)
  PROVE  ConsentInv'
<1>1. /\ PostOK(posts[p]) /\ posts[p].status = "storing" /\ posts[p].approve
      /\ posts[p].pending \in Gets /\ posts[p].since \in Instant /\ posts[p].page # None
  BY DEF ConsentInv, StoreCode, PostOK, PostPending, PostRecord
<1>2. PICK computed \in posts[p].since .. now :
        codes' = InsertCode(codes, p, posts[p].pending, CodeExpiry(computed))
  BY DEF StoreCode
<1>3. PICK outcome \in {"approved", "dropped"} : posts' = [posts EXCEPT ![p].status = outcome]
  BY DEF StoreCode
<1>4. UNCHANGED <<now, sessions, gets, logouts, jar, minted, latest>>
  BY DEF StoreCode, browsers
<1> DEFINE row == [grant |-> posts[p].pending, expires_at |-> CodeExpiry(computed),
                   used_at |-> Null]
<1>5. row \in CodeRow /\ row.grant = posts[p].pending
  <2>1. CodeExpiry(computed) \in Nat
    BY <1>1, TimeAssumption DEF CodeExpiry, ConsentInv, TypeOK, Instant
  <2> QED BY <1>1, <2>1 DEF CodeRow, Instant
<1>6. /\ DOMAIN codes' = DOMAIN codes \cup {p} /\ codes'[p] = row
      /\ \A c \in DOMAIN codes \ {p} : codes'[c] = codes[c]
  <2>1. codes' = Put(codes, p, row)
    BY <1>2 DEF InsertCode
  <2> HIDE DEF row
  <2> QED BY <2>1 DEF Put
<1> HIDE DEF row
<1>7. /\ posts'[p] = [posts[p] EXCEPT !.status = outcome] /\ posts'[p] \in PostRecord
      /\ \A q \in Posts \ {p} : posts'[q] = posts[q]
  BY <1>3 DEF ConsentInv, TypeOK, PostRecord, PostEnd
<1>8. TypeOK'
  BY <1>3, <1>4, <1>5, <1>6, <1>7 DEF ConsentInv, TypeOK
<1>9. \A q \in Posts : PostOK(posts[q])'
  BY <1>1, <1>4, <1>7 DEF ConsentInv, PostOK, PostRecord, PostPending, StoredIn, Checked,
                          RowPending
<1>10. \A c \in DOMAIN codes' : CodeOK(c)'
  BY <1>1, <1>5, <1>6, <1>7 DEF ConsentInv, TypeOK, CodeOK, PostRecord, PostOK
<1>11. \A k : ClearedIn(k) => ClearedIn(k)'
  BY <1>7 DEF ClearedIn, ConsentInv, TypeOK, PostRecord
<1>12. \A k \in DOMAIN sessions' : RowOK(k)'
  BY <1>4, <1>11 DEF ConsentInv, RowOK, RowPending, StoredIn, Checked
<1> QED BY <1>4, <1>8, <1>9, <1>10, <1>12 DEF ConsentInv, Checked, GetOK

LEMMA PostFailureInv ==
  ASSUME ConsentInv, NEW p \in Posts, PostStatementFails(p) \/ DropPost(p)
  PROVE  ConsentInv'
<1>1. PostOK(posts[p]) /\ now \in Instant
  BY DEF ConsentInv, TypeOK
<1>2. CASE posts[p].status = "loading" /\ SetPost(p, EmptyPost("bad_request"))
  BY <1>2, EmptyPostOK, NotCleared, PostStep DEF PostEnd
<1>3. CASE posts[p].status = "clearing" /\ SetPost(p, Decided(p, FALSE))
  <2>1. PostOK(Decided(p, FALSE))
    BY <1>1, <1>3 DEF Decided, PostOK, PostRecord, PostPending, PostEnd
  <2> QED BY <1>3, <2>1, NotCleared, PostStep
<1>4. CASE /\ posts[p].status \in {"loading", "reading", "storing"}
           /\ SetPost(p, [posts[p] EXCEPT !.status = "dropped"])
  <2> DEFINE r == [posts[p] EXCEPT !.status = "dropped"]
  <2>1. PostOK(r) /\ r.cleared = posts[p].cleared /\ r.session = posts[p].session
    BY <1>1 DEF PostOK, PostRecord, PostPending, PostEnd
  <2> HIDE DEF r
  <2>2. SetPost(p, r)
    BY <1>4 DEF r
  <2> QED BY <1>4, <2>1, <2>2, PostStep
<1> QED BY <1>2, <1>3, <1>4 DEF PostStatementFails, DropPost

-----------------------------------------------------------------------------
(* The whole step, and the theorems *)

LEMMA TickInv == ConsentInv /\ Tick => ConsentInv'
BY DEF Tick, handlers, browsers, ConsentInv, TypeOK, Instant, RowOK, RowPending, StoredIn,
       Checked, GetOK, PostOK, CodeOK, ClearedIn

LEMMA RestartInv == ConsentInv /\ Restart => ConsentInv'
<1> SUFFICES ASSUME ConsentInv, Restart PROVE ConsentInv'
  OBVIOUS
<1>1. UNCHANGED <<now, sessions, codes, jar, minted, latest>>
  BY DEF Restart, browsers
<1>2. /\ DOMAIN gets = Gets /\ DOMAIN posts = Posts /\ DOMAIN logouts = Logouts
      /\ gets \in [Gets -> GetRecord] /\ posts \in [Posts -> PostRecord]
      /\ logouts \in [Logouts -> LogoutRecord]
  BY DEF ConsentInv, TypeOK
<1>3. /\ DOMAIN gets' = Gets
      /\ \A g \in Gets : gets'[g] = IF gets[g].status \in GetPending
                                    THEN [gets[g] EXCEPT !.status = "dropped"] ELSE gets[g]
      /\ gets' \in [Gets -> GetRecord]
  BY <1>2 DEF Restart, DropPending, GetRecord, GetEnd
<1>4. /\ DOMAIN posts' = Posts
      /\ \A p \in Posts : posts'[p] = IF posts[p].status \in PostPending
                                      THEN [posts[p] EXCEPT !.status = "dropped"] ELSE posts[p]
      /\ posts' \in [Posts -> PostRecord]
  BY <1>2 DEF Restart, DropPending, PostRecord, PostEnd
<1>5. logouts' \in [Logouts -> LogoutRecord]
  BY <1>2 DEF Restart, DropPending, LogoutRecord, LogoutEnd
<1>6. TypeOK'
  BY <1>1, <1>3, <1>4, <1>5 DEF ConsentInv, TypeOK
<1>7. \A h \in Gets : \A k : StoredIn(h, k) => StoredIn(h, k)'
  BY <1>3 DEF StoredIn, Checked, GetPending
<1>8. \A k \in DOMAIN sessions' : RowOK(k)'
  <2>1. \A k \in DOMAIN sessions : RowPending(k) \in Gets \cup {None}
    BY DEF ConsentInv, TypeOK, SessionRow, RowPending
  <2>2. \A k : ClearedIn(k) => ClearedIn(k)'
    BY <1>4 DEF ClearedIn, ConsentInv, TypeOK, PostRecord
  <2> QED BY <1>1, <1>7, <2>1, <2>2 DEF ConsentInv, RowOK, RowPending
<1>9. \A g \in Gets : GetOK(g, gets[g])'
  BY <1>1, <1>2, <1>3 DEF ConsentInv, GetOK, Checked, GetRecord
<1>10. \A p \in Posts : PostOK(posts[p])'
  <2> SUFFICES ASSUME NEW p \in Posts PROVE PostOK(posts[p])'
    OBVIOUS
  <2>1. PostOK(posts[p]) /\ posts[p].pending \in Gets \cup {None}
    BY <1>2 DEF ConsentInv, PostRecord
  <2>2. posts'[p] \in PostRecord
    BY <1>4
  <2>3. /\ posts'[p].session = posts[p].session /\ posts'[p].pending = posts[p].pending
        /\ posts'[p].cleared = posts[p].cleared /\ posts'[p].status \notin PostPending
        /\ posts'[p].status = "idle" => posts[p].status = "idle"
    BY <1>2, <1>4 DEF PostRecord, PostPending
  <2>4. posts'[p].cleared => posts'[p].status \notin {"idle"} \cup PostPending
    BY <2>1, <2>3 DEF PostOK
  <2> QED BY <1>1, <1>7, <2>1, <2>2, <2>3, <2>4 DEF PostOK, RowPending, PostPending
<1>11. \A c \in DOMAIN codes' : CodeOK(c)'
  BY <1>1, <1>4 DEF ConsentInv, TypeOK, CodeOK, PostPending
<1> QED BY <1>1, <1>6, <1>8, <1>9, <1>10, <1>11 DEF ConsentInv

LEMMA NextInv == ConsentInv /\ [Next]_vars => ConsentInv'
<1> SUFFICES ASSUME ConsentInv, [Next]_vars PROVE ConsentInv'
  OBVIOUS
<1>1. CASE UNCHANGED vars
  BY <1>1 DEF vars, handlers, browsers, ConsentInv, TypeOK, RowOK, RowPending, StoredIn,
              Checked, GetOK, PostOK, CodeOK, ClearedIn
<1>2. CASE Operate
  BY <1>2, ReceiveGetInv, LookUpInv, FinishFetchInv, LoadForConsentInv, AttachPendingInv,
     ReceivePostInv, ReadDecisionInv, LoadPendingInv, ClearPendingInv, StoreCodeInv,
     ReceiveLogoutInv, EndSessionInv, SweepInv
     DEF Operate, HandleGet, HandlePost
<1>3. CASE Fail
  BY <1>3, GetFailureInv, PostFailureInv, LogoutFailureInv DEF Fail
<1> QED BY <1>1, <1>2, <1>3, TickInv, SignInInv, RestartInv DEF Next

LEMMA Inductive == Spec => []ConsentInv
BY InitInv, NextInv, PTL DEF Spec

\* Every variable of the consent endpoint stays in its type.
THEOREM TypeCorrect == Spec => []TypeOK
<1>1. ConsentInv => TypeOK
  BY DEF ConsentInv
<1> QED BY <1>1, Inductive, PTL

\* A code exists only for a request that passed the checks, approved from one of the
\* server's pages in the session that asked (authorize.rs get and post).
THEOREM Approved == Spec => []CodesAreApproved
<1>1. ConsentInv => CodesAreApproved
  <2> SUFFICES ASSUME ConsentInv, NEW p \in DOMAIN codes
               PROVE  /\ CodeOK(p) /\ codes[p].grant \in Gets
                      /\ StoredIn(codes[p].grant, posts[p].session)
    BY DEF CodesAreApproved, CodeOK, StoredIn, Checked, Acceptable
  <2>1. CodeOK(p) /\ codes[p].grant \in Gets /\ PostOK(posts[p])
    BY DEF ConsentInv, TypeOK, CodeRow
  <2> QED BY <2>1, NoneAssumption DEF CodeOK, PostOK
<1> QED BY <1>1, Inductive, PTL

\* A session row holds the last request stored in it, or none because it has never
\* held one or a decision cleared it (session.rs update_owner_session).
THEOREM MostRecent == Spec => []PendingIsMostRecent
<1>1. ConsentInv => PendingIsMostRecent
  BY DEF ConsentInv, RowOK, RowPending, ClearedIn, PendingIsMostRecent
<1> QED BY <1>1, Inductive, PTL

\* Once a decision has cleared the request it took, no row holds it again
\* (authorize.rs post).
THEOREM SpentStayCleared == Spec => []SpentRequestsStayCleared
<1>1. ConsentInv => SpentRequestsStayCleared
  BY DEF ConsentInv, PostOK, RowPending, SpentRequestsStayCleared
<1> QED BY <1>1, Inductive, PTL

\* A browser is sent back only to a redirect URI of the request's client
\* (authorize.rs get).
THEOREM Redirects == Spec => []RedirectsAreTheClients
<1>1. ConsentInv => RedirectsAreTheClients
  BY DEF ConsentInv, GetOK, Checked, RedirectsAreTheClients
<1> QED BY <1>1, Inductive, PTL

\* A failed fetch refuses no client a redirect URI of its own origin
\* (client_metadata.rs, authorize.rs get).
THEOREM FetchNotFatal == Spec => []FetchFailureIsNotFatal
<1>1. ConsentInv => FetchFailureIsNotFatal
  BY DEF ConsentInv, GetOK, FetchFailureIsNotFatal
<1> QED BY <1>1, Inductive, PTL

-----------------------------------------------------------------------------
(* Rows that go, and sessions that are over *)

\* Only three statements write table sessions: the upsert keeps every row, a logout
\* deletes the one it names, and the sweep keeps what is live.
LEMMA RowsGo ==
  ASSUME ConsentInv, [Next]_vars, NEW s \in DOMAIN sessions, s \notin DOMAIN sessions'
  PROVE  \/ \E o \in Logouts : EndSession(o) /\ s = logouts[o].session
         \/ Sweep /\ ~LiveSession(sessions, s, now)
<1>1. \A k, pending, since : ~StoreSession(k, pending, since)
  BY DEF StoreSession, UpsertSession, Put
<1>2. sessions' # sessions
  OBVIOUS
<1>3. CASE \E o \in Logouts : EndSession(o)
  BY <1>3 DEF EndSession, DeleteSession, Restrict
<1>4. CASE Sweep
  BY <1>4 DEF Sweep, CleanupExpiredSessions, Restrict
<1>5. ASSUME ~Sweep, ~\E o \in Logouts : EndSession(o) PROVE FALSE
  <2>1. CASE UNCHANGED vars \/ Tick \/ Restart
    BY <1>2, <2>1 DEF vars, Tick, Restart
  <2>2. CASE \E k \in SessionIds, b \in Browsers : SignIn(k, b)
    BY <1>1, <2>2 DEF SignIn
  <2>3. CASE Operate
    BY <1>1, <1>2, <1>5, <2>3
       DEF Operate, HandleGet, HandlePost, ReceiveGet, LookUp, FinishFetch, LoadForConsent,
           AttachPending, ReceivePost, ReadDecision, LoadPending, ClearPending, StoreCode,
           ReceiveLogout, SetGet, SetPost
  <2>4. CASE Fail
    BY <1>2, <2>4 DEF Fail, GetStatementFails, DropGet, PostStatementFails, DropPost,
                      LogoutStatementFails, SetGet, SetPost
  <2> QED BY <2>1, <2>2, <2>3, <2>4 DEF Next
<1> QED BY <1>3, <1>4, <1>5

\* Nothing but a logout that names it removes a row whose last second has not come
\* (sessions.rs delete_session, cleanup_expired_sessions).
THEOREM LiveRowsStay == Spec => LiveSessionsEndByLogout
<1> DEFINE A == \A s \in DOMAIN sessions :
       Second(sessions[s].expires_at) > Second(now) /\ s \notin DOMAIN sessions' =>
         \E o \in Logouts : /\ logouts[o].session = s
                            /\ logouts[o].status = "deleting"
                            /\ logouts'[o].status # "deleting"
<1>1. ConsentInv /\ [Next]_vars => A
  <2> SUFFICES ASSUME ConsentInv, [Next]_vars, NEW s \in DOMAIN sessions,
                      Second(sessions[s].expires_at) > Second(now), s \notin DOMAIN sessions'
               PROVE  \E o \in Logouts : /\ logouts[o].session = s
                                         /\ logouts[o].status = "deleting"
                                         /\ logouts'[o].status # "deleting"
    OBVIOUS
  <2>1. LiveSession(sessions, s, now)
    BY DEF LiveSession, SortsAfter
  <2>2. PICK o \in Logouts : EndSession(o) /\ s = logouts[o].session
    BY <2>1, RowsGo
  <2>3. logouts'[o].status \in {"done", "dropped"}
    BY <2>2 DEF EndSession, ConsentInv, TypeOK, LogoutRecord
  <2> QED BY <2>2, <2>3 DEF EndSession
<1>2. Spec => [][A]_vars
  BY <1>1, Inductive, PTL DEF Spec
<1> QED BY <1>2 DEF LiveSessionsEndByLogout

\* A row that the text comparison calls live has a second that is not over.
LEMMA LiveToTheSecond ==
  ASSUME NEW table, NEW s \in DOMAIN table, NEW t \in Instant,
         table[s].expires_at \in Instant, LiveSession(table, s, t)
  PROVE  Second(table[s].expires_at) >= Second(t)
<1>1. Second(table[s].expires_at) \in Int /\ Second(t) \in Int
  BY TicksAssumption DEF Second, Instant
<1> QED BY <1>1 DEF LiveSession, SortsAfter

\* No handler goes on with a session whose last second is over (sessions.rs
\* get_session, authorize.rs get and post).
THEOREM SessionsEnd == Spec => SessionsEndWithTheirSecond
<1> DEFINE A == /\ \A g \in Gets :
                     gets[g].status = "loading" /\ gets'[g].status = "attaching" =>
                       Second(sessions[gets[g].session].expires_at) >= Second(now)
                /\ \A p \in Posts :
                     posts[p].status = "loading" /\ posts'[p].status = "reading" =>
                       Second(sessions[posts[p].session].expires_at) >= Second(now)
<1>1. ASSUME ConsentInv, [Next]_vars, NEW g \in Gets,
             gets[g].status = "loading", gets'[g].status = "attaching"
      PROVE  OwnerSession(gets[g].session)
  <2>1. gets' # gets /\ gets \in [Gets -> GetRecord]
    BY <1>1 DEF ConsentInv, TypeOK
  <2>2. CASE Restart
    BY <1>1, <2>1, <2>2 DEF Restart, DropPending, GetRecord
  <2>3. ASSUME NEW h \in Gets, NEW r, SetGet(h, r)
        PROVE  h = g /\ r.status = "attaching"
    BY <1>1, <2>1, <2>3 DEF SetGet
  <2>4. CASE \E h \in Gets : LoadForConsent(h)
    <3> DEFINE base == [gets[g] EXCEPT !.since = now]
    <3>1. SetGet(g, GoOn(base, AfterLoad(OwnerSession(gets[g].session))))
      BY <2>3, <2>4 DEF LoadForConsent
    <3>2. GoOn(base, "login_redirect").status # "attaching"
      BY DEF GoOn, GetPending, EmptyGet
    <3> QED BY <2>3, <3>1, <3>2 DEF AfterLoad
  <2>5. CASE \E h \in Gets, b \in Browsers : ReceiveGet(h, b)
    BY <1>1, <2>3, <2>5 DEF ReceiveGet
  <2>6. CASE \E h \in Gets : LookUp(h) \/ FinishFetch(h)
    BY <1>1, <2>3, <2>6 DEF LookUp, FinishFetch
  <2>7. CASE \E h \in Gets : AttachPending(h)
    BY <1>1, <2>1, <2>7 DEF AttachPending, GetRecord
  <2>8. ASSUME NEW h \in Gets, GetStatementFails(h) \/ DropGet(h)
        PROVE  FALSE
    <3>1. /\ GoOn(gets[h], AfterLoad(FALSE)).status # "attaching"
          /\ EmptyGet("dropped").status # "attaching"
      BY DEF GoOn, AfterLoad, EmptyGet, GetPending
    <3> QED BY <1>1, <2>3, <2>8, <3>1 DEF GetStatementFails, DropGet
  <2>9. CASE gets' = gets
    BY <2>1, <2>9
  <2> QED
  <3>1. CASE UNCHANGED vars \/ Tick \/ \E s \in SessionIds, b \in Browsers : SignIn(s, b)
    BY <2>9, <3>1 DEF vars, handlers, Tick, SignIn
  <3>2. CASE Operate
    <4>1. CASE \E q \in Posts, b \in Browsers : ReceivePost(q, b)
      BY <2>9, <4>1 DEF ReceivePost, SetPost
    <4>2. CASE \E q \in Posts : ReadDecision(q) \/ HandlePost(q)
      <5>1. ASSUME NEW q \in Posts, ReadDecision(q) \/ LoadPending(q) PROVE gets' = gets
        BY <5>1, Zenon DEF ReadDecision, LoadPending, SetPost
      <5>2. ASSUME NEW q \in Posts, ClearPending(q) \/ StoreCode(q) PROVE gets' = gets
        BY <5>2 DEF ClearPending, StoreCode
      <5> QED BY <2>9, <4>2, <5>1, <5>2 DEF HandlePost
    <4>3. CASE Sweep \/ \E o \in Logouts : EndSession(o) \/ \E b \in Browsers : ReceiveLogout(o, b)
      BY <2>9, <4>3 DEF ReceiveLogout, EndSession, Sweep, handlers
    <4> QED BY <2>4, <2>5, <2>6, <2>7, <3>2, <4>1, <4>2, <4>3 DEF Operate, HandleGet
  <3>3. CASE Fail
    BY <2>8, <2>9, <3>3 DEF Fail, PostStatementFails, DropPost, LogoutStatementFails, SetPost
  <3> QED BY <1>1, <2>2, <3>1, <3>2, <3>3 DEF Next
<1>2. ASSUME ConsentInv, [Next]_vars, NEW p \in Posts,
             posts[p].status = "loading", posts'[p].status = "reading"
      PROVE  OwnerSession(posts[p].session)
  <2>1. posts' # posts /\ posts \in [Posts -> PostRecord]
    BY <1>2 DEF ConsentInv, TypeOK
  <2>2. CASE Restart
    BY <1>2, <2>1, <2>2 DEF Restart, DropPending, PostRecord
  <2>3. ASSUME NEW q \in Posts, NEW r, SetPost(q, r)
        PROVE  q = p /\ r.status = "reading"
    BY <1>2, <2>1, <2>3 DEF SetPost
  <2>4. CASE \E q \in Posts : LoadPending(q)
    <3>1. PICK q \in Posts : LoadPending(q)
      BY <2>4
    <3>2. q = p
      BY <2>3, <3>1 DEF LoadPending
    <3>3. ~SetPost(p, EmptyPost("bad_request"))
      BY <2>3 DEF EmptyPost
    <3> QED BY <3>1, <3>2, <3>3 DEF LoadPending
  <2>5. CASE \E q \in Posts, b \in Browsers : ReceivePost(q, b)
    BY <1>2, <2>3, <2>5 DEF ReceivePost
  <2>6. CASE \E q \in Posts : ReadDecision(q)
    <3>1. PICK q \in Posts : ReadDecision(q)
      BY <2>6
    <3>2. posts[q].status = "reading" /\ \E r : posts' = [posts EXCEPT ![q] = r]
      BY <3>1, Zenon DEF ReadDecision, SetPost
    <3> QED BY <1>2, <2>1, <3>2
  <2>7. CASE \E q \in Posts : ClearPending(q) \/ StoreCode(q)
    BY <1>2, <2>1, <2>7 DEF ClearPending, StoreCode, Decided, PostRecord
  <2>8. ASSUME NEW q \in Posts, PostStatementFails(q) \/ DropPost(q)
        PROVE  FALSE
    <3>1. /\ EmptyPost("bad_request").status # "reading"
          /\ posts[q] \in PostRecord
      BY <2>1 DEF EmptyPost
    <3>2. Decided(q, FALSE).status # "reading"
      BY <3>1 DEF Decided, PostRecord
    <3>3. [posts[q] EXCEPT !.status = "dropped"].status # "reading"
      BY <3>1 DEF PostRecord
    <3> QED BY <2>3, <2>8, <3>1, <3>2, <3>3 DEF PostStatementFails, DropPost
  <2>9. CASE posts' = posts
    BY <2>1, <2>9
  <2> QED
  <3>1. CASE UNCHANGED vars \/ Tick \/ \E s \in SessionIds, b \in Browsers : SignIn(s, b)
    BY <2>9, <3>1 DEF vars, handlers, Tick, SignIn
  <3>2. CASE Operate
    <4>1. CASE \E g \in Gets, b \in Browsers : ReceiveGet(g, b)
      BY <2>9, <4>1 DEF ReceiveGet, SetGet
    <4>2. CASE \E g \in Gets : LookUp(g) \/ HandleGet(g)
      BY <2>9, <4>2 DEF LookUp, HandleGet, FinishFetch, LoadForConsent, AttachPending, SetGet
    <4>3. CASE Sweep \/ \E o \in Logouts : EndSession(o) \/ \E b \in Browsers : ReceiveLogout(o, b)
      BY <2>9, <4>3 DEF ReceiveLogout, EndSession, Sweep, handlers
    <4> QED BY <2>4, <2>5, <2>6, <2>7, <3>2, <4>1, <4>2, <4>3 DEF Operate, HandlePost
  <3>3. CASE Fail
    BY <2>8, <2>9, <3>3 DEF Fail, GetStatementFails, DropGet, LogoutStatementFails, SetGet
  <3> QED BY <1>2, <2>2, <3>1, <3>2, <3>3 DEF Next
<1>3. ConsentInv => /\ now \in Instant
                    /\ \A s \in DOMAIN sessions : sessions[s].expires_at \in Instant
  BY DEF ConsentInv, TypeOK, SessionRow
<1>4. ConsentInv /\ [Next]_vars => A
  BY <1>1, <1>2, <1>3, LiveToTheSecond DEF OwnerSession, LiveSession
<1>5. Spec => [][A]_vars
  BY <1>4, Inductive, PTL DEF Spec
<1> QED BY <1>5 DEF SessionsEndWithTheirSecond
=============================================================================
