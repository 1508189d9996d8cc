------------------------------ MODULE Consent ------------------------------
(***************************************************************************)
(* The authorization endpoint and the owner sessions it works on:          *)
(* GET /auth/authorize shows a consent page and parks the request in the   *)
(* session row, POST /auth/authorize takes it from there and stores an     *)
(* authorization code, POST /auth/logout deletes the row, and the sweep    *)
(* deletes expired rows.                                                   *)
(*                                                                         *)
(* A request is a process that is received once.  Each action is one job   *)
(* of the writer thread, or one other await, with the handler code that    *)
(* runs until the next await.  A handler reads the session in one job and  *)
(* overwrites it in a later one; anything may happen in between.           *)
(*                                                                         *)
(* Signing in is the environment here; module Passkeys models it.          *)
(***************************************************************************)
EXTENDS Sessions, ClientMetadata

CONSTANTS
  Gets,          \* GET /auth/authorize requests
  Query,         \* Query[g]: the parsed query of request g
  Posts,         \* POST /auth/authorize requests; also the codes they mint
  Logouts,       \* POST /auth/logout requests
  SessionIds,    \* values random_token yields for owner sessions
  Browsers,      \* cookie jars the owner uses
  ScopeWords, Challenges,
  OwnerTTL,      \* OWNER_TTL_DAYS, a whole number of seconds
  CodeTTL,       \* ten minutes
  MaxTime        \* bound: the clock stops here

\* `well_formed` stands for serde_urlencoded; a request without a code_challenge is
\* one whose method is absent.
QueryRecord == [well_formed : BOOLEAN, response_type : {"code", "other"},
                client_id : ClientIds, redirect_uri : RedirectUris,
                scope : SUBSET ScopeWords, method : {"S256", "plain", "absent"},
                code_challenge : Challenges]

ASSUME QueryAssumption == Query \in [Gets -> QueryRecord]
ASSUME NoneAssumption == None \notin Gets \cup SessionIds \cup Browsers
ASSUME TimeAssumption == /\ OwnerTTL \in Nat \ {0} /\ OwnerTTL % TicksPerSecond = 0
                         /\ CodeTTL \in Nat \ {0}
                         /\ MaxTime \in Nat

VARIABLES
  now,       \* the wall clock
  sessions,  \* table sessions, the owner rows
  codes,     \* table authorization_codes
  gets,      \* state of each authorization request's handler
  posts,     \* state of each decision's handler
  logouts,   \* state of each logout's handler
  jar,       \* jar[b]: the owner cookie browser b holds
  minted,    \* session ids already drawn
  latest     \* history: latest[s] is the last request stored in session s

handlers == <<gets, posts, logouts>>
browsers == <<jar, minted, latest>>
vars == <<now, sessions, codes, handlers, browsers>>

-----------------------------------------------------------------------------
(* Handler records.  "dropped" is a handler whose future was dropped or    *)
(* panicked: no response, and no further call.                             *)

GetPending == {"resolving", "fetching", "loading", "attaching"}
GetEnd == {"page", "bad_request", "error_redirect", "login_redirect", "dropped"}
GetRecord == [status : {"idle"} \cup GetPending \cup GetEnd,
              browser : Browsers \cup {None}, session : SessionIds \cup {None},
              since : Instant]

\* `page` is the request whose consent page the decision was made on, `pending` the
\* one the session row held; `cleared` says the clearing UPDATE ran.
PostPending == {"loading", "reading", "clearing", "storing"}
PostEnd == {"approved", "denied", "forbidden", "bad_request", "dropped"}
PostRecord == [status : {"idle"} \cup PostPending \cup PostEnd,
               page : Gets \cup {None}, session : SessionIds \cup {None},
               approve : BOOLEAN, pending : Gets \cup {None}, cleared : BOOLEAN,
               since : Instant]

\* "done" and "kept" are the same response: the DELETE ran, or there was no cookie to
\* name a row, or the DELETE failed.
LogoutEnd == {"done", "kept", "forbidden", "dropped"}
LogoutRecord == [status : {"idle", "deleting"} \cup LogoutEnd,
                 browser : Browsers \cup {None}, session : SessionIds \cup {None}]

\* SessionData::Owner
Owner(pending) == [kind |-> "owner", pending_authorize |-> pending]

\* A handler that has not started, or has ended and left nothing behind.
EmptyGet(status) == [status |-> status, browser |-> None, session |-> None, since |-> 0]
EmptyPost(status) ==
  [status |-> status, page |-> None, session |-> None, approve |-> FALSE,
   pending |-> None, cleared |-> FALSE, since |-> 0]

Init ==
  /\ now = 0
  /\ sessions = [s \in {} |-> None]
  /\ codes = [c \in {} |-> None]
  /\ gets = [g \in Gets |-> EmptyGet("idle")]
  /\ posts = [p \in Posts |-> EmptyPost("idle")]
  /\ logouts = [o \in Logouts |-> [status |-> "idle", browser |-> None, session |-> None]]
  /\ jar = [b \in Browsers |-> None]
  /\ minted = {}
  /\ latest = [s \in SessionIds |-> None]

\* A step of one handler that writes no table.
SetGet(g, record) ==
  /\ gets' = [gets EXCEPT ![g] = record]
  /\ UNCHANGED <<now, sessions, codes, posts, logouts, browsers>>
SetPost(p, record) ==
  /\ posts' = [posts EXCEPT ![p] = record]
  /\ UNCHANGED <<now, sessions, codes, gets, logouts, browsers>>

-----------------------------------------------------------------------------
(* Environment *)

Tick ==
  /\ now < MaxTime
  /\ now' = now + 1
  /\ UNCHANGED <<sessions, codes, handlers, browsers>>

\* The job of an owner session: a lifetime computed at some instant since `since`.
StoreSession(s, pending, since) ==
  \E computed \in since .. now :
    sessions' = UpsertSession(sessions, s, Owner(pending), computed + OwnerTTL)

\* login_finish and register_finish end with start_session: a fresh row, and its id in
\* the browser's cookie if the response arrives.
SignIn(s, b) ==
  /\ s \notin minted
  /\ minted' = minted \cup {s}
  /\ StoreSession(s, None, 0)
  /\ jar' \in {jar, [jar EXCEPT ![b] = s]}
  /\ UNCHANGED <<now, codes, handlers, latest>>

-----------------------------------------------------------------------------
(* GET /auth/authorize *)

\* MUTANT: the challenge method is not looked at.
AcceptableAnyMethod(q) == q.response_type = "code"

Acceptable(q) == q.response_type = "code" /\ q.method = "S256"

\* MUTANT: the redirect URI is looked at last.
AfterMetadataLate(q, cookie, published) ==
  IF ~Acceptable(q) THEN "error_redirect"
  ELSE IF ~ValidRedirect(q.client_id, q.redirect_uri, published) THEN "bad_request"
  ELSE IF cookie = None THEN "login_redirect" ELSE "loading"

\* The checks that follow the metadata, up to the session lookup.
AfterMetadata(q, cookie, published) ==
  IF ~ValidRedirect(q.client_id, q.redirect_uri, published) THEN "bad_request"
  ELSE IF ~Acceptable(q) THEN "error_redirect"
  ELSE IF cookie = None THEN "login_redirect" ELSE "loading"

WellFormed(q) == q.well_formed /\ ProfileUrl(q.client_id) /\ ProfileUrl(q.redirect_uri)

\* A handler goes on, or ends and leaves nothing behind.
GoOn(request, status) ==
  IF status \in GetPending THEN [request EXCEPT !.status = status] ELSE EmptyGet(status)

\* A loopback client has no metadata; another is looked up first.
ReceiveGet(g, b) ==
  /\ gets[g].status = "idle"
  /\ SetGet(g, GoOn([gets[g] EXCEPT !.browser = b, !.session = jar[b]],
       IF ~WellFormed(Query[g]) THEN "bad_request"
       ELSE IF IsLoopback(Query[g].client_id) THEN AfterMetadata(Query[g], jar[b], {})
       ELSE "resolving"))

\* The lookup fails, or says whether the document may be fetched.
LookUp(g) ==
  /\ gets[g].status = "resolving"
  /\ \/ SetGet(g, GoOn(gets[g], AfterMetadata(Query[g], gets[g].session, {})))
     \/ /\ MayFetch(Query[g].client_id)
        /\ SetGet(g, GoOn(gets[g], "fetching"))

\* The fetch ends with the document or without, in FETCH_TIMEOUT at the latest.
FinishFetch(g) ==
  /\ gets[g].status = "fetching"
  /\ \E published \in FetchOutcomes(Query[g].client_id) :
       SetGet(g, GoOn(gets[g], AfterMetadata(Query[g], gets[g].session, published)))

\* load_session finds a live owner row.
OwnerSession(s) == /\ LiveSession(sessions, s, now)
                   /\ sessions[s].data.kind = "owner"

\* MUTANT: a missing session is looked for again.
AfterLoadAgain(found) == IF found THEN "attaching" ELSE "loading"

AfterLoad(found) == IF found THEN "attaching" ELSE "login_redirect"

LoadForConsent(g) ==
  /\ gets[g].status = "loading"
  /\ SetGet(g, GoOn([gets[g] EXCEPT !.since = now], AfterLoad(OwnerSession(gets[g].session))))

\* update_owner_session is an upsert: it writes the row whether or not the row is
\* still there.  The page is rendered from the request, not from the row.
AttachPending(g) ==
  /\ gets[g].status = "attaching"
  /\ StoreSession(gets[g].session, g, gets[g].since)
  /\ latest' = [latest EXCEPT ![gets[g].session] = g]
  /\ \E outcome \in {"page", "dropped"} : gets' = [gets EXCEPT ![g].status = outcome]
  /\ UNCHANGED <<now, codes, posts, logouts, jar, minted>>

-----------------------------------------------------------------------------
(* POST /auth/authorize *)

\* Request headers of a form post: from our own page (or by a browser that sends
\* neither header), and from a page of another origin.
OwnHeaders == {[origin |-> "own", site |-> "same-origin"],
               [origin |-> "absent", site |-> "absent"]}
ForeignHeaders == {[origin |-> "foreign", site |-> "same-site"],
                   [origin |-> "absent", site |-> "cross-site"]}

\* MUTANT: only the Sec-Fetch-Site header is looked at, and loosely.
IsSameSiteLoose(headers) == headers.site # "cross-site"

IsSameSite(headers) ==
  IF headers.origin # "absent" THEN headers.origin = "own"
  ELSE headers.site \in {"same-origin", "none", "absent"}

\* The owner submits the consent page of some request in the browser that shows it,
\* or another site submits a form of its own there.
ReceivePost(p, b) ==
  /\ posts[p].status = "idle"
  /\ \E page \in {g \in Gets : gets[g].status = "page" /\ gets[g].browser = b} \cup {None} :
     \E headers \in IF page = None THEN ForeignHeaders ELSE OwnHeaders :
       SetPost(p, IF IsSameSite(headers) /\ jar[b] # None
                  THEN [posts[p] EXCEPT !.status = "loading", !.page = page,
                                        !.session = jar[b]]
                  ELSE EmptyPost("forbidden"))

LoadPending(p) ==
  LET s == posts[p].session
      pending == sessions[s].data.pending_authorize
  IN
  /\ posts[p].status = "loading"
  /\ SetPost(p, IF OwnerSession(s) /\ pending # None
                THEN [posts[p] EXCEPT !.status = "reading", !.pending = pending]
                ELSE EmptyPost("bad_request"))

\* The body arrives and is a decision, or is not.
ReadDecision(p) ==
  /\ posts[p].status = "reading"
  /\ \/ SetPost(p, EmptyPost("bad_request"))
     \/ \E approve \in BOOLEAN :
          SetPost(p, [posts[p] EXCEPT !.status = "clearing", !.approve = approve,
                                      !.since = now])

\* MUTANT: the request that was loaded is written back.
LeftAsLoaded(p) == posts[p].pending

\* MUTANT: a denied request stays in the row.
LeftIfDenied(p) == IF posts[p].approve THEN None ELSE posts[p].pending

\* The request that a decision leaves in the row.
Left(p) == None

Decided(p, cleared) ==
  [posts[p] EXCEPT !.status = IF posts[p].approve THEN "storing" ELSE "denied",
                   !.cleared = cleared, !.since = now]

\* The row is overwritten, whatever it holds by now.
ClearPending(p) ==
  /\ posts[p].status = "clearing"
  /\ StoreSession(posts[p].session, Left(p), posts[p].since)
  /\ posts' = [posts EXCEPT ![p] = Decided(p, TRUE)]
  /\ UNCHANGED <<now, codes, gets, logouts, browsers>>

\* MUTANT: the code lives as long as a session and then some.
CodeExpiryLong(computed) == computed + OwnerTTL + CodeTTL

CodeExpiry(computed) == computed + CodeTTL

\* The code goes to the request loaded before the body was read.
StoreCode(p) ==
  /\ posts[p].status = "storing"
  /\ \E computed \in posts[p].since .. now :
       codes' = InsertCode(codes, p, posts[p].pending, CodeExpiry(computed))
  /\ \E outcome \in {"approved", "dropped"} : posts' = [posts EXCEPT ![p].status = outcome]
  /\ UNCHANGED <<now, sessions, gets, logouts, browsers>>

-----------------------------------------------------------------------------
(* POST /auth/logout and the sweep *)

ReceiveLogout(o, b) ==
  /\ logouts[o].status = "idle"
  /\ \E headers \in OwnHeaders \cup ForeignHeaders :
       logouts' = [logouts EXCEPT
         ![o] = IF ~IsSameSite(headers) THEN [@ EXCEPT !.status = "forbidden"]
                ELSE [status |-> IF jar[b] = None THEN "kept" ELSE "deleting",
                      browser |-> b, session |-> jar[b]]]
  /\ UNCHANGED <<now, sessions, codes, gets, posts, browsers>>

\* end_session; the response, if it arrives, clears the browser's cookie.
EndSession(o) ==
  LET request == logouts[o] IN
  /\ request.status = "deleting"
  /\ sessions' = DeleteSession(sessions, request.session)
  /\ \/ /\ logouts' = [logouts EXCEPT ![o].status = "done"]
        /\ jar' = [jar EXCEPT ![request.browser] = None]
     \/ /\ logouts' = [logouts EXCEPT ![o].status = "dropped"]
        /\ UNCHANGED jar
  /\ UNCHANGED <<now, codes, gets, posts, minted, latest>>

\* spawn_session_cleanup, every five minutes.
Sweep ==
  /\ sessions' = CleanupExpiredSessions(sessions, now)
  /\ UNCHANGED <<now, codes, handlers, browsers>>

-----------------------------------------------------------------------------
(* Failures *)

\* The statement of the pending job fails.  A failed lookup is a missing session and
\* a failed update is ignored; a failed DELETE too, and only the INSERT of the code
\* panics.
GetStatementFails(g) ==
  \/ /\ gets[g].status = "loading"
     /\ SetGet(g, GoOn(gets[g], AfterLoad(FALSE)))
  \/ /\ gets[g].status = "attaching"
     /\ SetGet(g, [gets[g] EXCEPT !.status = "page"])

PostStatementFails(p) ==
  \/ /\ posts[p].status = "loading"
     /\ SetPost(p, EmptyPost("bad_request"))
  \/ posts[p].status = "clearing" /\ SetPost(p, Decided(p, FALSE))
  \/ posts[p].status = "storing" /\ SetPost(p, [posts[p] EXCEPT !.status = "dropped"])

LogoutStatementFails(o) ==
  /\ logouts[o].status = "deleting"
  /\ logouts' = [logouts EXCEPT ![o].status = "kept"]
  /\ jar' = [jar EXCEPT ![logouts[o].browser] = None]
  /\ UNCHANGED <<now, sessions, codes, gets, posts, minted, latest>>

\* The client goes away and hyper drops the handler's future: the job it waited for
\* has run, the next one is never queued.
DropGet(g) ==
  /\ gets[g].status \in GetPending
  /\ SetGet(g, EmptyGet("dropped"))

DropPost(p) ==
  /\ posts[p].status \in {"loading", "reading", "storing"}
  /\ SetPost(p, [posts[p] EXCEPT !.status = "dropped"])

\* The process dies and is started again: the handlers are gone, the tables stay.
Restart ==
  /\ gets' = DropPending(gets, GetPending)
  /\ posts' = DropPending(posts, PostPending)
  /\ logouts' = DropPending(logouts, {"deleting"})
  /\ UNCHANGED <<now, sessions, codes, browsers>>

-----------------------------------------------------------------------------

HandleGet(g) == FinishFetch(g) \/ LoadForConsent(g) \/ AttachPending(g)
HandlePost(p) == LoadPending(p) \/ ClearPending(p) \/ StoreCode(p)

\* Every operation of these endpoints.
Operate ==
  \/ \E g \in Gets, b \in Browsers : ReceiveGet(g, b)
  \/ \E g \in Gets : LookUp(g) \/ HandleGet(g)
  \/ \E p \in Posts, b \in Browsers : ReceivePost(p, b)
  \/ \E p \in Posts : ReadDecision(p) \/ HandlePost(p)
  \/ \E o \in Logouts, b \in Browsers : ReceiveLogout(o, b)
  \/ \E o \in Logouts : EndSession(o)
  \/ Sweep

\* Every failure that leaves the process alive.
Fail ==
  \/ \E g \in Gets : GetStatementFails(g) \/ DropGet(g)
  \/ \E p \in Posts : PostStatementFails(p) \/ DropPost(p)
  \/ \E o \in Logouts : LogoutStatementFails(o)

Next ==
  \/ Tick
  \/ \E s \in SessionIds, b \in Browsers : SignIn(s, b)
  \/ Operate \/ Fail \/ Restart

Spec == Init /\ [][Next]_vars

\* The writer thread drains its queue, tokio polls every woken handler, the fetch of a
\* document has a timeout and the sweep an interval.  Nothing bounds the arrival of a
\* body or the resolver's answer.
Fairness ==
  /\ \A g \in Gets : WF_vars(HandleGet(g))
  /\ \A p \in Posts : WF_vars(HandlePost(p))
  /\ \A o \in Logouts : WF_vars(EndSession(o))
  /\ WF_vars(Sweep)

FairSpec == Spec /\ Fairness

-----------------------------------------------------------------------------
(* Properties *)

SessionRow == [data : [kind : {"owner"}, pending_authorize : Gets \cup {None}],
               expires_at : Instant]
CodeRow == [grant : Gets, expires_at : Instant, used_at : {Null}]

\* Every variable stays in its type; a code row always names a request.
TypeOK ==
  /\ now \in Instant
  /\ DOMAIN sessions \subseteq minted
  /\ \A s \in DOMAIN sessions : sessions[s] \in SessionRow
  /\ DOMAIN codes \subseteq Posts
  /\ \A p \in DOMAIN codes : codes[p] \in CodeRow
  /\ gets \in [Gets -> GetRecord]
  /\ posts \in [Posts -> PostRecord]
  /\ logouts \in [Logouts -> LogoutRecord]
  /\ jar \in [Browsers -> SessionIds \cup {None}]
  /\ minted \subseteq SessionIds
  /\ latest \in [SessionIds -> Gets \cup {None}]

\* A code exists only because the owner approved from one of the server's own pages
\* in a browser signed in to the session that had made the request, and that request
\* asked for a code with an S256 challenge and a redirect URI of its client
\* (authorize.rs get and post, csrf.rs, client_metadata.rs).
CodesAreApproved ==
  \A p \in DOMAIN codes :
    LET g == codes[p].grant
        q == Query[g]
    IN /\ posts[p].page # None
       /\ posts[p].approve
       /\ posts[p].pending = g
       /\ posts[p].session = gets[g].session
       /\ q.response_type = "code" /\ q.method = "S256"
       /\ BelongsTo(q.redirect_uri, q.client_id)

\* The browser is sent back to a redirect URI, with an error even, only when the URI
\* is the client's (authorize.rs: "redirecting to it would be an open redirect").
RedirectsAreTheClients ==
  \A g \in Gets : gets[g].status \in {"error_redirect", "attaching", "page"} =>
                    BelongsTo(Query[g].redirect_uri, Query[g].client_id)

\* A client whose document cannot be had, or is no good, or is good and does not list
\* the URI, is refused only for a redirect URI of another origin
\* (client_metadata.rs: "a fetch failure is not fatal by itself").
FetchFailureIsNotFatal ==
  \A g \in Gets :
    gets[g].status = "bad_request" =>
      ~WellFormed(Query[g]) \/ ~SameOrigin(Query[g].client_id, Query[g].redirect_uri)

\* A session row holds the last request stored in it, and is empty only before the
\* first or because a decision of the same session cleared it: no renewal, failure,
\* sweep or restart brings an earlier request back or loses the last one, however the
\* handlers of several tabs interleave (session.rs update_owner_session).  Whether the
\* decision was about that request is DecisionsTakeTheirRequest, further down.
PendingIsMostRecent ==
  \A s \in DOMAIN sessions :
    LET held == sessions[s].data.pending_authorize
    IN \/ held = latest[s]
       \/ held = None /\ \E p \in Posts : posts[p].cleared /\ posts[p].session = s

\* Once a decision has cleared the request it took, no row holds that request again:
\* a later decision cannot take it, though one that has loaded it already can.
SpentRequestsStayCleared ==
  \A p \in Posts, s \in DOMAIN sessions :
    posts[p].cleared => sessions[s].data.pending_authorize # posts[p].pending

\* A session row whose last second has not come disappears only when a logout that
\* names it runs: no sweep, decision, failure or restart signs the owner out
\* (sessions.rs).  To the second, as the text order is not exact within one.
LiveSessionsEndByLogout ==
  [][\A s \in DOMAIN sessions :
       Second(sessions[s].expires_at) > Second(now) /\ s \notin DOMAIN sessions' =>
         \E o \in Logouts : /\ logouts[o].session = s
                            /\ logouts[o].status = "deleting"
                            /\ logouts'[o].status # "deleting"]_vars

\* No handler goes on with a session whose last second is over (sessions.rs
\* get_session).  This bounds by one second what ExpiredSessionsAreMissing, further
\* down, finds.
SessionsEndWithTheirSecond ==
  [][/\ \A g \in Gets :
          gets[g].status = "loading" /\ gets'[g].status = "attaching" =>
            Second(sessions[gets[g].session].expires_at) >= Second(now)
     /\ \A p \in Posts :
          posts[p].status = "loading" /\ posts'[p].status = "reading" =>
            Second(sessions[posts[p].session].expires_at) >= Second(now)]_vars

\* A row whose last second is over is deleted, or a handler that is under way renews
\* it (main.rs spawn_session_cleanup).
ExpiredRowsAreSwept ==
  \A s \in SessionIds :
    s \in DOMAIN sessions /\ Second(sessions[s].expires_at) < Second(now) ~>
      s \notin DOMAIN sessions \/ Second(sessions[s].expires_at) >= Second(now)

\* Every handler that waits for the database or for a client's document comes to an
\* end, or to waiting for its request's body, even while another waits for the
\* resolver for ever.
HandlersSettle ==
  /\ \A g \in Gets : gets[g].status \in GetPending \ {"resolving"} ~> gets[g].status \in GetEnd
  /\ \A p \in Posts :
       /\ posts[p].status = "loading" ~> posts[p].status \in {"reading"} \cup PostEnd
       /\ posts[p].status \in {"clearing", "storing"} ~> posts[p].status \in PostEnd
  /\ \A o \in Logouts : logouts[o].status = "deleting" ~> logouts[o].status \in LogoutEnd

-----------------------------------------------------------------------------
(* What the comments and the pages say, and the code does not do. *)

\* After a logout has been carried out its session does not let anyone in (README.md:
\* "End the owner session"; session.rs: the update works "in place").
LogoutIsFinal ==
  \A o \in Logouts :
    logouts[o].status = "done" => ~LiveSession(sessions, logouts[o].session, now)

\* A decision is about the request of the page it was made on, and takes that one out of
\* the row: none that another tab has stored since, nor one that is gone (html.rs: "Sign
\* in to {name}?"; session.rs: the row "holds the most recent in-flight authorization
\* request"; authorize.rs: it is "single-use").
DecisionsTakeTheirRequest ==
  [][\A p \in Posts :
       LET s == posts[p].session IN
       posts'[p].cleared /\ ~posts[p].cleared /\ s \in DOMAIN sessions =>
         /\ posts[p].pending = posts[p].page
         /\ sessions[s].data.pending_authorize = posts[p].page]_vars

\* A handler goes on only with a session that has not expired (db/sessions.rs: "only if
\* it hasn't expired").
ExpiredSessionsAreMissing ==
  [][/\ \A g \in Gets :
          gets[g].status = "loading" /\ gets'[g].status = "attaching" =>
            sessions[gets[g].session].expires_at > now
     /\ \A p \in Posts :
          posts[p].status = "loading" /\ posts'[p].status = "reading" =>
            sessions[posts[p].session].expires_at > now]_vars

\* One request gives one code at most (authorize.rs: the pending request is
\* "single-use").
OneCodePerConsent ==
  \A p, q \in DOMAIN codes : p # q => codes[p].grant # codes[q].grant
=============================================================================
