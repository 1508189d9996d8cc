----------------------------- MODULE IndieAuth -----------------------------
(***************************************************************************)
(* The server as one process: sign-in (module Passkeys), the consent       *)
(* endpoint (Consent) and the token, introspection and revocation          *)
(* endpoints (TokenService) over one database and one clock.  A code is    *)
(* named by the decision that mints it, a token by the token request that  *)
(* does, an owner session by the request that finished the sign-in.        *)
(*                                                                         *)
(* Each module leaves the others' endpoints to its environment.  Here they *)
(* are put together and all three shown to be what the others assume.      *)
(***************************************************************************)
EXTENDS Integers

CONSTANTS
  Gets, Query, Posts, Logouts, Browsers,
  ClientIds, RedirectUris, Url, Addresses, Served, ScopeWords, Verifiers,
  None, Radix, Precision, OwnerTTL,
  Exchanges, Introspections, Revocations, Forms, Unknown, TokenTTL,
  Pages, Finishes, Edits, Keys, Registered, Labels, MaxCount,
  CodeTTL, MaxTime

VARIABLES
  now, codes,
  sessions, gets, posts, logouts, jar, minted, latest,
  tokens, exchanges, introspections, revocations,
  credentials, ceremonies, ceremonyJar, pages, finishes, edits, signed

authorizeVars == <<sessions, gets, posts, logouts, jar, minted, latest>>
serviceVars == <<tokens, exchanges, introspections, revocations>>
\* `ceremonies` are the live ceremony rows of table sessions.
passkeyVars == <<credentials, ceremonies, ceremonyJar, pages, finishes, edits, signed>>
vars == <<now, codes, authorizeVars, serviceVars, passkeyVars>>

\* authorize.rs inserts the columns redeem_code reads back: the parsed query, as it was.
Request ==
  [g \in Gets |-> [client_id |-> Query[g].client_id,
                   redirect_uri |-> Query[g].redirect_uri,
                   scope |-> Query[g].scope,
                   method |-> Query[g].method,
                   code_challenge |-> Query[g].code_challenge]]

Service == INSTANCE TokenService WITH Grants <- Gets, Codes <- Posts

Challenges == {Service!S256(v) : v \in Verifiers}

Authorize == INSTANCE Consent WITH SessionIds <- Finishes

LiveOwners == {s \in DOMAIN sessions : Authorize!LiveSession(sessions, s, now)}

SignIn == INSTANCE Passkeys WITH sessions <- ceremonies \cup LiveOwners, Earlier <- {}

\* What the modules assume of their constants.
ASSUME PartsAssumption ==
  /\ Authorize!PrecisionAssumption /\ Authorize!TicksAssumption
  /\ Authorize!WorldAssumption /\ Authorize!QueryAssumption
  /\ Authorize!NoneAssumption /\ Authorize!TimeAssumption
  /\ Service!FormsAssumption /\ Service!UnknownAssumption /\ Service!TimeAssumption
  /\ SignIn!RegisteredAssumption /\ SignIn!NamesAssumption /\ SignIn!CountAssumption

Init == ceremonies = {} /\ Authorize!Init /\ Service!Init /\ SignIn!Init

\* One wall clock.
Tick == Authorize!Tick /\ Service!Tick /\ UNCHANGED passkeyVars

\* Jobs of different endpoints interleave on the one writer thread.
AuthorizeStep ==
  /\ Authorize!Operate \/ Authorize!Fail
  /\ UNCHANGED <<serviceVars, passkeyVars>>

ServiceStep ==
  /\ Service!Operate \/ Service!Fail
  /\ UNCHANGED <<authorizeVars, passkeyVars>>

PasskeyStep ==
  /\ ceremonies' \in SUBSET Pages
  /\ UNCHANGED <<now, codes, authorizeVars, serviceVars>>
  /\ SignIn!Operate \/ SignIn!Fail

\* The last step of a sign-in is where an owner session starts.
StartSession ==
  /\ UNCHANGED <<ceremonies, serviceVars>>
  /\ \E f \in {g \in Finishes : finishes[g].status = "starting"} :
       Authorize!SignIn(f, finishes[f].browser) /\ SignIn!StartOwner(f)

\* MUTANT: a ceremony that was shown is found again, expired, ended or swept.
CeremoniesReturn ==
  /\ ceremonies' \in SUBSET {p \in Pages : pages[p].status = "shown"}
  /\ UNCHANGED <<now, codes, authorizeVars, serviceVars,
                 credentials, ceremonyJar, pages, finishes, edits, signed>>

\* A ceremony's row expires.
CeremoniesLapse ==
  /\ ceremonies' \in SUBSET ceremonies
  /\ UNCHANGED <<now, codes, authorizeVars, serviceVars,
                 credentials, ceremonyJar, pages, finishes, edits, signed>>

\* One process: a restart ends the handlers of every endpoint.
Restart ==
  /\ UNCHANGED ceremonies
  /\ Authorize!Restart /\ Service!Restart /\ SignIn!Restart

Next ==
  \/ Tick
  \/ AuthorizeStep \/ ServiceStep
  \/ PasskeyStep \/ StartSession \/ CeremoniesLapse
  \/ Restart

Spec == Init /\ [][Next]_vars

-----------------------------------------------------------------------------
(* Properties *)

\* The table of codes as the consent endpoint left it: nothing used yet.
Issued == [c \in DOMAIN codes |-> [codes[c] EXCEPT !.used_at = -1]]

AuthorizeView == INSTANCE Consent WITH codes <- Issued, SessionIds <- Finishes

\* Every step of the server is, to the consent endpoint, one of its own steps or
\* none: the other endpoints never touch a session or what a code was issued for.
ImplementsConsent == AuthorizeView!Spec

\* Every step of the server is, to the token endpoints, one of theirs, the storing of
\* a code, or none: the consent endpoint stores a fresh code, unused, in time, and
\* never writes one again or touches a token.
ImplementsTokenService == Service!Spec

\* Every step of the server is, to sign-in, one of its own, or one that may renew,
\* bring back or delete rows of sessions that a sign-in has started and no other, and
\* clear a cookie: nothing else signs anybody in.
ImplementsPasskeys == SignIn!Spec

\* Every access token goes back to a decision to approve, made from one of the
\* server's pages in the session that asked, and carries the client and the scope of a
\* request that passed the checks of the GET, with a redirect URI of that client, for
\* a holder of that request's verifier.
TokensComeFromApprovals ==
  \A t \in DOMAIN tokens :
    LET p == exchanges[t].code
        g == posts[p].pending
        q == Query[g]
    IN /\ p \in Posts
       /\ posts[p].approve /\ posts[p].page # None
       /\ posts[p].session = gets[g].session
       /\ q.response_type = "code" /\ q.method = "S256"
       /\ Authorize!BelongsTo(q.redirect_uri, q.client_id)
       /\ tokens[t].client_id = q.client_id
       /\ tokens[t].scope = q.scope
       /\ exchanges[t].form.redirect_uri = q.redirect_uri
       /\ Service!S256(exchanges[t].form.code_verifier) = q.code_challenge

\* Every code was approved in a session that was started by a finish request, whose
\* response was made on the page of the ceremony its cookie named, with a key that was
\* registered then or registering a new one where the owner or the secret let it.
CodesComeFromPasskeys ==
  \A p \in DOMAIN codes :
    LET f == posts[p].session
        page == pages[finishes[f].page]
    IN /\ f \in Finishes
       /\ finishes[f].ceremony = finishes[f].page /\ page.kind = finishes[f].kind
       /\ IF page.kind = "login" THEN finishes[f].key \in page.known ELSE page.by # "nobody"
=============================================================================
