# A TLA+ model of indieauth

indieauth is an IndieAuth server for one owner: a single Rust process that keeps
its state in SQLite. This directory models its concurrent core in TLA+, checks
small instances with TLC, and proves with TLAPS that every safety property holds on
instances of any size. `PROJECT.json`
lists the components, runs, mutants, hazards and theorems, and maps each
definition to the lines it models. Paths below are relative to the repository.

## 1. The system

The hard part is one design decision (`src/db/mod.rs`): every query is a closure
that one thread runs, and handlers await the reply. One *job* is therefore
atomic; two jobs of one handler are not. Between them any other handler's job
may run, the client may go away (hyper then drops the handler's future, and the
job it waited for still runs), the statement may fail, or the process may die.

| Component | State | Operations | What makes it correct |
|---|---|---|---|
| Authorization and consent (`routes/authorize.rs`) | the pending request in the session row; `authorization_codes` | GET shows the page and parks the request; POST takes, clears and approves it | a code only for a request that passed every check and that its owner approved; once |
| Owner sessions (`session.rs`, `db/sessions.rs`) | `sessions`; the `__Host-owner` cookie | start, load, overwrite, end, sweep | a row ends by logout or expiry, and then stays ended |
| CSRF check (`csrf.rs`) | none | a decision on two headers | no decision from a foreign page |
| Token endpoint (`routes/token.rs`, `db/codes.rs`, `pkce.rs`) | `authorization_codes`, `access_tokens` | claim the code, compare the form, store a token | one claim per code, of a form that came in time; a token only for a matching form |
| Introspection, revocation (`db/tokens.rs`) | `access_tokens` | look up, mark revoked | revoked or expired is never active again |
| Passkey registration and sign-in (`routes/login.rs`) | `webauthn_credentials`, ceremony rows, the `__Host-ceremony` cookie | two pages, two finish requests | nobody is signed in, and no key stored, without proof |
| Passkey management (`routes/credentials.rs`) | `webauthn_credentials` | delete, rename | the last key stays; a deleted key stays deleted |
| Database thread (`db/mod.rs`, `migrations/`) | the file, the job queue | open, migrate, run jobs, `Db::call` | jobs in order, once, on the whole schema; no caller waits for ever |
| Client metadata (`client_metadata.rs`) | none | look up, fetch, check a document; validate a redirect URI | only the client's own redirect URIs, and no more than that is refused when a fetch fails |
| Time (`util.rs`) | the wall clock | RFC 3339 text, `is_past`, text comparison in SQL | expiry decided alike everywhere, to the second |
| Process (`main.rs`, `daemontools/`) | the socket file | start, bind, accept, sweep, stop | a restart loses handlers and no table, and can always start |
| The rest (`routes/mod.rs`, `config.rs`, `error.rs`, `html.rs`, `body.rs`, `idgen.rs`, `routes/metadata.rs`, `static/`) | none | dispatch, formatting, reading | |

They interact through shared rows only. The consent endpoint writes the codes
that the token endpoint claims; sign-in writes the sessions that consent reads
and overwrites; logout and the sweep delete them; and all of them queue jobs on
the one thread.

The hard behaviours are listed under `hazards` in `PROJECT.json`, each at its
line. They are of five kinds: check-then-act across two jobs; state read before
an await and written back after it; a crash, dropped future or failing
statement between two jobs; time passing between a job's queueing and its run;
and a thread or process that dies with jobs queued.

## 2. The modules

| Module | Models | Proofs |
|---|---|---|
| `Store` | the SQL statements on codes, tokens and passkeys, as operators on a table | |
| `Sessions` | the SQL statements on sessions, whose expiry is compared as text | |
| `ClientMetadata` | the URL profile, the address filter, the document, the redirect decision | |
| `GrantLifecycle` | abstract: what is promised of codes and tokens | |
| `TokenService` | the token, introspection and revocation endpoints; implements `GrantLifecycle` | `TokenServiceProofs`, `LifecycleProofs` |
| `Consent` | GET and POST `/auth/authorize`, owner sessions, logout, the sweep | `ConsentProofs` |
| `Passkeys` | registration, sign-in, deletion and renaming of passkeys | `PasskeysProofs` |
| `IndieAuth` | `Passkeys`, `Consent` and `TokenService` as one process on one database | `IndieAuthProofs` |
| `DbCalls` | abstract: what is promised of a call to the database thread | |
| `DbWriter` | the database thread, the migration, `Db::call`; implements `DbCalls` | `DbWriterProofs` |
| `Process` | `DbWriter` inside the process: start, bind, accept, shut down, die, start again | `DbWriterProofs` |
| `MC*` | constants and small definitions for TLC | |

**State.** A table is a function from the primary keys present to rows. A
request is a process that is received once; its handler is a record with a
`status` (the await it is suspended in) and the values it holds across awaits.
`"dropped"` means that the future was dropped or panicked. A request names what
it mints: a decision its code, a token request its token, a page its ceremony, a
finish request its owner session. Those names stand for the values of
`random_token`, which do not repeat. `latest`, `sent`, `applied`, and the fields
`earlier`, `received` and `counted` of handlers are history that only properties
read.

**Actions.** One action is one job of the thread, or one other await, and all
the handler code up to the next. The `Receive...` actions are the code before
the first await; `...StatementFails` is a job whose SQL fails, with exactly what
the handler then does (`unwrap_or(0)`, `.ok()`, `.expect`); `Drop...` is a dropped
future; `Restart` is the process dying and starting again. A dropped future
whose job is still queued needs no action of its own: the job's action ends in
`"dropped"` as an alternative outcome where the job writes, and where it only
reads it makes no difference that it ran. Redeeming a code is one job in two
actions, `FindCode` and `ClaimCode`, since it reads the clock twice
(`db/codes.rs:87` and `:93`) and time may pass between the readings; `Free` keeps
another redemption out of it, as the thread does.

**Time.** Instants are natural numbers. A lifetime is computed in handler code
and stored by a later job; the action that stores it chooses the instant it was
computed at among those since the handler resumed. Codes and tokens are compared
as instants; a code may be marked used at its expiry or later, if it was found
unexpired just before. Sessions are compared by SQL as RFC 3339 text, which leaves out the
trailing zeros of the fraction: `Sessions` counts time in units of the last digit
and compares the digits as the text does, with the letter Z after every digit.
Within one second the result is not the order of time, and a row may even be
expired and live again; the properties of `Consent` therefore speak of whole
seconds. `Passkeys` has no clock: an expired row is a missing row to every
reader, so there a row may lapse at any step, and a lookup that misses a row is
one of the failing statements.

**Clients.** `ClientMetadata` takes the world as constants: the parsed form of
each text, the addresses of each host, the document at each client URL. Whether a
lookup or fetch succeeds is chosen at each step of `Consent` (`LookUp`,
`FinishFetch`). `BelongsTo` is the reference the decision is compared with; it
says what a redirect URI must be without saying how the code finds out.

**Environment.** In `TokenService` the consent endpoint is an action that stores
a code; in `Consent` signing in is an action that starts a session; in `Passkeys`
one action, `Elsewhere`, does what the other endpoints may do to sessions.
`IndieAuth` discharges all three: each step of the whole is shown to be a step of
each module, or a stutter. `Consent` and the others take a job for granted that
is atomic and is lost only with its process; `DbWriter` shows the thread to
provide that (`ImplementsCalls`). External code (browsers, clients, the resolver,
SQLite, webauthn-rs, authenticators) appears as inputs: a browser submits a page
it shows, or a foreign site posts a form of its own; an authenticator's response
fits the one ceremony it was made for and counts one above its last.

## 3. The runs

Every passing run lists its properties with a mutant each: an operator marked
`MUTANT` in the module, a plausible bug, under which the run fails.

| Run | Instance | Shows |
|---|---|---|
| `tokens` | codes of 2 clients, one at a time, 2 token requests, 5 forms, an introspection, a revocation; clock to 1, at which codes and tokens expire | a code is claimed once; a token only by the right form, received before the code expired; revoked tokens stay inactive; `GrantLifecycle` is implemented; every request settles |
| `consent_tabs` | 4 requests (own origin with an address inside the network, listed, listed in another client's name, `plain`), 2 decisions, 2 sessions, no clock | what the session row may hold, what codes are issued for, who is redirected |
| `consent_clock` | 1 request (own origin beside a list), a decision, a logout, a session of one second; seconds of 4 units, written in 2 binary digits, clock to 8 | a failed fetch refuses no client its own origin; how sessions end within and after their second, that the sweep deletes them and that handlers settle |
| `server` | 2 requests, a decision, a token request, a page, a finish request, a registered and a new key; clock to 1, at which sessions, codes and tokens expire | tokens go back to approvals and codes to passkeys; all three modules are implemented by the whole |
| `sign_in` | empty table, 2 keys that sign twice, 2 pages, 2 finish requests, 2 browsers | sessions and keys are earned, by registering and by signing in with the key just registered |
| `manage_keys` | 2 keys, 1 page, 1 finish request, 1 edit, 1 earlier session | deleted keys stay deleted; rename and sign-in keep apart; handlers settle |
| `writer` | 3 callers, the real script of 6 objects, a socket file | job order, replies, schema, `DbCalls` is implemented, liveness of calls, the socket, coming up again |
| `logout_races`, `other_tab`, `same_second`, `second_bootstrap`, `two_deletions` | the smallest that show it | disagreements 1 to 5 of section 4 |

**Why the bounds are enough.** The races are between two handlers, so two of a
kind suffice where handlers of one kind race; one is enough where the race is
with another kind. The clock runs far enough for a row to be stored, expire and
be read or swept afterwards: in `tokens` a code expires between the two readings
of its claim, or before the first, and a token stored at the start expires too;
in `consent_clock` a session stored at any instant of a second ends at the same
instant of the next, and the clock goes on into the second after. Two digits of
two values give fractions of every length the text can have: none, one digit
(the half, without its trailing zero) and two. In `consent_tabs` the clock
stands still: expiry is not its question. What `server` leaves out touches
nothing that another module writes (introspection, revocation, edits of
passkeys, the DNS lookup, as its clients are on the loopback address) or is what
expiry does too (logout). `MaxTime` and `MaxCount` are the only bounds in
guards. In `consent_tabs` the decisions are interchangeable, and so are session
ids; no definition tells them apart, so `SYMMETRY` is sound, and the run checks
invariants only. `sign_in` lets a key sign twice, once to be registered and once
to sign in, and a page may be made after the key it then signs in with was
stored.

**Deadlock.** TLC's deadlock check is on but says little, since a restart is
always possible. That nothing gets stuck is what the liveness properties say:
`RequestsSettle`, the two `HandlersSettle`, `CallsSettle`, `AbandonedJobsRun`,
`ExpiredRowsAreSwept`, `AlwaysUpAgain`.

**Fairness.** Weak, on the steps a handler takes once its job is queued: the
thread's loop (`db/mod.rs:42`) never stops while jobs are queued, and tokio polls
a woken task. The fetch of a document is fair because it has a timeout, the sweep
because it has an interval. The lookup before the fetch has no timeout in this
code (`client_metadata.rs:105`), so `LookUp` is not fair: `HandlersSettle` says
that every handler past it settles even if the resolver never answers another; its
run has one GET, so what is seen to settle beside a silent resolver is a decision
and a logout.
`Process` assumes that the process is started again (daemontools), that main goes
on where it does not wait, that a statement that must fail does, and that a start
tried again and again binds some time (strong fairness of `Bind`): a crash or a
failing bind does not strike every time. The mutant that leaves a stale file in
place shows that the last assumption does not hide the question. Nothing is
assumed of clients, bodies, failures, expiry, restarts or the clock: a handler
that waits for its request's body may wait for ever, and the properties say so.

## 4. What the code does and its comments do not say

Five disagreements are runs, for which TLC must find the property violated:

1. **A logout can be undone** (`logout_races`). `update_owner_session` is an
   upsert. A GET or POST of `/auth/authorize` that loaded the session before
   a logout deleted it writes it back, live for 30 days. The README says the
   logout ends the session; the function's comment says "in place".
2. **A decision about what was not shown** (`other_tab`). The form does not name its
   request. Approve on the page of one client takes the request of the client whose
   page was loaded last, clears it and issues its code, while the page names the
   first. `DecisionsTakeTheirRequest` says that a decision loads and clears the
   request of its own page. The same property rules out that a decision clears a
   request stored since it was loaded, about which nobody has decided (the comment
   says that the row holds the most recent one in flight), and that two decisions
   load one request before either clears it. `PendingIsMostRecent` says what is left:
   the row holds the last request, or a decision of its session has cleared it.
3. **Expired in this second** (`same_second`). The order of the texts is not that of
   the instants within a second, so a session that has just expired is found; the
   comment says that it is treated as missing. `SessionsEndWithTheirSecond` bounds
   the delay by that second.
4. **A second bootstrap** (`second_bootstrap`). The passkeys are counted when the
   registration page is made, and nothing is counted when a key is stored: two
   registrations with the secret, on two pages or twice on one, both go through,
   although comments and README say that from the first passkey on an owner session
   is required. `BootstrapIsForTheFirst` also asks that only a bootstrap signs in.
5. **No passkey left** (`two_deletions`). Counting and deleting are two jobs, so
   two deletions may each count two. The comment says the route refuses to delete
   the last one.

The others were found on the way. Their configurations are kept beside those of the
runs, and TLC refutes the property named:

| Disagreement | Configuration, property |
|---|---|
| Two decisions load the pending request before either clears it "regardless of outcome -- it's single-use" (`authorize.rs:162`); both store a code. | `MCConsentTwice`, `OneCodePerConsent` |
| A count of passkeys that fails is taken for none (`login.rs:56`), so the secret registers a key beside those that exist. | `MCPasskeysFailedCount`, `BootstrapIsForTheFirst` |
| The handler signs in whoever has no owner cookie at the finish (`login.rs:142`), and its comment takes that for the bootstrap; the owner may have opened the page and logged out since. | `MCPasskeysOwnerFinish`, `BootstrapIsForTheFirst` |
| A sign-in reads the passkey's row in one job and writes it whole in another (`login.rs:238`). Of two that overlap, the one with the smaller counter may write last; the comment on the UPDATE says the counter "stays accurate across logins". | `MCPasskeysCounter`, `CountersNeverGoBack` |
| Script and version are written in autocommit mode, not "each in its own transaction" (`db/mod.rs:72`): a process that ends in between leaves tables and version 0, and the next start panics on a table that exists, every time. | `MCDbWriterMigration`, `MigrationsAreAtomic` |
| The result of a revocation's UPDATE, which "always succeeds" (`db/tokens.rs:73`), is thrown away (`revocation.rs:21`): when it fails, the client is answered 200, and the token stays active. `RevocationIsFinal` is about the revocations that ran. | `MCTokenServiceAnswered`, `AnsweredRevocationIsFinal` |

## 5. What is proved

Every safety property that a passing run checks, invariant, action property or
refinement, is a theorem of its specification: TLC shows it on the instance of
section 3, the proof for every value of the constants. Each inductive invariant was
checked by TLC before it was proved. Theorems have the names below; `TypeCorrect`,
in four of the modules, proves `TypeOK`.

| Module | Theorem | Property |
|---|---|---|
| `TokenServiceProofs` | `SingleClaim`, `Authorized`, `RevocationFinal` | `OneClaimPerCode`, `TokensAreAuthorized`, `RevocationIsFinal` |
| `LifecycleProofs` | `Implements` | `ImplementsLifecycle` |
| `ConsentProofs` | `Approved`, `Redirects`, `FetchNotFatal` | `CodesAreApproved`, `RedirectsAreTheClients`, `FetchFailureIsNotFatal` |
| | `MostRecent`, `SpentStayCleared` | `PendingIsMostRecent`, `SpentRequestsStayCleared` |
| | `LiveRowsStay`, `SessionsEnd` | `LiveSessionsEndByLogout`, `SessionsEndWithTheirSecond` |
| `PasskeysProofs` | `Earn`, `KeysAuthorized` | `SessionsAreEarned`, `KeysAreAuthorized` |
| | `RemovedStayRemoved`, `KeepApart` | `RemovedKeysStayRemoved`, `RenameAndSignInKeepApart` |
| `DbWriterProofs` | `OnceInOrder`, `TrueReplies`, `FullSchema` | `JobsRunOnceInOrder`, `RepliesAreTrue`, `JobsRunOnFullSchema` |
| | `Implements` | `ImplementsCalls` |
| | `ServerRunsThread`, `SocketOurs` | `ServerSpec => Spec`; `SocketIsOurs` |
| `IndieAuthProofs` | `ServesConsent`, `ServesTokens`, `ServesSignIn` | `ImplementsConsent`, `ImplementsTokenService`, `ImplementsPasskeys` |
| | `PasskeysBehindCodes`, `ApprovalsBehindTokens` | `CodesComeFromPasskeys`, `TokensComeFromApprovals` |

**Assumptions.** Only those the modules state about their constants, which TLC
evaluates in the runs: what the texts, forms and requests of the world look like;
that lifetimes are positive and the owner's is whole seconds (`config.rs`,
`session.rs`); that the names of different things differ (`NoneAssumption`,
`NamesAssumption`, `UnknownAssumption`); that a new session id is none that is
there (`FreshAssumption`: ids are random). `TicksAssumption`, that a power of the
radix is a positive number, is a fact of arithmetic that the provers have no rule
for. `PartsAssumption` of `IndieAuth` collects those of its parts, as an instance
does not bring its assumptions along. The bounds of section 3 appear as constants
with no value.

**Tokens.** `OneClaimPerCode` is not inductive: nothing in it says that a claimed
code is marked used, so a second claim might follow from a state that satisfies it.
`ClaimInv` adds `ClaimsOK`: a redemption between its two readings has a row that is
unused and was not expired when its form came (`FoundOK`), only one redemption is
there at a time, and whoever has claimed a code finds its row there, with the same
grant, marked used by now and not expired when the form came. `ClaimCode` is then the
only step that claims, and it marks the row nobody has used since
(`ClaimCodeEffect`); every other step keeps the claims. `TokensInv` ties a token to its
request: it has claimed, is past `"storing"`, and passed `FormMatches` with a
non-blank scope. `RevocationInv` says that a revocation names a token that has a row,
which is marked once the UPDATE has run, and that an introspection remembers a
revocation only of such a token; rows of tokens are never deleted and keep their
mark (`RevokedRowsStay`).

**The life of codes and tokens.** `LifecycleProofs` takes each action of
`TokenService` to the abstract step it is, or to none, given `ClaimInv` and
`TokensInv`: without them a token could be stored on a code that the abstract state
does not show as spent.

**Consent.** The properties need more than they say, because a handler writes back
what it read an await ago. `ConsentInv` says what a handler knows, given how far it is:
a request that a row holds, or that a decision has taken, was stored there by a
handler that has ended and whose checks passed (`StoredIn`, `RowOK`, `PostOK`), a
decision that has cleared its request finds it in no row, a row without its last
request has a decision that cleared it (`ClearedIn`), and a code is for what its
decision took. It rests on a handler being over when its request is stored: a request
is stored once, so one that has been cleared cannot come back.
`LiveRowsStay` and `SessionsEnd` use of the text comparison only that it agrees
with the order of seconds, whatever it does within one (`SortsAfter`).

**Passkeys.** `PasskeysInv` rests on a page never changing after it was shown, nor
the response a finish request was received with (`MadeOn`). So what is true when the
response is made is still true several jobs later, when the session starts or the
key is stored. The cookie is not trusted: that it names the page of the response is
what the check of the ceremony establishes (`r.ceremony = r.page`). A page also remembers
what opened it: an owner session that was started here, or the secret with a count of
none or a failed one.

**The database thread.** `WriterInv` has three parts. `OrderInv`: what ran followed
by what is queued is in the order of `sent`, which holds every caller once; so taking
the head of the queue can never run a job late or twice, and losing the whole queue
does no harm. `CallsInv`: a caller that waits has its job in the queue, so one that
is answered had it run, and one that panicked lost it; it needs that a thread that
is off or dead has an empty queue. `SchemaInv`: while a migration runs, what its
script creates is in the file or still to do, so the version is written when all of
it is there, and jobs are served at the last version only. That holds of half a
migration too: what the code then loses is the way to the next version, not the
schema of a job. `ServerRunsThread` carries all of it to the process, whose steps
are steps of the thread or none.

**The whole server.** That each module is the environment the others assume is
circular only in appearance. `ServerInv` is the conjunction of the modules'
invariants (with: a live ceremony is a page's). While it holds, every step of the
server is a step of each module, or none of it (`AuthorizeSees`, `ServiceSees`,
`SignInSees`), and so keeps each conjunct by the theorem of that module.
The refinements follow, and then the two properties that no module can state:
a code's session goes back to a passkey, and a token's code to an approval.

**Only model-checked.** Liveness: `RequestsSettle`, the two `HandlersSettle`,
`ExpiredRowsAreSwept`, `CallsSettle`, `AbandonedJobsRun`, `AlwaysUpAgain`. The prover
has no fairness and no ENABLED. The disagreements of section 4 are
counterexamples of TLC's.

## 6. What is not modelled

- The parsing of URLs: `Url` gives each text its parsed form. The check for dot
  segments (`client_metadata.rs:43`) is left out, as `Url::parse` has removed them
  before. Published redirect URIs are compared as written with the serialization
  of the parsed one (`client_metadata.rs:163`); the texts of the instances are
  their own serializations.
- That the host resolves again for the request: the addresses are constant. An
  address is one of the classes the filter knows, or one it does not look at
  (`"link_local"` and `"v4_mapped"` of IPv6); of a host with a refused address the
  model says only that its document is not fetched, as if the lookup had failed.
- A decision posted by a foreign page with neither header: `csrf.rs` lets it through,
  relying on the cookie being `SameSite=Lax` (`session.rs:133`), so that such a POST
  comes without the session. `ForeignHeaders` leaves the pair out and thereby relies on
  the same.
- Timestamps that do not parse, and a session's data that does not: neither is
  ever stored.
- Cryptography: SHA-256 is an injection, random tokens are fresh, WebAuthn
  responses fit one ceremony.
- HTML, JSON, headers other than the CSRF check's, cookies' attributes, logging,
  static files, the metadata document, dispatch by path: no state. Of the
  configuration only the kind of address and the bootstrap secret appear.
- The list of passkeys (`GET /auth/credentials`), which only reads; `return_to`;
  passkey backup state, which is written with the counter.
- Connections: a request stands by itself, and what keep-alive or pipelining order
  is not a guarantee any property uses.

## 7. Plan

Done, in this order: `Store`, `TokenService` with `GrantLifecycle`, `Consent`,
`IndieAuth`, `TokenServiceProofs`, `Passkeys`, `DbWriter`; then `Sessions`,
`ClientMetadata`, `DbCalls`, `Process`, and `IndieAuth` with `Passkeys` in place
of the environment that signs in.

Then the proofs: `ConsentProofs`, `DbWriterProofs`, `PasskeysProofs`,
`LifecycleProofs`, `IndieAuthProofs`. The proofs changed the models in four places:
a migration now runs statement by statement from a list of what is left, the names
of new sessions are assumed fresh, an address has the octets of its version only,
and the assumptions of the parts are stated for the whole.

Next, proving:

1. What each module promises, stated of the server as a whole (revocation is final,
   sessions are earned, live rows stay), from `IndieAuthProofs`.
2. What holds in place of each disagreement of section 4: a row that a logout
   deleted comes back only by a handler that had loaded it; two codes for one request
   only of decisions that overlapped; a last passkey goes only to two deletions that
   overlapped.
3. For `Sessions`: that within a second the text order is a strict order, so that
   reader and sweep agree on each row. An induction over digits is out of reach; for
   each precision it is arithmetic.

The questions that were open here, about the bootstrap secret, the consent page on
screen and the sign-in after a registration, are answered in section 4: two are
disagreements 2 and 4, the third is `MCPasskeysOwnerFinish`.
