------------------------------ MODULE Passkeys ------------------------------
(***************************************************************************)
(* Passkeys and sign-in: the pages that start a WebAuthn ceremony          *)
(* (GET /auth/register, GET /auth/login), the requests that finish one     *)
(* (POST .../finish), and the requests that delete or rename a passkey.    *)
(*                                                                         *)
(* As in the other modules an action is one job of the writer thread, or   *)
(* one other await, with the code that runs until the next.  A ceremony    *)
(* and its row are named by the page that started it, an owner session and *)
(* its row by the request that started it.  An expired row is a missing    *)
(* row to every reader, so there is no clock: a row may lapse at any time, *)
(* and an owner row come back when another endpoint renews it.             *)
(*                                                                         *)
(* webauthn-rs and the authenticator are external: a response is good for  *)
(* the ceremony whose page it was made on and carries a counter one above  *)
(* the last.                                                               *)
(***************************************************************************)
EXTENDS Store, FiniteSets

CONSTANTS
  Pages,       \* GET /auth/register and GET /auth/login requests
  Finishes,    \* POST /auth/register/finish and POST /auth/login/finish requests
  Edits,       \* POST /auth/credentials/delete and .../rename requests
  Browsers,
  Keys,        \* passkeys of the owner's authenticators
  Registered,  \* keys registered before
  Earlier,     \* owner sessions started before
  Labels,
  None,
  MaxCount     \* bound: how often a key can sign

Kinds == {"register", "login"}

ASSUME RegisteredAssumption == Registered \subseteq Keys
ASSUME NamesAssumption ==
  None \notin Pages \cup Finishes \cup Edits \cup Browsers \cup Keys \cup Earlier \cup Labels
ASSUME CountAssumption == MaxCount \in Nat
\* Session ids are random.
ASSUME FreshAssumption == Finishes \cap Earlier = {}

Owners == Finishes \cup Earlier

VARIABLES
  credentials,  \* table webauthn_credentials: counter and label of each passkey
  sessions,     \* ids of the live rows of table sessions
  minted,       \* owner sessions ever started
  jar,          \* jar[b]: the owner cookie of browser b
  ceremonyJar,  \* ceremonyJar[b]: the ceremony cookie of browser b
  pages, finishes, edits,  \* state of each request's handler
  signed        \* signed[k]: how often the authenticator has signed with k

tables == <<credentials, sessions, minted>>
browsers == <<jar, ceremonyJar, signed>>
handlers == <<pages, finishes, edits>>
vars == <<tables, browsers, handlers>>

-----------------------------------------------------------------------------
(* Handler records.  "refused" is any answer that changes nothing (an      *)
(* error, or a redirect to sign in or away), "dropped" a handler whose     *)
(* future was dropped or panicked.                                         *)

PagePending == {"counting", "loading", "listing", "starting"}
PageEnd == {"shown", "refused", "dropped"}
\* `secret` says the query held the bootstrap secret, `by` what let the page through and
\* `counted` what its count of the passkeys came to; `known` are the keys the ceremony
\* excludes (register) or accepts (login).
PageRecord == [kind : Kinds, status : {"idle"} \cup PagePending \cup PageEnd,
               browser : Browsers \cup {None}, session : Owners \cup {None},
               secret : BOOLEAN, by : {"nobody", "owner", "secret"},
               counted : {"not", "none", "some", "failed"}, known : SUBSET Keys]

FinishPending == {"loading", "reading", "ending", "inserting", "listing", "updating", "starting"}
FinishEnd == {"done", "refused", "dropped"}
\* `page` is the page the response was made on, `ceremony` the one the cookie named.
FinishRecord == [kind : Kinds, status : {"idle"} \cup FinishPending \cup FinishEnd,
                 browser : Browsers \cup {None}, session : Owners \cup {None},
                 page : Pages \cup {None}, ceremony : Pages \cup {None},
                 key : Keys \cup {None}, count : Nat]

EditPending == {"loading", "reading", "counting", "deleting", "renaming"}
EditEnd == {"done", "refused", "dropped"}
EditRecord == [status : {"idle"} \cup EditPending \cup EditEnd,
               session : Owners \cup {None}, key : Keys \cup {None},
               label : Labels \cup {None}]

Init ==
  /\ credentials = [k \in Registered |-> [counter |-> 0, label |-> None]]
  /\ sessions = Earlier
  /\ minted = Earlier
  /\ jar \in [Browsers -> Earlier \cup {None}]
  /\ ceremonyJar = [b \in Browsers |-> None]
  /\ pages = [p \in Pages |->
       [kind |-> "login", status |-> "idle", browser |-> None, session |-> None,
        secret |-> FALSE, by |-> "nobody", counted |-> "not", known |-> {}]]
  /\ finishes = [f \in Finishes |->
       [kind |-> "login", status |-> "idle", browser |-> None, session |-> None,
        page |-> None, ceremony |-> None, key |-> None, count |-> 0]]
  /\ edits = [e \in Edits |->
       [status |-> "idle", session |-> None, key |-> None, label |-> None]]
  /\ signed = [k \in Keys |-> 0]

-----------------------------------------------------------------------------
(* Environment *)

\* The other endpoints and the clock.  A row that has ever been stored for an owner may
\* be deleted by a logout, expire, or be there again, as the consent endpoint upserts
\* it; a ceremony's row only goes.  A logout clears the cookie.
Elsewhere ==
  /\ sessions' \in SUBSET (minted \cup (sessions \cap Pages))
  /\ jar' \in {jar} \cup {[jar EXCEPT ![b] = None] : b \in Browsers}
  /\ UNCHANGED <<credentials, minted, ceremonyJar, signed, handlers>>

-----------------------------------------------------------------------------
(* GET /auth/register and GET /auth/login *)

SetPage(p, record) ==
  /\ pages' = [pages EXCEPT ![p] = record]
  /\ UNCHANGED <<tables, browsers, finishes, edits>>

\* The login page looks for a session only when there is a cookie.
ReceivePage(p, b) ==
  /\ pages[p].status = "idle"
  /\ \E kind \in Kinds, secret \in BOOLEAN :
       /\ kind = "login" => ~secret
       /\ SetPage(p, [pages[p] EXCEPT
            !.kind = kind, !.browser = b, !.session = jar[b], !.secret = secret,
            !.status = IF kind = "register" THEN "counting"
                       ELSE IF jar[b] = None THEN "listing" ELSE "loading"])

\* MUTANT: without passkeys anybody may register.
MayBootstrapAnyway(page) == TRUE

MayBootstrap(page) == page.secret

\* MUTANT: the secret is looked at before the count.
AfterCountSecretFirst(page, n) ==
  IF MayBootstrap(page) THEN [page EXCEPT !.status = "listing", !.by = "secret"]
  ELSE [page EXCEPT !.status = IF n = 0 \/ page.session = None THEN "refused" ELSE "loading"]

\* What a count of n passkeys asks of the registration page.
AfterCount(page, n) ==
  IF n > 0
  THEN [page EXCEPT !.status = IF page.session = None THEN "refused" ELSE "loading"]
  ELSE IF ~MayBootstrap(page) THEN [page EXCEPT !.status = "refused"]
  ELSE [page EXCEPT !.status = "listing", !.by = IF page.secret THEN "secret" ELSE "nobody"]

CountForPage(p) ==
  /\ pages[p].status = "counting"
  /\ LET n == Cardinality(DOMAIN credentials)
         page == [pages[p] EXCEPT !.counted = IF n > 0 THEN "some" ELSE "none"]
     IN SetPage(p, AfterCount(page, n))

\* A signed-in owner may register, and need not sign in.
LoadForPage(p) ==
  LET owner == pages[p].session \in sessions IN
  /\ pages[p].status = "loading"
  /\ SetPage(p, [pages[p] EXCEPT
       !.status = IF owner <=> pages[p].kind = "register" THEN "listing" ELSE "refused",
       !.by = IF owner THEN "owner" ELSE "nobody"])

\* Without passkeys there is nothing to sign in with.
AfterList(page, keys) ==
  IF page.kind = "login" /\ keys = {} THEN [page EXCEPT !.status = "refused"]
  ELSE [page EXCEPT !.status = "starting", !.known = keys]

ListForPage(p) ==
  /\ pages[p].status = "listing"
  /\ SetPage(p, AfterList(pages[p], DOMAIN credentials))

\* start_session: the ceremony's row, then its cookie in place of an earlier one.
StartCeremony(p) ==
  /\ pages[p].status = "starting"
  /\ sessions' = sessions \cup {p}
  /\ \/ /\ pages' = [pages EXCEPT ![p].status = "shown"]
        /\ ceremonyJar' = [ceremonyJar EXCEPT ![pages[p].browser] = p]
     \/ /\ pages' = [pages EXCEPT ![p].status = "dropped"]
        /\ UNCHANGED ceremonyJar
  /\ UNCHANGED <<credentials, minted, jar, signed, finishes, edits>>

-----------------------------------------------------------------------------
(* POST /auth/register/finish and POST /auth/login/finish *)

SetFinish(f, record) == finishes' = [finishes EXCEPT ![f] = record]
OnlyFinish(f, status) ==
  /\ SetFinish(f, [finishes[f] EXCEPT !.status = status])
  /\ UNCHANGED <<tables, browsers, pages, edits>>

\* The script of a page posts, from the server's own origin, what the authenticator
\* made of that page's challenge; the cookie may be another page's by then.
ReceiveFinish(f, b) ==
  /\ finishes[f].status = "idle"
  /\ \E p \in Pages : /\ pages[p].status = "shown" /\ pages[p].browser = b
     /\ \E k \in IF pages[p].kind = "register" THEN Keys \ pages[p].known ELSE pages[p].known :
          /\ signed[k] < MaxCount
          /\ signed' = [signed EXCEPT ![k] = @ + 1]
          /\ SetFinish(f, [finishes[f] EXCEPT
               !.kind = pages[p].kind, !.browser = b, !.session = jar[b], !.page = p,
               !.ceremony = ceremonyJar[b], !.key = k, !.count = signed[k] + 1,
               !.status = IF ceremonyJar[b] = None THEN "refused" ELSE "loading"])
  /\ UNCHANGED <<tables, jar, ceremonyJar, pages, edits>>

\* MUTANT: a ceremony that is gone is looked for again.
AfterCeremonyAgain(found) == IF found THEN "reading" ELSE "loading"

AfterCeremony(found) == IF found THEN "reading" ELSE "refused"

\* A live ceremony of the endpoint's kind.
LoadCeremony(f) ==
  LET c == finishes[f].ceremony IN
  /\ finishes[f].status = "loading"
  /\ OnlyFinish(f, AfterCeremony(c \in sessions /\ pages[c].kind = finishes[f].kind))

\* MUTANT: any response to a ceremony of this kind is accepted.
VerifiesAny(f) == TRUE

Verifies(f) == finishes[f].page = finishes[f].ceremony

\* The body arrives and is verified against the ceremony, or is no good.
ReadResponse(f) ==
  /\ finishes[f].status = "reading"
  /\ OnlyFinish(f, "refused") \/ (Verifies(f) /\ OnlyFinish(f, "ending"))

EndCeremony(f) ==
  /\ finishes[f].status = "ending"
  /\ sessions' = sessions \ {finishes[f].ceremony}
  /\ SetFinish(f, [finishes[f] EXCEPT !.status =
       IF finishes[f].kind = "register" THEN "inserting" ELSE "listing"])
  /\ UNCHANGED <<credentials, minted, browsers, pages, edits>>

\* A fresh key is stored; the owner is signed in unless the request held an owner
\* cookie, of a live session or not.
InsertKey(f) ==
  LET new == finishes[f].key \notin DOMAIN credentials IN
  /\ finishes[f].status = "inserting"
  /\ \E label \in Labels \cup {None} :
       credentials' = InsertCredential(credentials, finishes[f].key, finishes[f].count, label)
  /\ SetFinish(f, [finishes[f] EXCEPT
       !.status = IF ~new THEN "refused"
                  ELSE IF finishes[f].session = None THEN "starting" ELSE "done"])
  /\ UNCHANGED <<sessions, minted, browsers, pages, edits>>

\* The counter is written back only when it is above the one in the row.
ListForCounter(f) ==
  LET k == finishes[f].key IN
  /\ finishes[f].status = "listing"
  /\ OnlyFinish(f, IF k \in DOMAIN credentials /\ finishes[f].count > credentials[k].counter
                   THEN "updating" ELSE "starting")

UpdateCounter(f) ==
  /\ finishes[f].status = "updating"
  /\ credentials' = UpdateAfterAuth(credentials, finishes[f].key, finishes[f].count)
  /\ SetFinish(f, [finishes[f] EXCEPT !.status = "starting"])
  /\ UNCHANGED <<sessions, minted, browsers, pages, edits>>

\* start_session: a row whose lifetime began before the job ran, and could be over.
StartOwner(f) ==
  /\ finishes[f].status = "starting"
  /\ sessions' \in {sessions, sessions \cup {f}}
  /\ minted' = minted \cup {f}
  /\ \/ /\ SetFinish(f, [finishes[f] EXCEPT !.status = "done"])
        /\ jar' = [jar EXCEPT ![finishes[f].browser] = f]
     \/ /\ SetFinish(f, [finishes[f] EXCEPT !.status = "dropped"])
        /\ jar' = jar
  /\ UNCHANGED <<credentials, ceremonyJar, signed, pages, edits>>

-----------------------------------------------------------------------------
(* POST /auth/credentials/delete and POST /auth/credentials/rename *)

OnlyEdit(e, record) ==
  /\ edits' = [edits EXCEPT ![e] = record]
  /\ UNCHANGED <<tables, browsers, pages, finishes>>

\* `same_site` is what is_same_site says of the headers (module Consent has it whole).
ReceiveEdit(e, b) ==
  /\ edits[e].status = "idle"
  /\ \E same_site \in BOOLEAN :
       OnlyEdit(e, [edits[e] EXCEPT
         !.session = jar[b],
         !.status = IF same_site /\ jar[b] # None THEN "loading" ELSE "refused"])

LoadForEdit(e) ==
  /\ edits[e].status = "loading"
  /\ OnlyEdit(e, [edits[e] EXCEPT
       !.status = IF edits[e].session \in sessions THEN "reading" ELSE "refused"])

ReadEdit(e) ==
  /\ edits[e].status = "reading"
  /\ \/ OnlyEdit(e, [edits[e] EXCEPT !.status = "refused"])
     \/ \E k \in Keys :
          OnlyEdit(e, [edits[e] EXCEPT !.key = k, !.status = "counting"])
     \/ \E k \in Keys, label \in Labels \cup {None} :
          OnlyEdit(e, [edits[e] EXCEPT !.key = k, !.label = label, !.status = "renaming"])

\* The last passkey is not to be removed.
CountForDelete(e) ==
  /\ edits[e].status = "counting"
  /\ OnlyEdit(e, [edits[e] EXCEPT !.status =
       IF Cardinality(DOMAIN credentials) <= 1 THEN "refused" ELSE "deleting"])

\* The DELETE is a job of its own and counts nothing.
DeleteKey(e) ==
  /\ edits[e].status = "deleting"
  /\ credentials' = DeleteCredential(credentials, edits[e].key)
  /\ edits' = [edits EXCEPT ![e].status = "done"]
  /\ UNCHANGED <<sessions, minted, browsers, pages, finishes>>

RenameKey(e) ==
  /\ edits[e].status = "renaming"
  /\ credentials' = RenameCredential(credentials, edits[e].key, edits[e].label)
  /\ edits' = [edits EXCEPT ![e].status = "done"]
  /\ UNCHANGED <<sessions, minted, browsers, pages, finishes>>

-----------------------------------------------------------------------------
(* Failures *)

\* A failed count is zero, a failed list empty, a failed lookup no session; a
\* ceremony that cannot be stored is a panic.
PageStatementFails(p) ==
  LET page == pages[p] IN
  /\ page.status \in PagePending
  /\ SetPage(p, CASE page.status = "counting" ->
                       AfterCount([page EXCEPT !.counted = "failed"], 0)
                  [] page.status = "loading" ->
                       [page EXCEPT !.status = IF page.kind = "login" THEN "listing" ELSE "refused"]
                  [] page.status = "listing" -> AfterList(page, {})
                  [] page.status = "starting" -> [page EXCEPT !.status = "dropped"])

\* A failed DELETE of the ceremony and a failed update of the counter are ignored; a
\* failed list has no row to update; an owner session that cannot be stored is a panic.
FinishStatementFails(f) ==
  LET status == finishes[f].status IN
  /\ status \in FinishPending \ {"reading"}
  /\ OnlyFinish(f,
       CASE status \in {"loading", "inserting"} -> "refused"
         [] status = "ending" -> IF finishes[f].kind = "register" THEN "inserting" ELSE "listing"
         [] status \in {"listing", "updating"} -> "starting"
         [] status = "starting" -> "dropped")

\* A failed count refuses the deletion; a failed write is answered like any other.
EditStatementFails(e) ==
  LET status == edits[e].status IN
  /\ status \in EditPending \ {"reading"}
  /\ OnlyEdit(e, [edits[e] EXCEPT !.status =
       IF status \in {"loading", "counting"} THEN "refused" ELSE "done"])

\* The client goes away and hyper drops the handler's future: no later job is queued.
\* The first job of each request only reads, so that it may have run makes no
\* difference.
Drop ==
  \/ \E p \in Pages : /\ pages[p].status \in PagePending
                      /\ SetPage(p, [pages[p] EXCEPT !.status = "dropped"])
  \/ \E f \in Finishes : finishes[f].status \in FinishPending /\ OnlyFinish(f, "dropped")
  \/ \E e \in Edits : /\ edits[e].status \in EditPending
                      /\ OnlyEdit(e, [edits[e] EXCEPT !.status = "dropped"])

\* The process dies and is started again: the handlers are gone, the tables stay.
Restart ==
  /\ pages' = DropPending(pages, PagePending)
  /\ finishes' = DropPending(finishes, FinishPending)
  /\ edits' = DropPending(edits, EditPending)
  /\ UNCHANGED <<tables, browsers>>

-----------------------------------------------------------------------------

HandlePage(p) == CountForPage(p) \/ LoadForPage(p) \/ ListForPage(p) \/ StartCeremony(p)
HandleFinish(f) ==
  LoadCeremony(f) \/ EndCeremony(f) \/ InsertKey(f) \/ ListForCounter(f) \/ UpdateCounter(f)
    \/ StartOwner(f)
HandleEdit(e) == LoadForEdit(e) \/ CountForDelete(e) \/ DeleteKey(e) \/ RenameKey(e)

Operate ==
  \/ \E p \in Pages, b \in Browsers : ReceivePage(p, b)
  \/ \E p \in Pages : HandlePage(p)
  \/ \E f \in Finishes, b \in Browsers : ReceiveFinish(f, b)
  \/ \E f \in Finishes : ReadResponse(f) \/ HandleFinish(f)
  \/ \E e \in Edits, b \in Browsers : ReceiveEdit(e, b)
  \/ \E e \in Edits : ReadEdit(e) \/ HandleEdit(e)

Fail ==
  \/ \E p \in Pages : PageStatementFails(p)
  \/ \E f \in Finishes : FinishStatementFails(f)
  \/ \E e \in Edits : EditStatementFails(e)
  \/ Drop

Next == Operate \/ Elsewhere \/ Fail \/ Restart

Spec == Init /\ [][Next]_vars

\* The writer thread drains its queue and tokio polls every woken handler; browsers,
\* bodies, expiry and failures promise nothing.
Fairness ==
  /\ \A p \in Pages : WF_vars(HandlePage(p))
  /\ \A f \in Finishes : WF_vars(HandleFinish(f))
  /\ \A e \in Edits : WF_vars(HandleEdit(e))

FairSpec == Spec /\ Fairness

-----------------------------------------------------------------------------
(* Properties *)

CredentialRow == [counter : Nat, label : Labels \cup {None}]

\* Every variable stays in its type.
TypeOK ==
  /\ DOMAIN credentials \subseteq Keys
  /\ \A k \in DOMAIN credentials : credentials[k] \in CredentialRow
  /\ minted \subseteq Owners
  /\ sessions \subseteq minted \cup Pages
  /\ jar \in [Browsers -> Owners \cup {None}]
  /\ ceremonyJar \in [Browsers -> Pages \cup {None}]
  /\ pages \in [Pages -> PageRecord]
  /\ finishes \in [Finishes -> FinishRecord]
  /\ edits \in [Edits -> EditRecord]
  /\ signed \in [Keys -> 0 .. MaxCount]

\* Whoever is signed in proved it: an owner session was started by a response to the
\* page whose ceremony the request named, with a key that was registered when that
\* page was made, or registering a key on a page that the owner or the bootstrap secret
\* opened, by a request without an owner cookie (login.rs).  An owner who finishes with
\* no cookie left is one of these: see BootstrapIsForTheFirst, further down.
SessionsAreEarned ==
  \A f \in minted \cap Finishes :
    LET p == finishes[f].ceremony IN
    /\ p \in Pages
    /\ finishes[f].page = p
    /\ pages[p].kind = finishes[f].kind
    /\ IF finishes[f].kind = "login" THEN finishes[f].key \in pages[p].known
       ELSE finishes[f].session = None /\ pages[p].by # "nobody"

\* Every passkey was there before, or was registered from a page that an owner session
\* opened, or the bootstrap secret when the count of that page came to none or failed
\* (login.rs register_page_handler).  Others may have been stored since the count:
\* see BootstrapIsForTheFirst, further down.
KeysAreAuthorized ==
  \A k \in DOMAIN credentials \ Registered :
    \E f \in Finishes :
      LET page == pages[finishes[f].page] IN
      /\ finishes[f].kind = "register" /\ finishes[f].key = k
      /\ finishes[f].page # None /\ finishes[f].ceremony = finishes[f].page
      /\ \/ page.by = "owner" /\ page.session \in minted
         \/ page.by = "secret" /\ page.secret /\ page.counted \in {"none", "failed"}

\* A passkey that was removed comes back only by being registered: no sign-in that was
\* under way, and no rename, puts its row back.
RemovedKeysStayRemoved ==
  [][\A k \in DOMAIN credentials' \ DOMAIN credentials :
       \E f \in Finishes : finishes[f].status = "inserting" /\ finishes[f].key = k]_vars

\* Sign-in writes no label and a rename no counter: neither of two that overlap undoes
\* the other.
RenameAndSignInKeepApart ==
  [][\A k \in DOMAIN credentials \cap DOMAIN credentials' :
       \/ credentials'[k].label = credentials[k].label
       \/ \E e \in Edits : /\ edits[e].status = "renaming" /\ edits[e].key = k
                           /\ credentials'[k].counter = credentials[k].counter]_vars

\* Every handler that waits for the database comes to an end, or to waiting for its
\* request's body.
HandlersSettle ==
  /\ \A p \in Pages : pages[p].status \in PagePending ~> pages[p].status \in PageEnd
  /\ \A f \in Finishes : finishes[f].status \in FinishPending \ {"reading"}
                           ~> finishes[f].status \in {"reading"} \cup FinishEnd
  /\ \A e \in Edits : edits[e].status \in EditPending \ {"reading"}
                        ~> edits[e].status \in {"reading"} \cup EditEnd

-----------------------------------------------------------------------------
(* What the comments say and the code does not do. *)

\* Once there is a passkey another one is registered only from a page that the owner
\* opened, and signs nobody in (login.rs: "it always requires an authenticated owner
\* session", "If this was the bootstrap registration (no owner session yet), log the
\* owner in"; config.rs: the secret is "to register the very first WebAuthn credential").
BootstrapIsForTheFirst ==
  [][\A f \in Finishes :
       /\ finishes[f].status = "inserting"
       /\ finishes[f].key \in DOMAIN credentials' \ DOMAIN credentials
       /\ DOMAIN credentials # {}
       => pages[finishes[f].page].by = "owner" /\ finishes'[f].status # "starting"]_vars

\* The owner is never left without a passkey once there is one (credentials.rs: "to
\* avoid locking the owner out entirely").
LastPasskeyStays == [][DOMAIN credentials # {} => DOMAIN credentials' # {}]_vars

\* The counter of a passkey never goes back (db/credentials.rs: "so replay-detection on
\* the sign counter stays accurate across logins").
CountersNeverGoBack ==
  [][\A k \in DOMAIN credentials \cap DOMAIN credentials' :
       credentials'[k].counter >= credentials[k].counter]_vars
=============================================================================
