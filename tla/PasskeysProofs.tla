--------------------------- MODULE PasskeysProofs ---------------------------
(***************************************************************************)
(* Proofs about Passkeys, for every value of its constants.                *)
(*                                                                         *)
(* The inductive invariant says what the handler of a finish request has   *)
(* established by the time it has got so far (FinishOK), and rests on      *)
(* this: a page that was shown never changes again, and neither does what  *)
(* a finish request was received with.  So what is true of a response when *)
(* it is made is still true when its session starts, several jobs later.   *)
(***************************************************************************)
EXTENDS Passkeys, TLAPS

-----------------------------------------------------------------------------
(* The inductive invariant *)

\* A registration page goes on only when an owner session opened it, or the secret after
\* a count that came to none or failed.
PageOK(r) ==
  /\ r \in PageRecord
  /\ r.session \in minted \cup {None}
  /\ r.status \in {"idle", "counting"} => r.by = "nobody"
  /\ r.by = "owner" => r.session # None
  /\ r.by = "secret" => r.secret /\ r.counted \in {"none", "failed"}
  /\ r.kind = "register" /\ r.status \in {"listing", "starting", "shown"} => r.by # "nobody"

\* A response was made in a browser, on a page that was shown, with a key that the page
\* asked for.
MadeOn(r) ==
  /\ r.browser \in Browsers
  /\ r.page \in Pages /\ pages[r.page].status = "shown"
  /\ pages[r.page].kind = r.kind
  /\ r.key \in Keys
  /\ r.kind = "login" => r.key \in pages[r.page].known

FinishOK(r) ==
  /\ r \in FinishRecord
  /\ r.status # "idle" => MadeOn(r)
  /\ r.status \in FinishPending \ {"loading", "reading"} => r.ceremony = r.page
  /\ r.status = "inserting" => r.kind = "register"
  /\ r.status \in {"listing", "updating"} => r.kind = "login"
  /\ r.status = "starting" /\ r.kind = "register" => r.session = None

\* The session that request r ended with was earned, and r is over.
Earned(r) ==
  /\ r.status \in {"done", "dropped"}
  /\ r.ceremony = r.page
  /\ r.kind = "register" => r.session = None

\* Request r stored key k, or could have.
Inserted(r, k) ==
  r.status # "idle" /\ r.kind = "register" /\ r.key = k /\ r.ceremony = r.page

PasskeysInv ==
  /\ TypeOK
  /\ \A b \in Browsers : jar[b] \in minted \cup {None}
  /\ \A p \in Pages : PageOK(pages[p])
  /\ \A f \in Finishes : FinishOK(finishes[f])
  /\ \A f \in minted \cap Finishes : Earned(finishes[f])
  /\ \A k \in DOMAIN credentials \ Registered : \E f \in Finishes : Inserted(finishes[f], k)

LEMMA InitInv == Init => PasskeysInv
<1> SUFFICES ASSUME Init PROVE PasskeysInv
  OBVIOUS
<1>1. pages \in [Pages -> PageRecord] /\ \A p \in Pages : PageOK(pages[p])
  BY DEF Init, PageRecord, PageOK, Kinds
<1>2. finishes \in [Finishes -> FinishRecord] /\ \A f \in Finishes : FinishOK(finishes[f])
  BY DEF Init, FinishRecord, FinishOK, FinishPending, Kinds
<1>3. edits \in [Edits -> EditRecord]
  BY DEF Init, EditRecord
<1>4. /\ DOMAIN credentials \subseteq Keys
      /\ \A k \in DOMAIN credentials : credentials[k] \in CredentialRow
  BY RegisteredAssumption DEF Init, CredentialRow
<1>5. signed \in [Keys -> 0 .. MaxCount]
  BY CountAssumption DEF Init
<1>6. TypeOK
  BY <1>1, <1>2, <1>3, <1>4, <1>5 DEF Init, TypeOK, Owners
<1> QED BY <1>1, <1>2, <1>6, FreshAssumption DEF Init, PasskeysInv

\* The invariant gives what the properties say.
LEMMA InvImplies == PasskeysInv => SessionsAreEarned /\ KeysAreAuthorized
<1> SUFFICES ASSUME PasskeysInv PROVE SessionsAreEarned /\ KeysAreAuthorized
  OBVIOUS
<1>1. \A f \in Finishes : finishes[f].status # "idle" =>
        /\ MadeOn(finishes[f])
        /\ finishes[f].kind \in Kinds
        /\ PageOK(pages[finishes[f].page])
        /\ finishes[f].kind = "register" => pages[finishes[f].page].by # "nobody"
  BY DEF PasskeysInv, FinishOK, FinishRecord, MadeOn, PageOK
<1>2. SessionsAreEarned
  BY <1>1 DEF PasskeysInv, Earned, MadeOn, Kinds, SessionsAreEarned
<1>3. KeysAreAuthorized
  <2> SUFFICES ASSUME NEW k \in DOMAIN credentials \ Registered, NEW f \in Finishes,
                      Inserted(finishes[f], k)
               PROVE  LET page == pages[finishes[f].page] IN
                      /\ finishes[f].kind = "register" /\ finishes[f].key = k
                      /\ finishes[f].page # None /\ finishes[f].ceremony = finishes[f].page
                      /\ \/ page.by = "owner" /\ page.session \in minted
                         \/ /\ page.by = "secret" /\ page.secret
                            /\ page.counted \in {"none", "failed"}
    BY DEF PasskeysInv, KeysAreAuthorized
  <2>1. finishes[f].page \in Pages /\ finishes[f].page # None
    BY <1>1, NamesAssumption DEF Inserted, MadeOn
  <2> QED BY <1>1, <2>1 DEF Inserted, PageOK, PageRecord
<1> QED BY <1>2, <1>3

-----------------------------------------------------------------------------
(* Steps of one handler *)

\* A page that has not been shown goes on or ends.
LEMMA PageStep ==
  ASSUME PasskeysInv, NEW p \in Pages, NEW r, PageOK(r), pages[p].status # "shown",
         pages' = [pages EXCEPT ![p] = r],
         sessions' \subseteq minted \cup Pages,
         ceremonyJar' \in [Browsers -> Pages \cup {None}],
         UNCHANGED <<credentials, minted, jar, signed, finishes, edits>>
  PROVE  PasskeysInv'
<1>1. r \in PageRecord
  BY DEF PageOK
<1>2. TypeOK'
  BY <1>1 DEF PasskeysInv, TypeOK
<1>3. \A q \in Pages : pages'[q] = IF q = p THEN r ELSE pages[q]
  BY DEF PasskeysInv, TypeOK
<1>4. \A q \in Pages : PageOK(pages[q])'
  BY <1>3 DEF PasskeysInv, PageOK
<1>5. \A f \in Finishes : FinishOK(finishes[f])'
  BY <1>3 DEF PasskeysInv, FinishOK, MadeOn
<1> QED BY <1>2, <1>4, <1>5 DEF PasskeysInv, Earned, Inserted

\* Request r is what request q was received as.
SameRequest(r, q) == /\ r.kind = q.kind /\ r.page = q.page /\ r.ceremony = q.ceremony
                     /\ r.key = q.key

\* A finish request is received, goes on or ends, and may store a key and a session.
LEMMA FinishStep ==
  ASSUME PasskeysInv, NEW f \in Finishes, NEW r, FinishOK(r), r.status # "idle",
         finishes' = [finishes EXCEPT ![f] = r],
         \/ finishes[f].status = "idle"
         \/ finishes[f].status \in FinishPending /\ SameRequest(finishes[f], r),
         TypeOK',
         \/ minted' = minted
         \/ minted' = minted \cup {f} /\ Earned(r),
         \A k \in DOMAIN credentials' \ DOMAIN credentials : Inserted(r, k),
         \A b \in Browsers : jar'[b] = jar[b] \/ jar'[b] \in minted',
         UNCHANGED pages
  PROVE  PasskeysInv'
<1>1. \A g \in Finishes : finishes'[g] = IF g = f THEN r ELSE finishes[g]
  BY DEF PasskeysInv, TypeOK
<1>2. \A g \in Finishes : FinishOK(finishes[g])'
  BY <1>1 DEF PasskeysInv, FinishOK, MadeOn
<1>3. f \notin minted
  BY DEF PasskeysInv, Earned, FinishPending
<1>4. \A g \in minted' \cap Finishes : Earned(finishes[g])'
  BY <1>1, <1>3 DEF PasskeysInv, Earned
<1>5. \A k \in DOMAIN credentials' \ Registered : \E g \in Finishes : Inserted(finishes[g], k)'
  <2> SUFFICES ASSUME NEW k \in DOMAIN credentials' \ Registered
               PROVE  \E g \in Finishes : Inserted(finishes'[g], k)
    BY DEF Inserted
  <2>1. CASE k \in DOMAIN credentials
    <3>1. PICK g \in Finishes : Inserted(finishes[g], k)
      BY <2>1 DEF PasskeysInv
    <3>2. Inserted(finishes'[g], k)
      BY <1>1, <3>1 DEF Inserted, SameRequest
    <3> QED BY <3>2
  <2>2. CASE k \notin DOMAIN credentials
    BY <1>1, <2>2
  <2> QED BY <2>1, <2>2
<1>6. /\ minted \subseteq minted'
      /\ \A b \in Browsers : jar'[b] \in minted' \cup {None}
  BY DEF PasskeysInv
<1>7. \A p \in Pages : PageOK(pages[p])'
  BY <1>6 DEF PasskeysInv, PageOK
<1> QED BY <1>2, <1>4, <1>5, <1>6, <1>7 DEF PasskeysInv

-----------------------------------------------------------------------------
(* GET /auth/register and GET /auth/login *)

LEMMA ReceivePageInv ==
  ASSUME PasskeysInv, NEW p \in Pages, NEW b \in Browsers, ReceivePage(p, b)
  PROVE  PasskeysInv'
<1>1. PICK kind \in Kinds : \E secret \in BOOLEAN :
        SetPage(p, [pages[p] EXCEPT
          !.kind = kind, !.browser = b, !.session = jar[b], !.secret = secret,
          !.status = IF kind = "register" THEN "counting"
                     ELSE IF jar[b] = None THEN "listing" ELSE "loading"])
  BY DEF ReceivePage
<1>2. PICK secret \in BOOLEAN :
        SetPage(p, [pages[p] EXCEPT
          !.kind = kind, !.browser = b, !.session = jar[b], !.secret = secret,
          !.status = IF kind = "register" THEN "counting"
                     ELSE IF jar[b] = None THEN "listing" ELSE "loading"])
  BY <1>1
<1> DEFINE r == [pages[p] EXCEPT
          !.kind = kind, !.browser = b, !.session = jar[b], !.secret = secret,
          !.status = IF kind = "register" THEN "counting"
                     ELSE IF jar[b] = None THEN "listing" ELSE "loading"]
<1>3. /\ PageOK(pages[p]) /\ pages[p].status = "idle"
      /\ jar[b] \in Owners \cup {None} /\ jar[b] \in minted \cup {None}
  BY DEF PasskeysInv, TypeOK, ReceivePage
<1>4. PageOK(r)
  BY <1>3 DEF PageOK, PageRecord, PagePending
<1>5. SetPage(p, r)
  BY <1>2
<1> HIDE DEF r
<1> QED BY <1>4, <1>5, PageStep
        DEF ReceivePage, SetPage, tables, browsers, PasskeysInv, TypeOK

LEMMA HandlePageInv ==
  ASSUME PasskeysInv, NEW p \in Pages, HandlePage(p) \/ PageStatementFails(p)
  PROVE  PasskeysInv'
<1>1. PageOK(pages[p])
  BY DEF PasskeysInv
<1>2. ASSUME NEW n, NEW counted \in {"none", "some", "failed"},
             counted = "some" => n > 0, pages[p].status = "counting"
      PROVE  PageOK(AfterCount([pages[p] EXCEPT !.counted = counted], n))
  <2> DEFINE page == [pages[p] EXCEPT !.counted = counted]
  <2>1. /\ page \in PageRecord /\ page.by = "nobody" /\ page.counted = counted
        /\ page.session \in minted \cup {None}
    BY <1>1, <1>2 DEF PageOK, PageRecord
  <2> HIDE DEF page
  <2> SUFFICES PageOK(AfterCount(page, n))
    BY DEF page
  <2>2. ASSUME NEW status \in PagePending \cup PageEnd, status \notin {"listing", "starting", "shown"}
        PROVE  PageOK([page EXCEPT !.status = status])
    BY <2>1, <2>2 DEF PageOK, PageRecord
  <2>3. CASE n > 0 \/ ~page.secret
    <3>1. PICK status \in {"refused", "loading"} :
            AfterCount(page, n) = [page EXCEPT !.status = status]
      <4>1. CASE n > 0
        BY <4>1 DEF AfterCount
      <4>2. CASE ~(n > 0) /\ ~page.secret
        BY <4>2 DEF AfterCount, MayBootstrap
      <4> QED BY <2>3, <4>1, <4>2
    <3> QED BY <2>2, <3>1 DEF PagePending, PageEnd
  <2>4. CASE ~(n > 0) /\ page.secret
    <3>1. AfterCount(page, n) = [page EXCEPT !.status = "listing", !.by = "secret"]
      BY <2>4 DEF AfterCount, MayBootstrap
    <3>2. page.counted \in {"none", "failed"}
      BY <1>2, <2>1, <2>4
    <3>3. [page EXCEPT !.status = "listing", !.by = "secret"] \in PageRecord
      BY <2>1 DEF PageRecord, PagePending
    <3> QED BY <2>1, <2>4, <3>1, <3>2, <3>3 DEF PageOK, PageRecord
  <2> QED BY <2>3, <2>4
<1>3. ASSUME NEW keys \in SUBSET Keys, pages[p].status = "listing"
      PROVE  PageOK(AfterList(pages[p], keys))
  BY <1>1, <1>3 DEF AfterList, PageOK, PageRecord, PagePending, PageEnd
<1>4. ASSUME NEW r, PageOK(r), pages[p].status # "shown", SetPage(p, r) PROVE PasskeysInv'
  BY <1>4, PageStep DEF SetPage, tables, browsers, PasskeysInv, TypeOK
<1>5. CASE CountForPage(p)
  <2> DEFINE n == Cardinality(DOMAIN credentials)
             counted == IF n > 0 THEN "some" ELSE "none"
  <2>1. /\ SetPage(p, AfterCount([pages[p] EXCEPT !.counted = counted], n))
        /\ pages[p].status = "counting"
        /\ counted \in {"none", "some", "failed"} /\ (counted = "some" => n > 0)
    BY <1>5 DEF CountForPage
  <2> HIDE DEF counted, n
  <2> QED BY <1>2, <1>4, <2>1
<1>6. CASE LoadForPage(p)
  <2> DEFINE owner == pages[p].session \in sessions
             r == [pages[p] EXCEPT
                    !.status = IF owner <=> pages[p].kind = "register"
                               THEN "listing" ELSE "refused",
                    !.by = IF owner THEN "owner" ELSE "nobody"]
  <2>1. PageOK(r)
    <3>1. owner => pages[p].session # None
      BY NamesAssumption DEF PasskeysInv, TypeOK, Owners
    <3> QED BY <1>1, <1>6, <3>1 DEF LoadForPage, PageOK, PageRecord, PagePending, PageEnd
  <2>2. SetPage(p, r) /\ pages[p].status # "shown"
    BY <1>6 DEF LoadForPage
  <2> HIDE DEF r
  <2> QED BY <1>4, <2>1, <2>2
<1>7. CASE ListForPage(p)
  <2>1. DOMAIN credentials \in SUBSET Keys
    BY DEF PasskeysInv, TypeOK
  <2> QED BY <1>3, <1>4, <1>7, <2>1 DEF ListForPage
<1>8. CASE StartCeremony(p)
  <2>1. PICK status \in {"shown", "dropped"} : pages' = [pages EXCEPT ![p].status = status]
    BY <1>8 DEF StartCeremony
  <2>2. PageOK([pages[p] EXCEPT !.status = status])
    BY <1>1, <1>8 DEF StartCeremony, PageOK, PageRecord, PageEnd
  <2>3. /\ pages' = [pages EXCEPT ![p] = [pages[p] EXCEPT !.status = status]]
        /\ pages[p].status # "shown"
    BY <1>8, <2>1 DEF StartCeremony
  <2>4. /\ sessions' \subseteq minted \cup Pages
        /\ ceremonyJar' \in [Browsers -> Pages \cup {None}]
    BY <1>8 DEF StartCeremony, PasskeysInv, TypeOK
  <2> QED BY <1>8, <2>2, <2>3, <2>4, PageStep DEF StartCeremony
<1>9. CASE PageStatementFails(p)
  <2>1. CASE pages[p].status = "counting"
    <3>1. SetPage(p, AfterCount([pages[p] EXCEPT !.counted = "failed"], 0))
      BY <1>9, <2>1 DEF PageStatementFails
    <3> QED BY <1>2, <1>4, <2>1, <3>1
  <2>2. CASE pages[p].status = "loading"
    <3> DEFINE r == [pages[p] EXCEPT
                       !.status = IF pages[p].kind = "login" THEN "listing" ELSE "refused"]
    <3>1. PageOK(r)
      BY <1>1, <2>2 DEF PageOK, PageRecord, PagePending, PageEnd
    <3>2. SetPage(p, r)
      BY <1>9, <2>2 DEF PageStatementFails
    <3> HIDE DEF r
    <3> QED BY <1>4, <2>2, <3>1, <3>2
  <2>3. CASE pages[p].status = "listing"
    BY <1>3, <1>4, <1>9, <2>3 DEF PageStatementFails
  <2>4. CASE pages[p].status = "starting"
    <3>1. PageOK([pages[p] EXCEPT !.status = "dropped"])
      BY <1>1 DEF PageOK, PageRecord, PageEnd
    <3> QED BY <1>4, <1>9, <2>4, <3>1 DEF PageStatementFails
  <2> QED BY <1>9, <2>1, <2>2, <2>3, <2>4 DEF PageStatementFails, PagePending
<1> QED BY <1>5, <1>6, <1>7, <1>8, <1>9 DEF HandlePage

-----------------------------------------------------------------------------
(* POST /auth/register/finish and POST /auth/login/finish *)

\* The steps that write only the handler's record.
LEMMA OnlyFinishStep ==
  ASSUME PasskeysInv, NEW f \in Finishes, NEW status,
         finishes[f].status \in FinishPending,
         OnlyFinish(f, status), status # "idle",
         FinishOK([finishes[f] EXCEPT !.status = status])
  PROVE  PasskeysInv'
<1> DEFINE r == [finishes[f] EXCEPT !.status = status]
<1>1. finishes[f] \in FinishRecord
  BY DEF PasskeysInv, TypeOK
<1>2. r.status # "idle" /\ SameRequest(finishes[f], r) /\ r \in FinishRecord
  BY <1>1 DEF SameRequest, FinishRecord, FinishOK
<1>3. /\ finishes' = [finishes EXCEPT ![f] = r]
      /\ UNCHANGED <<credentials, sessions, minted, jar, ceremonyJar, signed, pages, edits>>
  BY DEF OnlyFinish, SetFinish, tables, browsers
<1>4. FinishOK(r)
  OBVIOUS
<1> HIDE DEF r
<1>5. TypeOK'
  BY <1>2, <1>3 DEF PasskeysInv, TypeOK
<1> QED BY <1>2, <1>3, <1>4, <1>5, FinishStep

LEMMA ReceiveFinishInv ==
  ASSUME PasskeysInv, NEW f \in Finishes, NEW b \in Browsers, ReceiveFinish(f, b)
  PROVE  PasskeysInv'
<1>1. PICK p \in Pages :
        /\ pages[p].status = "shown"
        /\ \E k \in IF pages[p].kind = "register" THEN Keys \ pages[p].known ELSE pages[p].known :
             /\ signed[k] < MaxCount
             /\ signed' = [signed EXCEPT ![k] = @ + 1]
             /\ SetFinish(f, [finishes[f] EXCEPT
                  !.kind = pages[p].kind, !.browser = b, !.session = jar[b], !.page = p,
                  !.ceremony = ceremonyJar[b], !.key = k, !.count = signed[k] + 1,
                  !.status = IF ceremonyJar[b] = None THEN "refused" ELSE "loading"])
  BY DEF ReceiveFinish
<1>2. pages[p] \in PageRecord /\ pages[p].known \subseteq Keys
  BY DEF PasskeysInv, PageOK, PageRecord
<1>3. PICK k \in Keys :
        /\ k \in IF pages[p].kind = "register" THEN Keys \ pages[p].known ELSE pages[p].known
        /\ signed[k] < MaxCount
        /\ signed' = [signed EXCEPT ![k] = @ + 1]
        /\ SetFinish(f, [finishes[f] EXCEPT
             !.kind = pages[p].kind, !.browser = b, !.session = jar[b], !.page = p,
             !.ceremony = ceremonyJar[b], !.key = k, !.count = signed[k] + 1,
             !.status = IF ceremonyJar[b] = None THEN "refused" ELSE "loading"])
  BY <1>1, <1>2
<1>4. PICK count, status : /\ count = signed[k] + 1
                           /\ status = IF ceremonyJar[b] = None THEN "refused" ELSE "loading"
  OBVIOUS
<1> DEFINE r == [finishes[f] EXCEPT
             !.kind = pages[p].kind, !.browser = b, !.session = jar[b], !.page = p,
             !.ceremony = ceremonyJar[b], !.key = k, !.count = count, !.status = status]
<1>5. /\ finishes[f] \in FinishRecord /\ signed[k] \in 0 .. MaxCount /\ MaxCount \in Nat
      /\ jar[b] \in Owners \cup {None} /\ ceremonyJar[b] \in Pages \cup {None}
      /\ count \in Nat /\ status \in {"refused", "loading"}
  BY <1>4, CountAssumption DEF PasskeysInv, TypeOK
<1>6. r \in FinishRecord
  BY <1>2, <1>5 DEF FinishRecord, PageRecord, FinishPending, FinishEnd
<1>7. r.page = p /\ r.key = k /\ r.kind = pages[p].kind /\ r.status \in {"refused", "loading"}
  BY <1>5 DEF FinishRecord
<1>8. FinishOK(r)
  BY <1>1, <1>2, <1>3, <1>6, <1>7 DEF FinishOK, MadeOn, FinishPending, PageRecord, Kinds
<1>9. /\ finishes[f].status = "idle" /\ finishes' = [finishes EXCEPT ![f] = r]
      /\ UNCHANGED <<credentials, sessions, minted, jar, ceremonyJar, pages, edits>>
  BY <1>3, <1>4 DEF ReceiveFinish, SetFinish, tables
<1> HIDE DEF r
<1>10. signed' \in [Keys -> 0 .. MaxCount]
  BY <1>3, <1>5 DEF PasskeysInv, TypeOK
<1>11. TypeOK'
  BY <1>6, <1>9, <1>10 DEF PasskeysInv, TypeOK
<1> QED BY <1>7, <1>8, <1>9, <1>11, FinishStep

LEMMA HandleFinishInv ==
  ASSUME PasskeysInv, NEW f \in Finishes,
         ReadResponse(f) \/ HandleFinish(f) \/ FinishStatementFails(f)
  PROVE  PasskeysInv'
<1>1. FinishOK(finishes[f]) /\ finishes[f].kind \in Kinds
  BY DEF PasskeysInv, FinishOK, FinishRecord
<1>2. ASSUME finishes[f].status \in FinishPending,
             NEW status \in {"reading", "refused", "dropped"}
      PROVE  FinishOK([finishes[f] EXCEPT !.status = status])
  BY <1>1, <1>2 DEF FinishOK, FinishRecord, FinishPending, FinishEnd, MadeOn
<1>3. CASE LoadCeremony(f)
  BY <1>2, <1>3, OnlyFinishStep DEF LoadCeremony, AfterCeremony, FinishPending
<1>4. CASE ReadResponse(f)
  <2>1. CASE OnlyFinish(f, "refused")
    BY <1>2, <1>4, <2>1, OnlyFinishStep DEF ReadResponse, FinishPending
  <2>2. CASE Verifies(f) /\ OnlyFinish(f, "ending")
    <3>1. FinishOK([finishes[f] EXCEPT !.status = "ending"])
      BY <1>1, <1>4, <2>2 DEF ReadResponse, Verifies, FinishOK, FinishRecord, FinishPending, MadeOn
    <3> QED BY <1>4, <2>2, <3>1, OnlyFinishStep DEF ReadResponse, FinishPending
  <2> QED BY <1>4, <2>1, <2>2 DEF ReadResponse
<1> DEFINE next == IF finishes[f].kind = "register" THEN "inserting" ELSE "listing"
<1>5. finishes[f].status = "ending" => FinishOK([finishes[f] EXCEPT !.status = next])
  BY <1>1 DEF FinishOK, FinishRecord, FinishPending, MadeOn, Kinds
<1>6. finishes[f].status \in {"listing", "updating"} =>
        /\ FinishOK([finishes[f] EXCEPT !.status = "starting"])
        /\ FinishOK([finishes[f] EXCEPT !.status = "updating"])
  BY <1>1 DEF FinishOK, FinishRecord, FinishPending, MadeOn
<1>7. CASE EndCeremony(f)
  <2> DEFINE r == [finishes[f] EXCEPT !.status = next]
  <2>1. /\ FinishOK(r) /\ r \in FinishRecord /\ r.status # "idle" /\ SameRequest(finishes[f], r)
        /\ finishes[f].status \in FinishPending
    BY <1>1, <1>5, <1>7 DEF EndCeremony, FinishOK, FinishRecord, FinishPending, SameRequest
  <2>2. /\ finishes' = [finishes EXCEPT ![f] = r] /\ sessions' \subseteq sessions
        /\ UNCHANGED <<credentials, minted, jar, ceremonyJar, signed, pages, edits>>
    BY <1>7 DEF EndCeremony, SetFinish, browsers
  <2> HIDE DEF r
  <2>3. TypeOK'
    BY <2>1, <2>2 DEF PasskeysInv, TypeOK
  <2> QED BY <2>1, <2>2, <2>3, FinishStep
<1>8. CASE InsertKey(f)
  <2> DEFINE new == finishes[f].key \notin DOMAIN credentials
             r == [finishes[f] EXCEPT
                    !.status = IF ~new THEN "refused"
                               ELSE IF finishes[f].session = None THEN "starting" ELSE "done"]
  <2>1. PICK k, count : k = finishes[f].key /\ count = finishes[f].count
    OBVIOUS
  <2>2. PICK label \in Labels \cup {None} :
          credentials' = InsertCredential(credentials, k, count, label)
    BY <1>8, <2>1 DEF InsertKey
  <2>3. /\ FinishOK(r) /\ r \in FinishRecord /\ r.status # "idle" /\ SameRequest(finishes[f], r)
        /\ finishes[f].status \in FinishPending
        /\ Inserted(r, k) /\ k \in Keys \cup {None} /\ count \in Nat
    BY <1>1, <1>8, <2>1
       DEF InsertKey, FinishOK, FinishRecord, FinishPending, FinishEnd, SameRequest,
           MadeOn, Inserted
  <2>4. /\ finishes' = [finishes EXCEPT ![f] = r]
        /\ UNCHANGED <<sessions, minted, jar, ceremonyJar, signed, pages, edits>>
    BY <1>8 DEF InsertKey, SetFinish, browsers
  <2> HIDE DEF r, new
  <2>5. DOMAIN credentials' \subseteq DOMAIN credentials \cup {k}
    BY <2>2 DEF InsertCredential, Put
  <2>6. [counter |-> count, label |-> label] \in CredentialRow
    BY <2>3 DEF CredentialRow
  <2>7. \A j \in DOMAIN credentials' : credentials'[j] \in CredentialRow
    BY <2>2, <2>6 DEF InsertCredential, Put, PasskeysInv, TypeOK
  <2>8. k \in Keys
    BY <1>1, <1>8, <2>1 DEF InsertKey, FinishOK, MadeOn
  <2>9. TypeOK'
    BY <2>3, <2>4, <2>5, <2>7, <2>8 DEF PasskeysInv, TypeOK
  <2> QED BY <2>3, <2>4, <2>5, <2>9, FinishStep
<1>9. CASE ListForCounter(f)
  BY <1>6, <1>9, OnlyFinishStep DEF ListForCounter, FinishPending
<1>10. CASE UpdateCounter(f)
  <2> DEFINE r == [finishes[f] EXCEPT !.status = "starting"]
  <2>1. PICK k, count : k = finishes[f].key /\ count = finishes[f].count
    OBVIOUS
  <2>2. /\ FinishOK(r) /\ r \in FinishRecord /\ r.status # "idle" /\ SameRequest(finishes[f], r)
        /\ finishes[f].status \in FinishPending /\ count \in Nat
    BY <1>1, <1>6, <1>10, <2>1 DEF UpdateCounter, FinishOK, FinishRecord, FinishPending, SameRequest
  <2>3. /\ finishes' = [finishes EXCEPT ![f] = r]
        /\ credentials' = UpdateAfterAuth(credentials, k, count)
        /\ UNCHANGED <<sessions, minted, jar, ceremonyJar, signed, pages, edits>>
    BY <1>10, <2>1 DEF UpdateCounter, SetFinish, browsers
  <2> HIDE DEF r
  <2>4. /\ DOMAIN credentials' = DOMAIN credentials
        /\ \A j \in DOMAIN credentials' : credentials'[j] \in CredentialRow
    BY <2>2, <2>3 DEF UpdateAfterAuth, PasskeysInv, TypeOK, CredentialRow
  <2>5. TypeOK'
    BY <2>2, <2>3, <2>4 DEF PasskeysInv, TypeOK
  <2> QED BY <2>2, <2>3, <2>4, <2>5, FinishStep
<1>11. CASE StartOwner(f)
  <2>1. PICK status \in {"done", "dropped"} :
          /\ SetFinish(f, [finishes[f] EXCEPT !.status = status])
          /\ jar' \in {jar, [jar EXCEPT ![finishes[f].browser] = f]}
    BY <1>11 DEF StartOwner
  <2> DEFINE r == [finishes[f] EXCEPT !.status = status]
  <2>2. /\ FinishOK(r) /\ r \in FinishRecord /\ r.status # "idle" /\ SameRequest(finishes[f], r)
        /\ finishes[f].status \in FinishPending /\ Earned(r)
    BY <1>1, <1>11
       DEF StartOwner, FinishOK, FinishRecord, FinishPending, FinishEnd, SameRequest, MadeOn, Earned
  <2>3. /\ finishes' = [finishes EXCEPT ![f] = r]
        /\ minted' = minted \cup {f} /\ sessions' \subseteq sessions \cup {f}
        /\ jar' \in [Browsers -> Owners \cup {None}]
        /\ UNCHANGED <<credentials, ceremonyJar, signed, pages, edits>>
        /\ \A b \in Browsers : jar'[b] = jar[b] \/ jar'[b] \in minted'
    BY <1>11, <2>1 DEF StartOwner, SetFinish, PasskeysInv, TypeOK, Owners
  <2> HIDE DEF r
  <2>4. TypeOK'
    BY <2>2, <2>3 DEF PasskeysInv, TypeOK, Owners
  <2> QED BY <2>2, <2>3, <2>4, FinishStep
<1>12. CASE FinishStatementFails(f)
  <2> DEFINE status == finishes[f].status
  <2>1. status \in FinishPending \ {"reading"}
    BY <1>12 DEF FinishStatementFails
  <2>2. CASE status \in {"loading", "inserting"}
    BY <1>2, <1>12, <2>1, <2>2, OnlyFinishStep DEF FinishStatementFails
  <2>3. CASE status = "ending"
    <3>1. OnlyFinish(f, next)
      BY <1>12, <2>3 DEF FinishStatementFails
    <3>2. next # "idle"
      OBVIOUS
    <3> HIDE DEF next
    <3> QED BY <1>5, <2>1, <2>3, <3>1, <3>2, OnlyFinishStep
  <2>4. CASE status \in {"listing", "updating"}
    BY <1>6, <1>12, <2>1, <2>4, OnlyFinishStep DEF FinishStatementFails
  <2>5. CASE status = "starting"
    BY <1>2, <1>12, <2>1, <2>5, OnlyFinishStep DEF FinishStatementFails
  <2> QED BY <2>1, <2>2, <2>3, <2>4, <2>5 DEF FinishPending
<1> QED BY <1>3, <1>4, <1>7, <1>8, <1>9, <1>10, <1>11, <1>12 DEF HandleFinish

-----------------------------------------------------------------------------
(* The passkey requests, and what happens around the endpoints *)

\* Other requests touch neither a page nor a response, and add no key.
LEMMA OtherStep ==
  ASSUME PasskeysInv, TypeOK', DOMAIN credentials' \subseteq DOMAIN credentials,
         \A b \in Browsers : jar'[b] \in {jar[b], None},
         UNCHANGED <<minted, pages, finishes>>
  PROVE  PasskeysInv'
BY DEF PasskeysInv, PageOK, FinishOK, MadeOn, Earned, Inserted

LEMMA OnlyEditStep ==
  ASSUME PasskeysInv, NEW e \in Edits, NEW r, r \in EditRecord, OnlyEdit(e, r)
  PROVE  PasskeysInv'
<1>1. UNCHANGED <<credentials, sessions, minted, jar, ceremonyJar, signed, pages, finishes>>
  BY DEF OnlyEdit, tables, browsers
<1>2. TypeOK'
  BY <1>1 DEF OnlyEdit, PasskeysInv, TypeOK
<1> QED BY <1>1, <1>2, OtherStep

\* A step that rewrites a row, or removes one.
LEMMA CredentialStep ==
  ASSUME PasskeysInv, NEW e \in Edits, edits' = [edits EXCEPT ![e].status = "done"],
         DOMAIN credentials' \subseteq DOMAIN credentials,
         \A k \in DOMAIN credentials' : credentials'[k] \in CredentialRow,
         UNCHANGED <<sessions, minted, browsers, pages, finishes>>
  PROVE  PasskeysInv'
<1>1. edits' \in [Edits -> EditRecord]
  BY DEF PasskeysInv, TypeOK, EditRecord, EditEnd
<1>2. TypeOK'
  BY <1>1 DEF browsers, PasskeysInv, TypeOK
<1> QED BY <1>2, OtherStep DEF browsers

LEMMA EditInv ==
  ASSUME PasskeysInv, NEW e \in Edits,
         \/ \E b \in Browsers : ReceiveEdit(e, b)
         \/ ReadEdit(e) \/ HandleEdit(e) \/ EditStatementFails(e)
  PROVE  PasskeysInv'
<1>1. edits[e] \in EditRecord
  BY DEF PasskeysInv, TypeOK
<1>2. ASSUME NEW status \in EditPending \cup EditEnd,
             OnlyEdit(e, [edits[e] EXCEPT !.status = status])
      PROVE  PasskeysInv'
  <2>1. [edits[e] EXCEPT !.status = status] \in EditRecord
    BY <1>1 DEF EditRecord
  <2> QED BY <1>2, <2>1, OnlyEditStep
<1>3. ASSUME NEW b \in Browsers, ReceiveEdit(e, b) PROVE PasskeysInv'
  <2>1. PICK same_site \in BOOLEAN :
          OnlyEdit(e, [edits[e] EXCEPT
            !.session = jar[b],
            !.status = IF same_site /\ jar[b] # None THEN "loading" ELSE "refused"])
    BY <1>3 DEF ReceiveEdit
  <2>2. PICK status \in {"loading", "refused"} :
          OnlyEdit(e, [edits[e] EXCEPT !.session = jar[b], !.status = status])
    BY <2>1
  <2>3. [edits[e] EXCEPT !.session = jar[b], !.status = status] \in EditRecord
    BY <1>1 DEF PasskeysInv, TypeOK, EditRecord, EditPending, EditEnd
  <2> QED BY <2>2, <2>3, OnlyEditStep
<1>4. CASE LoadForEdit(e)
  BY <1>2, <1>4 DEF LoadForEdit, EditPending, EditEnd
<1>5. CASE ReadEdit(e)
  <2>1. ASSUME NEW k \in Keys
        PROVE  [edits[e] EXCEPT !.key = k, !.status = "counting"] \in EditRecord
    BY <1>1 DEF EditRecord, EditPending
  <2>2. ASSUME NEW k \in Keys, NEW label \in Labels \cup {None}
        PROVE  [edits[e] EXCEPT !.key = k, !.label = label, !.status = "renaming"] \in EditRecord
    BY <1>1 DEF EditRecord, EditPending
  <2>3. [edits[e] EXCEPT !.status = "refused"] \in EditRecord
    BY <1>1 DEF EditRecord, EditEnd
  <2> QED BY <1>5, <2>1, <2>2, <2>3, OnlyEditStep DEF ReadEdit
<1>6. CASE CountForDelete(e)
  BY <1>2, <1>6 DEF CountForDelete, EditPending, EditEnd
<1>7. CASE DeleteKey(e)
  <2>1. /\ DOMAIN credentials' \subseteq DOMAIN credentials
        /\ \A k \in DOMAIN credentials' : credentials'[k] = credentials[k]
    BY <1>7 DEF DeleteKey, DeleteCredential, Restrict
  <2> QED BY <1>7, <2>1, CredentialStep DEF DeleteKey, PasskeysInv, TypeOK
<1>8. CASE RenameKey(e)
  <2>1. PICK k, label : k = edits[e].key /\ label = edits[e].label
    OBVIOUS
  <2>2. credentials' = RenameCredential(credentials, k, label)
    BY <1>8, <2>1 DEF RenameKey
  <2>3. /\ DOMAIN credentials' = DOMAIN credentials
        /\ \A j \in DOMAIN credentials' : credentials'[j] \in CredentialRow
    <3>1. label \in Labels \cup {None}
      BY <1>1, <2>1 DEF EditRecord
    <3> QED BY <2>2, <3>1 DEF RenameCredential, PasskeysInv, TypeOK, CredentialRow
  <2> QED BY <1>8, <2>3, CredentialStep DEF RenameKey
<1>9. CASE EditStatementFails(e)
  BY <1>2, <1>9 DEF EditStatementFails, EditPending, EditEnd
<1> QED BY <1>3, <1>4, <1>5, <1>6, <1>7, <1>8, <1>9 DEF HandleEdit

LEMMA ElsewhereInv == PasskeysInv /\ Elsewhere => PasskeysInv'
<1> SUFFICES ASSUME PasskeysInv, Elsewhere PROVE PasskeysInv'
  OBVIOUS
<1>1. UNCHANGED <<credentials, minted, ceremonyJar, signed, pages, finishes, edits>>
  BY DEF Elsewhere, handlers
<1>2. jar' \in [Browsers -> Owners \cup {None}]
  BY DEF Elsewhere, PasskeysInv, TypeOK
<1>3. sessions' \subseteq minted \cup Pages
  BY DEF Elsewhere, PasskeysInv, TypeOK
<1>4. TypeOK'
  BY <1>1, <1>2, <1>3 DEF PasskeysInv, TypeOK
<1>5. \A b \in Browsers : jar'[b] \in {jar[b], None}
  BY DEF Elsewhere, PasskeysInv, TypeOK
<1> QED BY <1>1, <1>4, <1>5, OtherStep

LEMMA DropInv == PasskeysInv /\ Drop => PasskeysInv'
<1> SUFFICES ASSUME PasskeysInv, Drop PROVE PasskeysInv'
  OBVIOUS
<1>1. ASSUME NEW p \in Pages, pages[p].status \in PagePending,
             SetPage(p, [pages[p] EXCEPT !.status = "dropped"])
      PROVE  PasskeysInv'
  <2>1. PageOK([pages[p] EXCEPT !.status = "dropped"]) /\ pages[p].status # "shown"
    BY <1>1 DEF PasskeysInv, PageOK, PageRecord, PagePending, PageEnd
  <2> QED BY <1>1, <2>1, PageStep DEF SetPage, tables, browsers, PasskeysInv, TypeOK
<1>2. ASSUME NEW f \in Finishes, finishes[f].status \in FinishPending, OnlyFinish(f, "dropped")
      PROVE  PasskeysInv'
  <2>1. FinishOK([finishes[f] EXCEPT !.status = "dropped"])
    BY <1>2 DEF PasskeysInv, FinishOK, FinishRecord, FinishPending, FinishEnd, MadeOn
  <2> QED BY <1>2, <2>1, OnlyFinishStep
<1>3. ASSUME NEW e \in Edits, OnlyEdit(e, [edits[e] EXCEPT !.status = "dropped"])
      PROVE  PasskeysInv'
  <2>1. [edits[e] EXCEPT !.status = "dropped"] \in EditRecord
    BY DEF PasskeysInv, TypeOK, EditRecord, EditEnd
  <2> QED BY <1>3, <2>1, OnlyEditStep
<1> QED BY <1>1, <1>2, <1>3 DEF Drop

LEMMA RestartInv == PasskeysInv /\ Restart => PasskeysInv'
<1> SUFFICES ASSUME PasskeysInv, Restart PROVE PasskeysInv'
  OBVIOUS
<1>1. UNCHANGED <<credentials, sessions, minted, jar, ceremonyJar, signed>>
  BY DEF Restart, tables, browsers
<1>2. /\ pages' = [p \in Pages |-> IF pages[p].status \in PagePending
                                   THEN [pages[p] EXCEPT !.status = "dropped"] ELSE pages[p]]
      /\ finishes' = [f \in Finishes |-> IF finishes[f].status \in FinishPending
                                   THEN [finishes[f] EXCEPT !.status = "dropped"] ELSE finishes[f]]
      /\ edits' = [e \in Edits |-> IF edits[e].status \in EditPending
                                   THEN [edits[e] EXCEPT !.status = "dropped"] ELSE edits[e]]
  BY DEF Restart, DropPending, PasskeysInv, TypeOK
<1>3. edits' \in [Edits -> EditRecord]
  BY <1>2 DEF PasskeysInv, TypeOK, EditRecord, EditEnd
<1>4. \A p \in Pages : /\ pages'[p] \in PageRecord /\ PageOK(pages[p])'
                       /\ pages[p].status = "shown" => pages'[p] = pages[p]
  BY <1>1, <1>2 DEF PasskeysInv, PageOK, PageRecord, PagePending, PageEnd
<1>5. \A f \in Finishes : /\ finishes'[f] \in FinishRecord
                          /\ finishes'[f] = finishes[f]
                             \/ /\ finishes'[f] = [finishes[f] EXCEPT !.status = "dropped"]
                                /\ finishes[f].status \in FinishPending
  <2> SUFFICES ASSUME NEW f \in Finishes
               PROVE  /\ finishes'[f] \in FinishRecord
                      /\ \/ finishes'[f] = finishes[f]
                         \/ /\ finishes'[f] = [finishes[f] EXCEPT !.status = "dropped"]
                            /\ finishes[f].status \in FinishPending
    OBVIOUS
  <2>1. finishes[f] \in FinishRecord
    BY DEF PasskeysInv, TypeOK
  <2>2. [finishes[f] EXCEPT !.status = "dropped"] \in FinishRecord
    BY <2>1 DEF FinishRecord, FinishEnd
  <2> QED BY <1>2, <2>1, <2>2
<1>6. TypeOK'
  BY <1>1, <1>2, <1>3, <1>4, <1>5 DEF PasskeysInv, TypeOK
<1>7. \A f \in Finishes : FinishOK(finishes[f])'
  <2> SUFFICES ASSUME NEW f \in Finishes PROVE FinishOK(finishes[f])'
    OBVIOUS
  <2>1. FinishOK(finishes[f]) /\ finishes[f] \in FinishRecord
    BY DEF PasskeysInv, TypeOK
  <2>2. CASE finishes'[f] = finishes[f]
    BY <1>4, <2>1, <2>2 DEF FinishOK, MadeOn
  <2>3. CASE /\ finishes'[f] = [finishes[f] EXCEPT !.status = "dropped"]
             /\ finishes[f].status \in FinishPending
    BY <1>4, <1>5, <2>1, <2>3 DEF FinishOK, MadeOn, FinishRecord, FinishPending
  <2> QED BY <1>5, <2>2, <2>3
<1>8. \A f \in minted' \cap Finishes : Earned(finishes[f])'
  BY <1>1, <1>5 DEF PasskeysInv, Earned, FinishPending
<1>9. \A k \in DOMAIN credentials' \ Registered : \E f \in Finishes : Inserted(finishes[f], k)'
  <2>1. ASSUME NEW f \in Finishes, NEW k, Inserted(finishes[f], k)
        PROVE  Inserted(finishes'[f], k)
    <3>1. finishes[f] \in FinishRecord
      BY DEF PasskeysInv, TypeOK
    <3>2. /\ SameRequest(finishes'[f], finishes[f])
          /\ finishes'[f].status \in {finishes[f].status, "dropped"}
      BY <1>5, <3>1 DEF SameRequest, FinishRecord
    <3> QED BY <2>1, <3>2 DEF Inserted, SameRequest
  <2> QED BY <1>1, <2>1 DEF PasskeysInv, Inserted
<1> QED BY <1>1, <1>4, <1>6, <1>7, <1>8, <1>9 DEF PasskeysInv

LEMMA NextInv == PasskeysInv /\ [Next]_vars => PasskeysInv'
<1> SUFFICES ASSUME PasskeysInv, [Next]_vars PROVE PasskeysInv'
  OBVIOUS
<1>1. CASE UNCHANGED vars
  <2>1. TypeOK'
    BY <1>1 DEF vars, tables, browsers, handlers, PasskeysInv, TypeOK
  <2> QED BY <1>1, <2>1, OtherStep DEF vars, tables, browsers, handlers
<1>2. CASE Operate
  BY <1>2, ReceivePageInv, HandlePageInv, ReceiveFinishInv, HandleFinishInv, EditInv DEF Operate
<1>3. CASE Fail
  BY <1>3, HandlePageInv, HandleFinishInv, EditInv, DropInv DEF Fail
<1> QED BY <1>1, <1>2, <1>3, ElsewhereInv, RestartInv DEF Next

LEMMA Inductive == Spec => []PasskeysInv
BY InitInv, NextInv, PTL DEF Spec

\* Every variable of the sign-in endpoints stays in its type.
THEOREM TypeCorrect == Spec => []TypeOK
<1>1. PasskeysInv => TypeOK
  BY DEF PasskeysInv
<1> QED BY <1>1, Inductive, PTL

\* Every owner session was started by a response to the page whose ceremony its request
\* named, with a key that let it in (login.rs).
THEOREM Earn == Spec => []SessionsAreEarned
BY InvImplies, Inductive, PTL

\* Every new passkey was registered from a page that an owner session opened, or the
\* secret when the page's count came to none or failed (login.rs
\* register_page_handler, register_finish).
THEOREM KeysAuthorized == Spec => []KeysAreAuthorized
BY InvImplies, Inductive, PTL

-----------------------------------------------------------------------------
(* What a step may do to the passkeys *)

\* Four statements write table webauthn_credentials.
LEMMA CredentialsChange ==
  ASSUME [Next]_vars, credentials' # credentials
  PROVE  \/ \E f \in Finishes : InsertKey(f) \/ UpdateCounter(f)
         \/ \E e \in Edits : DeleteKey(e) \/ RenameKey(e)
<1>1. ASSUME NEW p \in Pages,
             (\E b \in Browsers : ReceivePage(p, b)) \/ HandlePage(p) \/ PageStatementFails(p)
      PROVE  FALSE
  <2>1. ~StartCeremony(p)
    BY DEF StartCeremony
  <2>2. ~PageStatementFails(p)
    BY Zenon DEF PageStatementFails, SetPage, tables
  <2>3. \A b \in Browsers : ~ReceivePage(p, b)
    BY Zenon DEF ReceivePage, SetPage, tables
  <2>4. ~CountForPage(p) /\ ~LoadForPage(p) /\ ~ListForPage(p)
    BY Zenon DEF CountForPage, LoadForPage, ListForPage, SetPage, tables
  <2> QED BY <1>1, <2>1, <2>2, <2>3, <2>4 DEF HandlePage
<1>2. ASSUME NEW f \in Finishes,
             \/ \E b \in Browsers : ReceiveFinish(f, b)
             \/ ReadResponse(f) \/ HandleFinish(f) \/ FinishStatementFails(f)
      PROVE  InsertKey(f) \/ UpdateCounter(f)
  <2>1. \A b \in Browsers : ~ReceiveFinish(f, b)
    BY Zenon DEF ReceiveFinish, tables
  <2>2. ~ReadResponse(f) /\ ~LoadCeremony(f) /\ ~ListForCounter(f)
    BY Zenon DEF ReadResponse, LoadCeremony, ListForCounter, OnlyFinish, tables
  <2>3. ~EndCeremony(f) /\ ~StartOwner(f)
    BY DEF EndCeremony, StartOwner
  <2>4. ~FinishStatementFails(f)
    BY Zenon DEF FinishStatementFails, OnlyFinish, tables
  <2> QED BY <1>2, <2>1, <2>2, <2>3, <2>4 DEF HandleFinish
<1>3. ASSUME NEW e \in Edits,
             \/ \E b \in Browsers : ReceiveEdit(e, b)
             \/ ReadEdit(e) \/ HandleEdit(e) \/ EditStatementFails(e)
      PROVE  DeleteKey(e) \/ RenameKey(e)
  <2>1. \A b \in Browsers : ~ReceiveEdit(e, b)
    BY Zenon DEF ReceiveEdit, OnlyEdit, tables
  <2>2. ~ReadEdit(e) /\ ~LoadForEdit(e) /\ ~CountForDelete(e) /\ ~EditStatementFails(e)
    BY Zenon DEF ReadEdit, LoadForEdit, CountForDelete, EditStatementFails, OnlyEdit, tables
  <2> QED BY <1>3, <2>1, <2>2 DEF HandleEdit
<1>4. ~Drop
  BY Zenon DEF Drop, SetPage, OnlyFinish, OnlyEdit, tables
<1>5. ~Elsewhere /\ ~Restart /\ ~UNCHANGED vars
  BY DEF Elsewhere, Restart, vars, tables
<1> QED BY <1>1, <1>2, <1>3, <1>4, <1>5 DEF Next, Operate, Fail

\* A removed passkey comes back only by being registered (db/credentials.rs
\* insert_credential, update_after_auth).
THEOREM RemovedStayRemoved == Spec => RemovedKeysStayRemoved
<1> DEFINE A == \A k \in DOMAIN credentials' \ DOMAIN credentials :
                  \E f \in Finishes : finishes[f].status = "inserting" /\ finishes[f].key = k
<1>1. [Next]_vars => A
  <2> SUFFICES ASSUME [Next]_vars, NEW k \in DOMAIN credentials' \ DOMAIN credentials
               PROVE  \E f \in Finishes : finishes[f].status = "inserting" /\ finishes[f].key = k
    OBVIOUS
  <2>1. ASSUME NEW f \in Finishes, InsertKey(f)
        PROVE  finishes[f].status = "inserting" /\ finishes[f].key = k
    BY <2>1 DEF InsertKey, InsertCredential, Put
  <2>2. ASSUME NEW f \in Finishes PROVE ~UpdateCounter(f)
    BY DEF UpdateCounter, UpdateAfterAuth
  <2>3. ASSUME NEW e \in Edits PROVE ~DeleteKey(e) /\ ~RenameKey(e)
    BY DEF DeleteKey, DeleteCredential, Restrict, RenameKey, RenameCredential
  <2> QED BY <2>1, <2>2, <2>3, CredentialsChange
<1>2. Spec => [][A]_vars
  BY <1>1, PTL DEF Spec
<1> QED BY <1>2 DEF RemovedKeysStayRemoved

\* Neither a rename nor a sign-in that overlaps it undoes the other (db/credentials.rs
\* rename_credential, update_after_auth).
THEOREM KeepApart == Spec => RenameAndSignInKeepApart
<1> DEFINE A == \A k \in DOMAIN credentials \cap DOMAIN credentials' :
                  \/ credentials'[k].label = credentials[k].label
                  \/ \E e \in Edits : /\ edits[e].status = "renaming" /\ edits[e].key = k
                                      /\ credentials'[k].counter = credentials[k].counter
<1>1. PasskeysInv /\ [Next]_vars => A
  <2> SUFFICES ASSUME PasskeysInv, [Next]_vars,
                      NEW k \in DOMAIN credentials \cap DOMAIN credentials',
                      credentials'[k].label # credentials[k].label
               PROVE  \E e \in Edits : /\ edits[e].status = "renaming" /\ edits[e].key = k
                                       /\ credentials'[k].counter = credentials[k].counter
    OBVIOUS
  <2>1. credentials[k] \in CredentialRow
    BY DEF PasskeysInv, TypeOK
  <2>2. ASSUME NEW f \in Finishes PROVE ~InsertKey(f) /\ ~UpdateCounter(f)
    BY <2>1 DEF InsertKey, InsertCredential, Put, UpdateCounter, UpdateAfterAuth, CredentialRow
  <2>3. ASSUME NEW e \in Edits PROVE ~DeleteKey(e)
    BY DEF DeleteKey, DeleteCredential, Restrict
  <2>4. ASSUME NEW e \in Edits, RenameKey(e)
        PROVE  /\ edits[e].status = "renaming" /\ edits[e].key = k
               /\ credentials'[k].counter = credentials[k].counter
    BY <2>1, <2>4 DEF RenameKey, RenameCredential, CredentialRow
  <2> QED BY <2>2, <2>3, <2>4, CredentialsChange
<1>2. Spec => [][A]_vars
  BY <1>1, Inductive, PTL DEF Spec
<1> QED BY <1>2 DEF RenameAndSignInKeepApart
=============================================================================
