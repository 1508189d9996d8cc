------------------------------- MODULE Store -------------------------------
(***************************************************************************)
(* The SQL statements of src/src/db as operators on tables.                *)
(*                                                                         *)
(* A table is a function whose domain is the set of primary keys present   *)
(* and whose values are rows.  Every operator takes the table a statement  *)
(* reads or writes and returns the table (or the truth value) it leaves.   *)
(* A statement runs on the one writer thread, so each is atomic, and `now` *)
(* is the clock as it was read for that statement.                         *)
(*                                                                         *)
(* Timestamps are instants of the model's clock, a natural number; the     *)
(* code stores them as RFC 3339 text.  Table sessions is in Sessions.      *)
(***************************************************************************)
EXTENDS Integers, Functions

\* The SQL NULL of a nullable timestamp column: no instant is negative.
Null == -1

Instant == Nat

\* INSERT of a row under a key that is absent, or the upsert of one that is not.
Put(table, key, row) ==
  [k \in DOMAIN table \cup {key} |-> IF k = key THEN row ELSE table[k]]

\* util.rs is_past: an instant that has come counts as past, equality included.
IsPast(instant, now) == instant <= now

-----------------------------------------------------------------------------
(* authorization_codes *)

\* MUTANT: the expiry is left out.
InsertCodeForever(codes, code, grant, expires) ==
  Put(codes, code, [grant |-> grant, expires_at |-> Null, used_at |-> Null])

InsertCode(codes, code, grant, expires) ==
  Put(codes, code, [grant |-> grant, expires_at |-> expires, used_at |-> Null])

\* MUTANT: an expired code is still redeemed.
RedeemableLate(codes, code, now) ==
  /\ code \in DOMAIN codes
  /\ codes[code].used_at = Null

\* The row redeem_code goes on with: it exists, is unused and has not expired.
Redeemable(codes, code, now) ==
  /\ code \in DOMAIN codes
  /\ codes[code].used_at = Null
  /\ ~IsPast(codes[code].expires_at, now)

\* MUTANT: a claimed code is deleted.
DeleteUsed(codes, code, now) == Restrict(codes, DOMAIN codes \ {code})

\* MUTANT: the row is read and never marked.
MarkNothing(codes, code, now) == codes

\* The UPDATE that claims the code: it hits no row when the code is used already.
MarkUsed(codes, code, now) ==
  IF codes[code].used_at = Null THEN [codes EXCEPT ![code].used_at = now] ELSE codes

-----------------------------------------------------------------------------
(* access_tokens *)

InsertToken(tokens, token, client, scope, expires, now) ==
  Put(tokens, token, [client_id |-> client, scope |-> scope, created_at |-> now,
                      expires_at |-> expires, revoked_at |-> Null])

\* MUTANT: the revocation is not looked at.
ActiveUntilExpiry(tokens, token, now) ==
  /\ token \in DOMAIN tokens
  /\ ~IsPast(tokens[token].expires_at, now)

\* active_token returns the row: it exists, is not revoked and has not expired.
ActiveToken(tokens, token, now) ==
  /\ token \in DOMAIN tokens
  /\ tokens[token].revoked_at = Null
  /\ ~IsPast(tokens[token].expires_at, now)

\* The UPDATE hits no row when the token is unknown or already revoked.
RevokeToken(tokens, token, now) ==
  IF token \in DOMAIN tokens /\ tokens[token].revoked_at = Null
  THEN [tokens EXCEPT ![token].revoked_at = now]
  ELSE tokens

-----------------------------------------------------------------------------
(* webauthn_credentials *)

\* MUTANT: the counter is left out.
InsertUncounted(credentials, id, counter, label) ==
  IF id \in DOMAIN credentials THEN credentials
  ELSE Put(credentials, id, [counter |-> Null, label |-> label])

\* The INSERT fails when the id is there already.
InsertCredential(credentials, id, counter, label) ==
  IF id \in DOMAIN credentials THEN credentials
  ELSE Put(credentials, id, [counter |-> counter, label |-> label])

DeleteCredential(credentials, id) == Restrict(credentials, DOMAIN credentials \ {id})

\* MUTANT: the whole row is written.
RenameAsRow(credentials, id, label) ==
  IF id \in DOMAIN credentials
  THEN [credentials EXCEPT ![id] = [counter |-> 0, label |-> label]]
  ELSE credentials

RenameCredential(credentials, id, label) ==
  IF id \in DOMAIN credentials THEN [credentials EXCEPT ![id].label = label]
  ELSE credentials

\* MUTANT: an upsert, as for sessions.
UpsertAfterAuth(credentials, id, counter) ==
  IF id \in DOMAIN credentials THEN [credentials EXCEPT ![id].counter = counter]
  ELSE Put(credentials, id, [counter |-> counter, label |-> Null])

\* An UPDATE: a credential that is gone stays gone.
UpdateAfterAuth(credentials, id, counter) ==
  IF id \in DOMAIN credentials THEN [credentials EXCEPT ![id].counter = counter]
  ELSE credentials

-----------------------------------------------------------------------------
(* The process *)

\* When the process ends, or drops a future, every handler in one of the states
\* `pending` is gone without a response.
DropPending(handlers, pending) ==
  [h \in DOMAIN handlers |-> IF handlers[h].status \in pending
                             THEN [handlers[h] EXCEPT !.status = "dropped"]
                             ELSE handlers[h]]
=============================================================================
