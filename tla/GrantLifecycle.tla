--------------------------- MODULE GrantLifecycle ---------------------------
(***************************************************************************)
(* What the server promises about authorization codes and access tokens,   *)
(* with no request, table or timestamp: a code is spent at most once, and  *)
(* only if it was taken, by one request at a time, before it lapsed; a     *)
(* token is minted only for a code that was spent, one token per code; and *)
(* a token that is dead stays dead.                                        *)
(***************************************************************************)
CONSTANTS Codes, Tokens

VARIABLES
  code,    \* code[c]: where code c is in its life
  token,   \* token[t]: where token t is in its life
  backing  \* backing[t]: the codes spent on behalf of token t

lifecycle == <<code, token, backing>>

Init ==
  /\ code = [c \in Codes |-> "unissued"]
  /\ token = [t \in Tokens |-> "unminted"]
  /\ backing = [t \in Tokens |-> {}]

\* A code stored too late is born lapsed.
Issue(c) ==
  /\ code[c] = "unissued"
  /\ \E birth \in {"valid", "lapsed"} : code' = [code EXCEPT ![c] = birth]
  /\ UNCHANGED <<token, backing>>

\* A code in time is looked at: whether it lapses meanwhile no longer matters.
Take(c) ==
  /\ code[c] = "valid"
  /\ \A d \in Codes : code[d] # "taken"
  /\ code' = [code EXCEPT ![c] = "taken"]
  /\ UNCHANGED <<token, backing>>

\* Whoever took the code fails before it is spent.
Release(c) ==
  /\ code[c] = "taken"
  /\ \E left \in {"valid", "lapsed"} : code' = [code EXCEPT ![c] = left]
  /\ UNCHANGED <<token, backing>>

\* A taken code is spent for one prospective token, which has no other code.
Spend(c, t) ==
  /\ code[c] = "taken"
  /\ backing[t] = {}
  /\ code' = [code EXCEPT ![c] = "spent"]
  /\ backing' = [backing EXCEPT ![t] = {c}]
  /\ UNCHANGED token

Mint(t) ==
  /\ token[t] = "unminted"
  /\ backing[t] # {}
  /\ \E birth \in {"active", "dead"} : token' = [token EXCEPT ![t] = birth]
  /\ UNCHANGED <<code, backing>>

\* Revocation of one token, or one instant of time in which any number of codes
\* lapse and tokens die.
Elapse(lapsing, dying) ==
  /\ \A c \in lapsing : code[c] = "valid"
  /\ \A t \in dying : token[t] = "active"
  /\ code' = [c \in Codes |-> IF c \in lapsing THEN "lapsed" ELSE code[c]]
  /\ token' = [t \in Tokens |-> IF t \in dying THEN "dead" ELSE token[t]]
  /\ UNCHANGED backing

Next ==
  \/ \E c \in Codes : Issue(c) \/ Take(c) \/ Release(c)
  \/ \E c \in Codes, t \in Tokens : Spend(c, t)
  \/ \E t \in Tokens : Mint(t)
  \/ \E lapsing \in SUBSET Codes, dying \in SUBSET Tokens : Elapse(lapsing, dying)

Spec == Init /\ [][Next]_lifecycle
=============================================================================
