----------------------------- MODULE MCConsent -----------------------------
(***************************************************************************)
(* Small instance of Consent for TLC.  A request is named by its kind:     *)
(* "local" redirects to the origin of its client, "wiki" to a URI only its *)
(* client's document lists, and "own_origin" to the origin of a client     *)
(* whose document lists another URI.  "foreign" asks for a token, to be    *)
(* sent to a URI that is listed in a document in another client's name,    *)
(* "plain_challenge" is wrong in the way its name says, and "inside" is    *)
(* of a client whose document is not asked for, because of its addresses.  *)
(* Client "local" is on the loopback address, and "lying" serves a         *)
(* document that names another.                                            *)
(***************************************************************************)
EXTENDS Consent, Sequences, TLC

MCClientIds == {"wiki", "local", "inside", "lying"}
MCRedirectUris == {"wiki-cb", "local-cb", "wiki-home", "inside-home"}
MCScopeWords == {}
MCChallenges == {"x"}

At(host, text) ==
  [scheme |-> "https", host |-> host, port |-> None, userinfo |-> FALSE,
   fragment |-> FALSE, text |-> text]

MCUrl ==
  [text \in MCClientIds \cup MCRedirectUris |->
     CASE text = "wiki-cb" -> At("cb.example", text)
       [] text = "wiki-home" -> At("wiki.example", text)
       [] text = "inside-home" -> At("inside.example", text)
       [] text \in {"local", "local-cb"} ->
            [At("127.0.0.1", text) EXCEPT !.scheme = "http", !.port = 8080]
       [] OTHER -> At(text \o ".example", text)]

MCAddresses ==
  [c \in MCClientIds |->
     {[version |-> 6, class |-> "public"]} \cup
       (IF c = "inside" THEN {[version |-> 4, class |-> "private"]} ELSE {})]

MCServed ==
  [c \in MCClientIds |->
     [success |-> TRUE, oversized |-> FALSE, well_formed |-> TRUE,
      client_id |-> IF c = "lying" THEN "wiki" ELSE c, redirect_uris |-> {"wiki-cb"}]]

Asks(client, uri) ==
  [well_formed |-> TRUE, response_type |-> "code", client_id |-> client,
   redirect_uri |-> uri, scope |-> {}, method |-> "S256", code_challenge |-> "x"]

MCQuery == [g \in Gets |->
  CASE g = "wiki" -> Asks("wiki", "wiki-cb")
    [] g = "foreign" -> [Asks("lying", "wiki-cb") EXCEPT !.response_type = "other"]
    [] g = "own_origin" -> Asks("wiki", "wiki-home")
    [] g = "plain_challenge" -> [Asks("local", "local-cb") EXCEPT !.method = "plain"]
    [] g = "inside" -> Asks("inside", "inside-home")
    [] OTHER -> Asks("local", "local-cb")]

\* Decisions differ in nothing but their names, and session ids too.
Twins == Permutations(Posts) \cup Permutations(SessionIds)

\* The server with no failing statement, no client that goes away and no restart.
FaultFreeSpec ==
  Init /\ [][Tick \/ (\E s \in SessionIds, b \in Browsers : SignIn(s, b)) \/ Operate]_vars
=============================================================================
