---------------------------- MODULE MCIndieAuth ----------------------------
(***************************************************************************)
(* Small instance of IndieAuth for TLC.  Requests "app" and "wiki" are     *)
(* good ones of different loopback clients and verifiers.  The forms are   *)
(* the honest one of each; each is wrong for the code of the other.        *)
(***************************************************************************)
EXTENDS IndieAuth

MCClientIds == {"app", "wiki"}
MCRedirectUris == {"app-cb", "wiki-cb"}
MCScopeWords == {"profile"}
MCVerifiers == {"v1", "v2"}

MCUrl ==
  [text \in MCClientIds \cup MCRedirectUris |->
     [scheme |-> "http", host |-> "127.0.0.1",
      port |-> IF text \in {"wiki", "wiki-cb"} THEN 8081 ELSE 8080,
      userinfo |-> FALSE, fragment |-> FALSE, text |-> text]]
MCAddresses == [c \in MCClientIds |-> {}]
MCServed ==
  [c \in MCClientIds |-> [success |-> FALSE, oversized |-> FALSE, well_formed |-> FALSE,
                          client_id |-> "", redirect_uris |-> {}]]

Asks(client, uri, verifier) ==
  [well_formed |-> TRUE, response_type |-> "code", client_id |-> client,
   redirect_uri |-> uri, scope |-> {"profile"}, method |-> "S256",
   code_challenge |-> [sha256 |-> verifier]]

MCQuery == [g \in Gets |->
  IF g = "wiki" THEN Asks("wiki", "wiki-cb", "v2") ELSE Asks("app", "app-cb", "v1")]

Form(client, uri, verifier) ==
  [grant_type |-> "authorization_code", client_id |-> client, redirect_uri |-> uri,
   code_verifier |-> verifier]

MCForms == {Form("app", "app-cb", "v1"), Form("wiki", "wiki-cb", "v2")}
=============================================================================
