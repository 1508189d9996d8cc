--------------------------- MODULE MCTokenService ---------------------------
(***************************************************************************)
(* Small instance of TokenService for TLC.  Grant gp asks for a profile    *)
(* token; gi, of the other client, only for the identity.  The forms are   *)
(* the honest one for each grant and one wrong in the redirect URI, one in *)
(* the verifier and one in the grant type.                                 *)
(***************************************************************************)
EXTENDS TokenService

CONSTANTS gp, gi

MCClientIds == {"app", "wiki"}
MCRedirectUris == {"app-cb", "wiki-cb"}
MCScopeWords == {"profile"}
MCVerifiers == {"v1", "v2"}

MCRequest ==
  [g \in Grants |->
     IF g = gp
     THEN [client_id |-> "app", redirect_uri |-> "app-cb", scope |-> {"profile"},
           method |-> "S256", code_challenge |-> S256("v1")]
     ELSE [client_id |-> "wiki", redirect_uri |-> "wiki-cb", scope |-> {},
           method |-> "S256", code_challenge |-> S256("v2")]]

Form(type, client, uri, verifier) ==
  [grant_type |-> type, client_id |-> client, redirect_uri |-> uri,
   code_verifier |-> verifier]

MCForms == {Form("authorization_code", "app", "app-cb", "v1"),
            Form("authorization_code", "wiki", "wiki-cb", "v2"),
            Form("authorization_code", "app", "wiki-cb", "v1"),
            Form("authorization_code", "app", "app-cb", "v2"),
            Form("other", "app", "app-cb", "v1")}
=============================================================================
