--------------------------- MODULE ClientMetadata ---------------------------
(***************************************************************************)
(* What src/src/client_metadata.rs decides about a client and a redirect   *)
(* URI.  The world the server sees is constant: what the url crate makes   *)
(* of a text, the addresses a client's host resolves to, and the document  *)
(* it serves.  That a lookup or a fetch fails is the caller's to choose.   *)
(***************************************************************************)
EXTENDS Integers

CONSTANTS
  ClientIds, RedirectUris,  \* texts of the query parameters
  None,
  Url,        \* Url[text]: the parsed URL, None when it does not parse
  Addresses,  \* Addresses[c]: what the host of client c resolves to
  Served      \* Served[c]: what a GET of client c returns

\* `port` is None where the text names none; `text` is the serialization.
UrlRecord == [scheme : {"http", "https", "other"}, host : STRING, port : Nat \cup {None},
              userinfo : BOOLEAN, fragment : BOOLEAN, text : STRING]
\* The classes are those that is_disallowed_ip tells apart for each version, and for
\* version 6 two more that it does not; "public" is every other address.
AddressRecord ==
  [version : {4}, class : {"loopback", "private", "link_local", "broadcast", "unspecified",
                           "documentation", "public"}]
    \cup [version : {6}, class : {"loopback", "unspecified", "unique_local", "link_local",
                                  "v4_mapped", "public"}]
DocumentRecord == [success : BOOLEAN, oversized : BOOLEAN, well_formed : BOOLEAN,
                   client_id : STRING, redirect_uris : SUBSET STRING]

ASSUME WorldAssumption ==
  /\ DOMAIN Url = ClientIds \cup RedirectUris
  /\ \A text \in DOMAIN Url : \/ Url[text] = None
                              \/ DOMAIN Url[text] = {"scheme", "host", "port", "userinfo",
                                                     "fragment", "text"}
  /\ Addresses \in [ClientIds -> SUBSET AddressRecord]
  /\ DOMAIN Served = ClientIds

-----------------------------------------------------------------------------
(* URLs *)

\* parse_profile_url.  Its check for dot segments is left out: Url::parse has removed
\* them by then.
ProfileUrl(text) ==
  /\ Url[text] # None
  /\ Url[text].scheme \in {"http", "https"}
  /\ ~Url[text].userinfo /\ ~Url[text].fragment

IsLoopback(client) == Url[client].host \in {"127.0.0.1", "[::1]"}

\* port_or_known_default
Port(url) == IF url.port # None THEN url.port ELSE IF url.scheme = "https" THEN 443 ELSE 80

SameOrigin(client, uri) ==
  LET a == Url[client]
      b == Url[uri]
  IN a.scheme = b.scheme /\ a.host = b.host /\ Port(a) = Port(b)

\* MUTANT: once the client has published URIs, its own origin does not count.
ValidRedirectListed(client, uri, published) ==
  IF published = {} THEN SameOrigin(client, uri) ELSE Url[uri].text \in published

\* The published texts are compared as they are with the serialization of the parsed
\* redirect URI.
ValidRedirect(client, uri, published) ==
  SameOrigin(client, uri) \/ Url[uri].text \in published

-----------------------------------------------------------------------------
(* The document *)

Disallowed(address) ==
  address.class \in
    IF address.version = 4
    THEN {"loopback", "private", "link_local", "broadcast", "unspecified", "documentation"}
    ELSE {"loopback", "unspecified", "unique_local"}

\* One address that is not allowed is enough to refuse.
MayFetch(client) ==
  Addresses[client] # {} /\ \A address \in Addresses[client] : ~Disallowed(address)

\* MUTANT: a document that names another client counts.
AcceptedForAnyone(client) ==
  /\ Url[client].scheme = "https"
  /\ Served[client].success /\ ~Served[client].oversized /\ Served[client].well_formed

\* The connector speaks https only, and the document names the client it came from.
Accepted(client) ==
  /\ Url[client].scheme = "https"
  /\ Served[client].success /\ ~Served[client].oversized /\ Served[client].well_formed
  /\ Served[client].client_id = Url[client].text

\* The redirect URIs that a fetch can yield: it may always fail or time out.
FetchOutcomes(client) ==
  {{}} \cup (IF Accepted(client) THEN {Served[client].redirect_uris} ELSE {})

-----------------------------------------------------------------------------
(* The reference the decision is compared with *)

\* What a redirect URI must be for a client, however the lookup and the fetch went:
\* of the client's origin, or on a list that the client published under its own name.
BelongsTo(uri, client) ==
  \/ SameOrigin(client, uri)
  \/ /\ Url[client].scheme = "https" /\ ~IsLoopback(client)
     /\ Served[client].client_id = Url[client].text
     /\ Url[uri].text \in Served[client].redirect_uris
=============================================================================
