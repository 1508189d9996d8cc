SPECIFICATION Spec
CONSTANTS
  Gets = {"inside", "wiki", "foreign", "plain_challenge"}
  Posts = {p1, p2}
  Logouts = {}
  SessionIds = {s1, s2}
  Browsers = {b1}
  Radix = 2
  Precision = 0
  OwnerTTL = 1
  CodeTTL = 1
  MaxTime = 0
  None = None
  Query <- MCQuery
  ClientIds <- MCClientIds
  RedirectUris <- MCRedirectUris
  Url <- MCUrl
  Addresses <- MCAddresses
  Served <- MCServed
  ScopeWords <- MCScopeWords
  Challenges <- MCChallenges
INVARIANT TypeOK
INVARIANT CodesAreApproved
INVARIANT PendingIsMostRecent
INVARIANT SpentRequestsStayCleared
INVARIANT RedirectsAreTheClients
SYMMETRY Twins
