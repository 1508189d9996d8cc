SPECIFICATION FaultFreeSpec
CONSTANTS
  Gets = {"local"}
  Posts = {p1}
  Logouts = {o1}
  SessionIds = {s1}
  Browsers = {b1}
  Radix = 2
  Precision = 0
  OwnerTTL = 1
  CodeTTL = 1
  MaxTime = 0
  None = None
  Query <- MCQuery
  ClientIds <- MCClientIds
  RedirectUris <- MCRedirectUris
  Url <- MCUrl
  Addresses <- MCAddresses
  Served <- MCServed
  ScopeWords <- MCScopeWords
  Challenges <- MCChallenges
INVARIANT LogoutIsFinal
