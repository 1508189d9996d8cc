SPECIFICATION FaultFreeSpec
CONSTANTS
  Gets = {"local"}
  Posts = {p1}
  Logouts = {}
  SessionIds = {s1}
  Browsers = {b1}
  Radix = 2
  Precision = 2
  OwnerTTL = 4
  CodeTTL = 1
  MaxTime = 8
  None = None
  Query <- MCQuery
  ClientIds <- MCClientIds
  RedirectUris <- MCRedirectUris
  Url <- MCUrl
  Addresses <- MCAddresses
  Served <- MCServed
  ScopeWords <- MCScopeWords
  Challenges <- MCChallenges
PROPERTY ExpiredSessionsAreMissing
