SPECIFICATION Spec
CONSTANTS
  Gets = {"app", "wiki"}
  Posts = {p1}
  Logouts = {}
  Browsers = {b1}
  Exchanges = {e1}
  Introspections = {}
  Revocations = {}
  Pages = {g1}
  Finishes = {f1}
  Edits = {}
  Keys = {k1, k2}
  Registered = {k1}
  Labels = {}
  MaxCount = 1
  Radix = 2
  Precision = 0
  OwnerTTL = 1
  CodeTTL = 1
  TokenTTL = 1
  MaxTime = 1
  None = None
  Unknown = Unknown
  Query <- MCQuery
  Forms <- MCForms
  ClientIds <- MCClientIds
  RedirectUris <- MCRedirectUris
  ScopeWords <- MCScopeWords
  Verifiers <- MCVerifiers
  Url <- MCUrl
  Addresses <- MCAddresses
  Served <- MCServed
INVARIANT TokensComeFromApprovals
INVARIANT CodesComeFromPasskeys
PROPERTY ImplementsConsent
PROPERTY ImplementsTokenService
PROPERTY ImplementsPasskeys
