SPECIFICATION FairSpec
CONSTANTS
  gp = gp
  gi = gi
  Grants = {gp, gi}
  Request <- MCRequest
  Codes = {c1}
  Exchanges = {e1, e2}
  Introspections = {i1}
  Revocations = {r1}
  Forms <- MCForms
  ClientIds <- MCClientIds
  RedirectUris <- MCRedirectUris
  ScopeWords <- MCScopeWords
  Verifiers <- MCVerifiers
  Unknown = Unknown
  CodeTTL = 1
  TokenTTL = 1
  MaxTime = 1
INVARIANT TypeOK
INVARIANT OneClaimPerCode
INVARIANT TokensAreAuthorized
INVARIANT RevocationIsFinal
PROPERTY ImplementsLifecycle
PROPERTY RequestsSettle
