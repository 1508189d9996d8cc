SPECIFICATION Spec
CONSTANTS
  gp = gp
  gi = gi
  Grants = {gp}
  Request <- MCRequest
  Codes = {c1}
  Exchanges = {e1}
  Introspections = {i1}
  Revocations = {r1}
  Forms <- MCForms
  ClientIds <- MCClientIds
  RedirectUris <- MCRedirectUris
  ScopeWords <- MCScopeWords
  Verifiers <- MCVerifiers
  Unknown = Unknown
  CodeTTL = 1
  TokenTTL = 1
  MaxTime = 0
INVARIANT AnsweredRevocationIsFinal
