SPECIFICATION Spec
CONSTANTS
  Pages = {p1, p2}
  Finishes = {f1, f2}
  Edits = {}
  Browsers = {b1, b2}
  Keys = {k1, k2}
  Registered = {}
  Earlier = {}
  Labels = {}
  MaxCount = 2
  None = None
INVARIANT TypeOK
INVARIANT SessionsAreEarned
INVARIANT KeysAreAuthorized
