SPECIFICATION FairSpec
CONSTANTS
  Pages = {p1}
  Finishes = {f1}
  Edits = {d1}
  Browsers = {b1}
  Keys = {k1, k2}
  Registered = {k1, k2}
  Earlier = {s1}
  Labels = {new}
  MaxCount = 1
  None = None
PROPERTY RemovedKeysStayRemoved
PROPERTY RenameAndSignInKeepApart
PROPERTY HandlersSettle
