SPECIFICATION FaultFreeSpec
CONSTANTS
  Pages = {p1, p2}
  Finishes = {f1, f2}
  Edits = {}
  Browsers = {b1, b2}
  Keys = {k1}
  Registered = {k1}
  Earlier = {}
  Labels = {}
  MaxCount = 2
  None = None
PROPERTY CountersNeverGoBack
