SPECIFICATION FaultFreeSpec
CONSTANTS
  Pages = {p1}
  Finishes = {f1}
  Edits = {}
  Browsers = {b1}
  Keys = {k1, k2}
  Registered = {k1}
  Earlier = {s1}
  Labels = {}
  MaxCount = 1
  None = None
PROPERTY BootstrapIsForTheFirst
