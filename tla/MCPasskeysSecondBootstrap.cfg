SPECIFICATION FaultFreeSpec
CONSTANTS
  Pages = {p1, p2}
  Finishes = {f1, f2}
  Edits = {}
  Browsers = {b1}
  Keys = {k1, k2}
  Registered = {}
  Earlier = {}
  Labels = {}
  MaxCount = 1
  None = None
PROPERTY BootstrapIsForTheFirst
