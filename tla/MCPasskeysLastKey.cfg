SPECIFICATION FaultFreeSpec
CONSTANTS
  Pages = {}
  Finishes = {}
  Edits = {d1, d2}
  Browsers = {b1}
  Keys = {k1, k2}
  Registered = {k1, k2}
  Earlier = {s1}
  Labels = {}
  MaxCount = 0
  None = None
PROPERTY LastPasskeyStays
