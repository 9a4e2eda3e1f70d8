SPECIFICATION MCSpec
SYMMETRY Symmetry
CHECK_DEADLOCK FALSE
CONSTANTS
  None = None
  Tabs = {t1, t2}
  Working = {t1}
  Incidents = {i1, i2}
  MaxLogins = 2
  MaxTokens = 3
  MaxWrites = 1
  MaxCalls = 2
INVARIANTS
  NothingShownIsBehind
  ShownIsSelected
PROPERTIES
  RenewalKeepsSession
