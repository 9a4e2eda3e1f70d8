SPECIFICATION MCSpec
SYMMETRY Symmetry
CHECK_DEADLOCK FALSE
CONSTANTS
  Invocations = {p1, p2}
  LeaseTime = 1
  Timeout = 1
  None = None
  MaxClock = 3
  Incidents = {1, 2}
  Keys = {1, 2}
  MaxPages = 1
  Patience = 5
INVARIANTS
  AtMostOneWorks
  CompletedIsGone
  SweepsGetOn
PROPERTIES
  OthersUntouched
