SPECIFICATION FairSpec
CHECK_DEADLOCK FALSE
CONSTANTS
  both = both
  second = second
  first = first
  a = a
  b = b
  i1 = i1
  None = None
  Rows <- MCRows
  Devices = {a, b}
  Target <- MCTarget
  Runs = {both}
  Reports <- MCRepeatA
  Incidents = {i1}
  Clients = {c1}
  PerTick = 1
  MaxCommands = 2
PROPERTIES
  ClosingEndsRun
  RunsSettle
