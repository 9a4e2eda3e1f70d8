SPECIFICATION UnfailingSpec
CHECK_DEADLOCK FALSE
CONSTANTS
  both = both
  second = second
  first = first
  a = a
  b = b
  i1 = i1
  None = None
  Rows <- MCRows
  Devices = {a, b}
  Target <- MCTarget
  Runs = {first, second}
  Reports <- MCOnce
  Incidents = {i1}
  Clients = {c1}
  PerTick = 2
  MaxCommands = 0
INVARIANTS
  PausedIsUnfinished
