SPECIFICATION MCSpec
SYMMETRY Symmetry
CHECK_DEADLOCK FALSE
CONSTANTS
  both = both
  second = second
  first = first
  a = a
  b = b
  i1 = i1
  None = None
  Rows <- MCRows
  Devices = {a, b}
  Target <- MCTarget
  i2 = i2
  Runs = {both, second, first}
  Reports <- MCRepeatB
  Incidents = {i1, i2}
  Clients = {c1, c2}
  PerTick = 2
  MaxCommands = 2
INVARIANTS
  LocksAreExact
  ReportsInOrder
  OneIncidentPerRow
  OneReportAfterTheEnd
  PurgedIsForgotten
PROPERTIES
  EndedStaysEnded
