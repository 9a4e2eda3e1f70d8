SPECIFICATION MCSpec
SYMMETRY Symmetry
CONSTANTS
  e1 = e1
  e2 = e2
  e3 = e3
  r1 = r1
  None = None
  Senders = {s1, s2}
  Closers = {c1, c2}
  Events = {e1, e2, e3}
  Incidents = {i1, i2}
  Routes = {r1}
  RouteOf <- MCRouteOf
  Occurred <- MCOccurred
  Attempts = 2
  MaxTime = 2
  MaxCount = 1
  MaxNotes = 1
INVARIANTS
  RouteNamesOpenIncident
  ResolvedAsConfirmed
  EngineInv
  NoStaleAlert
PROPERTIES
  BoundOnceToOpen
  ImplementsAssignment
