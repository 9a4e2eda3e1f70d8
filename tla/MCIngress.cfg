SPECIFICATION Spec
SYMMETRY Symmetry
CONSTANTS
  r1 = r1
  None = None
  Automatic = Automatic
  Workers = {w1, w2}
  Events = {e1, e2}
  Incidents = {i1, i2}
  Routes = {r1}
  RouteOf <- MCRouteOf
  DefaultLimit = 1
  MaxLimit = 2
INVARIANTS
  ChargedOnce
  PublishedIsPaid
  CountIsTimeline
  NoResurrection
  AcceptedIsKept
PROPERTIES
  ClosedIsFrozen
  ReceiptMovesForward
