SPECIFICATION Spec
SYMMETRY Symmetry
CHECK_DEADLOCK FALSE
CONSTANTS
  None = None
  Generations = {g1, g2, g3}
  Savers = {s1, s2}
  Readers = {r1}
  Items = {d1, d2}
INVARIANTS
  PointerIsComplete
  LoadedIsWhole
  UnpublishedIsCollectable
