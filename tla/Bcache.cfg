SPECIFICATION Spec
CONSTANTS
  p1 = p1
  p2 = p2
  p3 = p3
  b1 = b1
  b2 = b2
  b3 = b3
  b4 = b4
  v0 = v0
  v1 = v1
  NBUF = 3
  Procs = {p1, p2}
  Blocks = {b1, b2, b3, b4}
  Vals = {v0, v1}
  Nested <- MCNested
  None = None
  UINT = 8
  MaxPins = 1
SYMMETRY Symmetry
INVARIANTS ReadsLatest RefcntExact
PROPERTIES PanicsOnlyFull
