SPECIFICATION Spec
CONSTANTS
  Requests = {r1, r2, r3, r4, r5}
  Keys = {k1, k2}
  Limit = 1
  WindowSecs = 2
  MaxBuckets = 1
  MaxDelay = 1
  MaxTime = 6
SYMMETRY Symmetry
INVARIANTS
  TypeOK
  LimitIsExact
  BurstBounded
  MapBoundedByTraffic
