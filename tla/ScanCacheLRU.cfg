SPECIFICATION Spec
CONSTANTS
  Keys = {k1, k2, k3}
  Values = {v1, v2}
  Sizes = {0, 1, 2, 3}
  MaxCalls = 6
SYMMETRY KeySymmetry
INVARIANTS
  CacheConsistent
  HoldsMostRecent
