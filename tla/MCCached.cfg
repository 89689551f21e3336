SPECIFICATION CachedSpec
CONSTANTS
  Proc = {p1, p2, p3}
  Layers = 2
  Ttl <- MCTtl
  Never = Never
  MaxStall = 1
  MaxAge = 6
SYMMETRY ProcSymmetry
INVARIANTS CachedTypeOK StalenessBounded NoneRecomputed ResetClears
