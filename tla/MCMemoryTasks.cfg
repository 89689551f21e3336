SPECIFICATION MemSpec
CONSTANTS
  Thread = {}
  Task = {t1, t2, t3}
  Val = {v1, v2}
  None = None
  Never = Never
  Ttl <- MCTtl
  PlainSet = TRUE
SYMMETRY TaskSymmetry
INVARIANTS OneGrant
PROPERTIES ImplementsStore
