SPECIFICATION MemSpec
CONSTANTS
  Thread = {h1, h2, h3}
  Task = {}
  Val = {v}
  None = None
  Never = Never
  Ttl <- MCTtl
  PlainSet = FALSE
SYMMETRY ThreadSymmetry
INVARIANTS MemTypeOK OneGrantUnlessRaced
