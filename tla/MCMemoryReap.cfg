SPECIFICATION MemSpec
CONSTANTS
  Thread = {h1, h2}
  Task = {t1}
  Val = {v}
  None = None
  Never = Never
  Ttl <- MCTtl
  PlainSet = FALSE
INVARIANTS OneGrant
