SPECIFICATION DecSpec
CONSTANTS
  custom = custom
  cache = cache
  Custom = {custom}
  OwnCache = {cache}
  None = None
  Setup <- MCSetup
  Proc <- MCTwo
  Side <- MCSides
  Guard <- MCGuard
  Kind <- MCKind
  Raising = {"r"}
  Patient = {"a"}
  Instance = {"o"}
  Unbound = {"q"}
  MaxSize = 1
  Stack <- MCStacks
  Results = {"value", "Exception", "LockError", "PoolFullError"}
  Ghosts = {ghost}
INVARIANTS DecTypeOK Unwound GuardsLimit ResultFaithful LockedWhileRunning
PROPERTIES ObeysGuards
