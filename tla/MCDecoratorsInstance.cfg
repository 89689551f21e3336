SPECIFICATION DecSpec
CONSTANTS
  custom = custom
  cache = cache
  Custom = {custom}
  OwnCache = {cache}
  None = None
  Setup <- MCSetup
  Proc <- MCTwo
  Side <- MCSides
  Guard <- MCGuard
  Kind <- MCKind
  Raising = {}
  Patient = {"a"}
  Instance = {"a"}
  Unbound = {}
  MaxSize = 1
  Stack <- MCLockOnly
  Results = {"value", "Exception", "LockError"}
  Ghosts = {ghost}
INVARIANTS LockedWhileRunning
