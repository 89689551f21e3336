SPECIFICATION FairLockSpec
CONSTANTS
  Proc = {p1, p2}
  Calls <- MCCalls
  Never = Never
  Nobody = Nobody
  NoCall = NoCall
INVARIANTS LockTypeOK HolderProtected MutualExclusion
PROPERTIES ImplementsExclusiveUse ImplementsGuarded WaitersAdvance WaiterResolves
