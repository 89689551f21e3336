SPECIFICATION PoolSpec
CONSTANTS
  Proc = {p1, p2}
  Calls <- MCCallsLong
  Never = Never
  Nobody = Nobody
  NoCall = NoCall
  Namesake = {p1, p2}
  MaxSize = 1
  SlotExp = 1
  SlotId <- MCSlots
  NoSlot = NoSlot
  MaxDepth = 1
  MaxStall = 1
  MaxFaults = 0
SYMMETRY ProcSymmetry
CONSTRAINT Untainted
INVARIANTS PoolTypeOK Capacity RunningSlotsSaved SavedWithinMaxSize
PROPERTIES SizeTruthful FullMeansFull ImplementsSlotPool PoolImplementsGuarded
