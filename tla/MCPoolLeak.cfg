SPECIFICATION UndisturbedPoolSpec
CONSTANTS
  Proc = {p1, p2}
  Calls <- MCCallsLong
  Never = Never
  Nobody = Nobody
  NoCall = NoCall
  Namesake = {}
  MaxSize = 1
  SlotExp = 2
  SlotId <- MCSlots
  NoSlot = NoSlot
  MaxDepth = 1
  MaxStall = 1
  MaxFaults = 0
INVARIANTS ExitReleases
