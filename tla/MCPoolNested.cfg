SPECIFICATION FairPoolSpec
CONSTANTS
  Proc = {p1, p2}
  Calls <- MCCallsForever
  Never = Never
  Nobody = Nobody
  NoCall = NoCall
  Namesake = {}
  MaxSize = 2
  SlotExp = Never
  SlotId <- MCSlots
  NoSlot = NoSlot
  MaxDepth = 2
  MaxStall = 1
  MaxFaults = 1
INVARIANTS SlotsAccounted
PROPERTIES OperationsAdvance OperationsEnd
