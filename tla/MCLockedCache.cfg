SPECIFICATION LCSpec
CONSTANTS
  Proc = {p1, p2}
  Calls <- MCCalls
  Never = Never
  Nobody = Nobody
  NoCall = NoCall
  Layers = 2
  Ttl <- MCTtl
  MaxStall = 1
  MaxAge = 6
SYMMETRY ProcSymmetry
INVARIANTS LCTypeOK OneVersion
PROPERTY ComputesOnlyWhenAbsent
