SPECIFICATION UndisturbedSpec
CONSTANTS
  Proc = {p1, p2, p3}
  Calls <- MCCalls
  Never = Never
  Nobody = Nobody
  NoCall = NoCall
INVARIANTS UnexpiredHoldersExclude
