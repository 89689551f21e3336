------------------------------- MODULE MCPool -------------------------------
(* Pool.tla for TLC: the meta-lock is taken with a timeout of one unit and  *)
(* a lease of two (the defaults are 5 to 30 s and 30 s) or without end.     *)
EXTENDS Pool

MetaCall(e) == [nowait |-> FALSE, timeout |-> 1, exp |-> e]

MCCallsForever == {MetaCall(Never)}

MCCallsLong == {MetaCall(2)}

MCSlots == 1..9

\* Capacity, RunningSlotsSaved, SizeTruthful and FullMeansFull say nothing of a
\* tainted state, and a tainted state stays tainted.
Untainted == ~tainted

ProcSymmetry == Permutations(Proc)
=============================================================================
