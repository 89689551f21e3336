------------------------------- MODULE MCLock -------------------------------
(* Lock.tla for TLC: three processes (or two, for liveness), an impatient   *)
(* caller, one that waits two units, one that waits for ever, leases of     *)
(* one or two units or without end.                                         *)
EXTENDS Lock, TLC

Args(n, t, e) == [nowait |-> n, timeout |-> t, exp |-> e]

MCCalls == {Args(TRUE, Never, 2), Args(FALSE, 1, 1), Args(FALSE, Never, 2),
            Args(FALSE, 1, Never)}

ProcSymmetry == Permutations(Proc)
=============================================================================
