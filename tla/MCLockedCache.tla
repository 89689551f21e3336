---------------------------- MODULE MCLockedCache ---------------------------
(* LockedCache.tla for TLC: two layers, the outer one with the shorter ttl,  *)
(* under a lock with a lease of two units or none.                           *)
EXTENDS LockedCache, TLC

MCCalls == {[nowait |-> FALSE, timeout |-> Never, exp |-> 2],
            [nowait |-> TRUE, timeout |-> Never, exp |-> Never]}

MCTtl == <<1, 2>>

ProcSymmetry == Permutations(Proc)
=============================================================================
