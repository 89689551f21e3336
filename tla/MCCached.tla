------------------------------ MODULE MCCached ------------------------------
(* Cached.tla for TLC: two layers, the outer one with the shorter ttl.       *)
EXTENDS Cached, TLC

MCTtl == <<1, 2>>

ProcSymmetry == Permutations(Proc)
=============================================================================
