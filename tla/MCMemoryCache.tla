---------------------------- MODULE MCMemoryCache ----------------------------
(* MemoryCache.tla for TLC: the ttls of each run.                            *)
EXTENDS MemoryCache, TLC

MCTtl == {1, 2, Never}

ThreadSymmetry == Permutations(Thread)

TaskSymmetry == Permutations(Task) \cup Permutations(Val)
=============================================================================
