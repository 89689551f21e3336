---------------------------- MODULE MCDecorators ----------------------------
(* Decorators.tla for TLC: a sync function under a pool of the global client *)
(* and a lock, and an async one under a once of a Cachify instance, a pool   *)
(* the program made itself and the same lock.  The Cachify instance has a    *)
(* custom sync client only; the global client is made for a MemoryCache, and *)
(* then again with another backend for the sync side.                        *)
EXTENDS Decorators

CONSTANTS custom, cache

MCGuard == {"a", "o", "q", "r"}

MCKind == [a |-> "lock", o |-> "once", q |-> "pooled", r |-> "pooled"]

MCStacks == <<<<"r", "a">>, <<"o", "q", "a">>>>

MCLockOnly == <<<<"a">>, <<"a">>>>

MCTwo == DOMAIN MCStacks

MCSides == <<"sync", "async">>

Clients(s, a) == [sync |-> s, async |-> a]

MCSetup ==
  <<Clients(custom, None), Clients(cache, None), Clients(custom, cache)>>
=============================================================================
