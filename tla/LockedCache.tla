---------------------------- MODULE LockedCache -----------------------------
(***************************************************************************)
(* A stack that lets one caller compute at a time: the decorator           *)
(* `lock(...)' (_lock.py) over layers of `@cached', for one set of         *)
(* arguments.  Its calls are those of Lock.tla whose body is a call of     *)
(* Cached.tla, so every step is one of Lock joined with what it means for  *)
(* the cache.  The two meet in one more place: `release' of the decorator  *)
(* is `reset' with another key (_lock.py:190,222), and `reset' goes on to  *)
(* the `reset' of what the decorator wraps, which is the cache's.          *)
(*                                                                         *)
(* functools.wraps copies `reset' of the cached function to the wrapper of *)
(* the lock, so f.reset() is there too and does not touch the lock.        *)
(***************************************************************************)
EXTENDS Lock

CONSTANTS Layers, Ttl, MaxStall, MaxAge     \* see Cached.tla

VARIABLES
  cache, at, layer, res, stall,     \* of Cached; `at' is its pc
  resetter, carried, cleared,
  mixed     \* breached since no layer had anything to find (auxiliary)

cacheVars == <<cache, at, layer, res, stall, resetter, carried, cleared>>
lcVars == <<lockVars, cacheVars, mixed>>

C == INSTANCE Cached WITH pc <- at

ASSUME LockedCacheAssumption ==
  /\ Layers \in Nat \ {0} /\ MaxStall \in Nat /\ MaxAge \in Nat
  /\ Ttl \in [C!Layer -> Duration \ {0}]

\* The wrapper of the lock runs the cached function as its body, and a process
\* in a reset is in no call.
Placed ==
  \A p \in Proc :
    /\ at[p] \in {"get", "call", "set"} => pc[p] = "inside"
    /\ pc[p] = "inside" => at[p] \in {"get", "call", "set"}
    /\ at[p] = "reset" => pc[p] = "idle"

LCTypeOK == LockTypeOK /\ C!CachedTypeOK /\ mixed \in BOOLEAN /\ Placed

LCInit == LockInit /\ C!CachedInit /\ mixed = FALSE
-----------------------------------------------------------------------------
\* Up to its `set nx' and from the end of its body on, a call of the decorator
\* is one of the lock.
LockOnly(p) ==
  /\ \/ at[p] = "idle" /\ \E c \in Calls : Start(p, c)
     \/ Refuse(p) \/ Raise(p) \/ Sleep(p) \/ Wake(p) \/ Release(p)
  /\ UNCHANGED cacheVars

\* Inside, the body is a call of the cached function.
Enter(p) == Acquire(p) /\ C!StartCall(p)

Work(p) ==
  C!Compute(p) \/ \E l \in C!Layer : C!Hit(p, l) \/ C!Miss(p, l) \/ C!Set(p, l)

\* Mutant: the async wrapper returns the coroutine without awaiting it.
Body_NotAwaited(p) ==
  /\ Work(p)
  /\ EndBody(p) \/ (pc[p] # "inside" /\ UNCHANGED lockVars)

Body(p) == Work(p) /\ at'[p] # "idle" /\ UNCHANGED lockVars

\* The outermost layer returns, and __exit__ runs.
Return(p) == Work(p) /\ at'[p] = "idle" /\ EndBody(p)

\* Mutant: __exit__ does not run when the body raises.
Fail_NoExit(p) == pc[p] = "inside" /\ C!Abandon(p) /\ UNCHANGED lockVars

\* The function raises, or a backend call of the cache does.
Fail(p) == pc[p] = "inside" /\ C!Abandon(p) /\ EndBody(p)
-----------------------------------------------------------------------------
\* f.release(): the key of the lock is deleted, then the layers are reset.
release(p) == pc[p] = "idle" /\ ForceRelease /\ C!StartReset(p)

\* f.reset(): the layers are reset, whoever has the lock.
reset(p) == pc[p] = "idle" /\ C!StartReset(p) /\ UNCHANGED lockVars

ResetStep(p) ==
  /\ at[p] = "reset"
  /\ \/ \E l \in C!Layer : C!ResetLayer(p, l)
     \/ C!Abandon(p)
  /\ UNCHANGED lockVars

\* A call dies anywhere: while it waits, in its body, before its delete.
Die(p) ==
  /\ Crash(p)
  /\ IF at[p] = "idle" THEN UNCHANGED cacheVars ELSE C!Abandon(p)

\* Another lock object on the same key is released.
ReleaseElsewhere == ForceRelease /\ UNCHANGED cacheVars

Time == Tick /\ C!Tick
-----------------------------------------------------------------------------
Act(p) == LockOnly(p) \/ Enter(p) \/ Body(p) \/ Return(p) \/ Fail(p)
            \/ release(p) \/ reset(p) \/ ResetStep(p) \/ Die(p)

LCStep == (\E p \in Proc : Act(p)) \/ ReleaseElsewhere \/ Time

LCNext ==
  /\ LCStep
  /\ mixed' = (breach' \/ (mixed /\ \E l \in C!Layer : C!Found(l)'))

LCSpec == LCInit /\ [][LCNext]_lcVars
-----------------------------------------------------------------------------
(***************************************************************************)
(* No run of the function ends while a layer has its value: a caller that  *)
(* waited for the lock finds what the one before it has computed, however  *)
(* resets, releases, expiry and deaths interleave.  Only a breach of the   *)
(* lock (a lease outlived, a release in the middle of a call) makes two    *)
(* callers compute side by side.                                           *)
(***************************************************************************)
ComputesOnlyWhenAbsent ==
  [][\A p \in Proc : ~breach /\ C!Compute(p) =>
       \A l \in C!Layer : ~C!Found(l)]_lcVars

InHand(p) == at[p] = "set" /\ ~res[p].none

(***************************************************************************)
(* The layers never disagree: what can be found in them, and what the      *)
(* caller inside has in hand, comes from one run of the function, unless   *)
(* the lock was breached since they were last all empty.  Without the lock *)
(* a slow `set' of one caller mixes with those of another.                 *)
(***************************************************************************)
OneVersion ==
  ~mixed => \E v \in C!Value :
    /\ \A l \in C!Layer : C!Found(l) => cache[l].val = v
    /\ \A p \in Proc : InHand(p) => res[p] = v
=============================================================================
