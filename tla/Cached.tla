------------------------------- MODULE Cached -------------------------------
(***************************************************************************)
(* `@cached' (_cached.py), stacked in Layers layers over one function      *)
(* (docs/reference/cached.md, multi-layer caching), for one set of         *)
(* arguments: calls that hit or miss layer after layer, compute and store  *)
(* on the way back, and `reset' (_helpers.py), which clears the layers one *)
(* after the other.  A get, set or delete of one layer is one step; other  *)
(* processes run in between.                                               *)
(*                                                                         *)
(* Of a value only its history matters: how long ago it was computed and   *)
(* whether that was before the last reset was started; and whether it is   *)
(* None, which `get' also returns when there is no entry.                  *)
(***************************************************************************)
EXTENDS Timers, FiniteSets

CONSTANTS Proc,
          Layers,       \* number of stacked decorators, 1 the outermost
          Ttl,          \* the ttl of each layer
          MaxStall,     \* bound: time from having a value to storing it
          MaxAge        \* bound: ages are told apart up to here

Layer == 1..Layers

ASSUME CachedAssumption ==
  /\ Layers \in Nat \ {0} /\ MaxStall \in Nat /\ MaxAge \in Nat
  /\ Ttl \in [Layer -> Duration \ {0}]

VARIABLES
  cache,    \* the entry of each layer
  pc,       \* where each process is
  layer,    \* the layer it is at
  res,      \* the value it has in hand
  stall,    \* how long it has had that value in hand
  resetter, \* who started the last reset; {} when it is over (auxiliary)
  carried,  \* a call had an older value in hand during that reset (auxiliary)
  cleared   \* the last reset is over and nothing was carried (auxiliary)

callVars == <<pc, layer, res, stall>>
resetVars == <<resetter, carried, cleared>>
vars == <<cache, callVars, resetVars>>

Value == [old: BOOLEAN, age: 0..MaxAge, none: BOOLEAN]
Entry == [val: Value, left: Duration]

New(isNone) == [old |-> FALSE, age |-> 0, none |-> isNone]
NoValue == New(FALSE)
NoEntry == [val |-> NoValue, left |-> 0]

CachedTypeOK ==
  /\ cache \in [Layer -> Entry]
  /\ pc \in [Proc -> {"idle", "get", "call", "set", "reset"}]
  /\ layer \in [Proc -> Layer]
  /\ res \in [Proc -> Value]
  /\ stall \in [Proc -> 0..MaxStall]
  /\ resetter \in SUBSET Proc
  /\ carried \in BOOLEAN /\ cleared \in BOOLEAN
  /\ \A l \in Layer : cache[l].left = 0 => cache[l] = NoEntry

CachedInit ==
  /\ cache = [l \in Layer |-> NoEntry]
  /\ pc = [p \in Proc |-> "idle"]
  /\ layer = [p \in Proc |-> 1]
  /\ res = [p \in Proc |-> NoValue]
  /\ stall = [p \in Proc |-> 0]
  /\ resetter = {} /\ carried = FALSE /\ cleared = FALSE
-----------------------------------------------------------------------------
At(p, where, l) == pc[p] = where /\ layer[p] = l

Goto(p, where, l) ==
  /\ pc' = [pc EXCEPT ![p] = where]
  /\ layer' = [layer EXCEPT ![p] = l]

Has(p, v) ==
  /\ res' = [res EXCEPT ![p] = v]
  /\ stall' = [stall EXCEPT ![p] = 0]

\* The wrapper of layer l has value v and returns it: to the wrapper around
\* it, which will store it, or to the caller.
ReturnFrom(p, l, v) ==
  IF l = 1 THEN Goto(p, "idle", 1) /\ Has(p, NoValue)
           ELSE Goto(p, "set", l - 1) /\ Has(p, v)

StartCall(p) ==
  /\ pc[p] = "idle"
  /\ Goto(p, "get", 1)
  /\ UNCHANGED <<cache, res, stall, resetVars>>

\* Mutant: whatever is stored is found.
Found_Any(l) == cache[l].left # 0

\* `get' returns something else than None.
Found(l) == cache[l].left # 0 /\ ~cache[l].val.none

\* Mutant: a hit renews the ttl.
Hit_Renews(p, l) ==
  /\ At(p, "get", l)
  /\ Found(l)
  /\ cache' = [cache EXCEPT ![l].left = Ttl[l]]
  /\ ReturnFrom(p, l, cache[l].val)
  /\ carried' = (carried \/ (l > 1 /\ cache[l].val.old))
  /\ UNCHANGED <<resetter, cleared>>

Hit(p, l) ==
  /\ At(p, "get", l)
  /\ Found(l)
  /\ ReturnFrom(p, l, cache[l].val)
  /\ carried' = (carried \/ (l > 1 /\ cache[l].val.old))
  /\ UNCHANGED <<cache, resetter, cleared>>

\* Mutant: the innermost layer calls one further.
Miss_NoFunction(p, l) ==
  /\ At(p, "get", l)
  /\ ~Found(l)
  /\ Goto(p, "get", l + 1)
  /\ UNCHANGED <<cache, res, stall, resetVars>>

\* A miss calls what the decorator wraps: the next layer or the function.
Miss(p, l) ==
  /\ At(p, "get", l)
  /\ ~Found(l)
  /\ IF l < Layers THEN Goto(p, "get", l + 1) ELSE Goto(p, "call", l)
  /\ UNCHANGED <<cache, res, stall, resetVars>>

\* The function returns: its value is as new as that, also if it started before
\* a reset.
Compute(p) ==
  /\ pc[p] = "call"
  /\ Goto(p, "set", layer[p])
  /\ \E isNone \in BOOLEAN : Has(p, New(isNone))
  /\ UNCHANGED <<cache, resetVars>>

\* The value is stored unseen: whatever became of the entry since the miss.
Set(p, l) ==
  /\ At(p, "set", l)
  /\ cache' = [cache EXCEPT ![l] = [val |-> res[p], left |-> Ttl[l]]]
  /\ ReturnFrom(p, l, res[p])
  /\ UNCHANGED resetVars

\* The function raises, or the process dies or is cancelled, in a call or in a
\* reset; nothing more is stored or deleted.
Abandon(p) ==
  /\ pc[p] # "idle"
  /\ Goto(p, "idle", 1)
  /\ Has(p, NoValue)
  /\ resetter' = resetter \ {p}
  /\ UNCHANGED <<cache, carried, cleared>>
-----------------------------------------------------------------------------
Old(v) == [v EXCEPT !.old = TRUE]

\* reset() starts: from here on what exists is older than the reset.
StartReset(p) ==
  /\ pc[p] = "idle"
  /\ Goto(p, "reset", 1)
  /\ cache' = [l \in Layer |-> IF cache[l].left = 0 THEN NoEntry
                               ELSE [cache[l] EXCEPT !.val = Old(@)]]
  /\ res' = [q \in Proc |-> IF pc[q] = "set" THEN Old(res[q]) ELSE res[q]]
  /\ resetter' = {p}
  /\ carried' = (\E q \in Proc : pc[q] = "set")
  /\ cleared' = FALSE
  /\ UNCHANGED stall

\* Mutant: reset does not call the reset of what it wraps.
ResetLayer_OwnOnly(p, l) ==
  /\ At(p, "reset", l)
  /\ cache' = [cache EXCEPT ![l] = NoEntry]
  /\ Goto(p, "idle", 1)
  /\ resetter' = resetter \ {p}
  /\ cleared' = IF p \in resetter THEN ~carried ELSE cleared
  /\ UNCHANGED <<res, stall, carried>>

\* reset deletes its own key, then calls the reset of what it wraps.
ResetLayer(p, l) ==
  /\ At(p, "reset", l)
  /\ cache' = [cache EXCEPT ![l] = NoEntry]
  /\ IF l < Layers
     THEN Goto(p, "reset", l + 1) /\ UNCHANGED <<resetter, cleared>>
     ELSE /\ Goto(p, "idle", 1)
          /\ resetter' = resetter \ {p}
          /\ cleared' = IF p \in resetter THEN ~carried ELSE cleared
  /\ UNCHANGED <<res, stall, carried>>
-----------------------------------------------------------------------------
Older(v) == [v EXCEPT !.age = IF @ < MaxAge THEN @ + 1 ELSE @]

Tick ==
  /\ \A p \in Proc : pc[p] = "set" => stall[p] < MaxStall
  /\ cache' = [l \in Layer |->
       IF Elapse(cache[l].left, 0) = 0 THEN NoEntry
       ELSE [val |-> Older(cache[l].val), left |-> Elapse(cache[l].left, 0)]]
  /\ res' = [p \in Proc |-> IF pc[p] = "set" THEN Older(res[p]) ELSE res[p]]
  /\ stall' = [p \in Proc |-> IF pc[p] = "set" THEN stall[p] + 1 ELSE 0]
  /\ UNCHANGED <<pc, layer, resetVars>>

\* Nothing fails.
CachedUndisturbed ==
  \/ \E p \in Proc :
       \/ StartCall(p) \/ Compute(p) \/ StartReset(p)
       \/ \E l \in Layer : Hit(p, l) \/ Miss(p, l) \/ Set(p, l) \/ ResetLayer(p, l)
  \/ Tick

CachedNext == CachedUndisturbed \/ \E p \in Proc : Abandon(p)

CachedSpec == CachedInit /\ [][CachedNext]_vars

UndisturbedCachedSpec == CachedInit /\ [][CachedUndisturbed]_vars
-----------------------------------------------------------------------------
\* No ttl from layer l inwards is infinite.
Expires(l) == \A k \in l..Layers : Ttl[k] # Never

\* What layer l can add up to: its own ttl and those of the layers under it,
\* and the time from having a value to storing it, once per layer.
Staleness[l \in 1..(Layers + 1)] ==
  IF l > Layers THEN 0 ELSE Ttl[l] + MaxStall + Staleness[l + 1]

(***************************************************************************)
(* A value of layer l is gone at most the sum of the ttls from there       *)
(* inwards after it was computed (plus the delays of the stores), however  *)
(* calls, resets and expiries of the layers interleave: a hit does not     *)
(* renew a value and no layer outlives its own ttl.                        *)
(***************************************************************************)
StalenessBounded ==
  \A l \in Layer : cache[l].left # 0 /\ Expires(l) =>
    cache[l].val.age + cache[l].left <= Staleness[l]

(***************************************************************************)
(* None is never served from a cache: whoever has a None in hand, in       *)
(* whatever layer, has it from a run of the function in this very call, so *)
(* it is only as old as the stores on the way took, although every layer   *)
(* has stored it for its ttl.                                              *)
(***************************************************************************)
NoneRecomputed ==
  \A p \in Proc : pc[p] = "set" /\ res[p].none =>
    res[p].age <= MaxStall * (Layers + 1 - layer[p])

(***************************************************************************)
(* A reset that is over has removed every older value for good, unless a   *)
(* call had one in hand while it ran (from before its start, or from an    *)
(* inner layer not yet cleared): calls that only miss and compute do not   *)
(* disturb it.                                                             *)
(***************************************************************************)
ResetClears ==
  cleared => /\ \A l \in Layer : ~cache[l].val.old
             /\ \A p \in Proc : ~res[p].old
=============================================================================
