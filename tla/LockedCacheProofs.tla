------------------------- MODULE LockedCacheProofs --------------------------
(***************************************************************************)
(* Proofs about LockedCache.tla for any processes, arguments, layers and   *)
(* ttls.  A behaviour of the stack is one of Lock and one of Cached, so    *)
(* what LockProofs and CachedProofs prove holds of it.  What the stack     *)
(* adds rests on mutual exclusion: under an unbreached lock nobody stores  *)
(* into a layer that the caller inside has found empty.                    *)
(***************************************************************************)
EXTENDS LockedCache, LockProofs

CP == INSTANCE CachedProofs WITH pc <- at

Working == {"get", "call", "set"}

LEMMA Assumptions == CP!NeverAssumption /\ CP!CachedAssumption
BY NeverAssumption, LockedCacheAssumption
   DEF CP!NeverAssumption, CP!CachedAssumption, CP!Layer, C!Layer,
       CP!Duration, Duration

(* CachedProofs is about a Cached of its own, which says what C says. *)
LEMMA SameConstants ==
  /\ C!Layer = CP!Layer /\ C!Value = CP!Value /\ C!Entry = CP!Entry
  /\ C!NoValue = CP!NoValue /\ C!NoEntry = CP!NoEntry
BY DEF C!Layer, C!Value, C!Entry, C!New, C!NoValue, C!NoEntry, C!Duration,
       CP!Layer, CP!Value, CP!Entry, CP!New, CP!NoValue, CP!NoEntry, CP!Duration

LEMMA SameType == CP!CachedTypeOK <=> C!CachedTypeOK
BY SameConstants DEF C!CachedTypeOK, CP!CachedTypeOK

LEMMA SameInit == C!CachedInit => CP!CachedInit
BY SameConstants DEF C!CachedInit, CP!CachedInit

LEMMA SameNext == [C!CachedNext]_(C!vars) => [CP!CachedNext]_(CP!vars)
<1>1. C!CachedNext => CP!CachedNext
  BY DEF C!CachedNext, C!CachedUndisturbed, C!Hit, C!Miss, C!Set, C!ResetLayer,
         C!StartCall, C!Compute, C!StartReset, C!Tick, C!Abandon, C!At, C!Goto,
         C!Has, C!ReturnFrom, C!Found, C!Old, C!Older, C!Elapse, C!resetVars,
         C!New, C!NoValue, C!NoEntry, C!Layer,
         CP!CachedNext, CP!CachedUndisturbed, CP!Hit, CP!Miss, CP!Set,
         CP!ResetLayer, CP!StartCall, CP!Compute, CP!StartReset, CP!Tick,
         CP!Abandon, CP!At, CP!Goto, CP!Has, CP!ReturnFrom, CP!Found, CP!Old,
         CP!Older, CP!Elapse, CP!resetVars, CP!New, CP!NoValue, CP!NoEntry,
         CP!Layer
<1>2. C!vars = CP!vars
  BY DEF C!vars, C!callVars, C!resetVars, CP!vars, CP!callVars, CP!resetVars
<1>3. C!vars' = CP!vars'
  BY DEF C!vars, C!callVars, C!resetVars, CP!vars, CP!callVars, CP!resetVars
<1> QED
  BY <1>1, <1>2, <1>3
-----------------------------------------------------------------------------
LEMMA WorkIsCached ==
  ASSUME NEW p \in Proc, Work(p)
  PROVE  C!CachedNext
BY DEF Work, C!CachedNext, C!CachedUndisturbed

LEMMA StepIsLock == LCStep => [LockNext]_lockVars
<1>1. ASSUME NEW p \in Proc, Act(p)
      PROVE  [LockNext]_lockVars
  <2>1. CASE LockOnly(p)
    BY <2>1 DEF LockOnly, LockNext, Undisturbed, Step
  <2>2. CASE Enter(p)
    BY <2>2 DEF Enter, LockNext, Undisturbed, Step
  <2>3. CASE Body(p) \/ reset(p) \/ ResetStep(p)
    BY <2>3 DEF Body, reset, ResetStep
  <2>4. CASE Return(p) \/ Fail(p)
    BY <2>4 DEF Return, Fail, LockNext, Undisturbed, Step
  <2>5. CASE release(p)
    BY <2>5 DEF release, LockNext
  <2>6. CASE Die(p)
    BY <2>6 DEF Die, LockNext
  <2> QED
    BY <1>1, <2>1, <2>2, <2>3, <2>4, <2>5, <2>6 DEF Act
<1>2. CASE ReleaseElsewhere
  BY <1>2 DEF ReleaseElsewhere, LockNext
<1>3. CASE Time
  BY <1>3 DEF Time, LockNext, Undisturbed
<1> QED
  BY <1>1, <1>2, <1>3 DEF LCStep

LEMMA StepIsCached == LCStep => [C!CachedNext]_(C!vars)
<1>1. cacheVars' = cacheVars => C!vars' = C!vars
  BY DEF cacheVars, C!vars, C!callVars, C!resetVars
<1>2. ASSUME NEW p \in Proc, Act(p)
      PROVE  [C!CachedNext]_(C!vars)
  <2>1. CASE LockOnly(p)
    BY <1>1, <2>1 DEF LockOnly
  <2>2. CASE Enter(p)
    BY <2>2 DEF Enter, C!CachedNext, C!CachedUndisturbed
  <2>3. CASE Body(p) \/ Return(p)
    BY <2>3, WorkIsCached DEF Body, Return
  <2>4. CASE Fail(p)
    BY <2>4 DEF Fail, C!CachedNext
  <2>5. CASE release(p) \/ reset(p)
    BY <2>5 DEF release, reset, C!CachedNext, C!CachedUndisturbed
  <2>6. CASE ResetStep(p)
    BY <2>6 DEF ResetStep, C!CachedNext, C!CachedUndisturbed
  <2>7. CASE Die(p)
    BY <1>1, <2>7 DEF Die, C!CachedNext
  <2> QED
    BY <1>2, <2>1, <2>2, <2>3, <2>4, <2>5, <2>6, <2>7 DEF Act
<1>3. CASE ReleaseElsewhere
  BY <1>1, <1>3 DEF ReleaseElsewhere
<1>4. CASE Time
  BY <1>4 DEF Time, C!CachedNext, C!CachedUndisturbed
<1> QED
  BY <1>2, <1>3, <1>4 DEF LCStep

(* The lock of the stack is the lock of Lock.tla: every theorem about it     *)
(* holds under the decorator.                                                *)
THEOREM StackIsLock == LCSpec => LockSpec
<1>1. LCInit => LockInit
  BY DEF LCInit
<1>2. [LCNext]_lcVars => [LockNext]_lockVars
  BY StepIsLock DEF LCNext, lcVars, lockVars
<1> QED
  BY <1>1, <1>2, PTL DEF LCSpec, LockSpec

(* The cache of the stack is the cache of Cached.tla: the lock and release   *)
(* do nothing to it that calls and resets could not do.                      *)
THEOREM StackIsCached == LCSpec => C!CachedSpec
<1>1. LCInit => C!CachedInit
  BY DEF LCInit
<1>2. lcVars' = lcVars => C!vars' = C!vars
  BY DEF lcVars, cacheVars, C!vars, C!callVars, C!resetVars
<1>3. [LCNext]_lcVars => [C!CachedNext]_(C!vars)
  BY <1>2, StepIsCached DEF LCNext
<1> QED
  BY <1>1, <1>3, PTL DEF LCSpec, C!CachedSpec

LEMMA CachedTypes == LCSpec => []C!CachedTypeOK
<1>1. C!CachedSpec => CP!CachedSpec
  BY SameInit, SameNext, PTL DEF C!CachedSpec, CP!CachedSpec
<1>2. CP!CachedSpec => []CP!CachedTypeOK
  BY Assumptions, CP!CachedTypeCorrect DEF CP!NeverAssumption, CP!CachedAssumption
<1> QED
  BY <1>1, <1>2, StackIsCached, SameType, PTL
-----------------------------------------------------------------------------
(* A step of the body moves the caller within it or out of it. *)
LEMMA WorkMoves ==
  ASSUME C!CachedTypeOK, NEW p \in Proc, Work(p)
  PROVE  /\ at[p] \in Working
         /\ at' = [at EXCEPT ![p] = at'[p]]
         /\ at'[p] \in Working \cup {"idle"}
<1>1. at \in [Proc -> {"idle", "get", "call", "set", "reset"}]
  BY DEF C!CachedTypeOK
<1>2. CASE C!Compute(p)
  BY <1>1, <1>2 DEF C!Compute, C!Goto, Working
<1>3. ASSUME NEW l \in C!Layer, C!Hit(p, l) \/ C!Set(p, l)
      PROVE  /\ at[p] \in Working
             /\ \E w \in {"idle", "set"} : at' = [at EXCEPT ![p] = w]
  BY <1>3 DEF C!Hit, C!Set, C!At, C!ReturnFrom, C!Goto, Working
<1>4. ASSUME NEW l \in C!Layer, C!Miss(p, l)
      PROVE  /\ at[p] \in Working
             /\ \E w \in {"get", "call"} : at' = [at EXCEPT ![p] = w]
  BY <1>4 DEF C!Miss, C!At, C!Goto, Working
<1> QED
  BY <1>1, <1>2, <1>3, <1>4 DEF Work, Working

LEMMA PlacedStep ==
  ASSUME LockTypeOK, C!CachedTypeOK, Placed, LCStep
  PROVE  Placed'
<1> DEFINE Right(q, w, c) ==
             /\ c \in Working => w = "inside"
             /\ w = "inside" => c \in Working
             /\ c = "reset" => w = "idle"
<1>1. \A q \in Proc : Right(q, pc[q], at[q])
  BY DEF Placed, Working
<1>2. /\ at \in [Proc -> {"idle", "get", "call", "set", "reset"}]
      /\ DOMAIN pc = Proc
  BY DEF C!CachedTypeOK, LockTypeOK
<1>3. ASSUME NEW p \in Proc, NEW w, NEW c, Right(p, w, c),
             pc' = [pc EXCEPT ![p] = w], at' = [at EXCEPT ![p] = c]
      PROVE  Placed'
  BY <1>1, <1>2, <1>3 DEF Placed, Working
<1>4. ASSUME NEW p \in Proc, NEW w, Right(p, w, at[p]),
             pc' = [pc EXCEPT ![p] = w], at' = at
      PROVE  Placed'
  BY <1>1, <1>2, <1>4 DEF Placed, Working
<1>5. ASSUME NEW p \in Proc, NEW c, Right(p, pc[p], c),
             pc' = pc, at' = [at EXCEPT ![p] = c]
      PROVE  Placed'
  BY <1>1, <1>2, <1>5 DEF Placed, Working
<1>6. ASSUME NEW p \in Proc, Act(p)
      PROVE  Placed'
  <2>1. CASE LockOnly(p)
    <3>1. at' = at
      BY <2>1 DEF LockOnly, cacheVars
    <3>2. CASE \E c \in Calls : Start(p, c) /\ at[p] = "idle"
      BY <1>4, <3>1, <3>2 DEF Start, Working
    <3>3. CASE Refuse(p) \/ Raise(p) \/ Sleep(p) \/ Wake(p) \/ Release(p)
      <4>1. at[p] = "idle"
        BY <1>1, <1>2, <3>3
           DEF Refuse, Raise, Sleep, Wake, Release, Working
      <4>2. \E w \in {"refused", "idle", "sleeping", "trying"} :
              pc' = [pc EXCEPT ![p] = w]
        BY <3>3 DEF Refuse, Raise, Sleep, Wake, Release, StopHolding
      <4> QED
        BY <1>4, <3>1, <4>1, <4>2 DEF Working
    <3> QED
      BY <2>1, <3>2, <3>3 DEF LockOnly
  <2>2. CASE Enter(p)
    <3>1. pc' = [pc EXCEPT ![p] = "inside"] /\ at' = [at EXCEPT ![p] = "get"]
      BY <2>2 DEF Enter, Acquire, C!StartCall, C!Goto
    <3> QED
      BY <1>3, <3>1 DEF Working
  <2>3. CASE Body(p)
    <3>1. /\ at[p] \in Working /\ at' = [at EXCEPT ![p] = at'[p]]
          /\ at'[p] \in Working /\ pc' = pc
      BY <2>3, WorkMoves DEF Body, lockVars
    <3>2. Right(p, pc[p], at'[p])
      BY <1>1, <3>1 DEF Working
    <3> QED
      BY <1>5, <3>1, <3>2
  <2>4. CASE Return(p) \/ Fail(p)
    <3>1. at' = [at EXCEPT ![p] = "idle"] /\ pc' = [pc EXCEPT ![p] = "leaving"]
      BY <1>2, <2>4, WorkMoves DEF Return, Fail, EndBody, C!Abandon, C!Goto
    <3> QED
      BY <1>3, <3>1 DEF Working
  <2>5. CASE release(p) \/ reset(p)
    <3>1. /\ pc[p] = "idle" /\ pc' = pc
          /\ at' = [at EXCEPT ![p] = "reset"]
      BY <2>5 DEF release, reset, ForceRelease, lockVars, C!StartReset, C!Goto
    <3> QED
      BY <1>5, <3>1 DEF Working
  <2>6. CASE ResetStep(p)
    <3>1. /\ pc[p] = "idle" /\ pc' = pc
          /\ \E c \in {"reset", "idle"} : at' = [at EXCEPT ![p] = c]
      BY <1>1, <2>6 DEF ResetStep, C!ResetLayer, C!Abandon, C!Goto, lockVars
    <3> QED
      BY <1>5, <3>1 DEF Working
  <2>7. CASE Die(p)
    <3>1. pc[p] # "idle" /\ pc' = [pc EXCEPT ![p] = "idle"]
      BY <2>7 DEF Die, Crash, StopHolding
    <3>2. CASE at[p] = "idle"
      BY <1>4, <2>7, <3>1, <3>2 DEF Die, cacheVars, Working
    <3>3. CASE at[p] # "idle"
      BY <1>3, <2>7, <3>1, <3>3 DEF Die, C!Abandon, C!Goto, Working
    <3> QED
      BY <3>2, <3>3
  <2> QED
    BY <1>6, <2>1, <2>2, <2>3, <2>4, <2>5, <2>6, <2>7 DEF Act
<1>7. CASE ReleaseElsewhere
  BY <1>7 DEF ReleaseElsewhere, ForceRelease, cacheVars, Placed
<1>8. CASE Time
  BY <1>8 DEF Time, Tick, C!Tick, Placed
<1> QED
  BY <1>6, <1>7, <1>8 DEF LCStep

(* LCTypeOK holds for every instance: every variable keeps its type, and a   *)
(* process is in the body of the lock exactly when it is in the cache.       *)
THEOREM LCTypeCorrect == LCSpec => []LCTypeOK
<1>1. LCInit => Placed /\ mixed \in BOOLEAN
  BY DEF LCInit, LockInit, C!CachedInit, Placed
<1>2. LockTypeOK /\ C!CachedTypeOK /\ Placed /\ mixed \in BOOLEAN
        /\ [LCNext]_lcVars => (Placed /\ mixed \in BOOLEAN)'
  <2>1. LCNext => mixed' \in BOOLEAN
    BY DEF LCNext
  <2>2. lcVars' = lcVars => UNCHANGED <<pc, at, mixed>>
    BY DEF lcVars, lockVars, cacheVars
  <2>3. UNCHANGED <<pc, at>> /\ Placed => Placed'
    BY DEF Placed
  <2> QED
    BY <2>1, <2>2, <2>3, PlacedStep DEF LCNext
<1> QED
  BY <1>1, <1>2, StackIsLock, LockTypeCorrect, CachedTypes, PTL
     DEF LCSpec, LCTypeOK
-----------------------------------------------------------------------------
(* The layers that the caller inside has found empty. *)
Searched(p) == {k \in C!Layer :
                  k < layer[p] \/ (k = layer[p] /\ at[p] \in {"call", "set"})}

(* Under an unbreached lock they still are. *)
StillAbsent ==
  \A p \in Proc : at[p] \in Working =>
    /\ at[p] = "call" => layer[p] = Layers
    /\ ~breach => \A k \in Searched(p) : ~C!Found(k)

(* A breach lasts as long as somebody holds. *)
LEMMA BreachLasts ==
  ASSUME LockTypeOK, [LockNext]_lockVars, ~breach', Holding' # {}
  PROVE  ~breach
<1>1. ASSUME NEW p \in Proc, StopHolding(p)
      PROVE  ~breach
  BY <1>1, HoldingAfterMove DEF StopHolding
<1>2. CASE \E p \in Proc : Release(p) \/ Crash(p)
  BY <1>1, <1>2 DEF Release, Crash
<1>3. CASE ForceRelease \/ Tick \/ UNCHANGED lockVars
  BY <1>3 DEF ForceRelease, Tick, lockVars
<1>4. CASE \E p \in Proc : \/ \E c \in Calls : Start(p, c)
                           \/ Acquire(p) \/ Refuse(p) \/ Raise(p) \/ Sleep(p)
                           \/ Wake(p) \/ EndBody(p)
  BY <1>4 DEF Start, Acquire, Refuse, Raise, Sleep, Wake, EndBody
<1> QED
  BY <1>2, <1>3, <1>4 DEF LockNext, Undisturbed, Step

(* Steps that store nothing make no layer found that was not. *)
LEMMA NothingStored ==
  ASSUME C!CachedTypeOK, NEW l \in C!Layer, C!Found(l)',
         \/ cache' = cache
         \/ C!Tick
         \/ \E p \in Proc : \/ C!StartReset(p) \/ C!Abandon(p) \/ C!Compute(p)
                            \/ \E k \in C!Layer : \/ C!Hit(p, k) \/ C!Miss(p, k)
                                                  \/ C!ResetLayer(p, k)
  PROVE  C!Found(l)
<1>1. cache[l] \in C!Entry /\ cache \in [C!Layer -> C!Entry]
  BY DEF C!CachedTypeOK
<1>2. C!NoEntry.left = 0
  BY DEF C!NoEntry
<1>3. CASE C!Tick
  <2>1. /\ C!Elapse(cache[l].left, 0) # 0
        /\ cache'[l].val = C!Older(cache[l].val)
    BY <1>2, <1>3 DEF C!Tick, C!Found
  <2>2. cache[l].val \in C!Value
    BY <1>1 DEF C!Entry
  <2>3. C!Older(cache[l].val).none = cache[l].val.none
    BY <2>2 DEF C!Older, C!Value
  <2> QED
    BY <2>1, <2>3 DEF C!Found, C!Elapse
<1>4. ASSUME NEW p \in Proc, C!StartReset(p)
      PROVE  C!Found(l)
  <2>1. /\ cache[l].left # 0
        /\ cache'[l] = [cache[l] EXCEPT !.val = C!Old(cache[l].val)]
    BY <1>2, <1>4 DEF C!StartReset, C!Found
  <2>2. C!Old(cache[l].val).none = cache[l].val.none
    BY <1>1 DEF C!Entry, C!Value, C!Old
  <2>3. cache'[l].val = C!Old(cache[l].val)
    BY <1>1, <2>1 DEF C!Entry
  <2> QED
    BY <2>1, <2>2, <2>3 DEF C!Found
<1>5. ASSUME NEW p \in Proc, NEW k \in C!Layer, C!ResetLayer(p, k)
      PROVE  C!Found(l)
  BY <1>1, <1>2, <1>5 DEF C!ResetLayer, C!Found
<1>6. CASE cache' = cache
  BY <1>6 DEF C!Found
<1>7. ASSUME NEW p \in Proc, \/ C!Abandon(p) \/ C!Compute(p)
                             \/ \E k \in C!Layer : C!Hit(p, k) \/ C!Miss(p, k)
      PROVE  cache' = cache
  BY <1>7 DEF C!Abandon, C!Compute, C!Hit, C!Miss
<1> QED
  BY <1>3, <1>4, <1>5, <1>6, <1>7

(* What StillAbsent says of one process. *)
AbsentFor(q) ==
  at[q] \in Working =>
    /\ at[q] = "call" => layer[q] = Layers
    /\ ~breach => \A k \in Searched(q) : ~C!Found(k)

(* A caller that goes one step on has searched one layer more, or stores     *)
(* into the innermost of those it has searched and goes on outwards.         *)
LEMMA AbsentWhileWorking ==
  ASSUME C!CachedTypeOK, NEW q \in Proc, AbsentFor(q), Work(q),
         breach' = breach, at'[q] \in Working
  PROVE  AbsentFor(q)'
<1> USE DEF C!Layer
<1>1. /\ at \in [Proc -> {"idle", "get", "call", "set", "reset"}]
      /\ layer \in [Proc -> 1..Layers] /\ Layers \in Nat
      /\ cache \in [1..Layers -> C!Entry]
  BY LockedCacheAssumption DEF C!CachedTypeOK
<1>2. at[q] \in Working
  BY WorkMoves
<1>3. CASE C!Compute(q)
  <2>1. cache' = cache /\ layer'[q] = layer[q] /\ at'[q] = "set" /\ at[q] = "call"
    BY <1>1, <1>3 DEF C!Compute, C!Goto
  <2>2. Searched(q)' = Searched(q)
    BY <2>1 DEF Searched
  <2> QED
    BY <1>2, <2>1, <2>2 DEF AbsentFor, C!Found
<1>4. ASSUME NEW l \in 1..Layers, C!Miss(q, l)
      PROVE  AbsentFor(q)'
  <2>1. at[q] = "get" /\ layer[q] = l /\ ~C!Found(l) /\ cache' = cache
    BY <1>4 DEF C!Miss, C!At
  <2>2. \/ l < Layers /\ at'[q] = "get" /\ layer'[q] = l + 1
        \/ l = Layers /\ at'[q] = "call" /\ layer'[q] = l
    BY <1>1, <1>4 DEF C!Miss, C!Goto
  <2>3. Searched(q)' \subseteq Searched(q) \cup {l}
    BY <1>1, <2>1, <2>2 DEF Searched
  <2>4. \A k \in 1..Layers : C!Found(k)' => C!Found(k)
    BY <2>1 DEF C!Found
  <2> QED
    BY <1>2, <2>1, <2>2, <2>3, <2>4 DEF AbsentFor, Searched
<1>5. ASSUME NEW l \in 1..Layers, C!Hit(q, l) \/ C!Set(q, l)
      PROVE  AbsentFor(q)'
  <2>1. l # 1 /\ layer[q] = l /\ at'[q] = "set" /\ layer'[q] = l - 1
    BY <1>1, <1>5 DEF C!Hit, C!Set, C!At, C!ReturnFrom, C!Goto, Working
  <2>2. Searched(q)' \subseteq Searched(q) \ {l}
    BY <1>1, <2>1 DEF Searched
  <2>3. \A k \in (1..Layers) \ {l} : cache'[k] = cache[k]
    BY <1>1, <1>5 DEF C!Hit, C!Set
  <2>4. \A k \in Searched(q)' : k \in Searched(q) /\ cache'[k] = cache[k]
    BY <2>2, <2>3 DEF Searched
  <2> QED
    BY <1>2, <2>1, <2>4 DEF AbsentFor, C!Found
<1> QED
  BY <1>3, <1>4, <1>5 DEF Work

(* Whoever is not moved keeps what it knows if nothing is stored. *)
LEMMA AbsentWhileQuiet ==
  ASSUME NEW q \in Proc, AbsentFor(q), at'[q] \in Working,
         at'[q] = at[q], layer'[q] = layer[q],
         ~breach' => ~breach /\ \A k \in C!Layer : C!Found(k)' => C!Found(k)
  PROVE  AbsentFor(q)'
<1>1. Searched(q)' = Searched(q)
  BY DEF Searched
<1>2. Searched(q) \subseteq C!Layer
  BY DEF Searched
<1> QED
  BY <1>1, <1>2 DEF AbsentFor

LEMMA AbsentStep ==
  ASSUME LCTypeOK, LCTypeOK', MutualExclusion, StillAbsent, LCStep
  PROVE  StillAbsent'
<1>1. SUFFICES ASSUME NEW q \in Proc, at'[q] \in Working
               PROVE  AbsentFor(q)'
  BY DEF StillAbsent, AbsentFor
<1>2. /\ C!CachedTypeOK /\ LockTypeOK /\ Placed /\ AbsentFor(q)
      /\ at \in [Proc -> {"idle", "get", "call", "set", "reset"}]
      /\ layer \in [Proc -> C!Layer]
  BY DEF LCTypeOK, C!CachedTypeOK, StillAbsent, AbsentFor
<1>3. q \in Holding'
  BY <1>1 DEF LCTypeOK, Placed, Holding, Working
<1>4. ~breach' => ~breach
  BY <1>2, <1>3, BreachLasts, StepIsLock
<1>5. ASSUME UNCHANGED <<at, layer>>, cache' = cache \/ C!Tick
      PROVE  AbsentFor(q)'
  BY <1>1, <1>2, <1>4, <1>5, NothingStored, AbsentWhileQuiet
<1>6. ASSUME NEW p \in Proc, p # q, at'[q] = at[q], layer'[q] = layer[q],
             \A k \in C!Layer : C!Found(k)' => C!Found(k)
      PROVE  AbsentFor(q)'
  BY <1>1, <1>2, <1>4, <1>6, AbsentWhileQuiet
<1>7. ASSUME NEW p \in Proc, Act(p)
      PROVE  AbsentFor(q)'
  <2>1. CASE LockOnly(p)
    BY <1>5, <2>1 DEF LockOnly, cacheVars
  <2>2. CASE Enter(p)
    <3>1. cache' = cache /\ at' = [at EXCEPT ![p] = "get"]
                         /\ layer' = [layer EXCEPT ![p] = 1]
      BY <2>2 DEF Enter, C!StartCall, C!Goto
    <3>2. CASE p = q
      <4>1. at'[q] = "get" /\ layer'[q] = 1
        BY <1>2, <3>1, <3>2
      <4>2. Searched(q)' = {}
        BY <4>1, LockedCacheAssumption DEF Searched, C!Layer
      <4> QED
        BY <4>1, <4>2 DEF AbsentFor
    <3>3. CASE p # q
      BY <1>2, <1>6, <3>1, <3>3, NothingStored
    <3> QED
      BY <3>2, <3>3
  <2>3. CASE Body(p) \/ Return(p)
    <3>1. Work(p) /\ breach' = breach
      BY <2>3 DEF Body, Return, EndBody, lockVars
    <3>2. CASE p = q
      BY <1>1, <1>2, <3>1, <3>2, AbsentWhileWorking
    <3>3. CASE p # q
      <4>1. at'[q] = at[q] /\ at[p] \in Working
        BY <1>2, <3>1, <3>3, WorkMoves
      <4>2. breach
        BY <1>1, <1>2, <3>3, <4>1 DEF MutualExclusion, Placed, Holding, Working
      <4>3. layer'[q] = layer[q]
        BY <1>2, <3>1, <3>3 DEF Work, C!Compute, C!Hit, C!Miss, C!Set,
                                C!ReturnFrom, C!Goto
      <4> QED
        BY <1>1, <1>2, <3>1, <4>1, <4>2, <4>3, AbsentWhileQuiet
    <3> QED
      BY <3>2, <3>3
  <2>4. CASE \/ Fail(p) \/ release(p) \/ reset(p) \/ ResetStep(p)
             \/ Die(p) /\ at[p] # "idle"
    <3>1. \/ C!Abandon(p) \/ C!StartReset(p)
          \/ \E k \in C!Layer : C!ResetLayer(p, k)
      BY <2>4 DEF Fail, release, reset, ResetStep, Die
    <3>2. /\ \E c \in {"idle", "reset"} : at' = [at EXCEPT ![p] = c]
          /\ \E k : layer' = [layer EXCEPT ![p] = k]
      BY <3>1 DEF C!Abandon, C!StartReset, C!ResetLayer, C!Goto
    <3>3. p # q /\ at'[q] = at[q] /\ layer'[q] = layer[q]
      BY <1>1, <1>2, <3>2 DEF Working
    <3>4. \A k \in C!Layer : C!Found(k)' => C!Found(k)
      BY <1>2, <3>1, NothingStored
    <3> QED
      BY <1>6, <3>3, <3>4
  <2>5. CASE Die(p) /\ at[p] = "idle"
    BY <1>5, <2>5 DEF Die, cacheVars
  <2> QED
    BY <1>7, <2>1, <2>2, <2>3, <2>4, <2>5 DEF Act
<1>8. CASE ReleaseElsewhere
  BY <1>5, <1>8 DEF ReleaseElsewhere, cacheVars
<1>9. CASE Time
  BY <1>5, <1>9 DEF Time, C!Tick
<1> QED
  BY <1>7, <1>8, <1>9 DEF LCStep

LEMMA AbsentCorrect == LCSpec => []StillAbsent
<1>1. LCInit => StillAbsent
  BY DEF LCInit, C!CachedInit, StillAbsent, Working
<1>2. LCTypeOK /\ LCTypeOK' /\ MutualExclusion /\ StillAbsent /\ [LCNext]_lcVars
        => StillAbsent'
  <2>1. UNCHANGED <<at, layer, cache, breach>> /\ StillAbsent => StillAbsent'
    BY DEF StillAbsent, Searched, C!Found
  <2> QED
    BY <2>1, AbsentStep DEF LCNext, lcVars, lockVars, cacheVars
<1> QED
  BY <1>1, <1>2, LCTypeCorrect, StackIsLock, LockExcludes, PTL DEF LCSpec

(* ComputesOnlyWhenAbsent holds for every instance: whoever computes has     *)
(* searched all layers, and under an unbreached lock they are still empty.   *)
THEOREM ComputesOnlyWhenAbsentCorrect == LCSpec => ComputesOnlyWhenAbsent
<1>1. ASSUME C!CachedTypeOK, StillAbsent, NEW p \in Proc, ~breach, C!Compute(p)
      PROVE  \A l \in C!Layer : ~C!Found(l)
  <2>1. at[p] = "call" /\ layer[p] = Layers
    BY <1>1 DEF C!Compute, StillAbsent, Working
  <2>2. Searched(p) = C!Layer
    BY <2>1, LockedCacheAssumption DEF Searched, C!Layer
  <2> QED
    BY <1>1, <2>1, <2>2 DEF StillAbsent, Working
<1>2. C!CachedTypeOK /\ StillAbsent /\ [LCNext]_lcVars
        => [\A p \in Proc : ~breach /\ C!Compute(p) =>
              \A l \in C!Layer : ~C!Found(l)]_lcVars
  BY <1>1
<1> QED
  BY <1>2, AbsentCorrect, CachedTypes, PTL DEF LCSpec, ComputesOnlyWhenAbsent
-----------------------------------------------------------------------------
(* Everything that can be found or is in hand is v. *)
Agree(v) ==
  /\ \A l \in C!Layer : C!Found(l) => cache[l].val = v
  /\ \A p \in Proc : InHand(p) => res[p] = v

(* A step of the body brings no second version, unless it computes. *)
LEMMA WorkAgrees ==
  ASSUME C!CachedTypeOK, NEW v \in C!Value, Agree(v), NEW p \in Proc, Work(p),
         ~C!Compute(p)
  PROVE  Agree(v)'
<1>1. /\ at \in [Proc -> {"idle", "get", "call", "set", "reset"}]
      /\ res \in [Proc -> C!Value] /\ cache \in [C!Layer -> C!Entry]
  BY DEF C!CachedTypeOK
<1>2. ASSUME NEW l \in C!Layer, C!Miss(p, l)
      PROVE  Agree(v)'
  BY <1>1, <1>2 DEF C!Miss, C!Goto, Agree, C!Found, InHand
<1>3. ASSUME NEW l \in C!Layer, NEW w \in C!Value, C!ReturnFrom(p, l, w),
             ~w.none => w = v
      PROVE  \A q \in Proc : InHand(q)' => res'[q] = v
  <2>1. CASE l = 1
    BY <1>1, <1>3, <2>1 DEF C!ReturnFrom, C!Goto, C!Has, InHand, Agree
  <2>2. CASE l # 1
    BY <1>1, <1>3, <2>2 DEF C!ReturnFrom, C!Goto, C!Has, InHand, Agree
  <2> QED
    BY <2>1, <2>2
<1>4. ASSUME NEW l \in C!Layer, C!Hit(p, l)
      PROVE  Agree(v)'
  <2>1. cache' = cache /\ cache[l].val = v
    BY <1>4 DEF C!Hit, Agree
  <2> QED
    BY <1>3, <1>4, <2>1 DEF C!Hit, Agree, C!Found
<1>5. ASSUME NEW l \in C!Layer, C!Set(p, l)
      PROVE  Agree(v)'
  <2>1. /\ at[p] = "set" /\ res[p] \in C!Value
        /\ ~res[p].none => res[p] = v
    BY <1>1, <1>5 DEF C!Set, C!At, Agree, InHand
  <2>2. \A q \in Proc : InHand(q)' => res'[q] = v
    BY <1>3, <1>5, <2>1 DEF C!Set
  <2>3. ASSUME NEW k \in C!Layer, C!Found(k)'
        PROVE  cache'[k].val = v
    <3>1. CASE k = l
      <4>1. cache'[k].val = res[p]
        BY <1>1, <1>5, <3>1 DEF C!Set
      <4> QED
        BY <2>1, <2>3, <4>1 DEF C!Found
    <3>2. CASE k # l
      <4>1. cache'[k] = cache[k]
        BY <1>1, <1>5, <3>2 DEF C!Set
      <4> QED
        BY <2>3, <4>1 DEF C!Found, Agree
    <3> QED
      BY <3>1, <3>2
  <2> QED
    BY <2>2, <2>3 DEF Agree
<1> QED
  BY <1>2, <1>4, <1>5 DEF Work

(* A reset and the passing of time change all of them alike. *)
LEMMA ResetAgrees ==
  ASSUME C!CachedTypeOK, NEW v \in C!Value, Agree(v), NEW p \in Proc,
         C!StartReset(p)
  PROVE  C!Old(v) \in C!Value /\ Agree(C!Old(v))'
<1>1. /\ at \in [Proc -> {"idle", "get", "call", "set", "reset"}]
      /\ res \in [Proc -> C!Value] /\ cache \in [C!Layer -> C!Entry]
  BY DEF C!CachedTypeOK
<1>2. \A w \in C!Value : C!Old(w) \in C!Value /\ C!Old(w).none = w.none
  BY DEF C!Old, C!Value
<1>3. ASSUME NEW l \in C!Layer, C!Found(l)'
      PROVE  cache'[l].val = C!Old(v)
  <2>1. C!Found(l)
    BY <1>3, NothingStored
  <2>2. cache'[l] = [cache[l] EXCEPT !.val = C!Old(cache[l].val)]
    BY <2>1 DEF C!StartReset, C!Found
  <2> QED
    BY <1>1, <2>1, <2>2 DEF Agree, C!Entry
<1>4. ASSUME NEW q \in Proc, InHand(q)'
      PROVE  res'[q] = C!Old(v)
  <2>1. at[q] = "set"
    BY <1>1, <1>4 DEF InHand, C!StartReset, C!Goto
  <2>2. res'[q] = C!Old(res[q])
    BY <2>1 DEF C!StartReset
  <2> QED
    BY <1>1, <1>2, <1>4, <2>1, <2>2 DEF InHand, Agree
<1> QED
  BY <1>2, <1>3, <1>4 DEF Agree

LEMMA TickAgrees ==
  ASSUME C!CachedTypeOK, NEW v \in C!Value, Agree(v), C!Tick
  PROVE  C!Older(v) \in C!Value /\ Agree(C!Older(v))'
<1>1. res \in [Proc -> C!Value] /\ cache \in [C!Layer -> C!Entry]
  BY DEF C!CachedTypeOK
<1>2. \A w \in C!Value : C!Older(w) \in C!Value /\ C!Older(w).none = w.none
  BY LockedCacheAssumption DEF C!Older, C!Value
<1>3. ASSUME NEW l \in C!Layer, C!Found(l)'
      PROVE  cache'[l].val = C!Older(v)
  <2>1. C!Found(l)
    BY <1>3, NothingStored
  <2>2. C!NoEntry.left = 0
    BY DEF C!NoEntry
  <2>3. cache'[l].val = C!Older(cache[l].val)
    BY <1>3, <2>2 DEF C!Tick, C!Found
  <2> QED
    BY <2>1, <2>3 DEF Agree
<1>4. ASSUME NEW q \in Proc, InHand(q)'
      PROVE  res'[q] = C!Older(v)
  <2>1. at[q] = "set" /\ res'[q] = C!Older(res[q])
    BY <1>4 DEF InHand, C!Tick
  <2> QED
    BY <1>1, <1>2, <1>4, <2>1 DEF InHand, Agree
<1> QED
  BY <1>2, <1>3, <1>4 DEF Agree

(* Nothing new is found or in hand. *)
LEMMA LessAgrees ==
  ASSUME C!CachedTypeOK, NEW v \in C!Value, Agree(v),
         \/ UNCHANGED cacheVars
         \/ \E p \in Proc : \/ C!StartCall(p) \/ C!Abandon(p)
                            \/ \E l \in C!Layer : C!ResetLayer(p, l)
  PROVE  Agree(v)'
<1>1. /\ at \in [Proc -> {"idle", "get", "call", "set", "reset"}]
      /\ res \in [Proc -> C!Value] /\ cache \in [C!Layer -> C!Entry]
  BY DEF C!CachedTypeOK
<1>2. CASE UNCHANGED cacheVars
  BY <1>2 DEF cacheVars, Agree, InHand, C!Found
<1>3. ASSUME NEW p \in Proc, C!StartCall(p)
      PROVE  Agree(v)'
  BY <1>1, <1>3 DEF C!StartCall, C!Goto, Agree, InHand, C!Found
<1>4. ASSUME NEW p \in Proc, C!Abandon(p)
      PROVE  Agree(v)'
  BY <1>1, <1>4 DEF C!Abandon, C!Goto, C!Has, Agree, InHand, C!Found
<1>5. ASSUME NEW p \in Proc, NEW l \in C!Layer, C!ResetLayer(p, l)
      PROVE  Agree(v)'
  <2>1. \A k \in C!Layer : C!Found(k)' => cache'[k] = cache[k] /\ C!Found(k)
    BY <1>1, <1>5 DEF C!ResetLayer, C!Found, C!NoEntry
  <2>2. \A q \in Proc : InHand(q)' => InHand(q) /\ res'[q] = res[q]
    BY <1>1, <1>5 DEF C!ResetLayer, C!Goto, InHand
  <2> QED
    BY <2>1, <2>2 DEF Agree
<1> QED
  BY <1>2, <1>3, <1>4, <1>5

LEMMA StepAgrees ==
  ASSUME C!CachedTypeOK, NEW v \in C!Value, Agree(v), LCStep,
         \A p \in Proc : ~C!Compute(p)
  PROVE  \E w \in C!Value : Agree(w)'
<1>1. ASSUME NEW p \in Proc, Act(p)
      PROVE  \E w \in C!Value : Agree(w)'
  <2>1. CASE Body(p) \/ Return(p)
    BY <2>1, WorkAgrees DEF Body, Return
  <2>2. CASE release(p) \/ reset(p)
    BY <2>2, ResetAgrees DEF release, reset
  <2>3. CASE LockOnly(p) \/ Enter(p) \/ Fail(p) \/ ResetStep(p) \/ Die(p)
    BY <2>3, LessAgrees DEF LockOnly, Enter, Fail, ResetStep, Die
  <2> QED
    BY <1>1, <2>1, <2>2, <2>3 DEF Act
<1>2. CASE ReleaseElsewhere
  BY <1>2, LessAgrees DEF ReleaseElsewhere
<1>3. CASE Time
  BY <1>3, TickAgrees DEF Time
<1> QED
  BY <1>1, <1>2, <1>3 DEF LCStep

(* With nothing to find there is one version: that of the one caller inside. *)
LEMMA EmptyAgrees ==
  LCTypeOK /\ MutualExclusion /\ ~breach /\ (\A l \in C!Layer : ~C!Found(l))
    => \E v \in C!Value : Agree(v)
<1> SUFFICES ASSUME LCTypeOK, MutualExclusion, ~breach,
                    \A l \in C!Layer : ~C!Found(l)
             PROVE  \E v \in C!Value : Agree(v)
  OBVIOUS
<1>1. \A p \in Proc : InHand(p) => p \in Holding /\ res[p] \in C!Value
  BY DEF LCTypeOK, Placed, C!CachedTypeOK, InHand, Holding
<1>2. CASE \E p \in Proc : InHand(p)
  <2>1. PICK p \in Proc : InHand(p)
    BY <1>2
  <2>2. \A q \in Proc : InHand(q) => q = p
    BY <1>1, <2>1 DEF MutualExclusion
  <2> QED
    BY <1>1, <2>1, <2>2 DEF Agree
<1>3. CASE \A p \in Proc : ~InHand(p)
  <2>1. C!NoValue \in C!Value
    BY LockedCacheAssumption DEF C!NoValue, C!New, C!Value
  <2> QED
    BY <1>3, <2>1 DEF Agree
<1> QED
  BY <1>2, <1>3

LEMMA EmptyAgreesNext ==
  (LCTypeOK /\ MutualExclusion /\ ~breach /\ (\A l \in C!Layer : ~C!Found(l))
    => \E v \in C!Value : Agree(v))'
BY EmptyAgrees, PTL

VersionInv == (breach => mixed) /\ OneVersion

LEMMA VersionStep ==
  ASSUME LCTypeOK, LCTypeOK', MutualExclusion', StillAbsent, VersionInv, LCNext
  PROVE  VersionInv'
<1>1. LCStep /\ mixed' = (breach' \/ (mixed /\ \E l \in C!Layer : C!Found(l)'))
  BY DEF LCNext
<1>2. SUFFICES ASSUME ~mixed' PROVE \E v \in C!Value : Agree(v)'
  BY <1>1 DEF VersionInv, OneVersion, Agree
<1>3. ~breach'
  BY <1>1, <1>2
<1>4. CASE \A l \in C!Layer : ~C!Found(l)'
  BY <1>3, <1>4, EmptyAgreesNext
<1>5. CASE \E l \in C!Layer : C!Found(l)'
  <2>1. ~mixed /\ ~breach
    BY <1>1, <1>2, <1>5 DEF VersionInv
  <2>2. PICK v \in C!Value : Agree(v)
    BY <2>1 DEF VersionInv, OneVersion, Agree
  <2>3. ASSUME NEW p \in Proc, C!Compute(p) PROVE FALSE
    <3>1. \A l \in C!Layer : ~C!Found(l)
      <4>1. at[p] = "call" /\ layer[p] = Layers
        BY <2>3 DEF C!Compute, StillAbsent, Working
      <4>2. Searched(p) = C!Layer
        BY <4>1, LockedCacheAssumption DEF Searched, C!Layer
      <4> QED
        BY <2>1, <4>1, <4>2 DEF StillAbsent, Working
    <3> QED
      BY <1>5, <2>3, <3>1, NothingStored DEF LCTypeOK
  <2> QED
    BY <1>1, <2>2, <2>3, StepAgrees DEF LCTypeOK
<1> QED
  BY <1>4, <1>5

(* OneVersion holds for every instance: a second version could only come     *)
(* from a computation, and none ends while there is something to find.       *)
THEOREM OneVersionCorrect == LCSpec => []OneVersion
<1>1. LCInit => VersionInv
  <2>1. ASSUME LCInit
        PROVE  Agree(C!NoValue) /\ C!NoValue \in C!Value /\ ~breach
    BY <2>1, LockedCacheAssumption
       DEF LCInit, LockInit, C!CachedInit, Agree, InHand, C!Found, C!NoEntry,
           C!NoValue, C!New, C!Value
  <2> QED
    BY <2>1 DEF VersionInv, OneVersion, Agree
<1>2. LCTypeOK /\ LCTypeOK' /\ MutualExclusion' /\ StillAbsent /\ VersionInv
        /\ [LCNext]_lcVars => VersionInv'
  <2>1. lcVars' = lcVars /\ VersionInv => VersionInv'
    BY DEF lcVars, lockVars, cacheVars, VersionInv, OneVersion, InHand, C!Found
  <2> QED
    BY <2>1, VersionStep
<1>3. VersionInv => OneVersion
  BY DEF VersionInv
<1> QED
  BY <1>1, <1>2, <1>3, LCTypeCorrect, AbsentCorrect, StackIsLock, LockExcludes,
     PTL DEF LCSpec
-----------------------------------------------------------------------------
(* What the lock does not take from the cache: in the stack too a value is  *)
(* gone in time, a None is never served, and a reset, be it by f.release() *)
(* or f.reset(), removes what it should.                                   *)
THEOREM StackKeepsCache ==
  LCSpec => [](C!StalenessBounded /\ C!NoneRecomputed /\ C!ResetClears)
<1>1. CP!StalenessBounded => C!StalenessBounded
  BY SameConstants DEF C!StalenessBounded, CP!StalenessBounded, C!Expires, CP!Expires,
     C!Staleness, CP!Staleness
<1>2. CP!NoneRecomputed => C!NoneRecomputed
  BY DEF C!NoneRecomputed, CP!NoneRecomputed
<1>3. CP!ResetClears => C!ResetClears
  BY SameConstants DEF C!ResetClears, CP!ResetClears
<1>4. C!CachedSpec => CP!CachedSpec
  BY SameInit, SameNext, PTL DEF C!CachedSpec, CP!CachedSpec
<1>5. CP!CachedSpec => []CP!StalenessBounded /\ []CP!NoneRecomputed /\ []CP!ResetClears
  BY Assumptions, CP!StalenessBoundedCorrect, CP!NoneRecomputedCorrect,
     CP!ResetClearsCorrect DEF CP!NeverAssumption, CP!CachedAssumption
<1> QED
  BY <1>1, <1>2, <1>3, <1>4, <1>5, StackIsCached, PTL

\* The users of the stack are those of LockProofs: no lease is outlived and
\* nobody calls release() while a call runs.
TimelyLCSpec == LCInit /\ [][LCNext /\ Timely]_lcVars

LEMMA TimelyUnmixed == TimelyLCSpec => LCSpec /\ []~breach /\ []~mixed
<1>1. TimelyLCSpec => LCSpec
  BY PTL DEF TimelyLCSpec, LCSpec
<1>2. LCInit => LockInit /\ ~mixed
  BY DEF LCInit
<1>3. [LCNext /\ Timely]_lcVars => [LockNext /\ Timely]_lockVars
  BY StepIsLock DEF LCNext, lcVars
<1>4. TimelyLCSpec => []~breach
  BY <1>2, <1>3, TimelyUnbreached, PTL DEF TimelyLCSpec, TimelySpec
<1>5. ~mixed /\ ~breach' /\ [LCNext /\ Timely]_lcVars => ~mixed'
  BY DEF LCNext, lcVars
<1> QED
  BY <1>1, <1>2, <1>4, <1>5, PTL DEF TimelyLCSpec

(* With such users there is never a second computation side by side: none  *)
(* ends while a layer has its value, and whatever the layers have is one   *)
(* value - whoever else waits, times out, raises, dies or resets.          *)
THEOREM TimelyStackComputesOnce ==
  TimelyLCSpec =>
    /\ [](\E v \in C!Value : Agree(v))
    /\ [][\A p \in Proc : C!Compute(p) => \A l \in C!Layer : ~C!Found(l)]_lcVars
<1>1. ~mixed /\ OneVersion => \E v \in C!Value : Agree(v)
  BY DEF OneVersion, Agree
<1>2. ~breach /\ [\A p \in Proc : ~breach /\ C!Compute(p) =>
                   \A l \in C!Layer : ~C!Found(l)]_lcVars
        => [\A p \in Proc : C!Compute(p) => \A l \in C!Layer : ~C!Found(l)]_lcVars
  OBVIOUS
<1>3. TimelyLCSpec => [](\E v \in C!Value : Agree(v))
  BY <1>1, TimelyUnmixed, OneVersionCorrect, PTL
<1>4. TimelyLCSpec =>
        [][\A p \in Proc : C!Compute(p) => \A l \in C!Layer : ~C!Found(l)]_lcVars
  BY <1>2, TimelyUnmixed, ComputesOnlyWhenAbsentCorrect, PTL DEF ComputesOnlyWhenAbsent
<1> QED
  BY <1>3, <1>4
=============================================================================
