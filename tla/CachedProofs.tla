---------------------------- MODULE CachedProofs ----------------------------
(***************************************************************************)
(* Proofs about Cached.tla for any number of layers and processes and any  *)
(* ttls: its types, that a reset nothing was carried over clears, that     *)
(* None is never served from a cache and how old what is served can be.    *)
(***************************************************************************)
EXTENDS Cached, WellFoundedInduction, TLAPS

LEMMA ElapseType ==
  ASSUME NEW d \in Duration
  PROVE  Elapse(d, 0) \in Duration
BY NeverAssumption DEF Elapse, Duration

\* The value of a cache entry gets older, and nothing else happens to it.
LEMMA OlderType ==
  ASSUME NEW v \in Value
  PROVE  /\ Older(v) \in Value
         /\ Older(v).old = v.old /\ Older(v).none = v.none
         /\ Older(v).age <= v.age + 1
BY CachedAssumption DEF Older, Value

LEMMA OldType ==
  ASSUME NEW v \in Value
  PROVE  /\ Old(v) \in Value
         /\ Old(v).none = v.none /\ Old(v).age = v.age
BY DEF Old, Value

LEMMA NewType ==
  ASSUME NEW b \in BOOLEAN
  PROVE  New(b) \in Value /\ New(b).old = FALSE /\ New(b).none = b /\ New(b).age = 0
BY CachedAssumption DEF New, Value

LEMMA NoEntryType == NoValue \in Value /\ NoEntry \in Entry /\ ~NoEntry.val.old
BY NewType DEF NoValue, NoEntry, Entry, Duration

\* Where a wrapper returns to is a layer, and the value it hands on is typed.
LEMMA ReturnType ==
  ASSUME CachedTypeOK, NEW p \in Proc, NEW l \in Layer, NEW v \in Value,
         ReturnFrom(p, l, v)
  PROVE  /\ pc' \in [Proc -> {"idle", "get", "call", "set", "reset"}]
         /\ layer' \in [Proc -> Layer]
         /\ res' \in [Proc -> Value]
         /\ stall' \in [Proc -> 0..MaxStall]
<1>1. 1 \in Layer /\ 0 \in 0..MaxStall
  BY CachedAssumption DEF Layer
<1>2. l # 1 => l - 1 \in Layer
  BY CachedAssumption DEF Layer
<1> QED
  BY <1>1, <1>2, NoEntryType DEF ReturnFrom, Goto, Has, CachedTypeOK
-----------------------------------------------------------------------------
LEMMA TypeInit == CachedInit => CachedTypeOK
<1>1. 1 \in Layer /\ 0 \in 0..MaxStall
  BY CachedAssumption DEF Layer
<1> QED
  BY <1>1, NoEntryType DEF CachedInit, CachedTypeOK, NoEntry

LEMMA CallType ==
  ASSUME CachedTypeOK, NEW p \in Proc,
         StartCall(p) \/ Compute(p) \/ Abandon(p)
  PROVE  CachedTypeOK'
<1>1. 1 \in Layer /\ 0 \in 0..MaxStall
  BY CachedAssumption DEF Layer
<1>2. CASE StartCall(p)
  BY <1>1, <1>2 DEF StartCall, Goto, CachedTypeOK, resetVars
<1>3. CASE Compute(p)
  BY <1>1, <1>3, NewType DEF Compute, Goto, Has, CachedTypeOK, resetVars
<1>4. CASE Abandon(p)
  BY <1>1, <1>4, NoEntryType DEF Abandon, Goto, Has, CachedTypeOK
<1> QED
  BY <1>2, <1>3, <1>4

LEMMA LayerType ==
  ASSUME CachedTypeOK, NEW p \in Proc, NEW l \in Layer,
         Hit(p, l) \/ Miss(p, l) \/ Set(p, l) \/ ResetLayer(p, l)
  PROVE  CachedTypeOK'
<1>1. l < Layers => l + 1 \in Layer
  BY CachedAssumption DEF Layer
<1>2. 1 \in Layer
  BY CachedAssumption DEF Layer
<1>3. CASE Hit(p, l)
  <2>1. cache[l].val \in Value /\ cache[l].val.old \in BOOLEAN
    BY DEF CachedTypeOK, Entry, Value
  <2>2. carried' \in BOOLEAN
    BY <1>3, <2>1 DEF Hit, CachedTypeOK
  <2> QED
    BY <1>3, <2>1, <2>2, ReturnType DEF Hit, CachedTypeOK
<1>4. CASE Miss(p, l)
  BY <1>1, <1>4 DEF Miss, Goto, CachedTypeOK, resetVars
<1>5. CASE Set(p, l)
  <2>1. res[p] \in Value
    BY DEF CachedTypeOK
  <2>2. Ttl[l] \in Duration /\ Ttl[l] # 0
    BY CachedAssumption
  <2>3. [val |-> res[p], left |-> Ttl[l]] \in Entry
    BY <2>1, <2>2 DEF Entry
  <2>4. /\ cache' \in [Layer -> Entry]
        /\ \A k \in Layer : cache'[k].left = 0 => cache'[k] = NoEntry
    BY <1>5, <2>2, <2>3 DEF Set, CachedTypeOK
  <2> QED
    BY <1>5, <2>1, <2>4, ReturnType DEF Set, CachedTypeOK, resetVars
<1>6. CASE ResetLayer(p, l)
  <2>1. cleared' \in BOOLEAN /\ resetter' \in SUBSET Proc
    BY <1>6 DEF ResetLayer, CachedTypeOK
  <2> QED
    BY <1>1, <1>2, <1>6, <2>1, NoEntryType DEF ResetLayer, Goto, CachedTypeOK
<1> QED
  BY <1>3, <1>4, <1>5, <1>6

LEMMA StartResetType ==
  ASSUME CachedTypeOK, NEW p \in Proc, StartReset(p)
  PROVE  CachedTypeOK'
<1>1. 1 \in Layer
  BY CachedAssumption DEF Layer
<1>2. ASSUME NEW l \in Layer
      PROVE  cache'[l] \in Entry /\ (cache'[l].left = 0 => cache'[l] = NoEntry)
  <2>1. cache[l] \in Entry /\ cache[l].val \in Value
    BY DEF CachedTypeOK, Entry
  <2>2. [cache[l] EXCEPT !.val = Old(@)] \in Entry
    BY <2>1, OldType DEF Entry
  <2>3. [cache[l] EXCEPT !.val = Old(@)].left = cache[l].left
    BY <2>1 DEF Entry
  <2> QED
    BY <2>2, <2>3, NoEntryType DEF StartReset
<1>3. cache' \in [Layer -> Entry]
  BY <1>2 DEF StartReset
<1>4. res' \in [Proc -> Value]
  BY OldType DEF StartReset, CachedTypeOK
<1> QED
  BY <1>1, <1>2, <1>3, <1>4 DEF StartReset, Goto, CachedTypeOK

LEMMA TickType ==
  ASSUME CachedTypeOK, Tick
  PROVE  CachedTypeOK'
<1>1. ASSUME NEW l \in Layer
      PROVE  cache'[l] \in Entry /\ (cache'[l].left = 0 => cache'[l] = NoEntry)
  <2>1. cache[l].val \in Value /\ cache[l].left \in Duration
    BY DEF CachedTypeOK, Entry
  <2>2. [val |-> Older(cache[l].val), left |-> Elapse(cache[l].left, 0)] \in Entry
    BY <2>1, OlderType, ElapseType DEF Entry
  <2> QED
    BY <2>2, NoEntryType DEF Tick
<1>2. cache' \in [Layer -> Entry]
  BY <1>1 DEF Tick
<1>3. res' \in [Proc -> Value]
  BY OlderType DEF Tick, CachedTypeOK
<1>4. stall' \in [Proc -> 0..MaxStall]
  BY CachedAssumption DEF Tick, CachedTypeOK
<1> QED
  BY <1>1, <1>2, <1>3, <1>4 DEF Tick, CachedTypeOK, resetVars

LEMMA TypeStep == CachedTypeOK /\ [CachedNext]_vars => CachedTypeOK'
<1> SUFFICES ASSUME CachedTypeOK, [CachedNext]_vars
             PROVE  CachedTypeOK'
  OBVIOUS
<1>1. CASE UNCHANGED vars
  BY <1>1 DEF CachedTypeOK, vars, callVars, resetVars
<1>2. CASE CachedNext
  BY <1>2, CallType, LayerType, StartResetType, TickType
     DEF CachedNext, CachedUndisturbed
<1> QED
  BY <1>1, <1>2

(***************************************************************************)
(* Every reachable state of the cache is well typed: no wrapper is left    *)
(* for a layer that does not exist, an entry whose time is up is gone.     *)
(***************************************************************************)
THEOREM CachedTypeCorrect == CachedSpec => []CachedTypeOK
  BY TypeInit, TypeStep, PTL DEF CachedSpec
-----------------------------------------------------------------------------
\* Nothing older than the last reset in the layers before n or in hand.
Clean(n) ==
  /\ \A l \in Layer : l < n => ~cache[l].val.old
  /\ \A q \in Proc : ~res[q].old

\* The strengthening of ResetClears: while a reset runs over which nothing was
\* carried, the layers it has been at are clean and stay so.
ResetInv ==
  /\ \A p \in Proc : pc[p] # "set" => res[p] = NoValue
  /\ \A p \in resetter : pc[p] = "reset"
  /\ \A p, q \in resetter : p = q
  /\ \A p \in resetter : ~carried => Clean(layer[p])
  /\ cleared => Clean(Layers + 1)

LEMMA NoValueNotOld == ~NoValue.old /\ ~NoEntry.val.old
BY NewType DEF NoValue, NoEntry

LEMMA ResetInit == CachedInit => ResetInv
BY NoValueNotOld DEF CachedInit, ResetInv, Clean

\* No call spoils clean layers but by handing on an older value of a layer
\* the reset has not reached.
LEMMA CallKeepsClean ==
  ASSUME CachedTypeOK, NEW n \in Int, Clean(n), NEW p \in Proc,
         NEW l \in Layer,
         StartCall(p) \/ Compute(p) \/ Abandon(p) \/ Hit(p, l) \/ Miss(p, l)
           \/ Set(p, l),
         ~carried' \/ n = Layers + 1
  PROVE  Clean(n)'
<1> USE NoValueNotOld DEF CachedTypeOK, Clean
<1>1. CASE StartCall(p)
  BY <1>1 DEF StartCall
<1>2. CASE Compute(p)
  BY <1>2, NewType DEF Compute, Has
<1>3. CASE Abandon(p)
  BY <1>3 DEF Abandon, Has
<1>4. CASE Hit(p, l)
  <2>1. l # 1 => ~cache[l].val.old
    <3>1. CASE ~carried'
      <4>1. ~(l > 1 /\ cache[l].val.old)
        BY <1>4, <3>1, Zenon DEF Hit
      <4> QED
        BY <4>1, CachedAssumption DEF Layer
    <3>2. CASE n = Layers + 1
      BY <3>2, CachedAssumption DEF Layer
    <3> QED
      BY <3>1, <3>2
  <2>2. cache' = cache
    BY <1>4 DEF Hit
  <2>3. \A q \in Proc : ~res'[q].old
    BY <1>4, <2>1 DEF Hit, ReturnFrom, Has
  <2> QED
    BY <2>2, <2>3
<1>5. CASE Miss(p, l)
  BY <1>5 DEF Miss
<1>6. CASE Set(p, l)
  <2>1. \A k \in Layer : k < n => ~cache'[k].val.old
    BY <1>6 DEF Set
  <2>2. \A q \in Proc : ~res'[q].old
    BY <1>6 DEF Set, ReturnFrom, Has
  <2> QED
    BY <2>1, <2>2
<1> QED
  BY <1>1, <1>2, <1>3, <1>4, <1>5, <1>6

LEMMA CallKeepsReset ==
  ASSUME CachedTypeOK, ResetInv, NEW p \in Proc, NEW l \in Layer,
         StartCall(p) \/ Compute(p) \/ Abandon(p) \/ Hit(p, l) \/ Miss(p, l)
           \/ Set(p, l)
  PROVE  ResetInv'
<1>1. /\ \A q \in Proc : q # p => /\ pc'[q] = pc[q] /\ layer'[q] = layer[q]
                                  /\ res'[q] = res[q]
      /\ pc'[p] # "set" => res'[p] = NoValue
  BY DEF CachedTypeOK, ResetInv, StartCall, Compute, Abandon, Hit, Miss, Set, At,
         ReturnFrom, Goto, Has
<1>2. /\ resetter' \subseteq resetter /\ p \notin resetter'
      /\ carried => carried'
      /\ cleared' = cleared
  BY DEF CachedTypeOK, ResetInv, StartCall, Compute, Abandon, Hit, Miss, Set, At,
         resetVars
<1>3. ASSUME NEW q \in resetter', ~carried'
      PROVE  Clean(layer[q])'
  <2>1. q \in Proc /\ q # p /\ layer'[q] = layer[q] /\ layer[q] \in Int
    BY <1>1, <1>2 DEF CachedTypeOK, Layer
  <2>2. Clean(layer[q])
    BY <1>2, <1>3 DEF ResetInv
  <2>3. ASSUME NEW n \in Int, Clean(n)
        PROVE  Clean(n)'
    BY <1>3, <2>3, CallKeepsClean
  <2> QED
    BY <2>1, <2>2, <2>3 DEF Clean
<1>4. ASSUME cleared'
      PROVE  Clean(Layers + 1)'
  <2>1. Clean(Layers + 1) /\ Layers + 1 \in Int
    BY <1>2, <1>4, CachedAssumption DEF ResetInv
  <2> QED
    BY <2>1, CallKeepsClean
<1>5. \A q \in resetter' : q \in Proc /\ pc'[q] = "reset"
  BY <1>1, <1>2 DEF ResetInv, CachedTypeOK
<1>6. \A q \in Proc : pc'[q] # "set" => res'[q] = NoValue
  BY <1>1 DEF ResetInv
<1> QED
  BY <1>2, <1>3, <1>4, <1>5, <1>6 DEF ResetInv

LEMMA ResetLayerKeepsReset ==
  ASSUME CachedTypeOK, ResetInv, NEW p \in Proc, NEW l \in Layer,
         ResetLayer(p, l)
  PROVE  ResetInv'
<1> USE NoValueNotOld, CachedAssumption DEF Layer
<1>1. /\ \A q \in Proc : q # p => pc'[q] = pc[q] /\ layer'[q] = layer[q]
      /\ pc[p] = "reset" /\ layer[p] = l /\ pc'[p] # "set"
      /\ UNCHANGED <<res, carried>>
      /\ resetter' \subseteq resetter
  BY DEF ResetLayer, At, Goto, CachedTypeOK
<1>2. /\ ~cache'[l].val.old
      /\ \A k \in Layer : k # l => cache'[k] = cache[k]
  BY DEF ResetLayer, CachedTypeOK
<1>3. ASSUME NEW n \in Int, Clean(n)
      PROVE  Clean(n)' /\ (n = l => Clean(n + 1)')
  BY <1>1, <1>2, <1>3 DEF Clean
<1>4. ASSUME NEW q \in resetter', ~carried'
      PROVE  pc'[q] = "reset" /\ Clean(layer[q])'
  <2>1. q \in Proc /\ layer[q] \in Int /\ Clean(layer[q])
    BY <1>1, <1>4 DEF ResetInv, CachedTypeOK
  <2>2. CASE q # p
    BY <1>1, <1>3, <2>1, <2>2 DEF Clean, ResetInv
  <2>3. CASE q = p
    <3>1. pc'[p] = "reset" /\ layer'[p] = l + 1
      BY <1>4, <2>3 DEF ResetLayer, Goto, CachedTypeOK
    <3> QED
      BY <1>1, <1>3, <2>1, <2>3, <3>1 DEF Clean
  <2> QED
    BY <2>2, <2>3
<1>5. \A q \in resetter' : pc'[q] = "reset"
  BY <1>1 DEF ResetInv, ResetLayer, Goto, CachedTypeOK
<1>6. ASSUME cleared'
      PROVE  Clean(Layers + 1)'
  <2>1. CASE cleared
    BY <1>3, <2>1 DEF ResetInv
  <2>2. CASE ~cleared
    <3>1. ~(l < Layers) /\ p \in resetter /\ ~carried
      BY <1>6, <2>2, Zenon DEF ResetLayer
    <3>2. l = Layers
      BY <3>1
    <3>3. Clean(l)
      BY <1>1, <3>1 DEF ResetInv
    <3> QED
      BY <1>3, <3>2, <3>3
  <2> QED
    BY <2>1, <2>2
<1>7. \A q \in Proc : pc'[q] # "set" => res'[q] = NoValue
  BY <1>1 DEF ResetInv
<1> QED
  BY <1>1, <1>4, <1>5, <1>6, <1>7 DEF ResetInv

\* A reset starts over: if nobody has a value in hand, nothing older is there
\* but in the layers, none of which it has been at.
LEMMA StartKeepsReset ==
  ASSUME CachedTypeOK, ResetInv, NEW p \in Proc, StartReset(p)
  PROVE  ResetInv'
<1> USE NoValueNotOld
<1>1. /\ pc' = [pc EXCEPT ![p] = "reset"] /\ layer' = [layer EXCEPT ![p] = 1]
      /\ pc[p] = "idle" /\ resetter' = {p} /\ cleared' = FALSE
  BY DEF StartReset, Goto
<1>2. \A q \in Proc : pc[q] # "set" => res'[q] = NoValue
  BY DEF StartReset, ResetInv
<1>3. \A q \in Proc : pc'[q] # "set" => res'[q] = NoValue
  BY <1>1, <1>2 DEF CachedTypeOK
<1>4. ASSUME ~carried'
      PROVE  Clean(1)'
  <2>1. \A q \in Proc : pc[q] # "set"
    BY <1>4, Zenon DEF StartReset
  <2>2. \A q \in Proc : ~res'[q].old
    BY <1>2, <2>1
  <2> QED
    BY <2>2, CachedAssumption DEF Clean, Layer
<1> QED
  BY <1>1, <1>3, <1>4 DEF ResetInv, CachedTypeOK, Clean

LEMMA TickKeepsReset ==
  ASSUME CachedTypeOK, ResetInv, Tick
  PROVE  ResetInv'
<1> USE NoValueNotOld
<1>1. UNCHANGED <<pc, layer, resetter, carried, cleared>>
  BY DEF Tick, resetVars
<1>2. \A q \in Proc : /\ pc[q] # "set" => res'[q] = res[q]
                      /\ res'[q].old = res[q].old
  BY OlderType DEF Tick, CachedTypeOK
<1>3. ASSUME NEW l \in Layer, ~cache[l].val.old
      PROVE  ~cache'[l].val.old
  <2>1. cache[l].val \in Value
    BY DEF CachedTypeOK, Entry
  <2> QED
    BY <1>3, <2>1, OlderType DEF Tick
<1>4. ASSUME NEW n \in Int, Clean(n)
      PROVE  Clean(n)'
  BY <1>2, <1>3, <1>4 DEF Clean
<1>5. ASSUME NEW q \in resetter', ~carried'
      PROVE  Clean(layer[q])'
  <2>1. layer[q] \in Int /\ layer'[q] = layer[q] /\ Clean(layer[q])
    BY <1>1, <1>5 DEF ResetInv, CachedTypeOK, Layer
  <2> QED
    BY <1>4, <2>1 DEF Clean
<1>6. ASSUME cleared'
      PROVE  Clean(Layers + 1)'
  BY <1>1, <1>4, <1>6, CachedAssumption DEF ResetInv
<1> QED
  BY <1>1, <1>2, <1>5, <1>6 DEF ResetInv

LEMMA ResetStep == CachedTypeOK /\ ResetInv /\ [CachedNext]_vars => ResetInv'
<1> SUFFICES ASSUME CachedTypeOK, ResetInv, [CachedNext]_vars
             PROVE  ResetInv'
  OBVIOUS
<1>1. CASE UNCHANGED vars
  BY <1>1 DEF ResetInv, Clean, vars, callVars, resetVars
<1>2. CASE CachedNext
  <2>1. 1 \in Layer
    BY CachedAssumption DEF Layer
  <2> QED
    BY <1>2, <2>1, CallKeepsReset, ResetLayerKeepsReset, StartKeepsReset,
       TickKeepsReset DEF CachedNext, CachedUndisturbed
<1> QED
  BY <1>1, <1>2

(***************************************************************************)
(* A reset that is over, and during which no call carried an older value,  *)
(* has cleared every layer for good, whatever else calls and other resets  *)
(* did in between (`reset' of _helpers.py, layer after layer).             *)
(***************************************************************************)
THEOREM ResetClearsCorrect == CachedSpec => []ResetClears
<1>1. CachedInit => CachedTypeOK /\ ResetInv
  BY TypeInit, ResetInit
<1>2. CachedTypeOK /\ ResetInv /\ [CachedNext]_vars => (CachedTypeOK /\ ResetInv)'
  BY TypeStep, ResetStep
<1>3. ResetInv => ResetClears
  BY CachedAssumption DEF ResetInv, ResetClears, Clean, Layer
<1> QED
  BY <1>1, <1>2, <1>3, PTL DEF CachedSpec
-----------------------------------------------------------------------------
\* The strengthening of NoneRecomputed: how old a None in hand is at most, by
\* the stores it has been through and the time it has waited for the next.
NoneAge ==
  \A p \in Proc : pc[p] = "set" /\ res[p].none =>
    res[p].age <= MaxStall * (Layers - layer[p]) + stall[p]

LEMMA StallsAddUp ==
  ASSUME NEW m \in Nat, NEW n \in Nat
  PROVE  m * n >= 0 /\ m * (n + 1) = m * n + m
OBVIOUS

LEMMA NoneStep ==
  ASSUME CachedTypeOK, NoneAge, [CachedNext]_vars
  PROVE  NoneAge'
<1> SUFFICES ASSUME NEW p \in Proc, pc'[p] = "set", res'[p].none
             PROVE  res'[p].age <= MaxStall * (Layers - layer'[p]) + stall'[p]
  BY DEF NoneAge
<1>1. CASE pc[p] = "set" /\ UNCHANGED <<layer[p], res[p], stall[p]>>
  BY <1>1 DEF NoneAge
<1>2. CASE Compute(p)
  <2>1. layer'[p] = layer[p] /\ stall'[p] = 0 /\ res'[p].age = 0
    BY <1>2, NewType DEF Compute, Goto, Has, CachedTypeOK
  <2>2. Layers - layer[p] \in Nat
    BY CachedAssumption DEF CachedTypeOK, Layer
  <2> QED
    BY <2>1, <2>2, StallsAddUp, CachedAssumption
<1>3. ASSUME NEW l \in Layer, Set(p, l)
      PROVE  res'[p].age <= MaxStall * (Layers - layer'[p]) + stall'[p]
  <2>1. /\ pc[p] = "set" /\ layer[p] = l
        /\ layer'[p] = l - 1 /\ res'[p] = res[p] /\ stall'[p] = 0
    BY <1>3 DEF Set, At, ReturnFrom, Goto, Has, CachedTypeOK
  <2>2. res[p].age <= MaxStall * (Layers - l) + stall[p]
    BY <2>1 DEF NoneAge
  <2>3. stall[p] \in 0..MaxStall /\ res[p].age \in Int
    BY CachedAssumption DEF CachedTypeOK, Value
  <2>4. Layers - l \in Nat /\ Layers - (l - 1) = (Layers - l) + 1
    BY CachedAssumption DEF Layer
  <2>5. MaxStall * (Layers - (l - 1)) = MaxStall * (Layers - l) + MaxStall
    BY <2>4, StallsAddUp, CachedAssumption
  <2>6. MaxStall * (Layers - l) \in Int
    BY <2>4, CachedAssumption
  <2> QED
    BY <2>1, <2>2, <2>3, <2>5, <2>6, CachedAssumption
<1>4. ASSUME NEW l \in Layer, Hit(p, l)
      PROVE  FALSE
  <2>1. ~cache[l].val.none
    BY <1>4 DEF Hit, Found
  <2>2. res'[p] = cache[l].val
    BY <1>4 DEF Hit, ReturnFrom, Goto, Has, CachedTypeOK
  <2> QED
    BY <2>1, <2>2
<1>5. ASSUME NEW q \in Proc, StartReset(q)
      PROVE  res'[p].age <= MaxStall * (Layers - layer'[p]) + stall'[p]
  <2>1. pc[p] = "set" /\ layer'[p] = layer[p] /\ stall'[p] = stall[p]
    BY <1>5 DEF StartReset, Goto, CachedTypeOK
  <2>2. res'[p].none = res[p].none /\ res'[p].age = res[p].age
    BY <1>5, <2>1, OldType DEF StartReset, CachedTypeOK
  <2> QED
    BY <2>1, <2>2 DEF NoneAge
<1>6. CASE Tick
  <2>1. pc[p] = "set" /\ layer'[p] = layer[p] /\ stall'[p] = stall[p] + 1
    BY <1>6 DEF Tick, CachedTypeOK
  <2>2. res'[p].none = res[p].none /\ res'[p].age <= res[p].age + 1
    BY <1>6, <2>1, OlderType DEF Tick, CachedTypeOK
  <2>3. res[p].age <= MaxStall * (Layers - layer[p]) + stall[p]
    BY <2>1, <2>2 DEF NoneAge
  <2>4. /\ MaxStall * (Layers - layer[p]) \in Int /\ stall[p] \in Int
        /\ res[p].age \in Int /\ res'[p].age \in Int
    <3>1. Layers - layer[p] \in Nat
      BY CachedAssumption DEF CachedTypeOK, Layer
    <3>2. CachedTypeOK'
      BY TypeStep
    <3> QED
      BY <3>1, <3>2, CachedAssumption DEF CachedTypeOK, Value
  <2> QED
    BY <2>1, <2>2, <2>3, <2>4
\* Every other step, and every step of another process, leaves p alone.
<1>7. CASE UNCHANGED vars
  BY <1>7, <1>1 DEF vars, callVars
<1>8. ASSUME NEW q \in Proc, q # p,
             StartCall(q) \/ Compute(q) \/ Abandon(q)
               \/ \E l \in Layer :
                    Hit(q, l) \/ Miss(q, l) \/ Set(q, l) \/ ResetLayer(q, l)
      PROVE  pc[p] = "set" /\ UNCHANGED <<layer[p], res[p], stall[p]>>
  BY <1>8 DEF StartCall, Compute, Abandon, Hit, Miss, Set, ResetLayer, ReturnFrom,
     Goto, Has, CachedTypeOK
<1>9. ~StartCall(p) /\ ~Abandon(p)
      /\ \A l \in Layer : ~Miss(p, l) /\ ~ResetLayer(p, l)
  BY DEF StartCall, Abandon, Miss, ResetLayer, Goto, CachedTypeOK
<1> QED
  BY <1>1, <1>2, <1>3, <1>4, <1>5, <1>6, <1>7, <1>8, <1>9
     DEF CachedNext, CachedUndisturbed

(***************************************************************************)
(* None is recomputed: a None in hand is only as old as the stores of this *)
(* call took, for any number of layers, because `get' does not tell a      *)
(* stored None from no entry (_cached.py, "is not None").                  *)
(***************************************************************************)
THEOREM NoneRecomputedCorrect == CachedSpec => []NoneRecomputed
<1>1. CachedInit => NoneAge
  BY DEF CachedInit, NoneAge
<1>2. CachedTypeOK /\ NoneAge => NoneRecomputed
  <2> SUFFICES ASSUME CachedTypeOK, NoneAge, NEW p \in Proc,
                      pc[p] = "set", res[p].none
               PROVE  res[p].age <= MaxStall * (Layers + 1 - layer[p])
    BY DEF NoneRecomputed
  <2>1. /\ Layers - layer[p] \in Nat
        /\ Layers + 1 - layer[p] = (Layers - layer[p]) + 1
    BY CachedAssumption DEF CachedTypeOK, Layer
  <2>2. /\ MaxStall * (Layers + 1 - layer[p])
             = MaxStall * (Layers - layer[p]) + MaxStall
        /\ MaxStall * (Layers - layer[p]) \in Int
    BY <2>1, StallsAddUp, CachedAssumption
  <2>3. res[p].age <= MaxStall * (Layers - layer[p]) + stall[p]
    BY DEF NoneAge
  <2>4. stall[p] \in 0..MaxStall /\ res[p].age \in Int
    BY CachedAssumption DEF CachedTypeOK, Value
  <2> QED
    BY <2>2, <2>3, <2>4, CachedAssumption
<1> QED
  BY TypeInit, TypeStep, NoneStep, <1>1, <1>2, PTL DEF CachedSpec
-----------------------------------------------------------------------------
(* How stale a value can be.  Staleness is defined by recursion over the    *)
(* layers: what it is has to be shown by induction, from the innermost out. *)

LEMMA Least ==
  ASSUME NEW T, T \subseteq Nat, T # {}
  PROVE  \E x \in T : \A y \in T : x <= y
<1>1. PICK R : R = OpToRel(<, Nat)
  OBVIOUS
<1>2. IsWellFoundedOn(R, Nat)
  BY <1>1, NatLessThanWellFounded
<1>3. PICK x \in T : \A y \in T : ~(<<y, x>> \in R)
  BY <1>2, WFMin
<1>4. \A y \in Nat, z \in Nat : y < z => <<y, z>> \in R
  BY <1>1 DEF OpToRel
<1>5. ASSUME NEW y \in T
      PROVE  x <= y
  <2>1. y \in Nat /\ x \in Nat
    OBVIOUS
  <2>2. ~(y < x)
    BY <1>3, <1>4, <2>1
  <2> QED
    BY <2>1, <2>2
<1> QED
  BY <1>5

LEMMA FromTheInnermost ==
  ASSUME NEW S, Layers + 1 \in S, \A l \in Layer : l + 1 \in S => l \in S
  PROVE  \A l \in 1..(Layers + 1) : l \in S
<1> SUFFICES ASSUME NEW m \in 1..(Layers + 1), m \notin S
             PROVE  FALSE
  OBVIOUS
<1> DEFINE T == {k \in Nat : k <= Layers /\ Layers + 1 - k \notin S}
<1>1. Layers \in Nat
  BY CachedAssumption
<1>2. Layers + 1 - m \in Nat /\ Layers + 1 - (Layers + 1 - m) = m
  BY <1>1
<1>3. Layers + 1 - m \in T
  BY <1>1, <1>2
<1>4. PICK x \in T : \A y \in T : x <= y
  BY <1>3, Least
<1>5. x \in Nat /\ x <= Layers /\ Layers + 1 - x \notin S
  OBVIOUS
<1>6. x # 0
  BY <1>1, <1>5
<1>7. x - 1 \in Nat /\ x - 1 <= Layers /\ x - 1 \notin T
  BY <1>1, <1>4, <1>5, <1>6
<1>8. Layers + 1 - (x - 1) \in S
  BY <1>7
<1>9. Layers + 1 - x \in Layer /\ (Layers + 1 - x) + 1 = Layers + 1 - (x - 1)
  BY <1>1, <1>5, <1>6 DEF Layer
<1> QED
  BY <1>5, <1>8, <1>9

\* f is what Staleness is to be, from layer m inwards.
AddsUp(f, m) ==
  \A l \in m..(Layers + 1) :
    f[l] = IF l > Layers THEN 0 ELSE Ttl[l] + MaxStall + f[l + 1]

LEMMA StalenessAddsUp == AddsUp(Staleness, 1)
<1> DEFINE S == {m \in 1..(Layers + 1) : \E f : AddsUp(f, m)}
<1>0. Layers \in Nat /\ Layers >= 1
  BY CachedAssumption
<1>1. Layers + 1 \in S
  <2>1. AddsUp([l \in {Layers + 1} |-> 0], Layers + 1)
    BY <1>0 DEF AddsUp
  <2> QED
    BY <1>0, <2>1
<1>2. ASSUME NEW m \in Layer, m + 1 \in S
      PROVE  m \in S
  <2>1. PICK f : AddsUp(f, m + 1)
    BY <1>2
  <2>2. PICK g : g = [l \in m..(Layers + 1) |->
                        IF l = m THEN Ttl[m] + MaxStall + f[m + 1] ELSE f[l]]
    OBVIOUS
  <2>3. ASSUME NEW l \in m..(Layers + 1)
        PROVE  g[l] = IF l > Layers THEN 0 ELSE Ttl[l] + MaxStall + g[l + 1]
    <3>1. m \in Int /\ m <= Layers
      BY <1>0 DEF Layer
    <3>2. CASE l = m
      <4>1. m + 1 \in m..(Layers + 1) /\ m + 1 # m /\ m \in m..(Layers + 1)
        BY <1>0, <3>1
      <4>2. g[m + 1] = f[m + 1] /\ g[m] = Ttl[m] + MaxStall + f[m + 1]
        BY <2>2, <4>1
      <4> QED
        BY <1>0, <3>1, <3>2, <4>2
    <3>3. CASE l # m /\ l > Layers
      <4>1. l \in (m + 1)..(Layers + 1)
        BY <1>0, <3>1, <3>3
      <4> QED
        BY <2>1, <2>2, <3>3, <4>1 DEF AddsUp
    <3>4. CASE l # m /\ ~(l > Layers)
      <4>1. /\ l \in (m + 1)..(Layers + 1)
            /\ l + 1 \in m..(Layers + 1) /\ l + 1 # m
        BY <1>0, <3>1, <3>4
      <4>2. g[l] = f[l] /\ g[l + 1] = f[l + 1]
        BY <2>2, <3>4, <4>1
      <4> QED
        BY <2>1, <3>4, <4>1, <4>2 DEF AddsUp
    <3> QED
      BY <3>2, <3>3, <3>4
  <2>4. AddsUp(g, m)
    BY <2>3 DEF AddsUp
  <2>5. m \in 1..(Layers + 1)
    BY <1>0 DEF Layer
  <2> QED
    BY <2>4, <2>5
<1> HIDE DEF S
<1>3. 1 \in S
  BY <1>0, <1>1, <1>2, FromTheInnermost
<1> USE DEF S
<1>4. PICK f : AddsUp(f, 1)
  BY <1>3
<1>5. PICK g : g = [l \in 1..(Layers + 1) |-> f[l]]
  OBVIOUS
<1>6. \A l \in 1..(Layers + 1) : l <= Layers => l + 1 \in 1..(Layers + 1)
  BY <1>0
<1>7. g = [l \in 1..(Layers + 1) |->
             IF l > Layers THEN 0 ELSE Ttl[l] + MaxStall + g[l + 1]]
  BY <1>0, <1>4, <1>5, <1>6 DEF AddsUp
<1>8. Staleness = [l \in 1..(Layers + 1) |->
             IF l > Layers THEN 0 ELSE Ttl[l] + MaxStall + Staleness[l + 1]]
  BY <1>7 DEF Staleness
<1> QED
  BY <1>8 DEF AddsUp

LEMMA StalenessOf ==
  ASSUME NEW l \in Layer, Expires(l)
  PROVE  /\ Ttl[l] \in Nat /\ Ttl[l] # 0
         /\ Expires(l + 1) /\ l + 1 \in 1..(Layers + 1)
         /\ Staleness[l] = Ttl[l] + MaxStall + Staleness[l + 1]
<1>0. Layers \in Nat /\ l \in Nat /\ l >= 1 /\ l <= Layers
  BY CachedAssumption DEF Layer
<1>1. Ttl[l] \in Nat /\ Ttl[l] # 0
  BY <1>0, CachedAssumption DEF Expires, Duration, Layer
<1>2. Expires(l + 1) /\ l + 1 \in 1..(Layers + 1)
  BY <1>0 DEF Expires
<1> QED
  BY <1>0, <1>1, <1>2, StalenessAddsUp DEF AddsUp

LEMMA StalenessType ==
  \A l \in 1..(Layers + 1) : Expires(l) => Staleness[l] \in Nat
<1> DEFINE S == {l \in 1..(Layers + 1) : Expires(l) => Staleness[l] \in Nat}
<1>0. Layers \in Nat /\ Layers >= 1
  BY CachedAssumption
<1>1. Layers + 1 \in S
  <2>1. Staleness[Layers + 1] = 0
    BY <1>0, StalenessAddsUp DEF AddsUp
  <2> QED
    BY <1>0, <2>1
<1>2. ASSUME NEW l \in Layer, l + 1 \in S
      PROVE  l \in S
  <2>1. l \in 1..(Layers + 1)
    BY <1>0 DEF Layer
  <2>2. ASSUME Expires(l)
        PROVE  Staleness[l] \in Nat
    BY <1>2, <2>2, StalenessOf, CachedAssumption
  <2> QED
    BY <2>1, <2>2
<1> HIDE DEF S
<1>3. \A l \in 1..(Layers + 1) : l \in S
  BY <1>1, <1>2, FromTheInnermost
<1> QED
  BY <1>3 DEF S

\* The strengthening of StalenessBounded: what holds of an entry, and of a
\* value on its way to the layer that will store it.
EntryStale(l) ==
  cache[l].left # 0 /\ Expires(l) =>
    cache[l].val.age + cache[l].left <= Staleness[l]

ValueStale(p) ==
  pc[p] = "set" /\ Expires(layer[p] + 1) =>
    res[p].age <= Staleness[layer[p] + 1] + stall[p]

StaleInv ==
  /\ \A l \in Layer : cache[l].left = Never => Ttl[l] = Never
  /\ \A l \in Layer : EntryStale(l)
  /\ \A p \in Proc : ValueStale(p)

LEMMA StaleTypes ==
  ASSUME CachedTypeOK, StaleInv
  PROVE  /\ \A l \in Layer : /\ cache[l].val.age \in Nat
                             /\ Expires(l) => cache[l].left \in Nat
         /\ \A p \in Proc : /\ res[p].age \in Nat /\ stall[p] \in 0..MaxStall
                            /\ layer[p] \in Layer
<1>1. ASSUME NEW l \in Layer
      PROVE  cache[l].val.age \in Nat /\ cache[l].left \in Duration
  BY CachedAssumption DEF CachedTypeOK, Entry, Value
<1>2. ASSUME NEW l \in Layer, Expires(l)
      PROVE  cache[l].left \in Nat
  <2>1. Ttl[l] # Never
    BY <1>2, StalenessOf, NeverAssumption
  <2> QED
    BY <1>1, <2>1 DEF StaleInv, Duration
<1> QED
  BY <1>1, <1>2, CachedAssumption DEF CachedTypeOK, Value

\* What is stored is as old as it may be for its layer.
LEMMA SetIsFresh ==
  ASSUME CachedTypeOK, StaleInv, NEW p \in Proc, NEW l \in Layer, Set(p, l)
  PROVE  StaleInv'
<1>1. /\ pc[p] = "set" /\ layer[p] = l
      /\ cache' = [cache EXCEPT ![l] = [val |-> res[p], left |-> Ttl[l]]]
  BY DEF Set, At
<1>2. \A k \in Layer : cache'[k].left = Never => Ttl[k] = Never
  BY <1>1 DEF StaleInv, CachedTypeOK
<1>3. ASSUME NEW k \in Layer
      PROVE  EntryStale(k)'
  <2>1. CASE k # l
    <3>1. cache'[k] = cache[k]
      BY <1>1, <2>1 DEF CachedTypeOK
    <3> QED
      BY <3>1 DEF StaleInv, EntryStale
  <2>2. CASE k = l
    <3> SUFFICES ASSUME Expires(l)
                 PROVE  res[p].age + Ttl[l] <= Staleness[l]
      BY <1>1, <2>2 DEF EntryStale, CachedTypeOK
    <3>1. /\ Ttl[l] \in Nat /\ Expires(l + 1)
          /\ Staleness[l] = Ttl[l] + MaxStall + Staleness[l + 1]
          /\ Staleness[l + 1] \in Nat
      BY StalenessOf, StalenessType
    <3>2. res[p].age <= Staleness[l + 1] + stall[p]
      BY <1>1, <3>1 DEF StaleInv, ValueStale
    <3>3. res[p].age \in Nat /\ stall[p] \in 0..MaxStall
      BY StaleTypes
    <3> QED
      BY <3>1, <3>2, <3>3, CachedAssumption
  <2> QED
    BY <2>1, <2>2
<1>4. ASSUME NEW q \in Proc, q # p
      PROVE  ValueStale(q)'
  <2>1. UNCHANGED <<pc[q], layer[q], res[q], stall[q]>>
    BY <1>4 DEF Set, ReturnFrom, Goto, Has, CachedTypeOK
  <2> QED
    BY <2>1 DEF StaleInv, ValueStale
<1>5. ValueStale(p)'
  <2> SUFFICES ASSUME pc'[p] = "set", Expires(layer'[p] + 1)
               PROVE  res'[p].age <= Staleness[layer'[p] + 1] + stall'[p]
    BY DEF ValueStale
  <2>1. l # 1 /\ layer'[p] = l - 1 /\ res'[p] = res[p] /\ stall'[p] = 0
    BY DEF Set, ReturnFrom, Goto, Has, CachedTypeOK
  <2>2. layer'[p] + 1 = l
    BY <2>1, CachedAssumption DEF Layer
  <2>3. /\ Ttl[l] \in Nat /\ Expires(l + 1)
        /\ Staleness[l] = Ttl[l] + MaxStall + Staleness[l + 1]
        /\ Staleness[l + 1] \in Nat
    BY <2>2, StalenessOf, StalenessType
  <2>4. res[p].age <= Staleness[l + 1] + stall[p]
    BY <1>1, <2>3 DEF StaleInv, ValueStale
  <2>5. res[p].age \in Nat /\ stall[p] \in 0..MaxStall
    BY StaleTypes
  <2> QED
    BY <2>1, <2>2, <2>3, <2>4, <2>5, CachedAssumption
<1> QED
  BY <1>2, <1>3, <1>4, <1>5 DEF StaleInv

\* What is found or computed is no older than the layer it comes from allows.
LEMMA ValueIsFresh ==
  ASSUME CachedTypeOK, StaleInv, NEW p \in Proc,
         Compute(p) \/ \E l \in Layer : Hit(p, l)
  PROVE  StaleInv'
<1>1. cache' = cache
  BY DEF Compute, Hit
<1>2. ASSUME NEW q \in Proc, q # p
      PROVE  ValueStale(q)'
  <2>1. UNCHANGED <<pc[q], layer[q], res[q], stall[q]>>
    BY <1>2 DEF Compute, Hit, ReturnFrom, Goto, Has, CachedTypeOK
  <2> QED
    BY <2>1 DEF StaleInv, ValueStale
<1>3. CASE Compute(p)
  <2>1. layer'[p] = layer[p] /\ stall'[p] = 0 /\ res'[p].age = 0
    BY <1>3, NewType DEF Compute, Goto, Has, CachedTypeOK
  <2>2. layer[p] + 1 \in 1..(Layers + 1)
    BY CachedAssumption DEF CachedTypeOK, Layer
  <2>3. ValueStale(p)'
    BY <2>1, <2>2, StalenessType DEF ValueStale
  <2> QED
    BY <1>1, <1>2, <2>3 DEF StaleInv, EntryStale
<1>4. ASSUME NEW l \in Layer, Hit(p, l)
      PROVE  StaleInv'
  <2> SUFFICES ASSUME pc'[p] = "set", Expires(layer'[p] + 1)
               PROVE  res'[p].age <= Staleness[layer'[p] + 1] + stall'[p]
    BY <1>1, <1>2 DEF StaleInv, EntryStale, ValueStale
  <2>1. l # 1 /\ layer'[p] = l - 1 /\ res'[p] = cache[l].val /\ stall'[p] = 0
    BY <1>4 DEF Hit, ReturnFrom, Goto, Has, CachedTypeOK
  <2>2. layer'[p] + 1 = l
    BY <2>1, CachedAssumption DEF Layer
  <2>3. cache[l].val.age + cache[l].left <= Staleness[l]
    BY <1>4, <2>2 DEF Hit, Found, StaleInv, EntryStale
  <2>4. cache[l].val.age \in Nat /\ cache[l].left \in Nat
    BY <2>2, StaleTypes
  <2>5. Staleness[l] \in Nat
    BY <2>2, StalenessType, CachedAssumption DEF Layer
  <2> QED
    BY <2>1, <2>2, <2>3, <2>4, <2>5
<1> QED
  BY <1>3, <1>4

LEMMA TickKeepsStale ==
  ASSUME CachedTypeOK, StaleInv, Tick
  PROVE  StaleInv'
<1>0. CachedTypeOK'
  BY TickType
<1>1. ASSUME NEW l \in Layer, cache'[l].left # 0
      PROVE  /\ cache'[l].left = Elapse(cache[l].left, 0) /\ cache[l].left # 0
             /\ cache'[l].val.age <= cache[l].val.age + 1
             /\ cache[l].left \in Duration
  <2>1. Elapse(cache[l].left, 0) # 0
    BY <1>1 DEF Tick, NoEntry
  <2>2. cache[l].val \in Value /\ cache[l].left \in Duration
    BY DEF CachedTypeOK, Entry
  <2>3. cache'[l] = [val |-> Older(cache[l].val), left |-> Elapse(cache[l].left, 0)]
    BY <2>1 DEF Tick
  <2> QED
    BY <2>1, <2>2, <2>3, OlderType DEF Elapse
<1>2. ASSUME NEW l \in Layer, cache'[l].left = Never
      PROVE  Ttl[l] = Never
  <2>1. cache'[l].left # 0
    BY <1>2, NeverAssumption
  <2>2. cache[l].left = Never
    BY <1>1, <1>2, <2>1, NeverAssumption DEF Elapse, Duration
  <2> QED
    BY <2>2 DEF StaleInv
<1>3. ASSUME NEW l \in Layer
      PROVE  EntryStale(l)'
  <2> SUFFICES ASSUME cache'[l].left # 0, Expires(l)
               PROVE  cache'[l].val.age + cache'[l].left <= Staleness[l]
    BY DEF EntryStale
  <2>1. cache[l].left \in Nat /\ cache[l].val.age \in Nat
    BY StaleTypes
  <2>2. cache'[l].left = cache[l].left - 1
    BY <1>1, <2>1, NeverAssumption DEF Elapse
  <2>3. cache[l].val.age + cache[l].left <= Staleness[l]
    BY <1>1 DEF StaleInv, EntryStale
  <2>4. cache'[l].val.age <= cache[l].val.age + 1 /\ cache'[l].val.age \in Nat
    BY <1>0, <1>1, CachedAssumption DEF CachedTypeOK, Entry, Value
  <2>5. Staleness[l] \in Nat
    BY StalenessType, CachedAssumption DEF Layer
  <2> QED
    BY <2>1, <2>2, <2>3, <2>4, <2>5
<1>4. ASSUME NEW p \in Proc
      PROVE  ValueStale(p)'
  <2> SUFFICES ASSUME pc[p] = "set", Expires(layer[p] + 1)
               PROVE  res'[p].age <= Staleness[layer[p] + 1] + stall'[p]
    BY DEF ValueStale, Tick
  <2>1. stall'[p] = stall[p] + 1
    BY DEF Tick
  <2>2. res'[p].age <= res[p].age + 1 /\ res'[p].age \in Nat
    BY <1>0, OlderType, CachedAssumption DEF Tick, CachedTypeOK, Value
  <2>3. res[p].age <= Staleness[layer[p] + 1] + stall[p]
    BY DEF StaleInv, ValueStale
  <2>4. res[p].age \in Nat /\ stall[p] \in 0..MaxStall /\ layer[p] \in Layer
    BY StaleTypes
  <2>5. Staleness[layer[p] + 1] \in Nat
    BY <2>4, StalenessType, CachedAssumption DEF Layer
  <2> QED
    BY <2>1, <2>2, <2>3, <2>4, <2>5, CachedAssumption
<1> QED
  BY <1>2, <1>3, <1>4 DEF StaleInv

LEMMA StaleStep ==
  ASSUME CachedTypeOK, StaleInv, [CachedNext]_vars
  PROVE  StaleInv'
<1>1. CASE UNCHANGED vars
  BY <1>1 DEF vars, callVars, StaleInv, EntryStale, ValueStale
<1>2. ASSUME NEW p \in Proc,
             StartCall(p) \/ Abandon(p)
               \/ \E l \in Layer : Miss(p, l) \/ ResetLayer(p, l)
      PROVE  StaleInv'
  <2>1. ASSUME NEW l \in Layer
        PROVE  cache'[l] = cache[l] \/ cache'[l] = NoEntry
    BY <1>2 DEF StartCall, Abandon, Miss, ResetLayer, CachedTypeOK
  <2>2. NoEntry.left = 0 /\ 0 # Never
    BY NeverAssumption DEF NoEntry
  <2>3. ASSUME NEW q \in Proc, pc'[q] = "set"
        PROVE  UNCHANGED <<pc[q], layer[q], res[q], stall[q]>>
    BY <1>2, <2>3 DEF StartCall, Abandon, Miss, ResetLayer, Goto, Has, CachedTypeOK
  <2> QED
    BY <2>1, <2>2, <2>3 DEF StaleInv, EntryStale, ValueStale
<1>3. ASSUME NEW p \in Proc, StartReset(p)
      PROVE  StaleInv'
  <2>1. ASSUME NEW l \in Layer
        PROVE  cache'[l].left = cache[l].left /\ cache'[l].val.age = cache[l].val.age
    <3>1. cache[l].val \in Value /\ cache[l] \in Entry
      BY DEF CachedTypeOK, Entry
    <3>2. cache[l].left = 0 => cache[l] = NoEntry
      BY DEF CachedTypeOK
    <3> QED
      BY <1>3, <3>1, <3>2, OldType DEF StartReset, Entry
  <2>2. ASSUME NEW q \in Proc, pc'[q] = "set"
        PROVE  /\ pc[q] = "set" /\ layer'[q] = layer[q] /\ stall'[q] = stall[q]
               /\ res'[q].age = res[q].age
    BY <1>3, <2>2, OldType DEF StartReset, Goto, CachedTypeOK
  <2> QED
    BY <2>1, <2>2 DEF StaleInv, EntryStale, ValueStale
<1> QED
  BY <1>1, <1>2, <1>3, SetIsFresh, ValueIsFresh, TickKeepsStale
     DEF CachedNext, CachedUndisturbed

(***************************************************************************)
(* StalenessBounded for any layers and ttls: a value of a layer is gone at *)
(* most the sum of the ttls from there inwards after it was computed, plus *)
(* a delay per layer, because only a set dates an entry (_cached.py).      *)
(***************************************************************************)
THEOREM StalenessBoundedCorrect == CachedSpec => []StalenessBounded
<1>1. CachedInit => StaleInv
  BY NeverAssumption DEF CachedInit, StaleInv, EntryStale, ValueStale, NoEntry
<1>2. StaleInv => StalenessBounded
  BY DEF StaleInv, EntryStale, StalenessBounded
<1> QED
  BY TypeInit, TypeStep, StaleStep, <1>1, <1>2, PTL DEF CachedSpec
=============================================================================
