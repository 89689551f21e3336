----------------------------- MODULE LockProofs -----------------------------
(***************************************************************************)
(* Proofs about Lock.tla for any set of processes, any arguments and any   *)
(* leases.  HolderProtected is inductive together with the type invariant: *)
(* the entry of an unbreached holder is live, so no `set nx' succeeds next *)
(* to it, and it is owned by the only holder there is, so the only delete  *)
(* of a with statement that can hit it is its own.                         *)
(***************************************************************************)
EXTENDS Lock, FiniteSetTheorems, TLAPS

LEMMA ElapseType ==
  ASSUME NEW d \in Duration
  PROVE  Elapse(d, 0) \in Duration
BY NeverAssumption DEF Elapse, Duration

LEMMA DurationRunning ==
  ASSUME NEW d \in Duration
  PROVE  d # -1
BY NeverAssumption DEF Duration

LEMMA ElapseWaitType ==
  ASSUME NEW d \in Duration \cup {-1}, NEW f \in {-1, 0}, d = -1 => f = -1
  PROVE  Elapse(d, f) \in Duration \cup {-1}
BY NeverAssumption DEF Elapse, Duration

-----------------------------------------------------------------------------
(* Every variable of the lock keeps its type: in particular a process in a  *)
(* with statement has arguments, and only a waiting one is past a stop_at.  *)
LEMMA TypeInit == LockInit => LockTypeOK
<1>1. 0 \in Duration /\ 0 # -1
  BY DEF Duration
<1> QED
  BY <1>1 DEF LockInit, LockTypeOK

LEMMA StepType ==
  ASSUME LockTypeOK, NEW p \in Proc, Step(p)
  PROVE  LockTypeOK'
<1> USE LockAssumption DEF LockTypeOK, Waiting, CallArgs
<1>1. ASSUME NEW c \in Calls, Start(p, c)
      PROVE  LockTypeOK'
  <2>1. c.timeout \in Duration /\ c.timeout # -1
    BY DurationRunning
  <2> QED
    BY <1>1, <2>1 DEF Start
<1>2. CASE Acquire(p)
  <2>1. call[p].exp \in Duration
    BY <1>2 DEF Acquire
  <2> QED
    BY <1>2, <2>1 DEF Acquire, Duration
<1>3. CASE Refuse(p)
  BY <1>3 DEF Refuse
<1>4. CASE Raise(p)
  BY <1>4 DEF Raise, Duration
<1>5. CASE Sleep(p)
  BY <1>5 DEF Sleep
<1>6. CASE Wake(p)
  BY <1>6 DEF Wake
<1>7. CASE EndBody(p)
  BY <1>7 DEF EndBody
<1>8. CASE Release(p)
  BY <1>8 DEF Release, Delete, StopHolding, Duration
<1> QED
  BY <1>1, <1>2, <1>3, <1>4, <1>5, <1>6, <1>7, <1>8 DEF Step

LEMMA TickType ==
  ASSUME LockTypeOK, Tick
  PROVE  LockTypeOK'
<1>1. left' \in Duration
  BY ElapseType DEF Tick, LockTypeOK
<1>2. owner' \in Proc \cup {Nobody}
  BY DEF Tick, LockTypeOK
<1>3. ASSUME NEW p \in Proc
      PROVE  /\ wait'[p] \in Duration \cup {-1}
             /\ wait'[p] = -1 => pc[p] \in Waiting
  <2>1. CASE pc[p] \in Waiting
    BY <2>1, ElapseWaitType DEF Tick, LockTypeOK
  <2>2. CASE pc[p] \notin Waiting
    <3>1. wait[p] \in Duration
      BY <2>2 DEF LockTypeOK
    <3>2. wait'[p] = Elapse(wait[p], 0)
      BY <2>2 DEF Tick, LockTypeOK
    <3> QED
      BY <3>1, <3>2, ElapseType, DurationRunning
  <2> QED
    BY <2>1, <2>2
<1>4. lease' \in [Proc -> Duration]
  BY ElapseType DEF Tick, LockTypeOK
<1> QED
  BY <1>1, <1>2, <1>3, <1>4 DEF Tick, LockTypeOK

LEMMA TypeStep == LockTypeOK /\ [LockNext]_lockVars => LockTypeOK'
<1> SUFFICES ASSUME LockTypeOK, [LockNext]_lockVars
             PROVE  LockTypeOK'
  OBVIOUS
<1>1. ASSUME NEW p \in Proc, Crash(p)
      PROVE  LockTypeOK'
  BY <1>1 DEF Crash, StopHolding, LockTypeOK, Waiting, Duration
<1>2. CASE ForceRelease
  BY <1>2 DEF ForceRelease, Delete, LockTypeOK, Duration
<1>3. CASE UNCHANGED lockVars
  BY <1>3 DEF lockVars, LockTypeOK
<1> QED
  BY <1>1, <1>2, <1>3, StepType, TickType DEF LockNext, Undisturbed

THEOREM LockTypeCorrect == LockSpec => []LockTypeOK
BY TypeInit, TypeStep, PTL DEF LockSpec
-----------------------------------------------------------------------------
(* Which processes hold the key after a step of one of them. *)
LEMMA HoldingAfterMove ==
  ASSUME LockTypeOK, NEW p \in Proc, NEW where,
         pc' = [pc EXCEPT ![p] = where]
  PROVE  Holding' = IF where \in {"inside", "leaving"} THEN Holding \cup {p}
                                                       ELSE Holding \ {p}
BY DEF Holding, LockTypeOK

LEMMA HoldingUnchanged ==
  pc' = pc => Holding' = Holding
BY DEF Holding

LEMMA HoldingOutside ==
  ASSUME LockTypeOK, NEW p \in Proc, NEW where,
         p \notin Holding, where \notin {"inside", "leaving"},
         pc' = [pc EXCEPT ![p] = where]
  PROVE  Holding' = Holding
BY DEF Holding, LockTypeOK

(* A process that is not yet in the body and stays out of it disturbs       *)
(* nobody.                                                                  *)
LEMMA OutsideKeepsProtection ==
  ASSUME LockTypeOK, HolderProtected, NEW p \in Proc, NEW where,
         p \notin Holding, where \notin {"inside", "leaving"},
         pc' = [pc EXCEPT ![p] = where],
         UNCHANGED <<left, owner, lease, breach>>
  PROVE  HolderProtected'
<1>1. Holding' = Holding
  BY HoldingOutside
<1> QED
  BY <1>1 DEF HolderProtected, is_locked

LEMMA StepProtects ==
  ASSUME LockTypeOK, HolderProtected, NEW p \in Proc, Step(p)
  PROVE  HolderProtected'
<1>1. CASE Acquire(p)
  <2>1. breach \/ Holding = {}
    BY <1>1 DEF Acquire, HolderProtected
  <2>2. Holding' = Holding \cup {p}
    BY <1>1, HoldingAfterMove DEF Acquire
  <2>3. call[p].exp # 0
    BY <1>1, LockAssumption DEF Acquire, LockTypeOK, CallArgs
  <2> QED
    BY <1>1, <2>1, <2>2, <2>3
       DEF Acquire, HolderProtected, LockTypeOK, is_locked
<1>2. CASE EndBody(p)
  <2>1. Holding' = Holding
    BY <1>2, HoldingAfterMove DEF EndBody, Holding
  <2> QED
    BY <1>2, <2>1 DEF EndBody, HolderProtected, is_locked
<1>3. CASE Release(p)
  <2>1. p \in Holding /\ Holding' = Holding \ {p}
    BY <1>3, HoldingAfterMove DEF Release, StopHolding, Holding
  <2>2. breach' \/ Holding' = {}
    BY <1>3, <2>1 DEF Release, StopHolding, HolderProtected
  <2> QED
    BY <2>2 DEF HolderProtected
<1>4. CASE \E c \in Calls : Start(p, c)
  BY <1>4, OutsideKeepsProtection DEF Start, Holding
<1>5. CASE Refuse(p)
  BY <1>5, OutsideKeepsProtection DEF Refuse, Holding
<1>6. CASE Raise(p)
  BY <1>6, OutsideKeepsProtection DEF Raise, Holding
<1>7. CASE Sleep(p)
  BY <1>7, OutsideKeepsProtection DEF Sleep, Holding
<1>8. CASE Wake(p)
  BY <1>8, OutsideKeepsProtection DEF Wake, Holding
<1> QED
  BY <1>1, <1>2, <1>3, <1>4, <1>5, <1>6, <1>7, <1>8 DEF Step

(* The entry and the lease of an unbreached holder run down together.       *)
LEMMA TickProtects ==
  ASSUME LockTypeOK, HolderProtected, Tick
  PROVE  HolderProtected'
<1>1. Holding' = Holding
  BY HoldingUnchanged DEF Tick
<1>2. SUFFICES ASSUME ~breach', NEW p \in Holding
               PROVE  owner' = p /\ left' = lease'[p] /\ left' # 0
  BY <1>1 DEF HolderProtected, is_locked
<1>3. p \in Proc /\ owner = p /\ left = lease[p]
  BY <1>2 DEF HolderProtected, Tick, Holding
<1>4. lease'[p] # 0
  BY <1>2 DEF Tick
<1>5. left' = lease'[p]
  BY <1>3 DEF Tick
<1> QED
  BY <1>3, <1>4, <1>5 DEF Tick

LEMMA ProtectedStep ==
  LockTypeOK /\ HolderProtected /\ [LockNext]_lockVars => HolderProtected'
<1> SUFFICES ASSUME LockTypeOK, HolderProtected, [LockNext]_lockVars
             PROVE  HolderProtected'
  OBVIOUS
<1>1. ASSUME NEW p \in Proc, Crash(p)
      PROVE  HolderProtected'
  <2>1. Holding' = Holding \ {p}
    BY <1>1, HoldingAfterMove DEF Crash, StopHolding
  <2>2. ~breach' => ~breach \/ Holding' = {}
    BY <1>1, <2>1 DEF Crash, StopHolding
  <2>3. \A q \in Holding' : lease'[q] = lease[q]
    BY <1>1, <2>1 DEF Crash, StopHolding, LockTypeOK, Holding
  <2> QED
    BY <1>1, <2>1, <2>2, <2>3 DEF Crash, HolderProtected, is_locked
<1>2. CASE ForceRelease
  <2>1. breach' \/ Holding = {}
    BY <1>2 DEF ForceRelease
  <2>2. Holding' = Holding
    BY <1>2, HoldingUnchanged DEF ForceRelease
  <2> QED
    BY <2>1, <2>2 DEF HolderProtected
<1>3. CASE UNCHANGED lockVars
  BY <1>3, HoldingUnchanged DEF lockVars, HolderProtected, is_locked
<1> QED
  BY <1>1, <1>2, <1>3, StepProtects, TickProtects DEF LockNext, Undisturbed

(* HolderProtected holds for every instance of the lock: a holder within    *)
(* its lease that nobody released owns the live entry of the key.           *)
THEOREM HoldersAreProtected == LockSpec => []HolderProtected
<1>1. LockInit => HolderProtected
  BY DEF LockInit, HolderProtected, Holding
<1> QED
  BY <1>1, ProtectedStep, LockTypeCorrect, PTL DEF LockSpec

(* MutualExclusion holds for every instance of the lock: two unbreached     *)
(* holders would both own the one entry.                                    *)
THEOREM LockExcludes == LockSpec => []MutualExclusion
<1>1. HolderProtected => MutualExclusion
  BY DEF HolderProtected, MutualExclusion
<1> QED
  BY <1>1, HoldersAreProtected, PTL
-----------------------------------------------------------------------------
(* A breach ends with the last holder, so it is always somebody's. *)
BreachHasHolder == breach => Holding # {}

LEMMA BreachStep ==
  LockTypeOK /\ BreachHasHolder /\ [LockNext]_lockVars => BreachHasHolder'
<1> SUFFICES ASSUME LockTypeOK, BreachHasHolder, [LockNext]_lockVars, breach'
             PROVE  Holding' # {}
  BY DEF BreachHasHolder
<1>1. ASSUME NEW p \in Proc, StopHolding(p)
      PROVE  Holding' # {}
  BY <1>1, HoldingAfterMove DEF StopHolding
<1>2. ASSUME NEW p \in Proc, NEW where, pc' = [pc EXCEPT ![p] = where],
             p \notin Holding \/ where \in {"inside", "leaving"},
             UNCHANGED breach
      PROVE  Holding' # {}
  <2>1. CASE where \in {"inside", "leaving"}
    BY <1>2, <2>1, HoldingAfterMove
  <2>2. CASE where \notin {"inside", "leaving"}
    BY <1>2, <2>2, HoldingOutside DEF BreachHasHolder
  <2> QED
    BY <2>1, <2>2
<1>3. ASSUME NEW p \in Proc, Step(p)
      PROVE  Holding' # {}
  <2>1. CASE Release(p)
    BY <1>1, <2>1 DEF Release
  <2>2. CASE EndBody(p)
    BY <1>2, <2>2 DEF EndBody
  <2>3. CASE Acquire(p)
    BY <1>2, <2>3 DEF Acquire
  <2>4. CASE \E c \in Calls : Start(p, c)
    BY <1>2, <2>4 DEF Start, Holding
  <2>5. CASE Refuse(p)
    BY <1>2, <2>5 DEF Refuse, Holding
  <2>6. CASE Raise(p)
    BY <1>2, <2>6 DEF Raise, Holding
  <2>7. CASE Sleep(p)
    BY <1>2, <2>7 DEF Sleep, Holding
  <2>8. CASE Wake(p)
    BY <1>2, <2>8 DEF Wake, Holding
  <2> QED
    BY <1>3, <2>1, <2>2, <2>3, <2>4, <2>5, <2>6, <2>7, <2>8 DEF Step
<1>4. ASSUME NEW p \in Proc, Crash(p)
      PROVE  Holding' # {}
  BY <1>1, <1>4 DEF Crash
<1>5. CASE ForceRelease
  BY <1>5, HoldingUnchanged DEF ForceRelease, BreachHasHolder
<1>6. CASE Tick
  BY <1>6, HoldingUnchanged DEF Tick, BreachHasHolder
<1>7. CASE UNCHANGED lockVars
  BY <1>7, HoldingUnchanged DEF lockVars, BreachHasHolder
<1> QED
  BY <1>3, <1>4, <1>5, <1>6, <1>7 DEF LockNext, Undisturbed

(* Acquire is an Enter of the abstract lock, Release and Crash in the body  *)
(* a Leave; a lease outlived or a release from outside is a Break; nothing  *)
(* else shows.                                                              *)
LEMMA ExclusiveStep ==
  LockTypeOK /\ HolderProtected /\ BreachHasHolder /\ [LockNext]_lockVars
    => [Exclusive!Next]_Exclusive!vars
<1> SUFFICES ASSUME LockTypeOK, HolderProtected, BreachHasHolder,
                    [LockNext]_lockVars
             PROVE  [Exclusive!Next]_Exclusive!vars
  OBVIOUS
<1> USE DEF Exclusive!vars, Exclusive!Next
<1>1. ASSUME NEW p \in Proc, Acquire(p)
      PROVE  Exclusive!Enter(p)
  <2>1. p \notin Holding /\ Holding' = Holding \cup {p}
    BY <1>1, HoldingAfterMove DEF Acquire, Holding
  <2>2. breach \/ Holding = {}
    BY <1>1 DEF Acquire, HolderProtected
  <2> QED
    BY <1>1, <2>1, <2>2 DEF Acquire, Exclusive!Enter
<1>2. ASSUME NEW p \in Holding, StopHolding(p)
      PROVE  Exclusive!Leave(p)
  BY <1>2, HoldingAfterMove DEF StopHolding, Exclusive!Leave, Holding
<1>3. ASSUME NEW p \in Proc, NEW where, p \notin Holding,
             where \notin {"inside", "leaving"},
             pc' = [pc EXCEPT ![p] = where], UNCHANGED breach
      PROVE  UNCHANGED Exclusive!vars
  BY <1>3, HoldingOutside
<1>4. ASSUME NEW p \in Proc, Step(p)
      PROVE  [Exclusive!Next]_Exclusive!vars
  <2>1. CASE Release(p)
    BY <1>2, <2>1 DEF Release, Holding
  <2>2. CASE EndBody(p)
    BY <2>2, HoldingAfterMove DEF EndBody, Holding
  <2>3. CASE Acquire(p)
    BY <1>1, <2>3
  <2>4. CASE \E c \in Calls : Start(p, c)
    BY <1>3, <2>4 DEF Start, Holding
  <2>5. CASE Refuse(p)
    BY <1>3, <2>5 DEF Refuse, Holding
  <2>6. CASE Raise(p)
    BY <1>3, <2>6 DEF Raise, Holding
  <2>7. CASE Sleep(p)
    BY <1>3, <2>7 DEF Sleep, Holding
  <2>8. CASE Wake(p)
    BY <1>3, <2>8 DEF Wake, Holding
  <2> QED
    BY <1>4, <2>1, <2>2, <2>3, <2>4, <2>5, <2>6, <2>7, <2>8 DEF Step
<1>5. ASSUME NEW p \in Proc, Crash(p)
      PROVE  [Exclusive!Next]_Exclusive!vars
  <2>1. CASE p \in Holding
    BY <1>2, <1>5, <2>1 DEF Crash, Holding
  <2>2. CASE p \notin Holding
    <3>1. Holding' = Holding
      BY <1>5, <2>2, HoldingOutside DEF Crash, StopHolding
    <3>2. breach' = breach
      <4>1. Holding \ {p} = Holding
        BY <2>2
      <4> QED
        BY <1>5, <4>1 DEF Crash, StopHolding, BreachHasHolder, LockTypeOK
    <3> QED
      BY <3>1, <3>2
  <2> QED
    BY <2>1, <2>2
<1>6. ASSUME pc' = pc, breach' # breach, breach', Holding # {}
      PROVE  Exclusive!Break
  BY <1>6, HoldingUnchanged DEF Exclusive!Break
<1>7. CASE ForceRelease
  BY <1>7, <1>6, HoldingUnchanged DEF ForceRelease, LockTypeOK
<1>8. CASE Tick
  BY <1>8, <1>6, HoldingUnchanged DEF Tick, LockTypeOK
<1>9. CASE UNCHANGED lockVars
  BY <1>9, HoldingUnchanged DEF lockVars
<1> QED
  BY <1>4, <1>5, <1>7, <1>8, <1>9 DEF LockNext, Undisturbed

(* The lock implements ExclusiveUse for every instance.                     *)
THEOREM LockImplements == LockSpec => ImplementsExclusiveUse
<1>1. LockInit => Exclusive!Init /\ BreachHasHolder
  BY DEF LockInit, Exclusive!Init, Holding, BreachHasHolder
<1> QED
  BY <1>1, BreachStep, ExclusiveStep, LockTypeCorrect, HoldersAreProtected, PTL
     DEF LockSpec, ImplementsExclusiveUse, Exclusive!Spec
-----------------------------------------------------------------------------
(* A key without an entry is nobody's.                                      *)
FreeUnowned == left = 0 => owner = Nobody

LEMMA FreeUnownedStep ==
  LockTypeOK /\ FreeUnowned /\ [LockNext]_lockVars => FreeUnowned'
<1> SUFFICES ASSUME LockTypeOK, FreeUnowned, [LockNext]_lockVars
             PROVE  FreeUnowned'
  OBVIOUS
<1>1. ASSUME NEW p \in Proc, Acquire(p)
      PROVE  FreeUnowned'
  BY <1>1, LockAssumption DEF Acquire, FreeUnowned, LockTypeOK, CallArgs
<1>2. ASSUME NEW p \in Proc, Step(p) \/ Crash(p), ~Acquire(p)
      PROVE  FreeUnowned'
  BY <1>2 DEF Step, Start, Refuse, Raise, Sleep, Wake, EndBody, Release, Delete,
              Crash, FreeUnowned
<1>3. CASE ForceRelease \/ Tick \/ UNCHANGED lockVars
  BY <1>3 DEF ForceRelease, Delete, Tick, lockVars, FreeUnowned
<1> QED
  BY <1>1, <1>2, <1>3 DEF LockNext, Undisturbed

(* Acquire is an Enter at a key without an entry; nothing else adds a user  *)
(* or an entry.                                                             *)
LEMMA GuardStep ==
  LockTypeOK /\ FreeUnowned /\ [LockNext]_lockVars => [Guard!Next]_Guard!vars
<1> SUFFICES ASSUME LockTypeOK, FreeUnowned, [LockNext]_lockVars
             PROVE  Guard!Next
  OBVIOUS
<1>1. ASSUME Holding' \subseteq Holding, owner' \in {owner, Nobody}
      PROVE  Guard!Next
  BY <1>1 DEF Guard!Next, Guard!Less
<1>2. ASSUME NEW p \in Proc, Acquire(p)
      PROVE  Guard!Next
  <2>1. p \notin Holding /\ Holding' = Holding \cup {p}
    BY <1>2, HoldingAfterMove DEF Acquire, Holding
  <2>2. {owner} \ {Nobody} = {} /\ ({owner} \ {Nobody})' = {p}
    BY <1>2, LockAssumption DEF Acquire, is_locked, FreeUnowned
  <2>3. Cardinality({owner} \ {Nobody}) < 1
    BY <2>2, FS_EmptySet
  <2>4. Guard!Room
    BY <2>3 DEF Guard!Room, Guard!Cardinality, Cardinality
  <2>5. Guard!Enter(p)
    BY <2>1, <2>2, <2>4 DEF Guard!Enter
  <2> QED
    BY <2>1, <2>5 DEF Guard!Next
<1>3. ASSUME NEW p \in Proc, Release(p) \/ Crash(p)
      PROVE  Guard!Next
  <2>1. Holding' = Holding \ {p}
    BY <1>3, HoldingAfterMove DEF Release, Crash, StopHolding
  <2> QED
    BY <1>1, <1>3, <2>1 DEF Release, Delete, Crash
<1>4. ASSUME NEW p \in Proc, EndBody(p)
      PROVE  Guard!Next
  <2>1. Holding' = Holding \cup {p} /\ p \in Holding
    BY <1>4, HoldingAfterMove DEF EndBody, Holding
  <2> QED
    BY <1>1, <1>4, <2>1 DEF EndBody
<1>5. ASSUME NEW p \in Proc,
             (\E c \in Calls : Start(p, c)) \/ Refuse(p) \/ Raise(p) \/ Sleep(p)
               \/ Wake(p)
      PROVE  Guard!Next
  <2>1. Holding' = Holding /\ owner' = owner
    BY <1>5 DEF Start, Refuse, Raise, Sleep, Wake, Holding, LockTypeOK
  <2> QED
    BY <1>1, <2>1
<1>6. CASE ForceRelease \/ Tick \/ UNCHANGED lockVars
  BY <1>1, <1>6, HoldingUnchanged DEF ForceRelease, Delete, Tick, lockVars
<1> QED
  BY <1>2, <1>3, <1>4, <1>5, <1>6 DEF LockNext, Undisturbed, Step

(* The lock implements Guarded: who gets inside finds a key without an      *)
(* entry, for every instance and whatever was deleted or left behind.       *)
THEOREM LockIsGuarded == LockSpec => ImplementsGuarded
<1>1. LockInit => Guard!Init /\ FreeUnowned
  BY DEF LockInit, Guard!Init, Holding, FreeUnowned
<1> QED
  BY <1>1, FreeUnownedStep, GuardStep, LockTypeCorrect, PTL
     DEF LockSpec, ImplementsGuarded, Guard!Spec
-----------------------------------------------------------------------------
(* Only its own steps move a process, and only time moves its stop_at.      *)
LEMMA WaitersStay ==
  ASSUME LockTypeOK, [LockNext]_lockVars, NEW p \in Proc,
         pc[p] \in Waiting, pc'[p] \in Waiting,
         ~(Refuse(p) \/ Sleep(p) \/ Wake(p))
  PROVE  /\ pc'[p] = pc[p] /\ call'[p] = call[p]
         /\ wait'[p] \in {wait[p], Elapse(wait[p], -1)}
<1> USE DEF LockTypeOK, Waiting
<1>1. ASSUME NEW q \in Proc, Step(q) \/ Crash(q)
      PROVE  UNCHANGED <<pc[p], call[p], wait[p]>>
  <2>1. CASE q = p
    BY <1>1, <2>1 DEF Step, Start, Acquire, Refuse, Raise, Sleep, Wake, EndBody,
                      Release, Crash, StopHolding
  <2>2. CASE q # p
    BY <1>1, <2>2 DEF Step, Start, Acquire, Refuse, Raise, Sleep, Wake, EndBody,
                      Release, Crash, StopHolding
  <2> QED
    BY <2>1, <2>2
<1>2. CASE Tick
  BY <1>2 DEF Tick
<1>3. CASE ForceRelease \/ UNCHANGED lockVars
  BY <1>3 DEF ForceRelease, lockVars
<1> QED
  BY <1>1, <1>2, <1>3 DEF LockNext, Undisturbed

LEMMA WaiterStep ==
  ASSUME LockTypeOK, [LockNext]_lockVars, NEW p \in Proc,
         pc[p] \in Waiting, pc'[p] \in Waiting
  PROVE  Advances(p)
<1> USE DEF Advances
<1>1. CASE Refuse(p)
  BY <1>1 DEF Refuse, StepsLeft, LockTypeOK
<1>2. CASE Sleep(p)
  BY <1>2 DEF Sleep, do_raise, OutOfTime, LockTypeOK
<1>3. CASE Wake(p)
  BY <1>3 DEF Wake, StepsLeft, LockTypeOK
<1> QED
  BY <1>1, <1>2, <1>3, WaitersStay

(* WaitersAdvance holds for every instance: a refused caller that is out of *)
(* time has no way back to sleep.  This is the safety half of               *)
(* WaiterResolves; what is missing from it is fairness.                     *)
THEOREM WaitersDoAdvance == LockSpec => WaitersAdvance
<1>1. LockTypeOK /\ [LockNext]_lockVars => \A p \in Proc : Advances(p)
  <2> SUFFICES ASSUME LockTypeOK, [LockNext]_lockVars, NEW p \in Proc,
                      pc[p] \in Waiting, pc'[p] \in Waiting
               PROVE  Advances(p)
    BY DEF Advances
  <2> QED
    BY WaiterStep
<1> QED
  BY <1>1, LockTypeCorrect, PTL DEF LockSpec, WaitersAdvance
-----------------------------------------------------------------------------
(* Users as the docs want them: a lease is longer than the body it is for,  *)
(* and nobody calls release() while somebody is inside.                     *)
LeasesLast == \A p \in Holding : p \in Holding' => lease'[p] # 0

Timely == LeasesLast /\ (ForceRelease => Holding = {})

TimelySpec == LockInit /\ [][LockNext /\ Timely]_lockVars

LEMMA LeasesLastStep ==
  ASSUME LockTypeOK, ~breach, LeasesLast,
         [Undisturbed \/ \E p \in Proc : Crash(p)]_lockVars
  PROVE  ~breach'
<1>1. ASSUME NEW p \in Proc, Step(p) \/ Crash(p)
      PROVE  ~breach'
  BY <1>1 DEF Step, Start, Acquire, Refuse, Raise, Sleep, Wake, EndBody,
              Release, Crash, StopHolding
<1>2. CASE Tick
  BY <1>2, HoldingUnchanged DEF Tick, LeasesLast
<1>3. CASE UNCHANGED lockVars
  BY <1>3 DEF lockVars
<1> QED
  BY <1>1, <1>2, <1>3 DEF Undisturbed

(* A lease without end stays so.                                            *)
LEMMA EndlessKept ==
  ASSUME \A c \in Calls : c.exp = Never, LockTypeOK,
         \A p \in Holding : lease[p] = Never,
         [Undisturbed \/ \E p \in Proc : Crash(p)]_lockVars,
         NEW q \in Holding'
  PROVE  lease'[q] = Never
<1> USE DEF LockTypeOK
<1>1. q \in Proc
  BY DEF Holding
<1>2. ASSUME NEW p \in Proc, Acquire(p)
      PROVE  lease'[q] = Never
  <2>1. call[p] \in Calls /\ Holding' = Holding \cup {p}
    BY <1>2, HoldingAfterMove DEF Acquire
  <2> QED
    BY <1>1, <1>2, <2>1 DEF Acquire
<1>3. ASSUME NEW p \in Proc, StopHolding(p)
      PROVE  lease'[q] = Never
  BY <1>1, <1>3, HoldingAfterMove DEF StopHolding
<1>4. ASSUME NEW p \in Proc, NEW where, pc' = [pc EXCEPT ![p] = where],
             p \in Holding \/ where \notin {"inside", "leaving"}, lease' = lease
      PROVE  lease'[q] = Never
  BY <1>1, <1>4 DEF Holding
<1>5. ASSUME NEW p \in Proc, Step(p) \/ Crash(p)
      PROVE  lease'[q] = Never
  <2>1. CASE Acquire(p)
    BY <1>2, <2>1
  <2>2. CASE Release(p) \/ Crash(p)
    BY <1>3, <2>2 DEF Release, Crash
  <2>3. CASE EndBody(p)
    BY <1>4, <2>3 DEF EndBody, Holding
  <2>4. CASE (\E c \in Calls : Start(p, c)) \/ Refuse(p) \/ Raise(p) \/ Sleep(p)
               \/ Wake(p)
    BY <1>4, <2>4 DEF Start, Refuse, Raise, Sleep, Wake
  <2> QED
    BY <1>5, <2>1, <2>2, <2>3, <2>4 DEF Step
<1>6. CASE Tick
  BY <1>1, <1>6, HoldingUnchanged DEF Tick, Elapse
<1>7. CASE UNCHANGED lockVars
  BY <1>7, HoldingUnchanged DEF lockVars
<1> QED
  BY <1>5, <1>6, <1>7 DEF Undisturbed

LEMMA TimelyUnbreached == TimelySpec => LockSpec /\ []~breach
<1>1. TimelySpec => LockSpec
  BY PTL DEF TimelySpec, LockSpec
<1>2. LockInit => ~breach
  BY DEF LockInit
<1>3. LockTypeOK /\ ~breach /\ [LockNext /\ Timely]_lockVars => ~breach'
  <2> SUFFICES ASSUME LockTypeOK, ~breach, [LockNext /\ Timely]_lockVars
               PROVE  ~breach'
    OBVIOUS
  <2>1. CASE ForceRelease /\ Timely
    BY <2>1 DEF ForceRelease, Timely
  <2>2. CASE LockNext /\ ~ForceRelease /\ Timely
    BY <2>2, LeasesLastStep DEF LockNext, Timely
  <2> QED
    BY <2>1, <2>2 DEF lockVars
<1> QED
  BY <1>1, <1>2, <1>3, LockTypeCorrect, PTL DEF TimelySpec

(* With such users the lock excludes, without any proviso: whoever else     *)
(* waits, times out or dies, in the body or anywhere else, there are never  *)
(* two processes between their `set nx' and their delete.                   *)
THEOREM TimelyUsersExclude ==
  TimelySpec => [](\A p, q \in Holding : p = q)
<1>1. ~breach /\ MutualExclusion => \A p, q \in Holding : p = q
  BY DEF MutualExclusion
<1> QED
  BY <1>1, TimelyUnbreached, LockExcludes, PTL
=============================================================================
