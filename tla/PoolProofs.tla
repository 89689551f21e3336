----------------------------- MODULE PoolProofs -----------------------------
(***************************************************************************)
(* Proofs about Pool.tla for any processes, max_size, slot_exp, nesting    *)
(* and number of faults.                                                   *)
(***************************************************************************)
EXTENDS Pool, LockProofs, FiniteSetTheorems, SequenceTheorems

LEMMA FrontType ==
  ASSUME NEW S, NEW s \in Seq(S), s # <<>>
  PROVE  /\ Front(s) \in Seq(S)
         /\ DOMAIN Front(s) = 1..(Len(s) - 1)
         /\ Len(Front(s)) = Len(s) - 1
         /\ \A i \in 1..(Len(s) - 1) : Front(s)[i] = s[i]
<1>1. Len(s) \in Nat /\ Len(s) # 0
  BY EmptySeq
<1>2. \A i \in 1..(Len(s) - 1) : s[i] \in S
  BY ElementOfSeq
<1>3. /\ Front(s) \in Seq(S)
      /\ DOMAIN Front(s) = 1..(Len(s) - 1)
      /\ \A i \in 1..(Len(s) - 1) : Front(s)[i] = s[i]
  BY <1>1, <1>2, SubSeqProperties, LenProperties DEF Front
<1>4. Len(Front(s)) = Len(s) - 1
  <2>1. Len(Front(s)) \in Nat /\ DOMAIN Front(s) = 1..Len(Front(s))
    BY <1>3, LenProperties
  <2>2. Len(Front(s)) <= Len(s) - 1
    BY <1>1, <1>3, <2>1
  <2>3. Len(s) - 1 <= Len(Front(s))
    BY <1>1, <1>3, <2>1
  <2> QED
    BY <1>1, <2>1, <2>2, <2>3
<1> QED
  BY <1>3, <1>4

LEMMA WithType ==
  ASSUME NEW f, IsSlotMap(f), NEW s \in SlotId, NEW d \in Left
  PROVE  /\ IsSlotMap(With(f, s, d))
         /\ DOMAIN With(f, s, d) = DOMAIN f \cup {s}
         /\ With(f, s, d)[s] = d
         /\ \A t \in DOMAIN f \ {s} : With(f, s, d)[t] = f[t]
BY DEF With, IsSlotMap

LEMMA OnlyType ==
  ASSUME NEW f, IsSlotMap(f), NEW S \in SUBSET DOMAIN f
  PROVE  /\ IsSlotMap(Only(f, S))
         /\ DOMAIN Only(f, S) = S
         /\ \A t \in S : Only(f, S)[t] = f[t]
BY DEF Only, IsSlotMap

LEMMA EmptyType == IsSlotMap(Empty) /\ DOMAIN Empty = {}
BY DEF Empty, IsSlotMap

LEMMA FloorType == Floor \in Int /\ Floor < 0 /\ Floor = -(MaxStall + 1)
BY PoolAssumption DEF Floor

LEMMA LeftType ==
  /\ Duration \subseteq Left
  /\ \A l \in Left : l = Never \/ l \in Int
  /\ Never \notin Int
BY NeverAssumption DEF Left, Duration, Floor

\* What a slot has left one unit of time later.
LEMMA LeftElapses ==
  ASSUME NEW l \in Left
  PROVE  /\ Elapse(l, Floor) \in Left
         /\ ~Expired(Elapse(l, Floor), 0) => ~Expired(l, 0)
         /\ (IF Expired(l, 0) THEN l ELSE Elapse(l, -1)) \in Left
BY FloorType, NeverAssumption, PoolAssumption DEF Left, Elapse, Expired

LEMMA OlderType ==
  ASSUME NEW f, IsSlotMap(f)
  PROVE  IsSlotMap(Older(f)) /\ DOMAIN Older(f) = DOMAIN f
BY LeftElapses DEF Older, IsSlotMap

LEMMA ExpType ==
  ASSUME PoolTypeOK, NEW p \in Proc
  PROVE  exp(p) \in Left
<1>1. age[p] \in 0..MaxStall /\ SlotExp \in Duration
  BY PoolAssumption DEF PoolTypeOK
<1> QED
  BY <1>1, FloorType, NeverAssumption, PoolAssumption
     DEF exp, Left, Duration, Floor

LEMMA NewSlotType ==
  SlotIdLeft => NewSlot \in SlotId /\ NewSlot \notin SlotsInUse
BY DEF SlotIdLeft, NewSlot
-----------------------------------------------------------------------------
\* Nobody else deletes the entry of the meta-lock.
Unreleased == ~\E p \in Proc : ReleaseMetaLock(p)

\* Every step of the pool is a step of the lock on `{key}-lock', or none.
LEMMA UnreleasedStepIsLockStep ==
  [PoolNext]_vars /\ Unreleased =>
    [Undisturbed \/ \E p \in Proc : Crash(p)]_lockVars
<1> SUFFICES ASSUME [PoolNext]_vars, Unreleased
             PROVE  [Undisturbed \/ \E p \in Proc : Crash(p)]_lockVars
  OBVIOUS
<1> USE DEF Undisturbed, Step
<1>1. CASE UNCHANGED vars
  BY <1>1 DEF vars
<1>2. ASSUME NEW p \in Proc, Call(p) \/ LockedCall(p)
      PROVE  [Undisturbed \/ \E r \in Proc : Crash(r)]_lockVars
  BY <1>2 DEF Call, Enter, Exit, ExitWithoutSlot, Size, LockedCall, Begin
<1>3. ASSUME NEW p \in Proc, Operate(p)
      PROVE  [Undisturbed \/ \E r \in Proc : Crash(r)]_lockVars
  BY <1>3 DEF Operate, TryMetaLock, MetaLockTimeout, ReadClock, Load, Full,
     Admit, ReleaseSlot, CountSlots, Finish, FinishFailed, Leave
<1>4. ASSUME NEW p \in Proc, Die(p) \/ LockedCallOver(p) \/ Fault(p)
      PROVE  [Undisturbed \/ \E r \in Proc : Crash(r)]_lockVars
  BY <1>4 DEF Die, LockedCallOver, Leave, Fault, StateFails, MetaLockFails
<1>5. CASE PoolTick
  BY <1>5 DEF PoolTick
<1> QED
  BY <1>1, <1>2, <1>3, <1>4, <1>5 DEF PoolNext, PoolUndisturbed, Unreleased

LEMMA PoolStepIsLockStep == [PoolNext]_vars => [LockNext]_lockVars
<1>1. CASE Unreleased
  BY <1>1, UnreleasedStepIsLockStep DEF LockNext
<1>2. CASE ~Unreleased
  BY <1>2 DEF Unreleased, ReleaseMetaLock, LockNext
<1> QED
  BY <1>1, <1>2

(***************************************************************************)
(* The meta-lock of a pool is a lock, whatever the pool does with it: what *)
(* is proved of Lock.tla holds of it (_pool.py uses lock(...) unchanged).  *)
(***************************************************************************)
THEOREM MetaLockIsLock == PoolSpec => LockSpec
<1>1. PoolInit => LockInit
  BY DEF PoolInit
<1> QED
  BY <1>1, PoolStepIsLockStep, PTL DEF PoolSpec, LockSpec
-----------------------------------------------------------------------------
\* Where a process is in the pool and where it is in the lock.
Control(p) ==
  /\ op[p] = "none" <=> pc[p] = "idle"
  /\ stage[p] \in {"done", "failed"} <=> pc[p] = "leaving"
  /\ stage[p] \in {"sampled", "loaded"} => pc[p] = "inside"
  /\ op[p] \in {"none", "size", "lock"} => mine[p] = NoSlot
  /\ op[p] = "exit" => mine[p] # NoSlot
  /\ op[p] = "enter" /\ mine[p] # NoSlot =>
       stage[p] = "done" /\ mine[p] \in DOMAIN view[p]

Controlled == \A p \in Proc : Control(p)

LEMMA ControlInit == PoolInit => PoolTypeOK /\ Controlled
<1> SUFFICES ASSUME PoolInit
             PROVE  PoolTypeOK /\ Controlled
  OBVIOUS
<1>1. LockTypeOK
  BY TypeInit DEF PoolInit
<1>2. bodies \in [Proc -> Seq([slot: SlotId, left: Left])]
  BY DEF PoolInit
<1>3. IsSlotMap(slots) /\ view = [p \in Proc |-> view[p]]
      /\ \A p \in Proc : IsSlotMap(view[p])
  BY EmptyType DEF PoolInit
<1>4. 0 \in 0..MaxStall /\ 0 \in 0..MaxFaults
  BY PoolAssumption
<1> QED
  BY <1>1, <1>2, <1>3, <1>4 DEF PoolInit, LockInit, PoolTypeOK, Controlled, Control

\* The types of what the pool itself keeps.
SlotTypes ==
  /\ IsSlotMap(slots)
  /\ op \in [Proc -> {"none", "enter", "exit", "size", "lock"}]
  /\ stage \in [Proc -> {"begin", "sampled", "loaded", "done", "failed"}]
  /\ view = [p \in Proc |-> view[p]] /\ \A p \in Proc : IsSlotMap(view[p])
  /\ age \in [Proc -> 0..MaxStall]
  /\ mine \in [Proc -> SlotId \cup {NoSlot}]
  /\ slotVar \in [Proc -> SlotId \cup {NoSlot}]
  /\ bodies \in [Proc -> Seq([slot: SlotId, left: Left])]
  /\ leaked \subseteq DOMAIN slots

\* What a step of the pool does to the processes that do not take it.
LEMMA OthersStay ==
  ASSUME PoolTypeOK, NEW p \in Proc,
         Call(p) \/ LockedCall(p) \/ LockedCallOver(p) \/ Operate(p) \/ Die(p)
           \/ Fault(p),
         NEW q \in Proc, q # p
  PROVE  UNCHANGED <<pc[q], op[q], stage[q], view[q], age[q], mine[q],
                     slotVar[q], bodies[q]>>
<1> USE DEF PoolTypeOK, LockTypeOK
<1>1. CASE Call(p) \/ LockedCall(p)
  BY <1>1 DEF Call, LockedCall, Enter, Exit, ExitWithoutSlot, Size, Begin, Start,
     BodyOver, lockVars, locals
<1>2. CASE TryMetaLock(p)
  BY <1>2 DEF TryMetaLock, Acquire, Refuse, Sleep, Wake, locals
<1>3. CASE MetaLockTimeout(p) \/ FinishFailed(p) \/ MetaLockFails(p)
  BY <1>3 DEF MetaLockTimeout, FinishFailed, MetaLockFails, Raise, Release, Crash,
     StopHolding, Quit, Forget, Goto
<1>4. CASE ReadClock(p) \/ Load(p)
  BY <1>4 DEF ReadClock, Load, Goto, lockVars
<1>5. CASE Full(p) \/ CountSlots(p) \/ LockedCallOver(p) \/ Admit(p)
             \/ ReleaseSlot(p)
  BY <1>5 DEF Full, CountSlots, LockedCallOver, Admit, ReleaseSlot, Leave, EndBody,
     Goto
<1>6. CASE StateFails(p)
  BY <1>6 DEF StateFails, EndBody, Goto
<1>7. CASE Finish(p)
  BY <1>7 DEF Finish, Release, StopHolding, Forget, Goto
<1>8. CASE Die(p)
  BY <1>8 DEF Die, Crash, StopHolding, Forget, Goto, lockVars
<1> QED
  BY <1>1, <1>2, <1>3, <1>4, <1>5, <1>6, <1>7, <1>8 DEF Operate, Fault

-----------------------------------------------------------------------------
(* The types, and where a process is: one action of it after the other.     *)

Body == [slot: SlotId, left: Left]

LEMMA EndType ==
  ASSUME PoolTypeOK, Controlled, NEW p \in Proc, BodyOver(p), bodies[p] # <<>>
  PROVE  /\ bodies' \in [Proc -> Seq(Body)]
         /\ leaked' \subseteq DOMAIN slots
<1>1. bodies[p] \in Seq(Body)
  BY DEF PoolTypeOK, Body
<1>2. Front(bodies[p]) \in Seq(Body)
  BY <1>1, FrontType
<1>3. leaked' \subseteq DOMAIN slots
  BY DEF BodyOver, PoolTypeOK
<1> QED
  BY <1>2, <1>3 DEF BodyOver, PoolTypeOK, Body

LEMMA CallKeepsTypes ==
  ASSUME PoolTypeOK, Controlled, NEW p \in Proc, Call(p) \/ LockedCall(p)
  PROVE  SlotTypes' /\ Control(p)'
<1> USE DEF PoolTypeOK, SlotTypes, LockTypeOK, Controlled, Control
<1>1. ASSUME NEW o \in {"enter", "exit", "size", "lock"},
             NEW slot \in SlotId \cup {NoSlot}, Begin(p, o, slot),
             slot # NoSlot <=> o = "exit"
      PROVE  /\ Control(p)'
             /\ IsSlotMap(slots')
             /\ op' \in [Proc -> {"none", "enter", "exit", "size", "lock"}]
             /\ mine' \in [Proc -> SlotId \cup {NoSlot}]
             /\ UNCHANGED <<slots, stage, view, age, slotVar>>
  BY <1>1 DEF Begin, Start
<1>2. CASE Enter(p)
  BY <1>1, <1>2 DEF Enter
<1>3. CASE Size(p)
  BY <1>1, <1>3 DEF Size
<1>4. CASE LockedCall(p)
  BY <1>1, <1>4 DEF LockedCall
<1>5. CASE Exit(p)
  <2>1. /\ bodies' \in [Proc -> Seq(Body)]
        /\ leaked' \subseteq DOMAIN slots
    BY <1>5, EndType DEF Exit
  <2>2. slotVar[p] \in SlotId \cup {NoSlot} /\ slotVar[p] # NoSlot
    BY <1>5 DEF Exit
  <2>3. Begin(p, "exit", slotVar[p])
    BY <1>5 DEF Exit
  <2> QED
    BY <1>1, <2>1, <2>2, <2>3 DEF Body
<1>6. CASE ExitWithoutSlot(p)
  <2>1. /\ bodies' \in [Proc -> Seq(Body)]
        /\ leaked' \subseteq DOMAIN slots
    BY <1>6, EndType DEF ExitWithoutSlot
  <2>2. UNCHANGED <<pc, slots, op, stage, view, age, mine, slotVar>>
    BY <1>6 DEF ExitWithoutSlot, lockVars, locals
  <2> QED
    BY <2>1, <2>2 DEF Body
<1> QED
  BY <1>2, <1>3, <1>4, <1>5, <1>6 DEF Call

LEMMA TryKeepsTypes ==
  ASSUME PoolTypeOK, Controlled, NEW p \in Proc, TryMetaLock(p)
  PROVE  SlotTypes' /\ Control(p)'
BY DEF PoolTypeOK, SlotTypes, LockTypeOK, Controlled, Control, TryMetaLock, Acquire,
   Refuse, Sleep, Wake, locals

\* An operation that is over leaves nothing behind in the process.
LEMMA ForgetType ==
  ASSUME PoolTypeOK, NEW p \in Proc, Forget(p), pc' = [pc EXCEPT ![p] = "idle"]
  PROVE  /\ Control(p)'
         /\ op' \in [Proc -> {"none", "enter", "exit", "size", "lock"}]
         /\ stage' \in [Proc -> {"begin", "sampled", "loaded", "done", "failed"}]
         /\ view' = [q \in Proc |-> view'[q]] /\ \A q \in Proc : IsSlotMap(view'[q])
         /\ age' \in [Proc -> 0..MaxStall]
         /\ mine' \in [Proc -> SlotId \cup {NoSlot}]
<1>1. 0 \in 0..MaxStall
  BY PoolAssumption
<1>2. view' = [q \in Proc |-> view'[q]] /\ \A q \in Proc : IsSlotMap(view'[q])
  BY EmptyType DEF PoolTypeOK, Forget
<1>3. /\ op' \in [Proc -> {"none", "enter", "exit", "size", "lock"}]
      /\ stage' \in [Proc -> {"begin", "sampled", "loaded", "done", "failed"}]
      /\ age' \in [Proc -> 0..MaxStall]
      /\ mine' \in [Proc -> SlotId \cup {NoSlot}]
  BY <1>1 DEF PoolTypeOK, Forget, Goto
<1>4. op'[p] = "none" /\ stage'[p] = "begin" /\ mine'[p] = NoSlot /\ pc'[p] = "idle"
  BY DEF PoolTypeOK, LockTypeOK, Forget, Goto
<1> QED
  BY <1>2, <1>3, <1>4 DEF Control

LEMMA QuitKeepsTypes ==
  ASSUME PoolTypeOK, NEW p \in Proc, Quit(p), pc' = [pc EXCEPT ![p] = "idle"]
  PROVE  SlotTypes' /\ Control(p)'
<1>1. UNCHANGED <<slots, slotVar, bodies>> /\ leaked' \subseteq DOMAIN slots
  BY DEF Quit, PoolTypeOK
<1> QED
  BY <1>1, ForgetType DEF Quit, SlotTypes, PoolTypeOK

LEMMA FailKeepsTypes ==
  ASSUME PoolTypeOK, Controlled, NEW p \in Proc,
         MetaLockTimeout(p) \/ FinishFailed(p) \/ Fault(p)
  PROVE  SlotTypes' /\ Control(p)'
<1>1. CASE MetaLockTimeout(p)
  BY <1>1, QuitKeepsTypes DEF MetaLockTimeout, Raise
<1>2. CASE FinishFailed(p)
  BY <1>2, QuitKeepsTypes DEF FinishFailed, Release, StopHolding
<1>3. CASE MetaLockFails(p)
  BY <1>3, QuitKeepsTypes DEF MetaLockFails, Crash, Release, StopHolding
<1>4. CASE StateFails(p)
  <2>1. 0 \in 0..MaxStall
    BY PoolAssumption
  <2>2. view' = [q \in Proc |-> view'[q]] /\ \A q \in Proc : IsSlotMap(view'[q])
    BY <1>4, EmptyType DEF PoolTypeOK, StateFails
  <2>3. /\ stage' \in [Proc -> {"begin", "sampled", "loaded", "done", "failed"}]
        /\ age' \in [Proc -> 0..MaxStall]
        /\ UNCHANGED <<slots, op, mine, slotVar, bodies, leaked>>
    BY <1>4, <2>1 DEF PoolTypeOK, StateFails, Goto
  <2>4. /\ stage'[p] = "failed" /\ pc'[p] = "leaving"
        /\ stage[p] # "done" /\ op[p] # "none"
    BY <1>4 DEF StateFails, Goto, EndBody, PoolTypeOK, LockTypeOK, Controlled, Control
  <2>5. op'[p] = op[p] /\ mine'[p] = mine[p]
    BY <2>3
  <2>6. Control(p)'
    BY <2>4, <2>5 DEF Control, Controlled
  <2> QED
    BY <2>2, <2>3, <2>6 DEF PoolTypeOK, SlotTypes
<1> QED
  BY <1>1, <1>2, <1>3, <1>4 DEF Fault

LEMMA LoadKeepsTypes ==
  ASSUME PoolTypeOK, Controlled, NEW p \in Proc, ReadClock(p) \/ Load(p)
  PROVE  SlotTypes' /\ Control(p)'
<1>1. CASE ReadClock(p)
  BY <1>1 DEF ReadClock, Goto, At, lockVars, PoolTypeOK, SlotTypes, Controlled,
     Control
<1>2. CASE Load(p)
  <2>1. IsSlotMap(slots) /\ IsSlotMap(cleanup(slots, age[p]))
    BY OnlyType DEF PoolTypeOK, cleanup, Fresh
  <2>2. view' = [view EXCEPT ![p] = slots]
          \/ view' = [view EXCEPT ![p] = cleanup(slots, age[p])]
    BY <1>2 DEF Load
  <2>3. view' = [q \in Proc |-> view'[q]] /\ \A q \in Proc : IsSlotMap(view'[q])
    BY <2>1, <2>2 DEF PoolTypeOK
  <2>4. Control(p)'
    BY <1>2 DEF Load, Goto, At, lockVars, PoolTypeOK, Controlled, Control
  <2>5. /\ stage' \in [Proc -> {"begin", "sampled", "loaded", "done", "failed"}]
        /\ UNCHANGED <<slots, op, age, mine, slotVar, bodies, leaked>>
    BY <1>2 DEF Load, Goto, PoolTypeOK
  <2> QED
    BY <2>3, <2>4, <2>5 DEF PoolTypeOK, SlotTypes
<1> QED
  BY <1>1, <1>2

LEMMA LeaveType ==
  ASSUME PoolTypeOK, NEW p \in Proc, NEW keep, IsSlotMap(keep), Leave(p, keep)
  PROVE  /\ UNCHANGED <<op, slotVar, bodies>>
         /\ stage' \in [Proc -> {"begin", "sampled", "loaded", "done", "failed"}]
         /\ view' = [q \in Proc |-> view'[q]] /\ \A q \in Proc : IsSlotMap(view'[q])
         /\ age' \in [Proc -> 0..MaxStall]
         /\ view'[p] = keep /\ stage'[p] = "done" /\ pc'[p] = "leaving"
         /\ pc[p] = "inside"
<1>1. 0 \in 0..MaxStall
  BY PoolAssumption
<1>2. /\ view' = [q \in Proc |-> view'[q]] /\ \A q \in Proc : IsSlotMap(view'[q])
      /\ view'[p] = keep
  BY DEF PoolTypeOK, Leave
<1>3. /\ stage' \in [Proc -> {"begin", "sampled", "loaded", "done", "failed"}]
      /\ age' \in [Proc -> 0..MaxStall]
      /\ UNCHANGED <<op, slotVar, bodies>>
  BY <1>1 DEF PoolTypeOK, Leave, Goto
<1> QED
  BY <1>2, <1>3 DEF PoolTypeOK, LockTypeOK, Leave, Goto, EndBody

LEMMA LeaveKeepsTypes ==
  ASSUME PoolTypeOK, Controlled, NEW p \in Proc,
         Full(p) \/ CountSlots(p) \/ LockedCallOver(p) \/ Admit(p) \/ ReleaseSlot(p)
  PROVE  SlotTypes' /\ Control(p)'
<1>1. CASE Admit(p)
  <2>1. NewSlot \in SlotId /\ exp(p) \in Left /\ NewSlot # NoSlot
    BY <1>1, NewSlotType, ExpType, PoolAssumption DEF Admit
  <2>2. /\ IsSlotMap(With(view[p], NewSlot, exp(p)))
        /\ IsSlotMap(With(Empty, NewSlot, exp(p)))
        /\ NewSlot \in DOMAIN With(Empty, NewSlot, exp(p))
    <3>1. IsSlotMap(view[p])
      BY DEF PoolTypeOK
    <3>2. IsSlotMap(With(view[p], NewSlot, exp(p)))
      BY <2>1, <3>1, WithType
    <3>3. /\ IsSlotMap(With(Empty, NewSlot, exp(p)))
          /\ DOMAIN With(Empty, NewSlot, exp(p)) = DOMAIN Empty \cup {NewSlot}
      BY <2>1, EmptyType, WithType
    <3> QED
      BY <3>2, <3>3
  <2>3. Leave(p, With(Empty, NewSlot, exp(p))) /\ op[p] = "enter"
    BY <1>1 DEF Admit, At
  <2>4. /\ slots' = With(view[p], NewSlot, exp(p))
        /\ leaked' \subseteq DOMAIN slots'
        /\ mine' = [mine EXCEPT ![p] = NewSlot]
    BY <1>1 DEF Admit, save_state
  <2>5. Control(p)'
    BY <2>1, <2>2, <2>3, <2>4, LeaveType DEF Control, PoolTypeOK
  <2>6. mine' \in [Proc -> SlotId \cup {NoSlot}]
    BY <2>1, <2>4 DEF PoolTypeOK
  <2> QED
    BY <2>2, <2>3, <2>4, <2>5, <2>6, LeaveType DEF SlotTypes, PoolTypeOK
<1>2. CASE Full(p) \/ CountSlots(p) \/ LockedCallOver(p) \/ ReleaseSlot(p)
  <2>1. /\ Leave(p, Empty) /\ mine' = mine
        /\ stage[p] # "done" /\ op[p] # "none"
    BY <1>2 DEF Full, CountSlots, LockedCallOver, ReleaseSlot, At
  <2>2. IsSlotMap(slots') /\ leaked' \subseteq DOMAIN slots'
    <3>1. CASE UNCHANGED <<slots, leaked>>
      BY <3>1 DEF PoolTypeOK
    <3>2. CASE save_state(Only(view[p], DOMAIN view[p] \ {mine[p]}))
      BY <3>2, OnlyType DEF save_state, PoolTypeOK
    <3> QED
      BY <1>2, <3>1, <3>2 DEF Full, CountSlots, LockedCallOver, ReleaseSlot
  <2>3. Control(p)'
    BY <2>1, LeaveType, EmptyType DEF Control, Controlled
  <2> QED
    BY <2>1, <2>2, <2>3, LeaveType, EmptyType DEF SlotTypes, PoolTypeOK
<1> QED
  BY <1>1, <1>2

LEMMA FinishKeepsTypes ==
  ASSUME PoolTypeOK, Controlled, NEW p \in Proc, Finish(p)
  PROVE  SlotTypes' /\ Control(p)'
<1>1. Forget(p) /\ pc' = [pc EXCEPT ![p] = "idle"] /\ UNCHANGED <<slots, leaked>>
  BY DEF Finish, Release, StopHolding
<1>2. slotVar' \in [Proc -> SlotId \cup {NoSlot}]
  BY DEF Finish, PoolTypeOK
<1>3. bodies' \in [Proc -> Seq(Body)]
  <2>1. CASE UNCHANGED bodies
    BY <2>1 DEF PoolTypeOK, Body
  <2>2. CASE /\ op[p] = "enter" /\ mine[p] # NoSlot
             /\ bodies' = [bodies EXCEPT ![p] =
                  Append(@, [slot |-> mine[p], left |-> view[p][mine[p]]])]
    <3>1. mine[p] \in SlotId /\ mine[p] \in DOMAIN view[p]
      BY <2>2 DEF PoolTypeOK, Controlled, Control
    <3>2. view[p][mine[p]] \in Left
      BY <3>1 DEF PoolTypeOK, IsSlotMap
    <3>3. [slot |-> mine[p], left |-> view[p][mine[p]]] \in Body
      BY <3>1, <3>2 DEF Body
    <3>4. bodies \in [Proc -> Seq(Body)]
      BY DEF PoolTypeOK, Body
    <3>5. Append(bodies[p], [slot |-> mine[p], left |-> view[p][mine[p]]])
            \in Seq(Body)
      BY <3>3, <3>4
    <3> QED
      BY <2>2, <3>4, <3>5
  <2> QED
    BY <2>1, <2>2 DEF Finish
<1> QED
  BY <1>1, <1>2, <1>3, ForgetType DEF SlotTypes, PoolTypeOK, Body

LEMMA DieKeepsTypes ==
  ASSUME PoolTypeOK, Controlled, NEW p \in Proc, Die(p)
  PROVE  SlotTypes' /\ Control(p)'
<1>1. Forget(p) /\ pc' = [pc EXCEPT ![p] = "idle"]
  BY DEF Die, Crash, StopHolding, lockVars, PoolTypeOK, LockTypeOK
<1>2. /\ slots' = slots
      /\ slotVar' \in [Proc -> SlotId \cup {NoSlot}]
      /\ bodies' \in [Proc -> Seq(Body)]
      /\ leaked' \subseteq DOMAIN slots'
  <2>1. <<>> \in Seq(Body) /\ bodies \in [Proc -> Seq(Body)]
    BY EmptySeq DEF PoolTypeOK, Body
  <2> QED
    BY <2>1 DEF Die, PoolTypeOK
<1> QED
  BY <1>1, <1>2, ForgetType DEF SlotTypes, PoolTypeOK, Body

LEMMA TickKeepsTypes ==
  ASSUME PoolTypeOK, Controlled, PoolTick
  PROVE  SlotTypes' /\ Controlled'
<1>1. UNCHANGED <<pc, op, stage, mine, slotVar, leaked>>
  BY DEF PoolTick, Tick
<1>2. IsSlotMap(slots') /\ DOMAIN slots' = DOMAIN slots
  BY OlderType DEF PoolTick, PoolTypeOK
<1>3. /\ view' = [q \in Proc |-> view'[q]]
      /\ \A q \in Proc : IsSlotMap(view'[q]) /\ DOMAIN view'[q] = DOMAIN view[q]
  BY OlderType DEF PoolTick, PoolTypeOK
<1>4. age' \in [Proc -> 0..MaxStall]
  BY PoolAssumption DEF PoolTick, PoolTypeOK
<1>5. bodies' \in [Proc -> Seq(Body)]
  <2>1. ASSUME NEW q \in Proc
        PROVE  [i \in DOMAIN bodies[q] |-> OlderBody(bodies[q][i])] \in Seq(Body)
    <3>1. bodies[q] \in Seq(Body)
      BY DEF PoolTypeOK, Body
    <3>2. Len(bodies[q]) \in Nat /\ DOMAIN bodies[q] = 1..Len(bodies[q])
      BY <3>1, LenProperties
    <3>3. ASSUME NEW i \in DOMAIN bodies[q]
          PROVE  OlderBody(bodies[q][i]) \in Body
      <4>1. bodies[q][i] \in Body
        BY <3>1, <3>2, ElementOfSeq
      <4> QED
        BY <4>1, LeftElapses DEF OlderBody, Body
    <3> QED
      BY <3>2, <3>3
  <2> QED
    BY <2>1 DEF PoolTick
<1>6. Controlled'
  BY <1>1, <1>3 DEF Controlled, Control
<1> QED
  BY <1>1, <1>2, <1>3, <1>4, <1>5, <1>6 DEF SlotTypes, PoolTypeOK, Body

LEMMA PoolTypeStep ==
  PoolTypeOK /\ Controlled /\ [PoolNext]_vars => (PoolTypeOK /\ Controlled)'
<1> SUFFICES ASSUME PoolTypeOK, Controlled, [PoolNext]_vars
             PROVE  (PoolTypeOK /\ Controlled)'
  OBVIOUS
<1>1. LockTypeOK'
  BY PoolStepIsLockStep, TypeStep DEF PoolTypeOK
<1>2. tainted' \in BOOLEAN /\ faults' \in 0..MaxFaults
  BY <1>1, PoolAssumption DEF PoolTypeOK, LockTypeOK, PoolNext, PoolUndisturbed,
     Taint, Fault, vars, poolVars
<1>3. SlotTypes' /\ Controlled'
  <2>1. CASE UNCHANGED vars
    BY <2>1 DEF vars, lockVars, poolVars, locals, PoolTypeOK, SlotTypes, Controlled,
       Control
  <2>4. ASSUME NEW p \in Proc, ReleaseMetaLock(p)
        PROVE  SlotTypes' /\ Controlled'
    BY <2>4 DEF ReleaseMetaLock, ForceRelease, locals, PoolTypeOK, SlotTypes,
       Controlled, Control
  <2>2. CASE PoolTick
    BY <2>2, TickKeepsTypes
  <2>3. ASSUME NEW p \in Proc,
               Call(p) \/ LockedCall(p) \/ LockedCallOver(p) \/ Operate(p) \/ Die(p)
                 \/ Fault(p)
        PROVE  SlotTypes' /\ Controlled'
    <3>1. SlotTypes' /\ Control(p)'
      BY <2>3, CallKeepsTypes, TryKeepsTypes, FailKeepsTypes, LoadKeepsTypes,
         LeaveKeepsTypes, FinishKeepsTypes, DieKeepsTypes DEF Operate
    <3>2. ASSUME NEW q \in Proc, q # p
          PROVE  Control(q)'
      <4>1. UNCHANGED <<pc[q], op[q], stage[q], view[q], mine[q]>>
        BY <2>3, <3>2, OthersStay
      <4> QED
        BY <4>1 DEF Controlled, Control
    <3> QED
      BY <3>1, <3>2 DEF Controlled
  <2> QED
    BY <2>1, <2>2, <2>3, <2>4 DEF PoolNext, PoolUndisturbed
<1> QED
  BY <1>1, <1>2, <1>3 DEF PoolTypeOK, SlotTypes

(***************************************************************************)
(* Every variable of the pool keeps its type, and an operation is at the   *)
(* meta-lock where its stage says: what is saved is always a map of slots, *)
(* and a body that is entered has a slot.                                  *)
(***************************************************************************)
THEOREM PoolTypeCorrect == PoolSpec => []PoolTypeOK
  BY ControlInit, PoolTypeStep, PTL DEF PoolSpec
-----------------------------------------------------------------------------
(* How many slots are saved.                                                *)

Within(f) == IsFiniteSet(DOMAIN f) /\ count(f) <= MaxSize

\* What is stored has at most max_size slots, and so has what was loaded.
Sized ==
  /\ Within(slots)
  /\ \A p \in Proc : stage[p] = "loaded" => Within(view[p])

LEMMA FewerSlots ==
  ASSUME NEW f, NEW g, Within(f), DOMAIN g \subseteq DOMAIN f
  PROVE  Within(g)
<1>1. IsFiniteSet(DOMAIN g) /\ Cardinality(DOMAIN g) <= Cardinality(DOMAIN f)
  BY FS_Subset DEF Within
<1>2. Cardinality(DOMAIN f) \in Nat /\ Cardinality(DOMAIN g) \in Nat
  BY <1>1, FS_CardinalityType DEF Within
<1> QED
  BY <1>1, <1>2, PoolAssumption DEF Within, count

\* No step but a save changes what is stored, none but a load what was loaded.
LEMMA SavesAndLoads ==
  ASSUME PoolTypeOK, Controlled, NEW p \in Proc,
         Call(p) \/ LockedCall(p) \/ LockedCallOver(p) \/ Operate(p) \/ Die(p)
           \/ Fault(p)
  PROVE  /\ Admit(p) \/ ReleaseSlot(p) \/ slots' = slots
         /\ Load(p) \/ stage'[p] # "loaded"
<1> USE DEF PoolTypeOK, Controlled, Control
<1>1. CASE Call(p) \/ LockedCall(p)
  BY <1>1 DEF Call, LockedCall, Enter, Exit, ExitWithoutSlot, Size, Begin, Start,
     locals
<1>2. CASE TryMetaLock(p)
  BY <1>2 DEF TryMetaLock, Acquire, Refuse, Sleep, Wake, locals
<1>3. CASE MetaLockTimeout(p) \/ FinishFailed(p) \/ MetaLockFails(p)
  BY <1>3 DEF MetaLockTimeout, FinishFailed, MetaLockFails, Quit, Forget, Goto
<1>4. CASE ReadClock(p) \/ Load(p)
  BY <1>4 DEF ReadClock, Load, Goto
<1>5. CASE Full(p) \/ CountSlots(p) \/ LockedCallOver(p) \/ Admit(p)
             \/ ReleaseSlot(p)
  BY <1>5 DEF Full, CountSlots, LockedCallOver, Admit, ReleaseSlot, Leave, Goto
<1>6. CASE StateFails(p)
  BY <1>6 DEF StateFails, Goto
<1>7. CASE Finish(p) \/ Die(p)
  BY <1>7 DEF Finish, Die, Forget, Goto
<1> QED
  BY <1>1, <1>2, <1>3, <1>4, <1>5, <1>6, <1>7 DEF Operate, Fault

LEMMA SizedStep ==
  PoolTypeOK /\ Controlled /\ Sized /\ [PoolNext]_vars => Sized'
<1> SUFFICES ASSUME PoolTypeOK, Controlled, Sized, [PoolNext]_vars
             PROVE  Sized'
  OBVIOUS
<1>1. CASE UNCHANGED vars \/ \E p \in Proc : ReleaseMetaLock(p)
  BY <1>1 DEF vars, poolVars, ReleaseMetaLock, locals, Sized, Within, count
<1>2. CASE PoolTick
  <2>1. DOMAIN slots' = DOMAIN slots /\ stage' = stage
        /\ \A p \in Proc : DOMAIN view'[p] = DOMAIN view[p]
    BY <1>2, OlderType DEF PoolTick, PoolTypeOK
  <2> QED
    BY <2>1 DEF Sized, Within, count
<1>3. ASSUME NEW p \in Proc,
             Call(p) \/ LockedCall(p) \/ LockedCallOver(p) \/ Operate(p) \/ Die(p)
               \/ Fault(p)
      PROVE  Sized'
  <2>1. ASSUME NEW q \in Proc, q # p, stage'[q] = "loaded"
        PROVE  Within(view[q])'
    <3>1. stage'[q] = stage[q] /\ view'[q] = view[q]
      BY <1>3, <2>1, OthersStay
    <3> QED
      BY <2>1, <3>1 DEF Sized, Within, count
  <2>2. ASSUME stage'[p] = "loaded"
        PROVE  Within(view[p])'
    <3>1. Load(p)
      BY <1>3, <2>2, SavesAndLoads
    <3>2. view'[p] = slots \/ view'[p] = cleanup(slots, age[p])
      BY <3>1 DEF Load, PoolTypeOK
    <3>3. DOMAIN cleanup(slots, age[p]) \subseteq DOMAIN slots
      BY DEF cleanup, Only, Fresh
    <3>4. DOMAIN view'[p] \subseteq DOMAIN slots
      BY <3>2, <3>3
    <3>5. Within(view'[p])
      BY <3>4, FewerSlots DEF Sized
    <3> QED
      BY <3>5 DEF Within, count
  <2>3. Within(slots')
    <3>1. CASE Admit(p)
      <4>1. Within(view[p]) /\ count(view[p]) < MaxSize
        BY <3>1 DEF Admit, At, Sized
      <4>2. DOMAIN slots' = DOMAIN view[p] \cup {NewSlot}
        BY <3>1 DEF Admit, save_state, With
      <4>3. /\ IsFiniteSet(DOMAIN slots')
            /\ Cardinality(DOMAIN slots') \in
                 {Cardinality(DOMAIN view[p]), Cardinality(DOMAIN view[p]) + 1}
        BY <4>1, <4>2, FS_AddElement DEF Within
      <4>4. Cardinality(DOMAIN view[p]) \in Nat
        BY <4>1, FS_CardinalityType DEF Within
      <4> QED
        BY <4>1, <4>3, <4>4, PoolAssumption DEF Within, count
    <3>2. CASE ReleaseSlot(p)
      <4>1. Within(view[p])
        BY <3>2 DEF ReleaseSlot, At, Sized
      <4>2. slots' = slots \/ DOMAIN slots' \subseteq DOMAIN view[p]
        BY <3>2 DEF ReleaseSlot, save_state, Only
      <4> QED
        BY <4>1, <4>2, FewerSlots DEF Sized
    <3>3. CASE slots' = slots
      BY <3>3 DEF Sized
    <3> QED
      BY <1>3, <3>1, <3>2, <3>3, SavesAndLoads
  <2> QED
    BY <2>1, <2>2, <2>3 DEF Sized, Within, count
<1> QED
  BY <1>1, <1>2, <1>3 DEF PoolNext, PoolUndisturbed

(***************************************************************************)
(* The saved state never has more than max_size slots, whatever fails and  *)
(* even if the meta-lock is outlived: every save is of a state that was    *)
(* loaded, less one slot or with one more where there was room.            *)
(***************************************************************************)
THEOREM SavedWithinMaxSizeCorrect == PoolSpec => []SavedWithinMaxSize
<1>1. PoolInit => Sized
  <2>1. IsFiniteSet({}) /\ Cardinality({}) = 0
    BY FS_EmptySet
  <2> QED
    BY <2>1, EmptyType, PoolAssumption DEF PoolInit, Sized, Within, count
<1>2. Sized => SavedWithinMaxSize
  BY DEF Sized, Within, SavedWithinMaxSize
<1> QED
  BY <1>1, <1>2, ControlInit, PoolTypeStep, SizedStep, PTL DEF PoolSpec
-----------------------------------------------------------------------------
(* Whose a slot id is.                                                      *)

\* The ids a process works with, and in what order: no two of its bodies have
\* the same, what it is granting or releasing is not that of a body, and the
\* ContextVar names at most the innermost body.
Uses(p) == (SlotsOf(p) \cup {mine[p], slotVar[p]}) \ {NoSlot}

Own(p) ==
  /\ \A i, j \in DOMAIN bodies[p] : bodies[p][i].slot = bodies[p][j].slot => i = j
  /\ \A i \in DOMAIN bodies[p] :
       i < Len(bodies[p]) => bodies[p][i].slot # slotVar[p]
  /\ mine[p] \notin SlotsOf(p)

Distinct ==
  /\ \A p \in Proc : Own(p)
  /\ \A p, q \in Proc : p # q => Uses(p) \cap Uses(q) = {}

LEMMA BodyType ==
  ASSUME PoolTypeOK, NEW p \in Proc
  PROVE  /\ bodies[p] \in Seq(Body)
         /\ Len(bodies[p]) \in Nat /\ DOMAIN bodies[p] = 1..Len(bodies[p])
         /\ \A i \in DOMAIN bodies[p] : bodies[p][i] \in Body
         /\ NoSlot \notin SlotsOf(p)
         /\ bodies[p] # <<>> => Len(bodies[p]) \in DOMAIN bodies[p]
<1>1. bodies[p] \in Seq(Body)
  BY DEF PoolTypeOK, Body
<1>2. Len(bodies[p]) \in Nat /\ DOMAIN bodies[p] = 1..Len(bodies[p])
  BY <1>1, LenProperties
<1>3. \A i \in DOMAIN bodies[p] : bodies[p][i] \in Body
  BY <1>1, <1>2, ElementOfSeq
<1>4. bodies[p] # <<>> => Len(bodies[p]) \in DOMAIN bodies[p]
  BY <1>1, <1>2, EmptySeq
<1> QED
  BY <1>1, <1>2, <1>3, <1>4, PoolAssumption DEF SlotsOf, Body

LEMMA EndOwns ==
  ASSUME PoolTypeOK, NEW p \in Proc, Own(p), BodyOver(p), bodies[p] # <<>>,
         slotVar'[p] = slotVar[p],
         mine'[p] \in {slotVar[p], NoSlot}
  PROVE  Own(p)' /\ Uses(p)' \subseteq Uses(p)
<1>1. /\ bodies[p] \in Seq(Body) /\ Len(bodies[p]) \in Nat
      /\ DOMAIN bodies[p] = 1..Len(bodies[p])
  BY BodyType
<1>2. bodies'[p] = Front(bodies[p])
  BY DEF BodyOver, PoolTypeOK
<1>3. /\ DOMAIN bodies'[p] = 1..(Len(bodies[p]) - 1)
      /\ Len(bodies'[p]) = Len(bodies[p]) - 1
      /\ \A i \in 1..(Len(bodies[p]) - 1) : bodies'[p][i] = bodies[p][i]
  BY <1>1, <1>2, FrontType
<1>4. /\ DOMAIN bodies'[p] \subseteq DOMAIN bodies[p]
      /\ \A i \in DOMAIN bodies'[p] :
           bodies'[p][i] = bodies[p][i] /\ i < Len(bodies[p])
  BY <1>1, <1>3
<1>5. SlotsOf(p)' \subseteq SlotsOf(p)
  BY <1>4 DEF SlotsOf
<1>6. slotVar[p] \notin SlotsOf(p)'
  BY <1>4 DEF SlotsOf, Own
<1>7. mine'[p] \notin SlotsOf(p)'
  BY <1>5, <1>6, BodyType
<1> QED
  BY <1>4, <1>5, <1>7 DEF Own, Uses

\* Whatever leaves the bodies and the ContextVar of a process alone.
LEMMA SameBodiesOwn ==
  ASSUME PoolTypeOK, NEW p \in Proc, Own(p), bodies'[p] = bodies[p],
         slotVar'[p] \in {slotVar[p], NoSlot},
         mine'[p] \in {mine[p], NoSlot}
  PROVE  Own(p)' /\ Uses(p)' \subseteq Uses(p)
<1>1. SlotsOf(p)' = SlotsOf(p)
  BY DEF SlotsOf
<1>2. \A i \in DOMAIN bodies[p] : bodies[p][i].slot # NoSlot
  BY BodyType DEF SlotsOf
<1> QED
  BY <1>1, <1>2, BodyType DEF Own, Uses

LEMMA OwnStep ==
  ASSUME PoolTypeOK, Controlled, NEW p \in Proc, Own(p),
         Call(p) \/ LockedCall(p) \/ LockedCallOver(p) \/ Operate(p) \/ Die(p)
           \/ Fault(p)
  PROVE  /\ Own(p)'
         /\ Uses(p)' \subseteq Uses(p) \cup {s \in SlotId : s \notin SlotsInUse}
<1> USE DEF PoolTypeOK
<1>1. CASE Exit(p)
  <2>1. BodyOver(p) /\ bodies[p] # <<>> /\ slotVar' = slotVar
        /\ mine'[p] = slotVar[p]
    BY <1>1 DEF Exit, Begin
  <2> QED
    BY <2>1, EndOwns
<1>2. CASE ExitWithoutSlot(p)
  <2>1. BodyOver(p) /\ bodies[p] # <<>> /\ slotVar' = slotVar
        /\ mine'[p] = mine[p] /\ op[p] = "none"
    BY <1>2 DEF ExitWithoutSlot, locals
  <2>2. mine'[p] = NoSlot
    BY <2>1 DEF Controlled, Control
  <2> QED
    BY <2>1, <2>2, EndOwns
<1>3. CASE Enter(p) \/ Size(p) \/ LockedCall(p)
  <2>1. /\ bodies' = bodies /\ slotVar' = slotVar
        /\ mine'[p] = NoSlot
    BY <1>3 DEF Enter, Size, LockedCall, Begin
  <2> QED
    BY <2>1, SameBodiesOwn
<1>4. CASE TryMetaLock(p) \/ ReadClock(p) \/ Load(p) \/ StateFails(p) \/ Full(p)
             \/ CountSlots(p) \/ LockedCallOver(p) \/ ReleaseSlot(p)
  <2>1. UNCHANGED <<bodies, slotVar, mine>>
    BY <1>4 DEF TryMetaLock, ReadClock, Load, StateFails, Full, CountSlots,
       LockedCallOver, ReleaseSlot, Leave, locals
  <2> QED
    BY <2>1, SameBodiesOwn
<1>5. CASE MetaLockTimeout(p) \/ FinishFailed(p) \/ MetaLockFails(p)
  <2>1. UNCHANGED <<bodies, slotVar>> /\ mine'[p] = NoSlot
    BY <1>5 DEF MetaLockTimeout, FinishFailed, MetaLockFails, Quit, Forget
  <2> QED
    BY <2>1, SameBodiesOwn
<1>6. CASE Admit(p)
  <2>1. UNCHANGED <<bodies, slotVar>> /\ mine'[p] = NewSlot
        /\ NewSlot \in SlotId /\ NewSlot \notin SlotsInUse
    BY <1>6, NewSlotType DEF Admit, Leave
  <2>2. SlotsOf(p)' = SlotsOf(p) /\ SlotsOf(p) \subseteq SlotsInUse
    BY <2>1 DEF SlotsOf, SlotsInUse
  <2> QED
    BY <2>1, <2>2 DEF Own, Uses
<1>7. CASE Finish(p)
  <2>1. mine'[p] = NoSlot
    BY <1>7 DEF Finish, Forget
  <2>2. CASE op[p] = "enter" /\ mine[p] # NoSlot
    <3>1. slotVar'[p] = mine[p]
      BY <1>7, <2>2 DEF Finish
    <3> DEFINE b == [slot |-> mine[p], left |-> view[p][mine[p]]]
    <3>2. bodies'[p] = Append(bodies[p], b) /\ b.slot = mine[p]
      BY <1>7, <2>2 DEF Finish
    <3> HIDE DEF b
    <3>3. /\ bodies[p] \in Seq(Body) /\ Len(bodies[p]) \in Nat
          /\ DOMAIN bodies[p] = 1..Len(bodies[p])
      BY BodyType
    <3>4. /\ Len(bodies'[p]) = Len(bodies[p]) + 1
          /\ DOMAIN bodies'[p] = 1..(Len(bodies[p]) + 1)
          /\ bodies'[p][Len(bodies[p]) + 1] = b
          /\ \A i \in DOMAIN bodies[p] : bodies'[p][i] = bodies[p][i]
      BY <3>2, <3>3
    <3>5. SlotsOf(p)' = SlotsOf(p) \cup {mine[p]}
      BY <3>2, <3>3, <3>4 DEF SlotsOf
    <3>6. /\ \A i \in DOMAIN bodies[p] : bodies[p][i].slot # mine[p]
          /\ NoSlot \notin SlotsOf(p)
      BY BodyType DEF Own, SlotsOf
    <3>7. /\ \A i \in DOMAIN bodies'[p] : i \in DOMAIN bodies[p] \/ i = Len(bodies[p]) + 1
          /\ \A i \in DOMAIN bodies[p] : bodies'[p][i].slot = bodies[p][i].slot
          /\ bodies'[p][Len(bodies[p]) + 1].slot = mine[p]
      BY <3>2, <3>3, <3>4
    <3>8. \A i, j \in DOMAIN bodies'[p] :
            bodies'[p][i].slot = bodies'[p][j].slot => i = j
      BY <3>6, <3>7 DEF Own
    <3>9. \A i \in DOMAIN bodies'[p] :
            i < Len(bodies'[p]) => bodies'[p][i].slot # slotVar'[p]
      <4>1. \A i \in DOMAIN bodies'[p] :
              i < Len(bodies'[p]) => i \in DOMAIN bodies[p]
        BY <3>3, <3>4
      <4> QED
        BY <3>1, <3>6, <3>7, <4>1
    <3>10. mine'[p] \notin SlotsOf(p)'
      BY <2>1, <2>2, <3>5, <3>6
    <3> QED
      BY <2>1, <3>1, <3>5, <3>8, <3>9, <3>10 DEF Own, Uses
  <2>3. CASE ~(op[p] = "enter" /\ mine[p] # NoSlot)
    <3>1. bodies'[p] = bodies[p] /\ slotVar'[p] \in {slotVar[p], NoSlot}
      BY <1>7, <2>3 DEF Finish
    <3> QED
      BY <2>1, <3>1, SameBodiesOwn
  <2> QED
    BY <2>2, <2>3
<1>8. CASE Die(p)
  <2>1. mine'[p] = NoSlot /\ slotVar'[p] = NoSlot /\ bodies'[p] = <<>>
    BY <1>8 DEF Die, Forget
  <2>2. DOMAIN bodies'[p] = {} /\ SlotsOf(p)' = {}
    BY <2>1 DEF SlotsOf
  <2> QED
    BY <2>1, <2>2 DEF Own, Uses
<1> QED
  BY <1>1, <1>2, <1>3, <1>4, <1>5, <1>6, <1>7, <1>8 DEF Call, Operate, Fault

LEMMA DistinctStep ==
  PoolTypeOK /\ Controlled /\ Distinct /\ [PoolNext]_vars => Distinct'
<1> SUFFICES ASSUME PoolTypeOK, Controlled, Distinct, [PoolNext]_vars
             PROVE  Distinct'
  OBVIOUS
<1>1. CASE UNCHANGED vars \/ \E p \in Proc : ReleaseMetaLock(p)
  <2>1. UNCHANGED <<bodies, mine, slotVar>>
    BY <1>1 DEF vars, poolVars, ReleaseMetaLock, locals
  <2>2. \A p \in Proc : SlotsOf(p)' = SlotsOf(p)
    BY <2>1 DEF SlotsOf
  <2>3. \A p \in Proc : Own(p)' = Own(p) /\ Uses(p)' = Uses(p)
    BY <2>1, <2>2 DEF Own, Uses
  <2> QED
    BY <2>3 DEF Distinct
<1>2. CASE PoolTick
  <2>1. UNCHANGED <<mine, slotVar>>
    BY <1>2 DEF PoolTick
  <2>2. ASSUME NEW p \in Proc
        PROVE  Own(p)' /\ Uses(p)' = Uses(p)
    <3>1. bodies'[p] = [i \in DOMAIN bodies[p] |-> OlderBody(bodies[p][i])]
      BY <1>2 DEF PoolTick
    <3>2. /\ DOMAIN bodies'[p] = DOMAIN bodies[p]
          /\ \A i \in DOMAIN bodies[p] : bodies'[p][i].slot = bodies[p][i].slot
      BY <3>1 DEF OlderBody
    <3>3. Len(bodies'[p]) = Len(bodies[p])
      BY <3>1, BodyType
    <3>4. SlotsOf(p)' = SlotsOf(p)
      BY <3>2 DEF SlotsOf
    <3> QED
      BY <2>1, <3>2, <3>3, <3>4 DEF Distinct, Own, Uses
  <2> QED
    BY <2>2 DEF Distinct
<1>3. ASSUME NEW p \in Proc,
             Call(p) \/ LockedCall(p) \/ LockedCallOver(p) \/ Operate(p) \/ Die(p)
               \/ Fault(p)
      PROVE  Distinct'
  <2>1. /\ Own(p)'
        /\ Uses(p)' \subseteq Uses(p) \cup {s \in SlotId : s \notin SlotsInUse}
    BY <1>3, OwnStep DEF Distinct
  <2>2. ASSUME NEW q \in Proc, q # p
        PROVE  Own(q)' /\ Uses(q)' = Uses(q)
    <3>1. UNCHANGED <<mine[q], slotVar[q], bodies[q]>>
      BY <1>3, <2>2, OthersStay
    <3>2. SlotsOf(q)' = SlotsOf(q)
      BY <3>1 DEF SlotsOf
    <3> QED
      BY <3>1, <3>2 DEF Distinct, Own, Uses
  <2>3. \A q \in Proc : Uses(q) \subseteq SlotsInUse
    BY DEF Uses, SlotsInUse
  <2>4. \A q \in Proc : q # p => Uses(p)' \cap Uses(q) = {}
    BY <2>1, <2>3 DEF Distinct
  <2>5. \A q, r \in Proc : q # r => Uses(q)' \cap Uses(r)' = {}
    BY <2>2, <2>4 DEF Distinct
  <2> QED
    BY <2>1, <2>2, <2>5 DEF Distinct
<1> QED
  BY <1>1, <1>2, <1>3 DEF PoolNext, PoolUndisturbed
-----------------------------------------------------------------------------
(* What the state of the pool says, as long as the meta-lock is not         *)
(* breached.                                                                *)

InTime(l) == ~Expired(l, 0)

\* Slot s is saved with l left, if anything is left.
Recorded(s, l) == InTime(l) => s \in DOMAIN slots /\ slots[s] = l

BodiesRecorded(p) ==
  \A i \in DOMAIN bodies[p] : Recorded(bodies[p][i].slot, bodies[p][i].left)

\* What was loaded is what is stored, but for expired slots.
Loaded(p) ==
  stage[p] = "loaded" =>
    /\ \A s \in DOMAIN slots : InTime(slots[s]) => s \in DOMAIN view[p]
    /\ \A s \in DOMAIN view[p] : s \in DOMAIN slots /\ view[p][s] = slots[s]
    /\ op[p] = "enter" => \A s \in DOMAIN view[p] : ~Expired(slots[s], age[p])

\* A slot has been granted and the meta-lock is still to be given back; or
\* released.
Granted(p) ==
  op[p] = "enter" /\ mine[p] # NoSlot => Recorded(mine[p], view[p][mine[p]])

Released(p) ==
  op[p] = "exit" /\ stage[p] = "done" =>
    (mine[p] \in DOMAIN slots => ~InTime(slots[mine[p]]))

Ageless == SlotExp = Never => \A s \in DOMAIN slots : slots[s] = Never

Accounted ==
  \A s \in DOMAIN slots : InTime(slots[s]) =>
    s \in leaked \/ \E p \in Proc : s \in SlotsOf(p) \/ s = mine[p]

Data ==
  ~tainted =>
    /\ ~breach
    /\ \A p \in Proc : BodiesRecorded(p) /\ Loaded(p) /\ Granted(p) /\ Released(p)
    /\ Ageless /\ Accounted

\* Only who holds the meta-lock is past the beginning of its operation.
LEMMA OthersBegin ==
  ASSUME PoolTypeOK, Controlled, MutualExclusion, ~breach,
         NEW p \in Proc, pc[p] = "inside", NEW q \in Proc, q # p
  PROVE  stage[q] = "begin"
BY DEF PoolTypeOK, LockTypeOK, Controlled, Control, MutualExclusion, Holding

LEMMA MoverRecorded ==
  ASSUME PoolTypeOK, Controlled, NEW p \in Proc, BodiesRecorded(p), Granted(p),
         Call(p) \/ LockedCall(p) \/ LockedCallOver(p) \/ Operate(p) \/ Die(p)
           \/ Fault(p),
         slots' = slots
  PROVE  BodiesRecorded(p)'
<1>1. CASE bodies'[p] = bodies[p]
  BY <1>1 DEF BodiesRecorded, Recorded
<1>2. CASE BodyOver(p) /\ bodies[p] # <<>>
  <2>1. bodies[p] \in Seq(Body) /\ bodies'[p] = Front(bodies[p])
        /\ DOMAIN bodies[p] = 1..Len(bodies[p]) /\ Len(bodies[p]) \in Nat
    BY <1>2, BodyType DEF BodyOver, PoolTypeOK
  <2>2. /\ DOMAIN bodies'[p] = 1..(Len(bodies[p]) - 1)
        /\ \A i \in 1..(Len(bodies[p]) - 1) : bodies'[p][i] = bodies[p][i]
    BY <1>2, <2>1, FrontType
  <2>3. \A i \in DOMAIN bodies'[p] :
          i \in DOMAIN bodies[p] /\ bodies'[p][i] = bodies[p][i]
    BY <2>1, <2>2
  <2> QED
    BY <2>3 DEF BodiesRecorded, Recorded
<1>3. CASE Finish(p) /\ op[p] = "enter" /\ mine[p] # NoSlot
  <2> DEFINE b == [slot |-> mine[p], left |-> view[p][mine[p]]]
  <2>1. bodies'[p] = Append(bodies[p], b)
    BY <1>3 DEF Finish, PoolTypeOK
  <2>2. Recorded(b.slot, b.left)
    BY <1>3 DEF Granted
  <2> HIDE DEF b
  <2>3. bodies[p] \in Seq(Body) /\ DOMAIN bodies[p] = 1..Len(bodies[p])
        /\ Len(bodies[p]) \in Nat
    BY BodyType
  <2>4. /\ DOMAIN bodies'[p] = 1..(Len(bodies[p]) + 1)
        /\ bodies'[p][Len(bodies[p]) + 1] = b
        /\ \A i \in DOMAIN bodies[p] : bodies'[p][i] = bodies[p][i]
    BY <2>1, <2>3
  <2>5. \A i \in DOMAIN bodies'[p] :
          i \in DOMAIN bodies[p] \/ i = Len(bodies[p]) + 1
    BY <2>3, <2>4
  <2>6. \A i \in DOMAIN bodies'[p] :
          \/ bodies'[p][i] = b
          \/ i \in DOMAIN bodies[p] /\ bodies'[p][i] = bodies[p][i]
    BY <2>4, <2>5
  <2> QED
    BY <2>2, <2>6 DEF BodiesRecorded, Recorded
<1>4. CASE Die(p)
  BY <1>4 DEF Die, PoolTypeOK, BodiesRecorded
<1> QED
  BY <1>1, <1>2, <1>3, <1>4
     DEF Call, LockedCall, LockedCallOver, Enter, Exit, ExitWithoutSlot, Size, Begin,
     Operate, TryMetaLock, MetaLockTimeout, ReadClock, Load, Full, Admit, ReleaseSlot,
     CountSlots, Finish, FinishFailed, Quit, Leave, Fault, StateFails, MetaLockFails

\* Apart from Admit and ReleaseSlot nothing grants or releases.
LEMMA MoverGranted ==
  ASSUME PoolTypeOK, Controlled, NEW p \in Proc,
         Call(p) \/ LockedCall(p) \/ LockedCallOver(p) \/ Operate(p) \/ Die(p)
           \/ Fault(p),
         ~Admit(p), ~ReleaseSlot(p)
  PROVE  Granted(p)' /\ Released(p)'
<1> USE DEF PoolTypeOK, LockTypeOK, Controlled, Control, Granted, Released
<1>1. CASE Call(p) \/ LockedCall(p)
  BY <1>1 DEF Call, LockedCall, Enter, Exit, ExitWithoutSlot, Size, Begin, Start,
     locals
<1>2. CASE TryMetaLock(p)
  BY <1>2 DEF TryMetaLock, Acquire, Refuse, Sleep, Wake, locals
<1>3. CASE MetaLockTimeout(p) \/ FinishFailed(p) \/ MetaLockFails(p)
  BY <1>3 DEF MetaLockTimeout, FinishFailed, MetaLockFails, Quit, Forget, Goto
<1>4. CASE ReadClock(p) \/ Load(p)
  BY <1>4 DEF ReadClock, Load, Goto, At
<1>5. CASE Full(p) \/ CountSlots(p) \/ LockedCallOver(p)
  BY <1>5 DEF Full, CountSlots, LockedCallOver, Leave, Goto, At
<1>6. CASE StateFails(p)
  BY <1>6 DEF StateFails, Goto
<1>7. CASE Finish(p) \/ Die(p)
  BY <1>7 DEF Finish, Die, Forget, Goto
<1> QED
  BY <1>1, <1>2, <1>3, <1>4, <1>5, <1>6, <1>7 DEF Operate, Fault

LEMMA MoverLoaded ==
  ASSUME PoolTypeOK, NEW p \in Proc, Load(p)
  PROVE  Loaded(p)'
<1>1. slots' = slots /\ age' = age /\ op' = op
  BY DEF Load
<1>2. \/ op[p] = "enter" /\ view'[p] = cleanup(slots, age[p])
      \/ op[p] # "enter" /\ view'[p] = slots
  BY DEF Load, At, PoolTypeOK
<1>3. CASE op[p] = "enter"
  <2>1. /\ DOMAIN view'[p] = {s \in DOMAIN slots : ~Expired(slots[s], age[p])}
        /\ \A s \in DOMAIN view'[p] : view'[p][s] = slots[s]
    BY <1>2, <1>3 DEF cleanup, Only, Fresh
  <2>2. \A s \in DOMAIN slots : InTime(slots[s]) => ~Expired(slots[s], age[p])
    <3>1. age[p] \in Nat
      BY PoolAssumption DEF PoolTypeOK
    <3>2. \A s \in DOMAIN slots : slots[s] = Never \/ slots[s] \in Int
      BY LeftType DEF PoolTypeOK, IsSlotMap
    <3> QED
      BY <3>1, <3>2 DEF InTime, Expired
  <2> QED
    BY <1>1, <2>1, <2>2 DEF Loaded
<1>4. CASE op[p] # "enter"
  BY <1>1, <1>2, <1>4 DEF Loaded
<1> QED
  BY <1>3, <1>4

\* A process that stops to account for a saved slot leaks it, or has just
\* released it.
LEMMA MoverAccounts ==
  ASSUME PoolTypeOK, Controlled, NEW p \in Proc, Released(p),
         Call(p) \/ LockedCall(p) \/ LockedCallOver(p) \/ Operate(p) \/ Die(p)
           \/ Fault(p),
         ~Admit(p), ~ReleaseSlot(p),
         NEW s \in DOMAIN slots, InTime(slots[s])
  PROVE  /\ leaked \subseteq leaked'
         /\ s \in SlotsOf(p) \/ s = mine[p] =>
              s \in leaked' \/ s \in SlotsOf(p)' \/ s = mine'[p]
<1> USE DEF PoolTypeOK
<1>1. CASE Enter(p) \/ Size(p) \/ LockedCall(p)
  <2>1. UNCHANGED <<bodies, leaked>> /\ op[p] = "none"
    BY <1>1 DEF Enter, Size, LockedCall, Begin
  <2>2. mine[p] = NoSlot /\ s # NoSlot
    BY <2>1, PoolAssumption DEF Controlled, Control, IsSlotMap
  <2> QED
    BY <2>1, <2>2 DEF SlotsOf
<1>2. CASE Exit(p) \/ ExitWithoutSlot(p)
  <2>1. /\ BodyOver(p) /\ bodies[p] # <<>> /\ op[p] = "none"
        /\ mine'[p] = slotVar[p] \/ slotVar[p] = NoSlot
    BY <1>2 DEF Exit, ExitWithoutSlot, Begin
  <2>2. mine[p] = NoSlot /\ s # NoSlot
    BY <2>1, PoolAssumption DEF Controlled, Control, IsSlotMap
  <2>3. leaked' = leaked \cup (({Last(bodies[p]).slot} \ {slotVar[p]}) \cap DOMAIN slots)
    BY <2>1 DEF BodyOver
  <2>4. bodies[p] \in Seq(Body) /\ bodies'[p] = Front(bodies[p])
        /\ DOMAIN bodies[p] = 1..Len(bodies[p]) /\ Len(bodies[p]) \in Nat
    BY <2>1, BodyType DEF BodyOver
  <2>5. /\ DOMAIN bodies'[p] = 1..(Len(bodies[p]) - 1)
        /\ \A i \in 1..(Len(bodies[p]) - 1) : bodies'[p][i] = bodies[p][i]
    BY <2>1, <2>4, FrontType
  <2>6. \A i \in DOMAIN bodies[p] :
          \/ i = Len(bodies[p])
          \/ i \in DOMAIN bodies'[p] /\ bodies'[p][i] = bodies[p][i]
    BY <2>4, <2>5
  <2>7. s \in SlotsOf(p) => s \in SlotsOf(p)' \/ s = Last(bodies[p]).slot
    BY <2>6 DEF SlotsOf, Last
  <2> QED
    BY <2>1, <2>2, <2>3, <2>7
<1>3. CASE TryMetaLock(p) \/ ReadClock(p) \/ Load(p) \/ StateFails(p) \/ Full(p)
             \/ CountSlots(p) \/ LockedCallOver(p)
  <2>1. UNCHANGED <<bodies, mine, leaked>>
    BY <1>3 DEF TryMetaLock, ReadClock, Load, StateFails, Full, CountSlots,
       LockedCallOver, Leave, locals
  <2> QED
    BY <2>1 DEF SlotsOf
<1>4. CASE MetaLockTimeout(p) \/ FinishFailed(p) \/ MetaLockFails(p)
  <2>1. bodies' = bodies /\ leaked' = leaked \cup ({mine[p]} \cap DOMAIN slots)
    BY <1>4 DEF MetaLockTimeout, FinishFailed, MetaLockFails, Quit
  <2> QED
    BY <2>1 DEF SlotsOf
<1>5. CASE Finish(p)
  <2>1. leaked' = leaked /\ stage[p] = "done" /\ s # NoSlot
    BY <1>5, PoolAssumption DEF Finish, IsSlotMap
  <2>2. CASE op[p] = "enter" /\ mine[p] # NoSlot
    <3> DEFINE b == [slot |-> mine[p], left |-> view[p][mine[p]]]
    <3>1. bodies'[p] = Append(bodies[p], b) /\ b.slot = mine[p]
      BY <1>5, <2>2 DEF Finish
    <3> HIDE DEF b
    <3>2. bodies[p] \in Seq(Body) /\ DOMAIN bodies[p] = 1..Len(bodies[p])
          /\ Len(bodies[p]) \in Nat
      BY BodyType
    <3>3. /\ Len(bodies[p]) + 1 \in DOMAIN bodies'[p]
          /\ bodies'[p][Len(bodies[p]) + 1] = b
          /\ \A i \in DOMAIN bodies[p] :
               i \in DOMAIN bodies'[p] /\ bodies'[p][i] = bodies[p][i]
      BY <3>1, <3>2
    <3> QED
      BY <2>1, <3>1, <3>3 DEF SlotsOf
  <2>3. CASE op[p] = "exit"
    <3>1. bodies' = bodies /\ s # mine[p]
      BY <1>5, <2>1, <2>3 DEF Finish, Released
    <3> QED
      BY <2>1, <3>1 DEF SlotsOf
  <2>4. CASE mine[p] = NoSlot /\ op[p] # "exit"
    <3>1. bodies' = bodies
      BY <1>5, <2>4 DEF Finish
    <3> QED
      BY <2>1, <2>4, <3>1 DEF SlotsOf
  <2> QED
    BY <1>5, <2>2, <2>3, <2>4 DEF Finish
<1>6. CASE Die(p)
  <2>1. leaked' = leaked \cup ((SlotsOf(p) \cup {mine[p]}) \cap DOMAIN slots)
    BY <1>6 DEF Die
  <2> QED
    BY <2>1
<1> QED
  BY <1>1, <1>2, <1>3, <1>4, <1>5, <1>6 DEF Call, Operate, Fault

\* A step that saves nothing.
LEMMA QuietKeepsData ==
  ASSUME PoolTypeOK, Controlled, Data, ~tainted, ~breach', NEW p \in Proc,
         Call(p) \/ LockedCall(p) \/ LockedCallOver(p) \/ Operate(p) \/ Die(p)
           \/ Fault(p),
         ~Admit(p), ~ReleaseSlot(p)
  PROVE  Data'
<1>1. slots' = slots
  BY SavesAndLoads
<1>2. BodiesRecorded(p)'
  BY <1>1, MoverRecorded DEF Data
<1>3. Granted(p)' /\ Released(p)'
  BY MoverGranted
<1>4. Loaded(p)'
  BY SavesAndLoads, MoverLoaded DEF Loaded
<1>5. ASSUME NEW q \in Proc, q # p
      PROVE  BodiesRecorded(q)' /\ Loaded(q)' /\ Granted(q)' /\ Released(q)'
  <2>1. UNCHANGED <<op[q], stage[q], view[q], age[q], mine[q], bodies[q]>>
    BY <1>5, OthersStay
  <2> QED
    BY <1>1, <2>1 DEF Data, BodiesRecorded, Recorded, Loaded, Granted, Released
<1>6. Ageless'
  BY <1>1 DEF Data, Ageless
<1>7. ASSUME NEW s \in DOMAIN slots, InTime(slots[s])
      PROVE  s \in leaked' \/ \E q \in Proc : s \in SlotsOf(q)' \/ s = mine'[q]
  <2>1. /\ leaked \subseteq leaked'
        /\ s \in SlotsOf(p) \/ s = mine[p] =>
             s \in leaked' \/ s \in SlotsOf(p)' \/ s = mine'[p]
    BY <1>7, MoverAccounts DEF Data
  <2>2. ASSUME NEW q \in Proc, q # p, s \in SlotsOf(q) \/ s = mine[q]
        PROVE  s \in SlotsOf(q)' \/ s = mine'[q]
    <3>1. UNCHANGED <<mine[q], bodies[q]>>
      BY <2>2, OthersStay
    <3> QED
      BY <2>2, <3>1 DEF SlotsOf
  <2>3. s \in leaked \/ \E q \in Proc : s \in SlotsOf(q) \/ s = mine[q]
    BY <1>7 DEF Data, Accounted
  <2> QED
    BY <2>1, <2>2, <2>3
<1>8. Accounted'
  BY <1>1, <1>7 DEF Accounted
<1> QED
  BY <1>2, <1>3, <1>4, <1>5, <1>6, <1>8 DEF Data

\* A save keeps every slot but the one it is about, and nobody else is under
\* way with what it has overwritten.
LEMMA SaveKeepsOthers ==
  ASSUME PoolTypeOK, Controlled, Data, ~tainted, MutualExclusion, NEW p \in Proc,
         Admit(p) \/ ReleaseSlot(p), NEW q \in Proc, q # p
  PROVE  Loaded(q)' /\ Granted(q)' /\ Released(q)'
<1>1. pc[p] = "inside" /\ Operate(p)
  BY DEF Admit, ReleaseSlot, At, Operate
<1>2. stage[q] = "begin"
  BY <1>1, OthersBegin DEF Data
<1>3. UNCHANGED <<op[q], stage[q], mine[q]>>
  BY <1>1, OthersStay
<1> QED
  BY <1>2, <1>3 DEF Loaded, Granted, Released, Controlled, Control

LEMMA AdmitKeepsData ==
  ASSUME PoolTypeOK, Controlled, Distinct, Data, ~tainted, ~breach',
         MutualExclusion, NEW p \in Proc, Admit(p)
  PROVE  Data'
<1>1. /\ stage[p] = "loaded" /\ op[p] = "enter" /\ pc[p] = "inside"
      /\ NewSlot \in SlotId /\ NewSlot \notin SlotsInUse /\ exp(p) \in Left
      /\ Leave(p, With(Empty, NewSlot, exp(p)))
      /\ mine' = [mine EXCEPT ![p] = NewSlot]
      /\ slots' = With(view[p], NewSlot, exp(p))
      /\ leaked' = leaked \cap DOMAIN slots'
  BY NewSlotType, ExpType DEF Admit, At, save_state
<1>2. /\ DOMAIN slots' = DOMAIN view[p] \cup {NewSlot}
      /\ slots'[NewSlot] = exp(p)
      /\ \A s \in DOMAIN view[p] : slots'[s] = view[p][s]
  <2>1. IsSlotMap(view[p])
    BY DEF PoolTypeOK
  <2>2. NewSlot \notin DOMAIN view[p]
    BY <1>1 DEF SlotsInUse
  <2> QED
    BY <1>1, <2>1, <2>2, WithType
<1>3. /\ bodies' = bodies /\ op' = op
      /\ stage'[p] = "done" /\ view'[p] = With(Empty, NewSlot, exp(p))
      /\ mine'[p] = NewSlot
  <2>1. IsSlotMap(With(Empty, NewSlot, exp(p)))
    BY <1>1, EmptyType, WithType
  <2> QED
    BY <1>1, <2>1, LeaveType DEF PoolTypeOK
<1>4. /\ \A s \in DOMAIN slots : InTime(slots[s]) => s \in DOMAIN view[p]
      /\ \A s \in DOMAIN view[p] : s \in DOMAIN slots /\ view[p][s] = slots[s]
  BY <1>1 DEF Data, Loaded
<1>5. \A q \in Proc : BodiesRecorded(q)'
  BY <1>2, <1>3, <1>4 DEF Data, BodiesRecorded, Recorded
<1>6. Loaded(p)' /\ Released(p)'
  BY <1>1, <1>3 DEF Loaded, Released
<1>7. Granted(p)'
  <2>1. view'[p][NewSlot] = exp(p)
    BY <1>3 DEF With
  <2> QED
    BY <1>2, <1>3, <2>1 DEF Granted, Recorded
<1>8. Ageless'
  BY <1>2, <1>4 DEF Data, Ageless, exp
<1>9. Accounted'
  <2>1. ASSUME NEW s \in DOMAIN slots', InTime(slots'[s])
        PROVE  s \in leaked' \/ \E q \in Proc : s \in SlotsOf(q)' \/ s = mine'[q]
    <3>1. CASE s = NewSlot
      BY <1>3, <3>1
    <3>2. CASE s # NewSlot
      <4>1. s \in DOMAIN slots /\ InTime(slots[s]) /\ s \in DOMAIN slots'
        BY <1>2, <1>4, <2>1, <3>2
      <4>2. s \in leaked \/ \E q \in Proc : s \in SlotsOf(q) \/ s = mine[q]
        BY <4>1 DEF Data, Accounted
      <4>3. mine[p] = NoSlot /\ s # NoSlot
        BY <1>1, <4>1, PoolAssumption DEF Controlled, Control, PoolTypeOK, IsSlotMap
      <4>4. \A q \in Proc : SlotsOf(q)' = SlotsOf(q)
        BY <1>3 DEF SlotsOf
      <4>5. \A q \in Proc : q # p => mine'[q] = mine[q]
        BY <1>1 DEF PoolTypeOK
      <4> QED
        BY <1>1, <4>1, <4>2, <4>3, <4>4, <4>5
    <3> QED
      BY <3>1, <3>2
  <2> QED
    BY <2>1 DEF Accounted
<1> QED
  BY <1>5, <1>6, <1>7, <1>8, <1>9, SaveKeepsOthers DEF Data

LEMMA ReleaseKeepsData ==
  ASSUME PoolTypeOK, Controlled, Distinct, Data, ~tainted, ~breach',
         MutualExclusion, NEW p \in Proc, ReleaseSlot(p)
  PROVE  Data'
<1>1. /\ stage[p] = "loaded" /\ op[p] = "exit" /\ mine[p] # NoSlot
      /\ Leave(p, Empty) /\ mine' = mine
  BY DEF ReleaseSlot, At, Controlled, Control
<1>2. /\ bodies' = bodies /\ op' = op
      /\ stage'[p] = "done" /\ view'[p] = Empty
  BY <1>1, EmptyType, LeaveType DEF PoolTypeOK
<1>3. /\ \A s \in DOMAIN slots : InTime(slots[s]) => s \in DOMAIN view[p]
      /\ \A s \in DOMAIN view[p] : s \in DOMAIN slots /\ view[p][s] = slots[s]
  BY <1>1 DEF Data, Loaded
\* What is saved then: everything in time but the slot of p.
<1>4. /\ \A s \in DOMAIN slots : InTime(slots[s]) /\ s # mine[p] =>
           s \in DOMAIN slots'
      /\ \A s \in DOMAIN slots' : s \in DOMAIN slots /\ slots'[s] = slots[s]
      /\ mine[p] \in DOMAIN slots' => ~InTime(slots'[mine[p]])
      /\ leaked \cap DOMAIN slots' \subseteq leaked'
  <2>1. CASE /\ mine[p] \in DOMAIN view[p]
             /\ save_state(Only(view[p], DOMAIN view[p] \ {mine[p]}))
    <3>1. /\ DOMAIN slots' = DOMAIN view[p] \ {mine[p]}
          /\ \A s \in DOMAIN slots' : slots'[s] = view[p][s]
          /\ leaked' = leaked \cap DOMAIN slots'
      BY <2>1 DEF save_state, Only
    <3> QED
      BY <1>3, <3>1
  <2>2. CASE mine[p] \notin DOMAIN view[p] /\ UNCHANGED <<slots, leaked>>
    BY <1>3, <2>2
  <2> QED
    BY <2>1, <2>2 DEF ReleaseSlot
<1>5. \A q \in Proc : \A i \in DOMAIN bodies[q] : bodies[q][i].slot # mine[p]
  <2>1. ASSUME NEW q \in Proc, mine[p] \in SlotsOf(q)
        PROVE  FALSE
    <3>1. CASE q = p
      BY <2>1, <3>1 DEF Distinct, Own
    <3>2. CASE q # p
      BY <1>1, <2>1, <3>2 DEF Distinct, Uses
    <3> QED
      BY <3>1, <3>2
  <2> QED
    BY <2>1 DEF SlotsOf
<1>6. \A q \in Proc : BodiesRecorded(q)'
  BY <1>2, <1>4, <1>5 DEF Data, BodiesRecorded, Recorded
<1>7. Loaded(p)' /\ Granted(p)' /\ Released(p)'
  BY <1>1, <1>2, <1>4 DEF Loaded, Granted, Released
<1>8. Ageless'
  BY <1>4 DEF Data, Ageless
<1>9. Accounted'
  <2>1. \A q \in Proc : SlotsOf(q)' = SlotsOf(q) /\ mine'[q] = mine[q]
    BY <1>1, <1>2 DEF SlotsOf
  <2>2. ASSUME NEW s \in DOMAIN slots', InTime(slots'[s])
        PROVE  s \in leaked' \/ \E q \in Proc : s \in SlotsOf(q) \/ s = mine[q]
    BY <1>4, <2>2 DEF Data, Accounted
  <2> QED
    BY <2>1, <2>2 DEF Accounted
<1> QED
  BY <1>6, <1>7, <1>8, <1>9, SaveKeepsOthers DEF Data

\* Time passes for what is stored, what was loaded and the bodies alike.
LEMMA LeftRunsDown ==
  ASSUME NEW l \in Left
  PROVE  /\ InTime(Elapse(l, Floor)) => InTime(l)
         /\ l = Never => Elapse(l, Floor) = Never
BY FloorType, NeverAssumption DEF Left, Elapse, Expired, InTime

LEMMA BodyRunsDown ==
  ASSUME NEW b \in Body, InTime(OlderBody(b).left)
  PROVE  InTime(b.left) /\ OlderBody(b).left = Elapse(b.left, Floor)
<1>1. b.left \in Left
  BY DEF Body
<1>2. OlderBody(b).left = IF Expired(b.left, 0) THEN b.left ELSE Elapse(b.left, -1)
  BY DEF OlderBody
<1>3. InTime(b.left)
  BY <1>2 DEF InTime
<1>4. OlderBody(b).left = Elapse(b.left, -1)
  BY <1>2, <1>3 DEF InTime
<1> QED
  BY <1>1, <1>3, <1>4, FloorType, NeverAssumption
     DEF Left, Elapse, Expired, InTime

\* A `now' read one unit of time longer ago tells the same slots expired.
LEMMA ExpiryRunsDown ==
  ASSUME NEW l \in Left, NEW a \in 0..MaxStall, a < MaxStall, ~Expired(l, a)
  PROVE  ~Expired(Elapse(l, Floor), a + 1)
BY FloorType, NeverAssumption, PoolAssumption DEF Left, Elapse, Expired

LEMMA TickKeepsData ==
  ASSUME PoolTypeOK, Controlled, Data, ~tainted, ~breach', PoolTick
  PROVE  Data'
<1>1. UNCHANGED <<op, stage, mine, slotVar, leaked>>
  BY DEF PoolTick
<1>2. /\ DOMAIN slots' = DOMAIN slots
      /\ \A s \in DOMAIN slots :
           slots'[s] = Elapse(slots[s], Floor) /\ slots[s] \in Left
  BY DEF PoolTick, Older, PoolTypeOK, IsSlotMap
<1>3. \A p \in Proc : /\ DOMAIN view'[p] = DOMAIN view[p]
                      /\ \A s \in DOMAIN view[p] :
                           view'[p][s] = Elapse(view[p][s], Floor) /\ view[p][s] \in Left
  BY DEF PoolTick, Older, PoolTypeOK, IsSlotMap
<1>4. \A p \in Proc : /\ DOMAIN bodies'[p] = DOMAIN bodies[p]
                      /\ \A i \in DOMAIN bodies[p] :
                           bodies'[p][i] = OlderBody(bodies[p][i])
  BY DEF PoolTick
<1>5. \A s \in DOMAIN slots : InTime(slots'[s]) => InTime(slots[s])
  BY <1>2, LeftRunsDown
<1>6. ASSUME NEW p \in Proc
      PROVE  BodiesRecorded(p)'
  <2> SUFFICES ASSUME NEW i \in DOMAIN bodies[p], InTime(bodies'[p][i].left)
               PROVE  /\ bodies'[p][i].slot \in DOMAIN slots
                      /\ slots'[bodies'[p][i].slot] = bodies'[p][i].left
    BY <1>2, <1>4 DEF BodiesRecorded, Recorded
  <2>1. bodies[p][i] \in Body /\ bodies'[p][i] = OlderBody(bodies[p][i])
    BY <1>4, BodyType
  <2>2. /\ InTime(bodies[p][i].left)
        /\ bodies'[p][i].left = Elapse(bodies[p][i].left, Floor)
    BY <2>1, BodyRunsDown
  <2>3. bodies'[p][i].slot = bodies[p][i].slot
    BY <2>1 DEF OlderBody
  <2>4. /\ bodies[p][i].slot \in DOMAIN slots
        /\ slots[bodies[p][i].slot] = bodies[p][i].left
    BY <2>2 DEF Data, BodiesRecorded, Recorded
  <2> QED
    BY <1>2, <2>2, <2>3, <2>4
<1>7. ASSUME NEW p \in Proc
      PROVE  Loaded(p)'
  <2> SUFFICES ASSUME stage[p] = "loaded"
               PROVE  Loaded(p)'
    BY <1>1 DEF Loaded
  <2>1. /\ \A s \in DOMAIN slots : InTime(slots[s]) => s \in DOMAIN view[p]
        /\ \A s \in DOMAIN view[p] : s \in DOMAIN slots /\ view[p][s] = slots[s]
    BY DEF Data, Loaded
  <2>2. /\ \A s \in DOMAIN slots' : InTime(slots'[s]) => s \in DOMAIN view'[p]
        /\ \A s \in DOMAIN view'[p] : s \in DOMAIN slots' /\ view'[p][s] = slots'[s]
    BY <1>2, <1>3, <1>5, <2>1
  <2>3. ASSUME op[p] = "enter", NEW s \in DOMAIN view[p]
        PROVE  ~Expired(slots'[s], age'[p])
    <3>1. s \in DOMAIN slots /\ slots[s] \in Left
          /\ slots'[s] = Elapse(slots[s], Floor)
      BY <1>2, <2>1
    <3>2. CASE SlotExp = Never
      <4>1. slots'[s] = Never
        BY <3>1, <3>2, LeftRunsDown DEF Data, Ageless
      <4> QED
        BY <4>1 DEF Expired
    <3>3. CASE SlotExp # Never
      <4>1. age[p] < MaxStall /\ age'[p] = age[p] + 1 /\ age[p] \in 0..MaxStall
        BY <2>3, <3>3 DEF PoolTick, Reading, PoolTypeOK
      <4>2. ~Expired(slots[s], age[p])
        BY <2>3 DEF Data, Loaded
      <4> QED
        BY <3>1, <4>1, <4>2, ExpiryRunsDown
    <3> QED
      BY <3>2, <3>3
  <2> QED
    BY <1>1, <1>3, <2>2, <2>3 DEF Loaded
<1>8. ASSUME NEW p \in Proc
      PROVE  Granted(p)'
  <2> SUFFICES ASSUME op[p] = "enter", mine[p] # NoSlot, InTime(view'[p][mine[p]])
               PROVE  /\ mine[p] \in DOMAIN slots
                      /\ slots'[mine[p]] = view'[p][mine[p]]
    BY <1>1, <1>2 DEF Granted, Recorded
  <2>1. mine[p] \in DOMAIN view[p]
    BY DEF Controlled, Control
  <2>2. InTime(view[p][mine[p]])
    BY <1>3, <2>1, LeftRunsDown
  <2> QED
    BY <1>2, <1>3, <2>1, <2>2 DEF Data, Granted, Recorded
<1>9. ASSUME NEW p \in Proc
      PROVE  Released(p)'
  BY <1>1, <1>2, <1>5 DEF Data, Released
<1>10. Ageless'
  BY <1>2, LeftRunsDown DEF Data, Ageless
<1>11. Accounted'
  <2>1. \A p \in Proc : SlotsOf(p)' = SlotsOf(p)
    <3>1. ASSUME NEW p \in Proc, NEW i \in DOMAIN bodies[p]
          PROVE  bodies'[p][i].slot = bodies[p][i].slot
      <4>1. bodies'[p][i] = OlderBody(bodies[p][i])
        BY <1>4
      <4> QED
        BY <4>1 DEF OlderBody
    <3> QED
      BY <1>4, <3>1 DEF SlotsOf
  <2> QED
    BY <1>1, <1>2, <1>5, <2>1 DEF Data, Accounted
<1> QED
  BY <1>6, <1>7, <1>8, <1>9, <1>10, <1>11 DEF Data

LEMMA SameData ==
  ASSUME UNCHANGED <<slots, op, stage, view, age, mine, bodies, leaked>>,
         ~tainted, ~breach', Data
  PROVE  Data'
<1>1. \A p \in Proc : /\ BodiesRecorded(p)' = BodiesRecorded(p)
                      /\ Loaded(p)' = Loaded(p)
                      /\ Granted(p)' = Granted(p) /\ Released(p)' = Released(p)
                      /\ SlotsOf(p)' = SlotsOf(p)
  BY DEF BodiesRecorded, Recorded, Loaded, Granted, Released, SlotsOf
<1>2. Ageless' = Ageless /\ Accounted' = Accounted
  BY <1>1 DEF Ageless, Accounted
<1> QED
  BY <1>1, <1>2 DEF Data

LEMMA DataStep ==
  PoolTypeOK /\ Controlled /\ Distinct /\ MutualExclusion /\ Data /\ [PoolNext]_vars
    => Data'
<1> SUFFICES ASSUME PoolTypeOK, Controlled, Distinct, MutualExclusion, Data,
                    [PoolNext]_vars
             PROVE  Data'
  OBVIOUS
<1>1. CASE UNCHANGED vars
  BY <1>1, SameData DEF vars, lockVars, poolVars, locals, Data
<1>2. CASE PoolNext
  <2>1. tainted' = (tainted \/ breach')
    BY <1>2 DEF PoolNext, PoolUndisturbed, Taint
  <2>2. CASE tainted'
    BY <2>2 DEF Data
  <2>3. CASE ~tainted'
    <3>1. ~tainted /\ ~breach'
      BY <2>1, <2>3
    <3>2. CASE PoolTick
      BY <3>1, <3>2, TickKeepsData
    <3>3. ASSUME NEW p \in Proc,
                 Call(p) \/ LockedCall(p) \/ LockedCallOver(p) \/ Operate(p) \/ Die(p)
                   \/ Fault(p)
          PROVE  Data'
      BY <3>1, <3>3, QuietKeepsData, AdmitKeepsData, ReleaseKeepsData
    <3>4. ASSUME NEW p \in Proc, ReleaseMetaLock(p)
          PROVE  Data'
      <4>1. UNCHANGED <<slots, op, stage, view, age, mine, bodies, leaked>>
        BY <3>4 DEF ReleaseMetaLock, locals
      <4> QED
        BY <3>1, <4>1, SameData
    <3> QED
      BY <1>2, <3>2, <3>3, <3>4 DEF PoolNext, PoolUndisturbed
  <2> QED
    BY <2>2, <2>3
<1> QED
  BY <1>1, <1>2

LEMMA DataInit == PoolInit => Distinct /\ Data
<1> SUFFICES ASSUME PoolInit
             PROVE  Distinct /\ Data
  OBVIOUS
<1>1. \A p \in Proc : DOMAIN bodies[p] = {} /\ SlotsOf(p) = {}
  BY DEF PoolInit, SlotsOf
<1>2. Distinct
  BY <1>1 DEF PoolInit, Distinct, Own, Uses
<1>3. Data
  BY <1>1, EmptyType DEF PoolInit, LockInit, Data, BodiesRecorded, Loaded, Granted,
     Released, Ageless, Accounted
<1> QED
  BY <1>2, <1>3

\* The inductive invariant of the pool.
PoolInv == PoolTypeOK /\ Controlled /\ Sized /\ Distinct /\ Data

LEMMA PoolInvariant == PoolSpec => []PoolInv
<1>1. PoolInit => PoolInv
  <2>1. PoolInit => Sized
    BY FS_EmptySet, EmptyType, PoolAssumption DEF PoolInit, Sized, Within, count
  <2> QED
    BY <2>1, ControlInit, DataInit DEF PoolInv
<1>2. PoolInv /\ MutualExclusion /\ [PoolNext]_vars => PoolInv'
  BY PoolTypeStep, SizedStep, DistinctStep, DataStep DEF PoolInv
<1>3. PoolSpec => []MutualExclusion
  BY MetaLockIsLock, LockExcludes
<1> QED
  BY <1>1, <1>2, <1>3, PTL DEF PoolSpec

(***************************************************************************)
(* RunningSlotsSaved for every pool: until the meta-lock is breached the   *)
(* slot of every running body is stored with the expiry it was given, for  *)
(* every save is of what was loaded under the same meta-lock.              *)
(***************************************************************************)
THEOREM RunningSlotsSavedCorrect == PoolSpec => []RunningSlotsSaved
<1>1. PoolInv => RunningSlotsSaved
  BY DEF PoolInv, Data, RunningSlotsSaved, LiveBodies, BodiesRecorded, Recorded,
     InTime
<1> QED
  BY <1>1, PoolInvariant, PTL

(***************************************************************************)
(* SlotsAccounted for every pool: a slot that is stored and in time is     *)
(* that of a body or an operation, or one a death, a failure or a nested   *)
(* entry has left behind; no other path loses one.                         *)
(***************************************************************************)
THEOREM SlotsAccountedCorrect == PoolSpec => []SlotsAccounted
<1>1. PoolInv => SlotsAccounted
  BY DEF PoolInv, Data, SlotsAccounted, Accounted, Fresh, InTime
<1> QED
  BY <1>1, PoolInvariant, PTL
-----------------------------------------------------------------------------
\* The running bodies have different slots, all of them in f.
LEMMA RunningFits ==
  ASSUME PoolInv, NEW f, IsFiniteSet(DOMAIN f),
         \A p \in Proc : \A i \in LiveBodies(p) : bodies[p][i].slot \in DOMAIN f
  PROVE  IsFiniteSet(Running) /\ Cardinality(Running) <= count(f)
<1> DEFINE slot == [r \in Running |-> bodies[r[1]][r[2]].slot]
<1>1. \A r \in Running : /\ r = <<r[1], r[2]>>
                         /\ r[1] \in Proc /\ r[2] \in LiveBodies(r[1])
  BY DEF Running
<1>2. slot \in [Running -> DOMAIN f]
  BY <1>1
<1>3. ASSUME NEW r \in Running, NEW t \in Running, slot[r] = slot[t]
      PROVE  r = t
  <2>1. /\ r[1] \in Proc /\ r[2] \in DOMAIN bodies[r[1]]
        /\ t[1] \in Proc /\ t[2] \in DOMAIN bodies[t[1]]
        /\ bodies[r[1]][r[2]].slot = bodies[t[1]][t[2]].slot
    BY <1>1, <1>3 DEF LiveBodies
  <2>2. r[1] = t[1]
    <3>1. /\ bodies[r[1]][r[2]].slot \in Uses(r[1])
          /\ bodies[t[1]][t[2]].slot \in Uses(t[1])
      BY <2>1, BodyType DEF Uses, SlotsOf, PoolInv
    <3> QED
      BY <2>1, <3>1 DEF PoolInv, Distinct
  <2>3. r[2] = t[2]
    BY <2>1, <2>2 DEF PoolInv, Distinct, Own
  <2> QED
    BY <1>1, <2>2, <2>3
<1>4. slot \in Injection(Running, DOMAIN f)
  BY <1>2, <1>3 DEF Injection, IsInjective
<1> QED
  BY <1>4, FS_Injection DEF count

(***************************************************************************)
(* Capacity for every pool: until the meta-lock is breached never more     *)
(* than max_size bodies run on slots that have not expired.  Each of them  *)
(* has a stored slot of its own, and never more than max_size are stored.  *)
(***************************************************************************)
THEOREM CapacityCorrect == PoolSpec => []Capacity
<1>1. PoolInv => Capacity
  <2> SUFFICES ASSUME PoolInv, ~tainted
               PROVE  Cardinality(Running) <= MaxSize
    BY DEF Capacity
  <2>1. \A p \in Proc : \A i \in LiveBodies(p) : bodies[p][i].slot \in DOMAIN slots
    BY DEF PoolInv, Data, LiveBodies, BodiesRecorded, Recorded, InTime
  <2>2. IsFiniteSet(DOMAIN slots) /\ count(slots) <= MaxSize
    BY DEF PoolInv, Sized, Within
  <2>3. IsFiniteSet(Running) /\ Cardinality(Running) <= count(slots)
    BY <2>1, <2>2, RunningFits
  <2>4. Cardinality(Running) \in Nat /\ count(slots) \in Nat
    BY <2>2, <2>3, FS_CardinalityType DEF count
  <2> QED
    BY <2>2, <2>3, <2>4, PoolAssumption
<1> QED
  BY <1>1, PoolInvariant, PTL

(***************************************************************************)
(* SizeTruthful for every pool: size() is at least the number of running   *)
(* bodies and at most max_size.                                            *)
(***************************************************************************)
THEOREM SizeIsTruthful == PoolSpec => SizeTruthful
<1>1. ASSUME PoolInv, NEW p \in Proc, CountSlots(p), ~tainted
      PROVE  counted(p) \in Cardinality(Running)..MaxSize
  <2> DEFINE f == cleanup(view[p], 0)
  <2>1. stage[p] = "loaded" /\ Within(view[p])
    BY <1>1 DEF CountSlots, At, PoolInv, Sized
  <2>2. DOMAIN f = {s \in DOMAIN view[p] : InTime(view[p][s])}
    BY DEF cleanup, Only, Fresh, InTime
  <2> HIDE DEF f
  <2>3. Within(f)
    BY <2>1, <2>2, FewerSlots
  <2>4. \A q \in Proc : \A i \in LiveBodies(q) : bodies[q][i].slot \in DOMAIN f
    BY <1>1, <2>1, <2>2 DEF PoolInv, Data, LiveBodies, BodiesRecorded, Recorded,
       Loaded, InTime
  <2>5. IsFiniteSet(Running) /\ Cardinality(Running) <= count(f)
    BY <1>1, <2>3, <2>4, RunningFits DEF Within
  <2>6. Cardinality(Running) \in Nat /\ count(f) \in Nat /\ count(f) <= MaxSize
    BY <2>3, <2>5, FS_CardinalityType DEF Within, count
  <2> QED
    BY <2>5, <2>6, PoolAssumption DEF counted, f
<1>2. PoolInv => [\A p \in Proc : CountSlots(p) /\ ~tainted =>
                    counted(p) \in Cardinality(Running)..MaxSize]_vars
  BY <1>1
<1> QED
  BY <1>2, PoolInvariant, PTL DEF SizeTruthful

(***************************************************************************)
(* FullMeansFull for every pool: an entry is refused for want of a slot    *)
(* only if max_size slots are stored that have not expired by its `now'.   *)
(***************************************************************************)
THEOREM FullIsFull == PoolSpec => FullMeansFull
<1>1. ASSUME PoolInv, NEW p \in Proc, Full(p), ~tainted
      PROVE  Cardinality(Fresh(slots, age[p])) >= MaxSize
  <2>1. stage[p] = "loaded" /\ op[p] = "enter" /\ count(view[p]) >= MaxSize
    BY <1>1 DEF Full, At
  <2>2. DOMAIN view[p] \subseteq Fresh(slots, age[p])
    BY <1>1, <2>1 DEF PoolInv, Data, Loaded, Fresh
  <2>3. IsFiniteSet(Fresh(slots, age[p]))
    BY <1>1, FS_Subset DEF PoolInv, Sized, Within, Fresh
  <2>4. /\ IsFiniteSet(DOMAIN view[p])
        /\ Cardinality(DOMAIN view[p]) <= Cardinality(Fresh(slots, age[p]))
    BY <2>2, <2>3, FS_Subset
  <2>5. /\ Cardinality(DOMAIN view[p]) \in Nat
        /\ Cardinality(Fresh(slots, age[p])) \in Nat
    BY <2>3, <2>4, FS_CardinalityType
  <2> QED
    BY <2>1, <2>4, <2>5, PoolAssumption DEF count
<1>2. PoolInv => [\A p \in Proc : Full(p) /\ ~tainted =>
                    Cardinality(Fresh(slots, age[p])) >= MaxSize]_vars
  BY <1>1
<1> QED
  BY <1>2, PoolInvariant, PTL DEF FullMeansFull
-----------------------------------------------------------------------------
(* The refinement of SlotPool.                                              *)

GrantedTo(p, s) == op[p] = "enter" /\ mine[p] = s

LEMMA TakenSlots ==
  ASSUME PoolInv
  PROVE  /\ DOMAIN Taken = Fresh(slots, 0)
         /\ Fresh(slots, 0) \subseteq DOMAIN slots
         /\ \A s \in Fresh(slots, 0) : /\ s \in SlotId /\ s # NoSlot
                                       /\ Taken[s].phase = PhaseOf(s)
                                       /\ Taken[s].left = slots[s]
BY PoolAssumption DEF Taken, Fresh, PoolInv, PoolTypeOK, IsSlotMap

\* A slot has one user: what is in use by a body is granted to nobody.
LEMMA OneUser ==
  ASSUME PoolInv, NEW s, s # NoSlot, NEW p \in Proc, GrantedTo(p, s),
         NEW q \in Proc
  PROVE  s \notin SlotsOf(q)
<1>1. CASE q = p
  BY <1>1 DEF PoolInv, Distinct, Own, GrantedTo
<1>2. CASE q # p
  BY <1>2 DEF PoolInv, Distinct, Uses, GrantedTo
<1> QED
  BY <1>1, <1>2

LEMMA PhaseIs ==
  ASSUME NEW s
  PROVE  /\ (\E p \in Proc : s \in SlotsOf(p)) => PhaseOf(s) = "used"
         /\ (\A p \in Proc : s \notin SlotsOf(p)) /\ (\E p \in Proc : GrantedTo(p, s))
              => PhaseOf(s) = "granted"
         /\ (\A p \in Proc : s \notin SlotsOf(p) /\ ~GrantedTo(p, s))
              => PhaseOf(s) = "ended"
BY DEF PhaseOf, GrantedTo

LEMMA PhaseWillBe ==
  ASSUME NEW s
  PROVE  /\ (\E p \in Proc : s \in SlotsOf(p)') => PhaseOf(s)' = "used"
         /\ (\A p \in Proc : s \notin SlotsOf(p)') /\ (\E p \in Proc : GrantedTo(p, s)')
              => PhaseOf(s)' = "granted"
         /\ (\A p \in Proc : s \notin SlotsOf(p)' /\ ~GrantedTo(p, s)')
              => PhaseOf(s)' = "ended"
BY DEF PhaseOf, GrantedTo

\* If some uses end, the abstract slots are ended or stay.
LEMMA EndsAreSlotPoolSteps ==
  ASSUME PoolInv, slots' = slots, tainted' = tainted,
         \A s \in Fresh(slots, 0) : PhaseOf(s)' \in {PhaseOf(s), "ended"}
  PROVE  Slots!Next
<1> DEFINE S == {s \in Fresh(slots, 0) : PhaseOf(s) # "ended" /\ PhaseOf(s)' = "ended"}
<1>1. Taken' = [s \in Fresh(slots, 0) |-> [phase |-> PhaseOf(s)', left |-> slots[s]]]
  BY DEF Taken, Fresh
<1>2. ASSUME NEW s \in Fresh(slots, 0)
      PROVE  PhaseOf(s)' = IF s \in S THEN "ended" ELSE PhaseOf(s)
  OBVIOUS
<1>3. S \in SUBSET Fresh(slots, 0) /\ \A s \in S : PhaseOf(s) # "ended"
  OBVIOUS
<1> HIDE DEF S
<1>4. Taken' = Slots!Phased(S, "ended")
  BY <1>1, <1>2, TakenSlots DEF Slots!Phased
<1>5. Slots!End(S)
  BY <1>3, <1>4, TakenSlots DEF Slots!End
<1>6. S \in SUBSET DOMAIN Taken
  BY <1>3, TakenSlots
<1> QED
  BY <1>5, <1>6 DEF Slots!Next, Slots!Keep

\* Nothing but Finish begins a use, nothing but Admit grants.
LEMMA MoverUses ==
  ASSUME PoolTypeOK, Controlled, NEW p \in Proc,
         Call(p) \/ LockedCall(p) \/ LockedCallOver(p) \/ Operate(p) \/ Die(p)
           \/ Fault(p),
         ~Admit(p), ~(Finish(p) /\ op[p] = "enter" /\ mine[p] # NoSlot)
  PROVE  /\ SlotsOf(p)' \subseteq SlotsOf(p)
         /\ \A s \in SlotId : GrantedTo(p, s)' => GrantedTo(p, s)
<1> USE DEF PoolTypeOK, GrantedTo
<1>1. CASE Enter(p) \/ Size(p) \/ LockedCall(p)
  <2>1. bodies' = bodies /\ mine'[p] = NoSlot
    BY <1>1 DEF Enter, Size, LockedCall, Begin
  <2> QED
    BY <2>1, PoolAssumption DEF SlotsOf
<1>2. CASE Exit(p) \/ ExitWithoutSlot(p)
  <2>1. /\ BodyOver(p) /\ bodies[p] # <<>> /\ op[p] = "none"
        /\ op'[p] # "enter"
    BY <1>2 DEF Exit, ExitWithoutSlot, Begin, locals
  <2>2. bodies[p] \in Seq(Body) /\ bodies'[p] = Front(bodies[p])
        /\ DOMAIN bodies[p] = 1..Len(bodies[p]) /\ Len(bodies[p]) \in Nat
    BY <2>1, BodyType DEF BodyOver
  <2>3. /\ DOMAIN bodies'[p] = 1..(Len(bodies[p]) - 1)
        /\ \A i \in 1..(Len(bodies[p]) - 1) : bodies'[p][i] = bodies[p][i]
    BY <2>1, <2>2, FrontType
  <2>4. \A i \in DOMAIN bodies'[p] :
          i \in DOMAIN bodies[p] /\ bodies'[p][i] = bodies[p][i]
    BY <2>2, <2>3
  <2> QED
    BY <2>1, <2>4 DEF SlotsOf
<1>3. CASE TryMetaLock(p) \/ ReadClock(p) \/ Load(p) \/ StateFails(p) \/ Full(p)
             \/ CountSlots(p) \/ LockedCallOver(p) \/ ReleaseSlot(p)
  <2>1. UNCHANGED <<bodies, mine, op>>
    BY <1>3 DEF TryMetaLock, ReadClock, Load, StateFails, Full, CountSlots,
       LockedCallOver, ReleaseSlot, Leave, locals
  <2> QED
    BY <2>1 DEF SlotsOf
<1>4. CASE MetaLockTimeout(p) \/ FinishFailed(p) \/ MetaLockFails(p)
  <2>1. bodies' = bodies /\ op'[p] = "none"
    BY <1>4 DEF MetaLockTimeout, FinishFailed, MetaLockFails, Quit, Forget
  <2> QED
    BY <2>1 DEF SlotsOf
<1>5. CASE Finish(p)
  <2>1. bodies' = bodies /\ op'[p] = "none"
    BY <1>5 DEF Finish, Forget
  <2> QED
    BY <2>1 DEF SlotsOf
<1>6. CASE Die(p)
  <2>1. bodies'[p] = <<>> /\ op'[p] = "none"
    BY <1>6 DEF Die, Forget
  <2> QED
    BY <2>1 DEF SlotsOf
<1> QED
  BY <1>1, <1>2, <1>3, <1>4, <1>5, <1>6 DEF Call, Operate, Fault

LEMMA OthersUse ==
  ASSUME PoolTypeOK, NEW p \in Proc,
         Call(p) \/ LockedCall(p) \/ LockedCallOver(p) \/ Operate(p) \/ Die(p)
           \/ Fault(p),
         NEW q \in Proc, q # p, NEW s
  PROVE  SlotsOf(q)' = SlotsOf(q) /\ GrantedTo(q, s)' = GrantedTo(q, s)
<1>1. UNCHANGED <<op[q], mine[q], bodies[q]>>
  BY OthersStay
<1> QED
  BY <1>1 DEF SlotsOf, GrantedTo

LEMMA MoverEnds ==
  ASSUME PoolInv, NEW p \in Proc,
         Call(p) \/ LockedCall(p) \/ LockedCallOver(p) \/ Operate(p) \/ Die(p)
           \/ Fault(p),
         ~Admit(p), ~(Finish(p) /\ op[p] = "enter" /\ mine[p] # NoSlot),
         NEW s \in Fresh(slots, 0)
  PROVE  PhaseOf(s)' \in {PhaseOf(s), "ended"}
<1>1. s \in SlotId /\ s # NoSlot
  BY TakenSlots
<1>2. \A q \in Proc : /\ SlotsOf(q)' \subseteq SlotsOf(q)
                      /\ GrantedTo(q, s)' => GrantedTo(q, s)
  BY <1>1, MoverUses, OthersUse DEF PoolInv
<1>3. CASE \E q \in Proc : s \in SlotsOf(q)'
  BY <1>2, <1>3, PhaseIs, PhaseWillBe
<1>4. CASE (\A q \in Proc : s \notin SlotsOf(q)') /\ \E q \in Proc : GrantedTo(q, s)'
  BY <1>1, <1>2, <1>4, OneUser, PhaseIs, PhaseWillBe
<1>5. CASE \A q \in Proc : s \notin SlotsOf(q)' /\ ~GrantedTo(q, s)'
  BY <1>5, PhaseWillBe
<1> QED
  BY <1>3, <1>4, <1>5

LEMMA SamePhase ==
  ASSUME NEW s,
         \A q \in Proc : /\ s \in SlotsOf(q)' <=> s \in SlotsOf(q)
                         /\ GrantedTo(q, s)' <=> GrantedTo(q, s)
  PROVE  PhaseOf(s)' = PhaseOf(s)
BY DEF PhaseOf, GrantedTo

\* A body is entered on the slot that was granted.
LEMMA EntryUses ==
  ASSUME PoolInv, NEW p \in Proc, Finish(p), op[p] = "enter", mine[p] # NoSlot
  PROVE  /\ slots' = slots /\ op'[p] = "none"
         /\ SlotsOf(p)' = SlotsOf(p) \cup {mine[p]}
<1>m. PICK m : m = mine[p]
  OBVIOUS
<1> DEFINE b == [slot |-> m, left |-> view[p][m]]
<1>1. /\ slots' = slots /\ op'[p] = "none"
      /\ bodies'[p] = Append(bodies[p], b)
  BY <1>m DEF Finish, Forget, PoolInv, PoolTypeOK
<1>2. SlotsOf(p)' = SlotsOf(p) \cup {m}
  <2>1. m \in SlotId /\ view[p][m] \in Left
    BY <1>m DEF PoolInv, Controlled, Control, PoolTypeOK, IsSlotMap
  <2>2. bodies[p] \in Seq(Body) /\ b \in Body
        /\ Len(bodies[p]) \in Nat /\ DOMAIN bodies[p] = 1..Len(bodies[p])
    BY <2>1, BodyType DEF PoolInv, Body
  <2>3. /\ DOMAIN bodies'[p] = 1..(Len(bodies[p]) + 1)
        /\ bodies'[p][Len(bodies[p]) + 1] = b
        /\ \A i \in 1..Len(bodies[p]) : bodies'[p][i] = bodies[p][i]
    BY <1>1, <2>2, AppendProperties, LenProperties
  <2>4. DOMAIN bodies'[p] = DOMAIN bodies[p] \cup {Len(bodies[p]) + 1}
    BY <2>2, <2>3
  <2>5. /\ bodies'[p][Len(bodies[p]) + 1].slot = m
        /\ \A i \in DOMAIN bodies[p] : bodies'[p][i].slot = bodies[p][i].slot
    BY <2>2, <2>3
  <2> QED
    BY <2>4, <2>5 DEF SlotsOf
<1> QED
  BY <1>m, <1>1, <1>2

LEMMA EntryIsSlotPoolStep ==
  ASSUME PoolInv, NEW p \in Proc, Finish(p), op[p] = "enter", mine[p] # NoSlot,
         tainted' = tainted
  PROVE  Slots!Next
<1>m. PICK m : m = mine[p]
  OBVIOUS
<1>1. slots' = slots /\ op'[p] = "none"
  BY EntryUses
<1>2. SlotsOf(p)' = SlotsOf(p) \cup {m}
  BY <1>m, EntryUses
<1>3. \A q \in Proc, s \in SlotId : q # p =>
        SlotsOf(q)' = SlotsOf(q) /\ GrantedTo(q, s)' = GrantedTo(q, s)
  BY OthersUse DEF Operate, PoolInv
<1>4. ASSUME NEW s \in SlotId, s # m
      PROVE  PhaseOf(s)' = PhaseOf(s)
  <2>1. ~GrantedTo(p, s)' /\ ~GrantedTo(p, s)
    BY <1>m, <1>1, <1>4 DEF GrantedTo
  <2>2. \A q \in Proc : /\ s \in SlotsOf(q)' <=> s \in SlotsOf(q)
                        /\ GrantedTo(q, s)' <=> GrantedTo(q, s)
    BY <1>2, <1>3, <1>4, <2>1
  <2> QED
    BY <2>2, SamePhase
<1>5. CASE m \notin Fresh(slots, 0)
  BY <1>1, <1>4, <1>5, EndsAreSlotPoolSteps, TakenSlots
<1>6. CASE m \in Fresh(slots, 0)
  <2>1. PhaseOf(m) = "granted"
    <3>1. GrantedTo(p, m) /\ m # NoSlot
      BY <1>m DEF GrantedTo
    <3> QED
      BY <3>1, OneUser, PhaseIs
  <2>2. PhaseOf(m)' = "used"
    BY <1>2, PhaseWillBe
  <2>3. Taken' = [s \in Fresh(slots, 0) |-> [phase |-> PhaseOf(s)', left |-> slots[s]]]
    BY <1>1 DEF Taken, Fresh
  <2>4. \A s \in Fresh(slots, 0) :
          PhaseOf(s)' = IF s \in {m} THEN "used" ELSE PhaseOf(s)
    BY <1>4, <2>2, TakenSlots
  <2>5. Taken' = Slots!Phased({m}, "used")
    BY <2>3, <2>4, TakenSlots DEF Slots!Phased
  <2>6. Slots!Use(m)
    BY <1>6, <2>1, <2>5, TakenSlots DEF Slots!Use
  <2> QED
    BY <1>6, <2>6, TakenSlots DEF Slots!Next, Slots!Keep
<1> QED
  BY <1>5, <1>6

\* The expiry of a new slot, if it is not over before it begins.
LEMMA ExpInTime ==
  ASSUME PoolTypeOK, NEW p \in Proc, InTime(exp(p))
  PROVE  exp(p) \in IF SlotExp = Never THEN {Never} ELSE 0..SlotExp
<1>1. age[p] \in 0..MaxStall /\ SlotExp \in Duration
  BY PoolAssumption DEF PoolTypeOK
<1> QED
  BY <1>1, NeverAssumption, PoolAssumption DEF exp, InTime, Expired, Duration

\* A slot is saved beside the fresh ones, of which there were fewer than max_size.
LEMMA AdmitAdds ==
  ASSUME PoolInv, ~tainted, NEW p \in Proc, Admit(p)
  PROVE  \E N \in SlotId :
           /\ op[p] = "enter" /\ mine[p] = NoSlot
           /\ mine' = [mine EXCEPT ![p] = N] /\ op' = op /\ bodies' = bodies
           /\ \A q \in Proc : N \notin SlotsOf(q) /\ N # mine[q]
           /\ slots'[N] = exp(p)
           /\ N \notin Fresh(slots, 0)
           /\ Fresh(slots', 0) =
                Fresh(slots, 0) \cup IF InTime(exp(p)) THEN {N} ELSE {}
           /\ \A s \in Fresh(slots, 0) : slots'[s] = slots[s]
           /\ Cardinality(Fresh(slots, 0)) < MaxSize
<1>n. PICK N : N = NewSlot
  OBVIOUS
<1> DEFINE F == Fresh(slots, 0)
<1>1. /\ stage[p] = "loaded" /\ op[p] = "enter" /\ count(view[p]) < MaxSize
      /\ N \in SlotId /\ N \notin SlotsInUse /\ exp(p) \in Left
      /\ slots' = With(view[p], N, exp(p))
      /\ mine' = [mine EXCEPT ![p] = N] /\ op' = op /\ bodies' = bodies
  BY <1>n, NewSlotType, ExpType DEF Admit, At, save_state, Leave, PoolInv
<1>2. N \notin DOMAIN slots /\ N \notin DOMAIN view[p] /\ mine[p] = NoSlot
      /\ \A q \in Proc : N \notin SlotsOf(q) /\ N # mine[q]
  BY <1>1 DEF SlotsInUse, PoolInv, Controlled, Control
<1>3. /\ DOMAIN slots' = DOMAIN view[p] \cup {N}
      /\ slots'[N] = exp(p)
      /\ \A s \in DOMAIN view[p] : slots'[s] = view[p][s]
  <2>1. IsSlotMap(view[p]) /\ N \in SlotId /\ exp(p) \in Left
    BY <1>1 DEF PoolInv, PoolTypeOK
  <2>2. /\ DOMAIN With(view[p], N, exp(p)) = DOMAIN view[p] \cup {N}
        /\ With(view[p], N, exp(p))[N] = exp(p)
        /\ \A s \in DOMAIN view[p] \ {N} : With(view[p], N, exp(p))[s] = view[p][s]
    BY <2>1 DEF With
  <2> QED
    BY <1>1, <1>2, <2>2
<1>4. /\ \A s \in DOMAIN slots : InTime(slots[s]) => s \in DOMAIN view[p]
      /\ \A s \in DOMAIN view[p] : s \in DOMAIN slots /\ view[p][s] = slots[s]
  BY <1>1 DEF PoolInv, Data, Loaded
<1>5. /\ Fresh(slots', 0) = F \cup IF InTime(exp(p)) THEN {N} ELSE {}
      /\ F \subseteq DOMAIN view[p] /\ N \notin F
      /\ \A s \in F : slots'[s] = slots[s]
  BY <1>2, <1>3, <1>4 DEF Fresh, InTime
<1>6. Cardinality(F) < MaxSize
  <2>1. IsFiniteSet(DOMAIN view[p])
    BY <1>1 DEF PoolInv, Sized, Within
  <2>2. IsFiniteSet(F) /\ Cardinality(F) <= Cardinality(DOMAIN view[p])
    BY <1>5, <2>1, FS_Subset
  <2>3. Cardinality(F) \in Nat /\ Cardinality(DOMAIN view[p]) \in Nat
    BY <2>1, <2>2, FS_CardinalityType
  <2> QED
    BY <1>1, <2>2, <2>3, PoolAssumption DEF count
<1> N \in SlotId
  BY <1>1
<1> WITNESS N \in SlotId
<1> QED
  BY <1>1, <1>2, <1>3, <1>5, <1>6

LEMMA AdmitIsSlotPoolStep ==
  ASSUME PoolInv, ~tainted, NEW p \in Proc, Admit(p), tainted' = tainted
  PROVE  [Slots!Next]_<<Taken, tainted>>
<1> DEFINE F == Fresh(slots, 0)
<1>1. PICK N \in SlotId :
        /\ op[p] = "enter" /\ mine[p] = NoSlot
        /\ mine' = [mine EXCEPT ![p] = N] /\ op' = op /\ bodies' = bodies
        /\ \A q \in Proc : N \notin SlotsOf(q) /\ N # mine[q]
        /\ slots'[N] = exp(p)
        /\ N \notin F
        /\ Fresh(slots', 0) = F \cup IF InTime(exp(p)) THEN {N} ELSE {}
        /\ \A s \in F : slots'[s] = slots[s]
        /\ Cardinality(F) < MaxSize
  BY AdmitAdds
<1>6. ASSUME NEW s \in F
      PROVE  PhaseOf(s)' = PhaseOf(s)
  <2>1. s # NoSlot /\ s # N
    BY <1>1, TakenSlots
  <2>2. ~GrantedTo(p, s)' /\ ~GrantedTo(p, s)
    BY <1>1, <2>1 DEF GrantedTo, PoolInv, PoolTypeOK
  <2>3. \A q \in Proc : q # p => (GrantedTo(q, s)' <=> GrantedTo(q, s))
    BY <1>1 DEF GrantedTo, PoolInv, PoolTypeOK
  <2>4. \A q \in Proc : SlotsOf(q)' = SlotsOf(q)
    BY <1>1 DEF SlotsOf
  <2> QED
    BY <2>2, <2>3, <2>4, SamePhase
<1>7. PhaseOf(N)' = "granted"
  <2>1. GrantedTo(p, N)'
    BY <1>1 DEF GrantedTo, PoolInv, PoolTypeOK
  <2>2. \A q \in Proc : N \notin SlotsOf(q)'
    BY <1>1 DEF SlotsOf
  <2> QED
    BY <2>1, <2>2, PhaseWillBe
<1>8. Taken' = [s \in Fresh(slots', 0) |-> [phase |-> PhaseOf(s)', left |-> slots'[s]]]
  BY DEF Taken, Fresh
<1>e. PICK e : e = exp(p)
  OBVIOUS
<1> HIDE DEF F
<1>9. CASE ~InTime(e)
  <2>1. Fresh(slots', 0) = F
    BY <1>1, <1>9, <1>e
  <2>2. Taken' = Taken
    BY <1>1, <1>6, <1>8, <2>1 DEF Taken, F
  <2> QED
    BY <2>2
<1>10. CASE InTime(e)
  <2>1. Fresh(slots', 0) = F \cup {N}
    BY <1>1, <1>10, <1>e
  <2>2. DOMAIN Taken = F /\ \A s \in F : Taken[s] = [phase |-> PhaseOf(s), left |-> slots[s]]
    BY DEF Taken, F
  <2>3. Taken' = [t \in F \cup {N} |->
          IF t = N THEN [phase |-> "granted", left |-> e] ELSE Taken[t]]
    BY <1>1, <1>6, <1>7, <1>8, <1>e, <2>1, <2>2
  <2>5. e \in IF SlotExp = Never THEN {Never} ELSE 0..SlotExp
    BY <1>10, <1>e, ExpInTime DEF PoolInv
  <2>6. N \notin DOMAIN Taken /\ Cardinality(DOMAIN Taken) < MaxSize
    BY <1>1, <2>2
  <2>7. Taken' = [t \in DOMAIN Taken \cup {N} |->
          IF t = N THEN [phase |-> "granted", left |-> e] ELSE Taken[t]]
    BY <2>2, <2>3
  <2>8. \E d \in IF SlotExp = Never THEN {Never} ELSE 0..SlotExp :
          Taken' = [t \in DOMAIN Taken \cup {N} |->
            IF t = N THEN [phase |-> "granted", left |-> d] ELSE Taken[t]]
    BY <2>5, <2>7
  <2>9. Slots!Grant(N)
    BY <2>6, <2>8 DEF Slots!Grant, Slots!Cardinality, Cardinality
  <2> QED
    BY <1>1, <2>9 DEF Slots!Next, Slots!Keep
<1> QED
  BY <1>9, <1>10

\* A slot that is given back goes, no fresh one with it.
LEMMA ReleaseFrees ==
  ASSUME PoolInv, ~tainted, NEW p \in Proc, ReleaseSlot(p)
  PROVE  /\ op[p] = "exit" /\ mine[p] # NoSlot
         /\ UNCHANGED <<bodies, op, mine>>
         /\ Fresh(slots', 0) = Fresh(slots, 0) \ {mine[p]}
         /\ \A s \in Fresh(slots, 0) \ {mine[p]} : slots'[s] = slots[s]
<1> DEFINE m == mine[p]
           F == Fresh(slots, 0)
<1>1. /\ stage[p] = "loaded" /\ op[p] = "exit" /\ m # NoSlot
      /\ UNCHANGED <<bodies, op, mine>>
  BY DEF ReleaseSlot, At, Leave, PoolInv, Controlled, Control
<1>2. /\ \A s \in DOMAIN slots : InTime(slots[s]) => s \in DOMAIN view[p]
      /\ \A s \in DOMAIN view[p] : s \in DOMAIN slots /\ view[p][s] = slots[s]
  BY <1>1 DEF PoolInv, Data, Loaded
<1>3. Fresh(slots', 0) = F \ {m} /\ \A s \in F \ {m} : slots'[s] = slots[s]
  <2>1. CASE m \in DOMAIN view[p] /\ save_state(Only(view[p], DOMAIN view[p] \ {m}))
    <3>1. /\ DOMAIN slots' = DOMAIN view[p] \ {m}
          /\ \A s \in DOMAIN slots' : slots'[s] = view[p][s]
      BY <2>1 DEF save_state, Only
    <3> QED
      BY <1>2, <3>1 DEF Fresh, InTime
  <2>2. CASE m \notin DOMAIN view[p] /\ slots' = slots
    BY <1>2, <2>2 DEF Fresh, InTime
  <2> QED
    BY <2>1, <2>2 DEF ReleaseSlot
<1> QED
  BY <1>1, <1>3

LEMMA ReleaseIsSlotPoolStep ==
  ASSUME PoolInv, ~tainted, NEW p \in Proc, ReleaseSlot(p), tainted' = tainted
  PROVE  [Slots!Next]_<<Taken, tainted>>
<1> DEFINE m == mine[p]
           F == Fresh(slots, 0)
<1>1. /\ op[p] = "exit" /\ m # NoSlot
      /\ UNCHANGED <<bodies, op, mine>>
  BY ReleaseFrees
<1>3. Fresh(slots', 0) = F \ {m} /\ \A s \in F \ {m} : slots'[s] = slots[s]
  BY ReleaseFrees
<1>4. ASSUME NEW s \in F
      PROVE  PhaseOf(s)' = PhaseOf(s)
  BY <1>1 DEF PhaseOf, SlotsOf
<1>5. PhaseOf(m) = "ended"
  <2>1. ASSUME NEW q \in Proc
        PROVE  m \notin SlotsOf(q) /\ ~GrantedTo(q, m)
    <3>1. CASE q = p
      BY <1>1, <3>1 DEF PoolInv, Distinct, Own, GrantedTo
    <3>2. CASE q # p
      BY <1>1, <3>2 DEF PoolInv, Distinct, Uses, GrantedTo
    <3> QED
      BY <3>1, <3>2
  <2> QED
    BY <2>1, PhaseIs
<1>6. Taken' = [s \in Fresh(slots', 0) |-> [phase |-> PhaseOf(s)', left |-> slots'[s]]]
  BY DEF Taken, Fresh
<1>7. DOMAIN Taken = F /\ \A s \in F : Taken[s] = [phase |-> PhaseOf(s), left |-> slots[s]]
  BY DEF Taken
<1> HIDE DEF F, m
<1>8. Taken' = [s \in F \ {m} |-> Taken[s]]
  BY <1>3, <1>4, <1>6, <1>7
<1>9. CASE m \in F
  <2>1. Slots!Free(m)
    BY <1>5, <1>7, <1>8, <1>9 DEF Slots!Free, Slots!Only
  <2> QED
    BY <1>7, <1>9, <2>1 DEF Slots!Next, Slots!Keep
<1>10. CASE m \notin F
  <2>1. Taken = [s \in F |-> Taken[s]]
    BY <1>7 DEF Taken
  <2> QED
    BY <1>8, <1>10, <2>1
<1> QED
  BY <1>9, <1>10

\* As time passes slots expire, and those who use them go on.
LEMMA TickAges ==
  ASSUME PoolInv, PoolTick
  PROVE  /\ UNCHANGED <<op, mine>>
         /\ \A p \in Proc : SlotsOf(p)' = SlotsOf(p)
         /\ Fresh(slots', 0) = {s \in Fresh(slots, 0) : slots[s] # 0}
         /\ \A s \in Fresh(slots', 0) : slots'[s] = Slots!Elapse(slots[s], 0)
<1> DEFINE F == Fresh(slots, 0)
<1>1. UNCHANGED <<op, mine>>
  BY DEF PoolTick
<1>2. /\ DOMAIN slots' = DOMAIN slots
      /\ \A s \in DOMAIN slots :
           slots'[s] = Elapse(slots[s], Floor) /\ slots[s] \in Left
  BY DEF PoolTick, Older, PoolInv, PoolTypeOK, IsSlotMap
<1>3. ASSUME NEW s \in DOMAIN slots
      PROVE  /\ InTime(slots'[s]) <=> InTime(slots[s]) /\ slots[s] # 0
             /\ InTime(slots[s]) => slots'[s] = Slots!Elapse(slots[s], 0)
                                    \/ slots[s] = 0
  BY <1>2, FloorType, NeverAssumption DEF Left, Elapse, Slots!Elapse, InTime, Expired
<1>4. /\ Fresh(slots', 0) = {s \in F : slots[s] # 0}
      /\ \A s \in Fresh(slots', 0) : slots'[s] = Slots!Elapse(slots[s], 0)
  BY <1>2, <1>3 DEF Fresh, InTime
<1>5. \A p \in Proc : SlotsOf(p)' = SlotsOf(p)
  <2>1. ASSUME NEW p \in Proc, NEW i \in DOMAIN bodies[p]
        PROVE  bodies'[p][i].slot = bodies[p][i].slot
    <3>1. bodies'[p][i] = OlderBody(bodies[p][i])
      BY DEF PoolTick
    <3> QED
      BY <3>1 DEF OlderBody
  <2>2. \A p \in Proc : DOMAIN bodies'[p] = DOMAIN bodies[p]
    BY DEF PoolTick
  <2> QED
    BY <2>1, <2>2 DEF SlotsOf
<1> QED
  BY <1>1, <1>4, <1>5

LEMMA TickIsSlotPoolStep ==
  ASSUME PoolInv, PoolTick, tainted' = tainted
  PROVE  Slots!Next
<1> DEFINE F == Fresh(slots, 0)
<1>1. UNCHANGED <<op, mine>>
  BY TickAges
<1>4. /\ Fresh(slots', 0) = {s \in F : slots[s] # 0}
      /\ \A s \in Fresh(slots', 0) : slots'[s] = Slots!Elapse(slots[s], 0)
  BY TickAges
<1>5. \A p \in Proc : SlotsOf(p)' = SlotsOf(p)
  BY TickAges
<1>6. ASSUME NEW s
      PROVE  PhaseOf(s)' = PhaseOf(s)
  <2>1. \A q \in Proc : GrantedTo(q, s)' <=> GrantedTo(q, s)
    BY <1>1 DEF GrantedTo
  <2> QED
    BY <1>5, <2>1, SamePhase
<1>7. Taken' = [s \in Fresh(slots', 0) |-> [phase |-> PhaseOf(s)', left |-> slots'[s]]]
  BY DEF Taken, Fresh
<1>8. DOMAIN Taken = F /\ \A s \in F : Taken[s] = [phase |-> PhaseOf(s), left |-> slots[s]]
  BY DEF Taken
<1>9. {s \in DOMAIN Taken : Taken[s].left # 0} = Fresh(slots', 0)
      /\ Fresh(slots', 0) \subseteq F
  BY <1>4, <1>8
<1> HIDE DEF F
<1>10. Taken' = [s \in Fresh(slots', 0) |->
         [phase |-> Taken[s].phase, left |-> Slots!Elapse(Taken[s].left, 0)]]
  BY <1>4, <1>6, <1>7, <1>8, <1>9
<1>11. Slots!Tick
  BY <1>9, <1>10 DEF Slots!Tick
<1> QED
  BY <1>11 DEF Slots!Next, Slots!Keep

LEMMA PoolStepIsSlotPoolStep ==
  ASSUME PoolInv, [PoolNext]_vars
  PROVE  [Slots!Next]_<<Taken, tainted>>
<1>3. ASSUME UNCHANGED <<slots, op, mine, bodies>>
      PROVE  Taken' = Taken
  BY <1>3 DEF Taken, Fresh, PhaseOf, SlotsOf
<1>1. CASE UNCHANGED vars
  BY <1>1, <1>3 DEF vars, poolVars, locals
<1>2. CASE PoolNext
  <2>1. tainted' = (tainted \/ breach') /\ tainted \in BOOLEAN
    BY <1>2 DEF PoolNext, PoolUndisturbed, Taint, PoolInv, PoolTypeOK
  <2>2. CASE tainted'
    BY <2>2 DEF Slots!Next
  <2>3. CASE ~tainted'
    <3>1. ~tainted /\ tainted' = tainted
      BY <2>1, <2>3
    <3>2. CASE PoolTick
      BY <3>1, <3>2, TickIsSlotPoolStep
    <3>3. ASSUME NEW p \in Proc,
                 Call(p) \/ LockedCall(p) \/ LockedCallOver(p) \/ Operate(p) \/ Die(p)
                   \/ Fault(p)
          PROVE  [Slots!Next]_<<Taken, tainted>>
      <4>1. CASE Admit(p)
        BY <3>1, <4>1, AdmitIsSlotPoolStep
      <4>2. CASE ReleaseSlot(p)
        BY <3>1, <4>2, ReleaseIsSlotPoolStep
      <4>3. CASE Finish(p) /\ op[p] = "enter" /\ mine[p] # NoSlot
        BY <3>1, <4>3, EntryIsSlotPoolStep
      <4>4. CASE /\ ~Admit(p) /\ ~ReleaseSlot(p)
                 /\ ~(Finish(p) /\ op[p] = "enter" /\ mine[p] # NoSlot)
        <5>1. slots' = slots
          BY <3>3, <4>4 DEF Call, Enter, Exit, ExitWithoutSlot, Size, LockedCall,
             LockedCallOver, Begin, Operate, TryMetaLock, MetaLockTimeout, ReadClock,
             Load, Full, CountSlots, Finish, FinishFailed, Die, Fault, StateFails,
             MetaLockFails, Quit
        <5>2. \A s \in Fresh(slots, 0) : PhaseOf(s)' \in {PhaseOf(s), "ended"}
          BY <3>3, <4>4, MoverEnds
        <5> QED
          BY <3>1, <5>1, <5>2, EndsAreSlotPoolSteps
      <4> QED
        BY <4>1, <4>2, <4>3, <4>4
    <3>4. ASSUME NEW p \in Proc, ReleaseMetaLock(p)
          PROVE  [Slots!Next]_<<Taken, tainted>>
      BY <1>3, <3>1, <3>4 DEF ReleaseMetaLock, locals
    <3> QED
      BY <1>2, <3>2, <3>3, <3>4 DEF PoolNext, PoolUndisturbed
  <2> QED
    BY <2>2, <2>3
<1> QED
  BY <1>1, <1>2

(***************************************************************************)
(* Every pool implements SlotPool.tla, until its meta-lock is breached: a  *)
(* slot is granted only while fewer than max_size are taken, and taken     *)
(* back only when it has expired or its body is over.                      *)
(***************************************************************************)
THEOREM PoolImplements == PoolSpec => ImplementsSlotPool
<1>1. PoolInit => Slots!Init
  <2> SUFFICES ASSUME PoolInit
               PROVE  Taken = [s \in {} |-> 0] /\ tainted = FALSE
    BY DEF Slots!Init
  <2>1. Fresh(slots, 0) = {} /\ tainted = FALSE
    BY EmptyType DEF PoolInit, Fresh
  <2> QED
    BY <2>1 DEF Taken
<1>2. PoolInv /\ [PoolNext]_vars => [Slots!Next]_<<Taken, tainted>>
  BY PoolStepIsSlotPoolStep
<1> QED
  BY <1>1, <1>2, PoolInvariant, PTL
     DEF PoolSpec, ImplementsSlotPool, Slots!Spec, Slots!vars
-----------------------------------------------------------------------------
(* The contract that stacks of decorators count on.                         *)

LEMMA AdmittedIs ==
  \A s : s \in Admitted <=>
    \E q \in Proc : s \in SlotsOf(q) \/ (s # NoSlot /\ GrantedTo(q, s))
BY DEF Admitted, GrantedTo

LEMMA AdmittedWillBe ==
  \A s : s \in Admitted' <=>
    \E q \in Proc : s \in SlotsOf(q)' \/ (s # NoSlot /\ GrantedTo(q, s)')
BY DEF Admitted, GrantedTo

LEMMA AdmitIsEnter ==
  ASSUME PoolInv, ~tainted, NEW p \in Proc, Admit(p)
  PROVE  Use!Next
<1> DEFINE F == Fresh(slots, 0)
<1>1. PICK N \in SlotId :
        /\ op[p] = "enter" /\ mine[p] = NoSlot
        /\ mine' = [mine EXCEPT ![p] = N] /\ op' = op /\ bodies' = bodies
        /\ \A q \in Proc : N \notin SlotsOf(q) /\ N # mine[q]
        /\ slots'[N] = exp(p)
        /\ N \notin F
        /\ Fresh(slots', 0) = F \cup IF InTime(exp(p)) THEN {N} ELSE {}
        /\ \A s \in F : slots'[s] = slots[s]
        /\ Cardinality(F) < MaxSize
  BY AdmitAdds
<1>2. N # NoSlot /\ \A q \in Proc : ~GrantedTo(q, N)
  BY <1>1, PoolAssumption DEF GrantedTo
<1>3. \A q \in Proc : SlotsOf(q)' = SlotsOf(q)
  BY <1>1 DEF SlotsOf
<1>4. ASSUME NEW q \in Proc, NEW s, s # NoSlot
      PROVE  GrantedTo(q, s)' <=> GrantedTo(q, s) \/ (q = p /\ s = N)
  <2>1. mine'[q] = IF q = p THEN N ELSE mine[q]
    BY <1>1 DEF PoolInv, PoolTypeOK
  <2> QED
    BY <1>1, <1>4, <2>1 DEF GrantedTo
<1>5. N \notin Admitted
  BY <1>1, <1>2, AdmittedIs
<1>6. Admitted' = Admitted \cup {N}
  <2>1. ASSUME NEW s
        PROVE  s \in Admitted' <=> s \in Admitted \/ s = N
    BY <1>2, <1>3, <1>4, AdmittedIs, AdmittedWillBe
  <2> QED
    BY <2>1
<1>7. Fresh(slots, 0)' \in {F, F \cup {N}}
  BY <1>1 DEF Fresh
<1>8. Use!Room
  BY <1>1 DEF Use!Room, Use!Cardinality, Cardinality
<1>9. Use!Enter(N)
  BY <1>1, <1>5, <1>6, <1>7, <1>8 DEF Use!Enter
<1> QED
  BY <1>6, <1>9 DEF Use!Next

LEMMA GuardedPoolStep ==
  ASSUME PoolInv, PoolTypeOK', [PoolNext]_vars, ~tainted'
  PROVE  Use!Next
<1>1. ASSUME Fresh(slots, 0)' \subseteq Fresh(slots, 0),
             \A q \in Proc, s \in SlotId :
               /\ s \in SlotsOf(q)' => s \in Admitted
               /\ GrantedTo(q, s)' => GrantedTo(q, s)
      PROVE  Use!Next
  <2>1. ASSUME NEW s \in Admitted'
        PROVE  s \in Admitted
    <3>1. PICK q \in Proc : s \in SlotsOf(q)' \/ (s # NoSlot /\ GrantedTo(q, s)')
      BY <2>1, AdmittedWillBe
    <3>2. SlotsOf(q)' \subseteq SlotId
      <4>1. bodies'[q] \in Seq(Body)
        BY DEF PoolTypeOK, Body
      <4>2. \A i \in DOMAIN bodies'[q] : bodies'[q][i] \in Body
        BY <4>1
      <4> QED
        BY <4>2 DEF SlotsOf, Body
    <3>3. s \in SlotId
      BY <3>1, <3>2 DEF PoolTypeOK, GrantedTo
    <3> QED
      BY <1>1, <3>1, <3>3, AdmittedIs
  <2> QED
    BY <1>1, <2>1 DEF Use!Next, Use!Less
<1>2. CASE UNCHANGED vars \/ \E p \in Proc : ReleaseMetaLock(p)
  <2>1. UNCHANGED <<slots, op, mine, bodies>>
    BY <1>2 DEF vars, poolVars, ReleaseMetaLock, locals
  <2> QED
    BY <1>1, <2>1, AdmittedIs DEF Fresh, SlotsOf, GrantedTo
<1>3. CASE PoolNext
  <2>1. ~tainted
    BY <1>3 DEF PoolNext, PoolUndisturbed, Taint, PoolInv, PoolTypeOK
  <2>2. CASE PoolTick
    <3>1. /\ UNCHANGED <<op, mine>>
          /\ \A q \in Proc : SlotsOf(q)' = SlotsOf(q)
          /\ Fresh(slots, 0)' \subseteq Fresh(slots, 0)
      BY <2>2, TickAges DEF Fresh
    <3> QED
      BY <1>1, <3>1, AdmittedIs DEF GrantedTo
  <2>3. ASSUME NEW p \in Proc,
               Call(p) \/ LockedCall(p) \/ LockedCallOver(p) \/ Operate(p) \/ Die(p)
                 \/ Fault(p)
        PROVE  Use!Next
    <3>1. CASE Admit(p)
      BY <2>1, <3>1, AdmitIsEnter
    <3>2. CASE ReleaseSlot(p)
      <4>1. /\ UNCHANGED <<bodies, op, mine>>
            /\ Fresh(slots, 0)' \subseteq Fresh(slots, 0)
        BY <2>1, <3>2, ReleaseFrees DEF Fresh
      <4> QED
        BY <1>1, <4>1, AdmittedIs DEF SlotsOf, GrantedTo
    <3>3. CASE Finish(p) /\ op[p] = "enter" /\ mine[p] # NoSlot
      <4>1. /\ slots' = slots /\ op'[p] = "none"
            /\ SlotsOf(p)' = SlotsOf(p) \cup {mine[p]}
        BY <3>3, EntryUses
      <4>2. mine[p] \in Admitted
        BY <3>3, AdmittedIs DEF GrantedTo
      <4>3. ASSUME NEW q \in Proc, NEW s \in SlotId
            PROVE  /\ s \in SlotsOf(q)' => s \in Admitted
                   /\ GrantedTo(q, s)' => GrantedTo(q, s)
        <5>1. CASE q = p
          BY <4>1, <4>2, <5>1, AdmittedIs DEF GrantedTo
        <5>2. CASE q # p
          BY <2>3, <5>2, OthersUse, AdmittedIs DEF PoolInv
        <5> QED
          BY <5>1, <5>2
      <4> QED
        BY <1>1, <4>1, <4>3 DEF Fresh
    <3>4. CASE /\ ~Admit(p) /\ ~ReleaseSlot(p)
               /\ ~(Finish(p) /\ op[p] = "enter" /\ mine[p] # NoSlot)
      <4>1. slots' = slots
        BY <2>3, <3>4 DEF Call, Enter, Exit, ExitWithoutSlot, Size, LockedCall,
           LockedCallOver, Begin, Operate, TryMetaLock, MetaLockTimeout, ReadClock,
           Load, Full, CountSlots, Finish, FinishFailed, Die, Fault, StateFails,
           MetaLockFails, Quit
      <4>2. \A q \in Proc, s \in SlotId :
              /\ SlotsOf(q)' \subseteq SlotsOf(q)
              /\ GrantedTo(q, s)' => GrantedTo(q, s)
        BY <2>3, <3>4, MoverUses, OthersUse DEF PoolInv
      <4> QED
        BY <1>1, <4>1, <4>2, AdmittedIs DEF Fresh
    <3> QED
      BY <3>1, <3>2, <3>3, <3>4
  <2> QED
    BY <1>2, <1>3, <2>2, <2>3 DEF PoolNext, PoolUndisturbed
<1> QED
  BY <1>2, <1>3

(***************************************************************************)
(* Every pool implements Guarded, until its meta-lock is breached: a body  *)
(* is let in only while fewer than max_size unexpired slots are saved, and *)
(* nothing else adds a user or an entry.                                   *)
(***************************************************************************)
THEOREM PoolIsGuarded == PoolSpec => PoolImplementsGuarded
<1>1. PoolInit => Use!Init
  <2> SUFFICES ASSUME PoolInit
               PROVE  Use!Init
    OBVIOUS
  <2>1. Fresh(slots, 0) = {}
    BY EmptyType DEF PoolInit, Fresh
  <2>2. \A q \in Proc : SlotsOf(q) = {} /\ op[q] = "none"
    BY DEF PoolInit, SlotsOf
  <2> QED
    BY <2>1, <2>2 DEF Use!Init, Admitted
<1>2. PoolInv /\ PoolInv' /\ [PoolNext]_vars
        => [tainted' \/ [Use!Next]_Use!vars]_vars
  BY GuardedPoolStep DEF PoolInv
<1> QED
  BY <1>1, <1>2, PoolInvariant, PTL DEF PoolSpec, PoolImplementsGuarded
-----------------------------------------------------------------------------
(* An operation comes to its end.                                           *)

LEMMA MoverAdvances ==
  ASSUME PoolTypeOK, Controlled, NEW p \in Proc,
         Call(p) \/ LockedCall(p) \/ LockedCallOver(p) \/ Operate(p) \/ Die(p)
           \/ Fault(p),
         op[p] \in {"enter", "exit", "size"}
  PROVE  OpAdvances(p)
<1> USE DEF PoolTypeOK, LockTypeOK
<1>1. Control(p) /\ pc[p] # "idle"
  BY DEF Controlled, Control
<1>2. CASE Call(p) \/ LockedCall(p)
  BY <1>1, <1>2 DEF Call, LockedCall, Enter, Exit, ExitWithoutSlot, Size, Begin
<1>3. CASE MetaLockTimeout(p) \/ FinishFailed(p) \/ MetaLockFails(p) \/ Finish(p)
             \/ Die(p)
  BY <1>3 DEF MetaLockTimeout, FinishFailed, MetaLockFails, Finish, Die, Quit,
     Forget, OpAdvances
<1>4. CASE TryMetaLock(p)
  <2>1. op' = op /\ stage' = stage
    BY <1>4 DEF TryMetaLock, locals
  <2>2. stage[p] = "begin" \/ pc[p] \notin Waiting
    BY <1>1 DEF Control, Waiting
  <2>3. CASE Acquire(p)
    BY <1>1, <2>1, <2>2, <2>3
       DEF Acquire, Waiting, Point, StepsToEnd, OpAdvances
  <2>4. CASE Refuse(p)
    BY <2>1, <2>4 DEF Refuse, Waiting, Point, StepsToEnd, OpAdvances
  <2>5. CASE Sleep(p)
    BY <2>1, <2>5 DEF Sleep, do_raise, OutOfTime, OpAdvances
  <2>6. CASE Wake(p)
    BY <2>1, <2>6 DEF Wake, Waiting, Point, StepsToEnd, OpAdvances
  <2> QED
    BY <1>4, <2>3, <2>4, <2>5, <2>6 DEF TryMetaLock
<1>5. CASE ReadClock(p) \/ Load(p)
  BY <1>5 DEF ReadClock, Load, At, Goto, lockVars, Waiting, Point, StepsToEnd,
     OpAdvances
<1>6. CASE Full(p) \/ CountSlots(p) \/ LockedCallOver(p) \/ Admit(p)
             \/ ReleaseSlot(p) \/ StateFails(p)
  <2>1. /\ op' = op /\ pc[p] = "inside" /\ pc'[p] = "leaving"
        /\ stage'[p] \in {"done", "failed"}
    BY <1>6 DEF Full, CountSlots, LockedCallOver, Admit, ReleaseSlot, StateFails,
       Leave, EndBody, Goto
  <2>2. stage[p] \in {"begin", "sampled", "loaded"}
    BY <1>1, <2>1 DEF Control
  <2> QED
    BY <2>1, <2>2 DEF Waiting, Point, StepsToEnd, OpAdvances
<1> QED
  BY <1>2, <1>3, <1>4, <1>5, <1>6 DEF Operate, Fault

LEMMA OperateMoves ==
  ASSUME PoolTypeOK, Controlled, NEW p \in Proc, Operate(p)
  PROVE  pc'[p] # pc[p] \/ stage'[p] # stage[p]
<1> USE DEF PoolTypeOK, LockTypeOK
<1>1. CASE TryMetaLock(p)
  BY <1>1 DEF TryMetaLock, Acquire, Refuse, Sleep, Wake
<1>2. CASE MetaLockTimeout(p) \/ Finish(p) \/ FinishFailed(p)
  BY <1>2 DEF MetaLockTimeout, Raise, Finish, FinishFailed, Release, StopHolding
<1>3. CASE ReadClock(p) \/ Load(p)
  BY <1>3 DEF ReadClock, Load, At, Goto
<1>4. CASE Full(p) \/ Admit(p) \/ ReleaseSlot(p) \/ CountSlots(p)
  BY <1>4 DEF Full, Admit, ReleaseSlot, CountSlots, Leave, EndBody
<1> QED
  BY <1>1, <1>2, <1>3, <1>4 DEF Operate

LEMMA OpAdvancesStep ==
  PoolTypeOK /\ Controlled /\ [PoolNext]_vars => \A p \in Proc : OpAdvances(p)
<1> SUFFICES ASSUME PoolTypeOK, Controlled, [PoolNext]_vars, NEW p \in Proc,
                    op[p] \in {"enter", "exit", "size"}
             PROVE  OpAdvances(p)
  BY DEF OpAdvances
<1>1. ASSUME UNCHANGED <<pc[p], op[p], stage[p]>>
      PROVE  OpAdvances(p)
  <2>1. ~Operate(p)
    BY <1>1, OperateMoves
  <2> QED
    BY <1>1, <2>1 DEF OpAdvances, Point
<1>2. CASE UNCHANGED vars \/ \E q \in Proc : ReleaseMetaLock(q)
  BY <1>1, <1>2 DEF vars, lockVars, poolVars, ReleaseMetaLock, ForceRelease, locals
<1>3. CASE PoolTick
  BY <1>1, <1>3 DEF PoolTick, Tick
<1>4. ASSUME NEW q \in Proc,
             Call(q) \/ LockedCall(q) \/ LockedCallOver(q) \/ Operate(q) \/ Die(q)
               \/ Fault(q)
      PROVE  OpAdvances(p)
  <2>1. CASE q = p
    BY <1>4, <2>1, MoverAdvances
  <2>2. CASE q # p
    BY <1>1, <1>4, <2>2, OthersStay
  <2> QED
    BY <2>1, <2>2
<1> QED
  BY <1>2, <1>3, <1>4 DEF PoolNext, PoolUndisturbed

(***************************************************************************)
(* OperationsAdvance holds for every pool: the safety half of              *)
(* OperationsEnd.  (WaitersDoAdvance, which the meta-lock inherits, is the *)
(* other part: an operation cannot try again for ever.)                    *)
(***************************************************************************)
THEOREM OperationsDoAdvance == PoolSpec => OperationsAdvance
<1>1. PoolTypeOK /\ Controlled /\ [PoolNext]_vars
        => [\A p \in Proc : OpAdvances(p)]_vars
  BY OpAdvancesStep
<1> QED
  BY <1>1, ControlInit, PoolTypeStep, PTL DEF PoolSpec, OperationsAdvance
-----------------------------------------------------------------------------
(* Pools whose meta-lock is kept as long as it is needed: no operation on    *)
(* the state outlives its lease, and nobody else deletes the entry while     *)
(* somebody holds it.                                                        *)
HeldUnreleased == Unreleased \/ Holding = {}

TimelyPoolSpec == PoolInit /\ [][PoolNext /\ LeasesLast /\ HeldUnreleased]_vars

LEMMA UntaintedStep ==
  LockTypeOK /\ ~breach /\ ~tainted /\ [PoolNext /\ LeasesLast /\ HeldUnreleased]_vars
    => ~breach' /\ ~tainted'
<1> SUFFICES ASSUME LockTypeOK, ~breach, ~tainted,
                    [PoolNext /\ LeasesLast /\ HeldUnreleased]_vars
             PROVE  ~breach' /\ ~tainted'
  OBVIOUS
<1>1. CASE UNCHANGED vars
  BY <1>1 DEF vars, lockVars, poolVars
<1>2. CASE PoolNext /\ LeasesLast /\ HeldUnreleased
  <2>1. ~breach'
    <3>1. CASE Unreleased
      BY <1>2, <3>1, UnreleasedStepIsLockStep, LeasesLastStep
    <3>2. CASE ~Unreleased
      BY <1>2, <3>2 DEF HeldUnreleased, Unreleased, ReleaseMetaLock, ForceRelease
    <3> QED
      BY <3>1, <3>2
  <2> QED
    BY <1>2, <2>1 DEF PoolNext, PoolUndisturbed, Taint
<1> QED
  BY <1>1, <1>2

LEMMA TimelyPoolUntainted == TimelyPoolSpec => PoolSpec /\ []~tainted
<1>1. TimelyPoolSpec => PoolSpec
  BY PTL DEF TimelyPoolSpec, PoolSpec
<1>2. PoolInit => ~breach /\ ~tainted
  BY DEF PoolInit, LockInit
<1> QED
  BY <1>1, <1>2, UntaintedStep, MetaLockIsLock, LockTypeCorrect, PTL
     DEF TimelyPoolSpec

(***************************************************************************)
(* If no operation on the state takes longer than the lease of the         *)
(* meta-lock, and nobody releases that while it is held, a pool keeps its  *)
(* limit: whatever dies, fails, times out or nests, the bodies on          *)
(* unexpired slots are at most max_size, and each of them has its slot in  *)
(* the saved state.                                                        *)
(***************************************************************************)
THEOREM TimelyPoolKeepsLimit ==
  TimelyPoolSpec => [](/\ Cardinality(Running) <= MaxSize
                       /\ \A p \in Proc : \A i \in LiveBodies(p) :
                            bodies[p][i].slot \in DOMAIN slots)
<1>1. ~tainted /\ Capacity /\ RunningSlotsSaved =>
        /\ Cardinality(Running) <= MaxSize
        /\ \A p \in Proc : \A i \in LiveBodies(p) :
             bodies[p][i].slot \in DOMAIN slots
  BY DEF Capacity, RunningSlotsSaved
<1> QED
  BY <1>1, TimelyPoolUntainted, CapacityCorrect, RunningSlotsSavedCorrect, PTL

(* Such a pool implements Guarded at every step.                            *)
THEOREM TimelyPoolIsGuarded == TimelyPoolSpec => Use!Spec
<1>1. ~tainted' /\ [tainted' \/ [Use!Next]_Use!vars]_vars => [Use!Next]_Use!vars
  <2> SUFFICES ASSUME UNCHANGED vars
               PROVE  UNCHANGED Use!vars
    OBVIOUS
  <2>1. UNCHANGED <<slots, op, mine, bodies>>
    BY DEF vars, poolVars, locals
  <2> QED
    BY <2>1 DEF Use!vars, Admitted, SlotsOf, Fresh
<1> QED
  BY <1>1, TimelyPoolUntainted, PoolIsGuarded, PTL DEF PoolImplementsGuarded, Use!Spec

\* With `exp=None' on the meta-lock nobody can be late.
EndlessLeases == \A p \in Holding : lease[p] = Never

LEMMA EndlessStep ==
  ASSUME \A c \in Calls : c.exp = Never
  PROVE  LockTypeOK /\ EndlessLeases /\ [PoolNext]_vars => EndlessLeases'
<1> SUFFICES ASSUME LockTypeOK, EndlessLeases, [PoolNext]_vars, NEW q \in Holding'
             PROVE  lease'[q] = Never
  BY DEF EndlessLeases
<1>1. CASE Unreleased
  BY <1>1, EndlessKept, UnreleasedStepIsLockStep DEF EndlessLeases
<1>2. CASE ~Unreleased
  BY <1>2 DEF Unreleased, ReleaseMetaLock, ForceRelease, EndlessLeases, Holding
<1> QED
  BY <1>1, <1>2

(***************************************************************************)
(* A meta-lock that is taken with no expiry (default_lock_expiration=None) *)
(* has one way left to be breached: release() of a lock object, or of a    *)
(* function under lock(...), with the same key.  If nobody calls that      *)
(* while the meta-lock is held, there are never more than max_size bodies  *)
(* on unexpired slots, however slow an operation is.  An operation that    *)
(* dies inside the meta-lock leaves it taken for ever.                     *)
(***************************************************************************)
THEOREM EndlessMetaLockKeepsLimit ==
  ASSUME \A c \in Calls : c.exp = Never
  PROVE  PoolInit /\ [][PoolNext /\ HeldUnreleased]_vars
           => [](Cardinality(Running) <= MaxSize)
<1>1. PoolInit => EndlessLeases
  BY DEF PoolInit, LockInit, EndlessLeases, Holding
<1>2. EndlessLeases' => LeasesLast
  BY NeverAssumption DEF EndlessLeases, LeasesLast
<1>3. LockTypeOK /\ EndlessLeases /\ [PoolNext /\ HeldUnreleased]_vars
        => EndlessLeases' /\ [PoolNext /\ LeasesLast /\ HeldUnreleased]_vars
  BY <1>2, EndlessStep
<1>4. PoolInit /\ [][PoolNext /\ HeldUnreleased]_vars => PoolSpec
  BY PTL DEF PoolSpec
<1>5. PoolInit /\ [][PoolNext /\ HeldUnreleased]_vars => TimelyPoolSpec
  BY <1>1, <1>3, <1>4, MetaLockIsLock, LockTypeCorrect, PTL DEF TimelyPoolSpec
<1> QED
  BY <1>5, TimelyPoolKeepsLimit, PTL
=============================================================================
