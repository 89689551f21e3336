-------------------------------- MODULE Pool --------------------------------
(***************************************************************************)
(* `pool' (_pool.py, _pool_state.py): at most MaxSize bodies at a time.    *)
(*                                                                         *)
(* The slots are one pickled PoolState under `{key}-state', loaded, edited *)
(* and saved inside `with meta_lock', a lock on `{key}-lock': every step   *)
(* of Lock.tla is a step here, joined with what the pool does at it.  The  *)
(* state has no ttl.  Processes share one pool object or use one each; the *)
(* slot id of a context is in a ContextVar, so slotVar is per process.     *)
(***************************************************************************)
EXTENDS Lock, SequencesExt

CONSTANTS Namesake,     \* processes that also use a lock(...) whose key is that
                        \* of the pool: call a function under it, or release() it
          MaxSize,      \* max_size
          SlotExp,      \* slot_exp
          SlotId,       \* uuid4().hex; bound: ids that can be in use at once
          NoSlot,       \* None, as a slot id
          MaxDepth,     \* bound: `with' statements on the pool, nested
          MaxStall,     \* bound: time between reading the clock and saving
          MaxFaults     \* bound: how often a call of the backend raises

ASSUME PoolAssumption ==
  /\ MaxSize \in Nat /\ SlotExp \in Duration
  /\ Namesake \subseteq Proc
  /\ NoSlot \notin SlotId
  /\ MaxDepth \in Nat /\ MaxStall \in Nat /\ MaxFaults \in Nat
  /\ \A c \in Calls : ~c.nowait /\ c.timeout # Never

VARIABLES
  slots,    \* the saved PoolState: slot id -> time left, < 0 once expired
  op,       \* what each process is doing with the pool
  stage,    \* how far it is inside `with meta_lock'
  view,     \* the PoolState object it works on
  age,      \* how long ago it read `now' (enter)
  mine,     \* slot_id in that operation
  slotVar,  \* the ContextVar _slot_id_var
  bodies,   \* the `with pool' bodies it is in, innermost last: their slots
            \* and what is left of them
  leaked,   \* saved slots nobody will release (auxiliary)
  tainted,  \* the meta-lock has been breached (auxiliary)
  faults    \* how often the backend has raised (auxiliary)

locals == <<op, stage, view, age, mine>>
poolVars == <<slots, locals, slotVar, bodies, leaked, tainted, faults>>
vars == <<lockVars, poolVars>>

\* Expired slots run down to here, so that the oldest `now' somebody still
\* works with can tell when they expired.
Floor == -(MaxStall + 1)

Left == Nat \cup {Never} \cup Floor..-1

IsSlotMap(f) == DOMAIN f \subseteq SlotId /\ f \in [DOMAIN f -> Left]

PoolTypeOK ==
  /\ LockTypeOK
  /\ IsSlotMap(slots)
  /\ op \in [Proc -> {"none", "enter", "exit", "size", "lock"}]
  /\ stage \in [Proc -> {"begin", "sampled", "loaded", "done", "failed"}]
  /\ view = [p \in Proc |-> view[p]] /\ \A p \in Proc : IsSlotMap(view[p])
  /\ age \in [Proc -> 0..MaxStall]
  /\ mine \in [Proc -> SlotId \cup {NoSlot}]
  /\ slotVar \in [Proc -> SlotId \cup {NoSlot}]
  /\ bodies \in [Proc -> Seq([slot: SlotId, left: Left])]
  /\ leaked \subseteq DOMAIN slots
  /\ tainted \in BOOLEAN
  /\ faults \in 0..MaxFaults

Empty == [s \in {} |-> 0]

PoolInit ==
  /\ LockInit
  /\ slots = Empty
  /\ op = [p \in Proc |-> "none"]
  /\ stage = [p \in Proc |-> "begin"]
  /\ view = [p \in Proc |-> Empty]
  /\ age = [p \in Proc |-> 0]
  /\ mine = [p \in Proc |-> NoSlot]
  /\ slotVar = [p \in Proc |-> NoSlot]
  /\ bodies = [p \in Proc |-> <<>>]
  /\ leaked = {}
  /\ tainted = FALSE
  /\ faults = 0
-----------------------------------------------------------------------------
(* PoolState *)

Only(f, S) == [s \in S |-> f[s]]

With(f, s, l) == [t \in DOMAIN f \cup {s} |-> IF t = s THEN l ELSE f[t]]

\* `now > exp', with a `now' that was read `ago' units of time before.
Expired(l, ago) == l # Never /\ l < -ago

\* Mutant: a slot expires at its expiry instead of after it.
Fresh_NonStrict(f, ago) == {s \in DOMAIN f : f[s] # Never => f[s] > -ago}

Fresh(f, ago) == {s \in DOMAIN f : ~Expired(f[s], ago)}

\* Mutant: the expired slots stay.
cleanup_None(f, ago) == f

cleanup(f, ago) == Only(f, Fresh(f, ago))

count(f) == Cardinality(DOMAIN f)

SlotsOf(p) == {bodies[p][i].slot : i \in DOMAIN bodies[p]}

SlotsInUse ==
  DOMAIN slots \cup
    UNION {DOMAIN view[p] \cup SlotsOf(p) \cup {mine[p], slotVar[p]} : p \in Proc}

\* uuid4().hex: some id that is not in use.  (A finite SlotId may run out.)
SlotIdLeft == SlotId \ SlotsInUse # {}

NewSlot == CHOOSE s \in SlotId : s \notin SlotsInUse

\* What is saved replaces what is stored, whatever that is by now.
save_state(f) == slots' = f /\ leaked' = leaked \cap DOMAIN f

Goto(p, g) == stage' = [stage EXCEPT ![p] = g]

\* The local variables of an operation end with it.
Forget(p) ==
  /\ op' = [op EXCEPT ![p] = "none"]
  /\ Goto(p, "begin")
  /\ view' = [view EXCEPT ![p] = Empty]
  /\ age' = [age EXCEPT ![p] = 0]
  /\ mine' = [mine EXCEPT ![p] = NoSlot]

\* An exception ends the operation before _slot_id_var is set: no body is
\* entered, and a slot that is still saved belongs to nobody.
Quit(p) ==
  /\ Forget(p)
  /\ leaked' = leaked \cup ({mine[p]} \cap DOMAIN slots)
  /\ UNCHANGED <<slots, slotVar, bodies>>

\* The process is inside `with meta_lock', at this point of this operation.
At(p, o, g) == pc[p] = "inside" /\ op[p] = o /\ stage[p] = g
-----------------------------------------------------------------------------
(* Taking the meta-lock *)

\* _acquire_or_raise, _release_with_lock or size enters `with meta_lock'.
Begin(p, o, slot) ==
  /\ op[p] = "none"
  /\ \E c \in Calls : Start(p, c)
  /\ op' = [op EXCEPT ![p] = o]
  /\ mine' = [mine EXCEPT ![p] = slot]
  /\ UNCHANGED <<slots, stage, view, age, slotVar>>

Enter(p) ==
  /\ Len(bodies[p]) < MaxDepth
  /\ Begin(p, "enter", NoSlot)
  /\ UNCHANGED <<bodies, leaked>>

Size(p) ==
  /\ Begin(p, "size", NoSlot)
  /\ UNCHANGED <<bodies, leaked>>

\* Not the pool: a function under lock(...) with the key of the pool.  Both
\* append `-lock' to it, so the two take the same entry.
LockedCall(p) ==
  /\ p \in Namesake
  /\ Begin(p, "lock", NoSlot)
  /\ UNCHANGED <<bodies, leaked>>

\* The innermost body is over.  Its slot is lost if the ContextVar does not
\* name it: an entry further in has overwritten or cleared it.
BodyOver(p) ==
  LET slot == Last(bodies[p]).slot IN
  /\ bodies' = [bodies EXCEPT ![p] = Front(@)]
  /\ leaked' = leaked \cup (({slot} \ {slotVar[p]}) \cap DOMAIN slots)

Exit(p) ==
  /\ bodies[p] # <<>>
  /\ slotVar[p] # NoSlot
  /\ Begin(p, "exit", slotVar[p])
  /\ BodyOver(p)

ExitWithoutSlot(p) ==
  /\ bodies[p] # <<>>
  /\ slotVar[p] = NoSlot
  /\ op[p] = "none"
  /\ BodyOver(p)
  /\ UNCHANGED <<lockVars, slots, locals, slotVar>>

\* Mutant: the state is changed without the meta-lock.
TryMetaLock_Unlocked(p) ==
  /\ pc[p] = "trying"
  /\ pc' = [pc EXCEPT ![p] = "inside"]
  /\ UNCHANGED <<left, owner, call, wait, lease, breach>>
  /\ UNCHANGED <<slots, locals, slotVar, bodies, leaked>>

\* A try, a pause or a retry of the meta-lock.
TryMetaLock(p) ==
  /\ Acquire(p) \/ Refuse(p) \/ Sleep(p) \/ Wake(p)
  /\ UNCHANGED <<slots, locals, slotVar, bodies, leaked>>

\* The meta-lock is not free in time.  __enter__ raises CachifyPoolFullError;
\* __exit__ and size raise CachifyLockError, and __exit__ has neither given
\* the slot back nor cleared the ContextVar.
MetaLockTimeout(p) ==
  /\ Raise(p)
  /\ Quit(p)
-----------------------------------------------------------------------------
(* Under the meta-lock *)

\* now = time.time()
ReadClock(p) ==
  /\ At(p, "enter", "begin")
  /\ Goto(p, "sampled")
  /\ UNCHANGED <<lockVars, slots, op, view, age, mine, slotVar, bodies, leaked>>

Load(p) ==
  /\ \/ At(p, "enter", "sampled") /\ view' = [view EXCEPT ![p] = cleanup(slots, age[p])]
     \/ At(p, "exit", "begin") /\ view' = [view EXCEPT ![p] = slots]
     \/ At(p, "size", "begin") /\ view' = [view EXCEPT ![p] = slots]
  /\ Goto(p, "loaded")
  /\ UNCHANGED <<lockVars, slots, op, age, mine, slotVar, bodies, leaked>>

\* The last step under the meta-lock; the delete of its entry follows.  The
\* PoolState object is dropped; what Finish needs of it is kept.
Leave(p, keep) ==
  /\ EndBody(p)
  /\ Goto(p, "done")
  /\ view' = [view EXCEPT ![p] = keep]
  /\ age' = [age EXCEPT ![p] = 0]
  /\ UNCHANGED <<op, slotVar, bodies>>

\* Mutant: a full pool is asked again, with the meta-lock kept.
Full_Polls(p) ==
  /\ At(p, "enter", "loaded")
  /\ count(view[p]) >= MaxSize
  /\ Goto(p, "begin")
  /\ view' = [view EXCEPT ![p] = Empty]
  /\ age' = [age EXCEPT ![p] = 0]
  /\ UNCHANGED <<lockVars, slots, op, mine, slotVar, bodies, leaked>>

Full(p) ==
  /\ At(p, "enter", "loaded")
  /\ count(view[p]) >= MaxSize
  /\ Leave(p, Empty)
  /\ UNCHANGED <<slots, mine, leaked>>

\* now + slot_exp
exp(p) == IF SlotExp = Never THEN Never ELSE SlotExp - age[p]

\* Mutant: one slot too many.
Admit_OffByOne(p) ==
  /\ At(p, "enter", "loaded")
  /\ count(view[p]) <= MaxSize
  /\ SlotIdLeft
  /\ save_state(With(view[p], NewSlot, exp(p)))
  /\ mine' = [mine EXCEPT ![p] = NewSlot]
  /\ Leave(p, With(Empty, NewSlot, exp(p)))

Admit(p) ==
  /\ At(p, "enter", "loaded")
  /\ count(view[p]) < MaxSize
  /\ SlotIdLeft
  /\ save_state(With(view[p], NewSlot, exp(p)))
  /\ mine' = [mine EXCEPT ![p] = NewSlot]
  /\ Leave(p, With(Empty, NewSlot, exp(p)))

\* Mutant: the slot is removed from the loaded state, which is not saved.
ReleaseSlot_NoSave(p) ==
  /\ At(p, "exit", "loaded")
  /\ Leave(p, Empty)
  /\ UNCHANGED <<slots, leaked, mine>>

\* Mutant: some slot of the state is removed, instead of one's own.
ReleaseSlot_PopItem(p) ==
  /\ At(p, "exit", "loaded")
  /\ \/ \E s \in DOMAIN view[p] : save_state(Only(view[p], DOMAIN view[p] \ {s}))
     \/ view[p] = Empty /\ UNCHANGED <<slots, leaked>>
  /\ Leave(p, Empty)
  /\ UNCHANGED mine

\* _release_slot saves only if the slot is still there.
ReleaseSlot(p) ==
  /\ At(p, "exit", "loaded")
  /\ \/ /\ mine[p] \in DOMAIN view[p]
        /\ save_state(Only(view[p], DOMAIN view[p] \ {mine[p]}))
     \/ /\ mine[p] \notin DOMAIN view[p]
        /\ UNCHANGED <<slots, leaked>>
  /\ Leave(p, Empty)
  /\ UNCHANGED mine

\* size() returns counted(p).
counted(p) == count(cleanup(view[p], 0))

CountSlots(p) ==
  /\ At(p, "size", "loaded")
  /\ Leave(p, Empty)
  /\ UNCHANGED <<slots, mine, leaked>>

LockedCallOver(p) ==
  /\ At(p, "lock", "begin")
  /\ Leave(p, Empty)
  /\ UNCHANGED <<slots, mine, leaked>>

\* Mutant: the body is entered without looking at slot_id.
Finish_NoFullCheck(p) ==
  /\ stage[p] = "done"
  /\ Release(p)
  /\ Forget(p)
  /\ \/ /\ op[p] = "enter"
        /\ slotVar' = [slotVar EXCEPT ![p] = mine[p]]
        /\ bodies' = [bodies EXCEPT ![p] =
             Append(@, [slot |-> mine[p], left |-> SlotExp])]
     \/ /\ op[p] = "exit"
        /\ slotVar' = [slotVar EXCEPT ![p] = NoSlot]
        /\ UNCHANGED bodies
     \/ op[p] \in {"size", "lock"} /\ UNCHANGED <<slotVar, bodies>>
  /\ UNCHANGED <<slots, leaked>>

\* The meta-lock is given back.  What is left of a slot is what the state
\* object that was saved says.
Finish(p) ==
  /\ stage[p] = "done"
  /\ Release(p)
  /\ Forget(p)
  /\ \/ /\ op[p] = "enter" /\ mine[p] # NoSlot
        /\ slotVar' = [slotVar EXCEPT ![p] = mine[p]]
        /\ bodies' = [bodies EXCEPT ![p] =
             Append(@, [slot |-> mine[p], left |-> view[p][mine[p]]])]
     \/ /\ op[p] = "exit"
        /\ slotVar' = [slotVar EXCEPT ![p] = NoSlot]
        /\ UNCHANGED bodies
     \/ /\ op[p] # "exit" /\ mine[p] = NoSlot
        /\ UNCHANGED <<slotVar, bodies>>
  /\ UNCHANGED <<slots, leaked>>
-----------------------------------------------------------------------------
(* What can fail *)

\* The get or the set of the state raises; `with meta_lock' is left properly.
\* (If a set raises although it took effect, and the meta-lock is deleted, that
\* comes to the same as Admit or ReleaseSlot and a MetaLockFails after it.)
StateFails(p) ==
  /\ pc[p] = "inside" /\ op[p] \in {"enter", "exit", "size"}
  /\ ~At(p, "enter", "begin") /\ ~At(p, "size", "loaded")
  /\ EndBody(p)
  /\ Goto(p, "failed")
  /\ view' = [view EXCEPT ![p] = Empty]
  /\ age' = [age EXCEPT ![p] = 0]
  /\ UNCHANGED <<slots, op, mine, slotVar, bodies, leaked>>

FinishFailed(p) == stage[p] = "failed" /\ Release(p) /\ Quit(p)

\* The set nx or the delete of the meta-lock raises, with or without effect.
MetaLockFails(p) ==
  /\ \/ (pc[p] \in {"trying", "leaving"} \/ At(p, op[p], "begin")) /\ Crash(p)
     \/ Release(p)
  /\ op[p] # "lock"
  /\ Quit(p)

\* release() of such a function, or of a lock object: it deletes the entry of
\* the meta-lock, whoever holds that.
ReleaseMetaLock(p) ==
  /\ p \in Namesake
  /\ ForceRelease
  /\ UNCHANGED <<slots, locals, slotVar, bodies, leaked>>

\* The process dies or its task is cancelled, in an operation or in a body.
Die(p) ==
  /\ IF pc[p] = "idle" THEN bodies[p] # <<>> /\ UNCHANGED lockVars
                        ELSE Crash(p)
  /\ Forget(p)
  /\ slotVar' = [slotVar EXCEPT ![p] = NoSlot]
  /\ bodies' = [bodies EXCEPT ![p] = <<>>]
  /\ leaked' = leaked \cup ((SlotsOf(p) \cup {mine[p]}) \cap DOMAIN slots)
  /\ UNCHANGED slots

Older(f) == [s \in DOMAIN f |-> Elapse(f[s], Floor)]

\* Of the slot of a body it only matters that it has expired.
OlderBody(b) ==
  [slot |-> b.slot, left |-> IF Expired(b.left, 0) THEN b.left ELSE Elapse(b.left, -1)]

\* A `now' is still going to be used, and makes a difference.
Reading(p) ==
  stage[p] \in {"sampled", "loaded"} /\ op[p] = "enter" /\ SlotExp # Never

PoolTick ==
  /\ \A p \in Proc : Reading(p) => age[p] < MaxStall
  /\ Tick
  /\ slots' = Older(slots)
  /\ view' = [p \in Proc |-> Older(view[p])]
  /\ bodies' = [p \in Proc |-> [i \in DOMAIN bodies[p] |-> OlderBody(bodies[p][i])]]
  /\ age' = [p \in Proc |-> IF Reading(p) THEN age[p] + 1 ELSE age[p]]
  /\ UNCHANGED <<op, stage, mine, slotVar, leaked>>
-----------------------------------------------------------------------------
Operate(p) ==
  \/ TryMetaLock(p) \/ MetaLockTimeout(p)
  \/ ReadClock(p) \/ Load(p) \/ Full(p) \/ Admit(p) \/ ReleaseSlot(p)
  \/ CountSlots(p) \/ Finish(p) \/ FinishFailed(p)

Call(p) == Enter(p) \/ Exit(p) \/ ExitWithoutSlot(p) \/ Size(p)

Fault(p) ==
  /\ StateFails(p) \/ MetaLockFails(p)
  /\ faults < MaxFaults /\ faults' = faults + 1

Taint == tainted' = (tainted \/ breach')

PoolUndisturbed ==
  /\ (\E p \in Proc : Call(p) \/ Operate(p)) \/ PoolTick
  /\ Taint /\ UNCHANGED faults

PoolNext ==
  \/ PoolUndisturbed
  \/ /\ \E p \in Proc : \/ Die(p) \/ LockedCall(p) \/ LockedCallOver(p)
                       \/ ReleaseMetaLock(p)
     /\ Taint /\ UNCHANGED faults
  \/ (\E p \in Proc : Fault(p)) /\ Taint

PoolSpec == PoolInit /\ [][PoolNext]_vars

UndisturbedPoolSpec == PoolInit /\ [][PoolUndisturbed]_vars

\* The code of the pool goes on and time passes; bodies and calls need not.
PoolFairness ==
  /\ WF_vars(PoolTick /\ Taint /\ UNCHANGED faults)
  /\ \A p \in Proc : WF_vars(Operate(p) /\ Taint /\ UNCHANGED faults)

FairPoolSpec == PoolSpec /\ PoolFairness
-----------------------------------------------------------------------------
\* The bodies whose slot has not expired: a slot does not interrupt the body
\* that outlives it.
LiveBodies(p) == {i \in DOMAIN bodies[p] : ~Expired(bodies[p][i].left, 0)}

Running == UNION {{p} \X LiveBodies(p) : p \in Proc}

(***************************************************************************)
(* "Up to 10 concurrent executions across all processes" (docs/reference/  *)
(* pool.md): the bodies that run on an unexpired slot are never more than  *)
(* max_size, unless the meta-lock was breached: every load sees every slot *)
(* saved before it, whatever dies, times out or is late in between.        *)
(***************************************************************************)
Capacity == ~tainted => Cardinality(Running) <= MaxSize

(***************************************************************************)
(* The slot of a running body is in the saved state with the right expiry: *)
(* no save loses it and no cleanup takes it early, although both work with *)
(* a `now' that was read before the state was loaded.                      *)
(***************************************************************************)
RunningSlotsSaved ==
  ~tainted => \A p \in Proc : \A i \in LiveBodies(p) :
    LET b == bodies[p][i] IN b.slot \in DOMAIN slots /\ slots[b.slot] = b.left

(***************************************************************************)
(* A saved slot that has not expired is somebody's: of a running body, of  *)
(* an operation that has just saved it or is about to remove it, or it is  *)
(* one of those lost to a death, a failed exit or a nested entry.          *)
(***************************************************************************)
SlotsAccounted ==
  ~tainted => \A s \in Fresh(slots, 0) :
    s \in leaked \/ \E p \in Proc : s \in SlotsOf(p) \/ s = mine[p]

(***************************************************************************)
(* The saved state never has more than max_size slots, breach or not.      *)
(***************************************************************************)
SavedWithinMaxSize == count(slots) <= MaxSize

(***************************************************************************)
(* size() counts every running body and never more than max_size.          *)
(***************************************************************************)
SizeTruthful ==
  [][\A p \in Proc : CountSlots(p) /\ ~tainted =>
       counted(p) \in Cardinality(Running)..MaxSize]_vars

(***************************************************************************)
(* An enter, an exit or a size() that was started comes to an end: the     *)
(* timeout of the meta-lock is finite, so it gets in or raises.            *)
(***************************************************************************)
OperationsEnd ==
  \A p \in Proc : op[p] \in {"enter", "exit", "size"} ~> op[p] = "none"

\* How far an operation is: at the meta-lock, or inside it.
Point(p) == IF pc[p] \in Waiting THEN pc[p] ELSE stage[p]

StepsToEnd == [sleeping |-> 7, trying |-> 6, refused |-> 5, begin |-> 4,
               sampled |-> 3, loaded |-> 2, done |-> 1, failed |-> 1]

\* It is over, or nearer to its end than before, or asleep for another try
\* because its time is not up; only somebody else's step leaves it where it is.
OpAdvances(p) ==
  op[p] \in {"enter", "exit", "size"} =>
    \/ op'[p] = "none"
    \/ /\ op'[p] = op[p]
       /\ \/ Point(p)' = Point(p) /\ ~Operate(p)
          \/ StepsToEnd[Point(p)'] < StepsToEnd[Point(p)]
          \/ pc[p] = "refused" /\ ~OutOfTime(p) /\ pc'[p] = "sleeping"

(***************************************************************************)
(* Why an operation comes to its end: it never goes back, whatever fails,  *)
(* is full or dies around it, except to try the meta-lock again before its *)
(* stop_at.  Once inside it takes at most four steps and does not wait for *)
(* anything.                                                               *)
(***************************************************************************)
OperationsAdvance == [][\A p \in Proc : OpAdvances(p)]_vars

(***************************************************************************)
(* An entry is refused for want of a slot only if max_size slots are saved *)
(* that have not expired by the `now' it has read: what other processes    *)
(* released or let expire before it got the meta-lock does not count.      *)
(* (The other refusal, MetaLockTimeout, says nothing of the slots.)        *)
(***************************************************************************)
FullMeansFull ==
  [][\A p \in Proc : Full(p) /\ ~tainted =>
       Cardinality(Fresh(slots, age[p])) >= MaxSize]_vars

(***************************************************************************)
(* "When exiting, the slot is released for the next caller" (docs/         *)
(* tutorial/pools/pools-intro.md): without deaths no slot is left behind.  *)
(***************************************************************************)
ExitReleases == leaked = {}
-----------------------------------------------------------------------------
PhaseOf(s) ==
  IF \E p \in Proc : s \in SlotsOf(p) THEN "used"
  ELSE IF \E p \in Proc : op[p] = "enter" /\ mine[p] = s THEN "granted"
  ELSE "ended"

Taken == [s \in Fresh(slots, 0) |-> [phase |-> PhaseOf(s), left |-> slots[s]]]

\* The pool, seen by the bodies it admits: SlotPool.tla.
Slots == INSTANCE SlotPool
  WITH Slot <- SlotId, taken <- Taken, broken <- tainted

(***************************************************************************)
(* Every step of the pool is one of SlotPool.tla or none of its business,  *)
(* until the meta-lock is breached: no save frees a slot whose body is not *)
(* over, and none takes more than there is room for.                       *)
(***************************************************************************)
ImplementsSlotPool == Slots!Spec

\* The bodies, by their slots, from the save that grants it on.
Admitted ==
  UNION {SlotsOf(p) \cup (IF op[p] = "enter" THEN {mine[p]} \ {NoSlot} ELSE {})
           : p \in Proc}

\* The pool, seen by a stack of decorators: Guarded.tla.
Use == INSTANCE Guarded WITH Places <- MaxSize, inside <- Admitted,
                             entries <- Fresh(slots, 0)

(***************************************************************************)
(* A body is let in only while fewer than max_size unexpired slots are     *)
(* saved, until the meta-lock is breached: also if what was loaded is not  *)
(* fresh any more when it is saved.                                        *)
(***************************************************************************)
PoolImplementsGuarded ==
  /\ Use!Init
  /\ [][tainted' \/ [Use!Next]_Use!vars]_vars
=============================================================================
