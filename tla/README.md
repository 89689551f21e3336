# A TLA+ verification of py-cachify

py-cachify gives Python programs three things on top of a key-value backend
that several threads, tasks, processes and hosts share: **caches** of function
results (`@cached`), **locks** (`lock`, `@once`) and **pools** of slots (`pool`,
`@pooled`).  All of them come down to four backend calls (`get`, `set` with a
ttl, `set nx`, `delete`) and comparisons with `time.time()`.  What makes them
right or wrong is how these calls interleave with those of other processes,
with expiry, with backends that fail, with processes that die half way, and
with the client being replaced under a caller.  That is what is modelled.

## 1. The system

| Part | Code | State | Operations |
|---|---|---|---|
| Backend | `_lib.py` `CachifyClient` | key -> (value, expiry) | `get`, `set`, `try_acquire_lock` (`set nx`), `delete`, each sync and async |
| In-memory backend | `_clients.py` | a dict of tuples, an `RLock`, an `asyncio.Lock` | the same four |
| Lock | `_lock.py` `lock` | one key; per `with` statement a `stop_at` | `__enter__`, `__exit__`, `is_locked`, `release` |
| Pool | `_pool.py`, `_pool_state.py` | `{key}-state`: a pickled map slot -> expiry; `{key}-lock`: the meta-lock; a ContextVar with the slot id | `__enter__`, `__exit__`, `size` |
| Cache | `_cached.py`, `_helpers.py` | one key per layer and arguments | the wrapper, `reset` |
| Decorators | `_lock.py`, `_pool.py`, `_helpers.py` | none | the wrappers of `lock(...)`, `@once`, `@pooled`; `is_locked`, `release` |
| Instances | `_lib.py` | the global client, a client per `Cachify`; per client a sync and an async side | `init_cachify`; routing of each decorator to a client and a side |
| Keys, encoders, types | `_helpers.py`, `_types/` | none | formatting and typing |

Interactions: pool uses lock (`with meta_lock`), the decorators use lock and
pool, lock, pool and cache use the client, the client uses the backend.  The
sync and async methods of every class are the same text up to `await`; within
one component the models have one process for either.  The two differ in the
client they reach, and `Decorators` has processes of both kinds for that.

What is hard here, and what would be right (PROJECT.json lists every such place
with its line):

* **Lock.**  The entry does not say who has it and `release` deletes it
  unconditionally.  Leases run out while the body runs; processes die with the
  lock; waiters time out; anybody may call `release`; the backend may raise.
  Right: one holder at a time, a holder's entry is there as long as its lease,
  waiters with a timeout do not wait for ever, whoever has died.
* **In-memory backend.**  `set nx` is check-then-act under an `RLock`, but `get`
  deletes expired entries without it.  Right: each operation is atomic, `nx`
  succeeds for one client at a time.
* **Pool.**  Load, edit, save of one shared value, with a `now` that was read
  before the load; slots expire under running bodies; the meta-lock may be
  outlived, and its key is also that of a lock decorator with the pool's name,
  whose `release` deletes it;
  entry and exit may fail at every backend call; the ContextVar has room for one
  slot.  Right: never more than `max_size` running, no slot lost or taken early,
  every slot somebody's.
* **Cache.**  A miss computes and stores later, whatever happened in between;
  layers are read and reset one after the other; `None` is both a result and "no
  entry".  Right: bounded staleness, a reset that clears, no `None` from a cache.
* **Decorators and instances.**  Exceptions become values, half-entered stacks
  unwind; the client that acquires
  must be the one that is asked and the one that releases, across calls of
  `init_cachify`; sync and async callers must meet where they were promised to.
  Right: nothing left behind, faithful results, limits kept on both sides.
* **A cache under a lock.**  One caller at a time computes, if the hold covers
  every read and every store of the cache; `release` also resets the cache, after
  it has let the next caller in.  Right: no computation that was not needed, and
  layers that hold one version.

## 2. The modules

| Module | About | Code |
|---|---|---|
| `Timers` | how time is kept | `_calc_stop_at`, `_get_ttl`, comparisons with the clock |
| `ExclusiveUse` | abstract: what a lock promises | - |
| `Lock` | `with lock(...)` | `_lock.py`, `_lib.py` |
| `Store` | abstract: what a backend promises, for one key | `_lib.py` |
| `MemoryCache` | `MemoryCache`, `AsyncWrapper` | `_clients.py` |
| `SlotPool` | abstract: what a pool promises to the bodies it admits | - |
| `Guarded` | abstract: what stacks of decorators take a lock or a pool for | - |
| `Pool` (extends `Lock`) | `with pool`, `size()` | `_pool.py`, `_pool_state.py` |
| `Cached` | layers of `@cached`, `reset` | `_cached.py`, `_helpers.py` |
| `LockedCache` (extends `Lock`, instantiates `Cached`) | `lock(...)` over layers of `@cached` | `_lock.py`, `_cached.py`, `_helpers.py` |
| `Clients` | the clients `init_cachify` makes | `_lib.py` |
| `Decorators` (extends `Clients`) | stacks of `lock`, `once`, `pooled` | `_lock.py`, `_pool.py`, `_helpers.py`, `_lib.py` |
| `LockProofs`, `MemoryCacheProofs`, `PoolProofs`, `CachedProofs`, `LockedCacheProofs`, `DecoratorsProofs` | theorems about each | - |
| `MC*` | the instances TLC checks | - |

**Time.**  The code stores absolute moments and only compares them with the
clock.  The models keep what is *left* of each deadline and count it down in
`Tick`; the value below which no comparison can tell two deadlines apart is the
floor (0 for an entry: gone; -1 for `stop_at`: `time.time() > stop_at`; further
down for slots, which an old `now` may still distinguish).  No clock has to be
bounded and behaviours may be infinite, so liveness can be checked.

**Lock.**  `left` is the entry of the key, `pc` where each process is in its
`with` statement: `Start` (stop_at computed), then `Acquire` or `Refuse` (one
`set nx`), after a refusal `Raise` (nowait, or stop_at passed) or `Sleep` and
`Wake`; `EndBody`, then `Release` (the delete).  `ForceRelease` is `release()`
of another lock object.  `Crash` is a death, a cancellation or a backend call
that raises, anywhere, including between the `nx` and its reply.  `owner`,
`lease` and `breach` are auxiliary: no guard reads them.  `breach` says that a
holder has outlived its lease or was released from outside since the key was
last unused.

**Pool.**  Every step is a step of `Lock` on the meta-lock joined with what the
pool does there.  `Enter`, `Exit`, `Size` start an operation; `TryMetaLock` and
`MetaLockTimeout` get or do not get the meta-lock; under it `ReadClock`, `Load`,
then `Full` or `Admit` (entry), `ReleaseSlot` (exit), `CountSlots` (size);
`Finish` gives the meta-lock back.  `Exit` follows `__exit__`: it releases what
the ContextVar names, which after a nested entry is not its own slot.
`save_state` overwrites what is stored with what was loaded.

What can go wrong there: `Die` is a death anywhere; `StateFails` a `get` or
`set` of the state that raises, after which `with meta_lock` is left properly
(`FinishFailed`); `MetaLockFails` a `set nx` or `delete` of the meta-lock that
raises, with or without effect.  All of them end in `Quit`: the operation is
over, the ContextVar was not set, and a slot already saved is nobody's.
`LockedCall` is a function decorated with `lock(...)` whose key is the pool's:
both append `-lock`, so it takes the meta-lock for as long as it likes, and
`ReleaseMetaLock` is its `release()`, or that of any lock object on the key: the
entry is deleted whoever has it.
`leaked`, `tainted` (the meta-lock has been breached) and `faults` are auxiliary.

`SlotPool` is what the bodies see of it: a slot is granted while fewer than
`max_size` are taken, used, ended, and freed only after that, or gone when its
lease is over.  `Taken` maps a state of `Pool` to it: the phase of a stored slot
says whether a body runs on it, an operation has just saved it, or neither.

**MemoryCache.**  One step per access to the dict.  `get` is `GetRead`, then
`GetReturn` or `GetExpired` and `GetReap` (the unlocked delete); `set nx` is
`NxRead`, then `NxRefuse` or `NxStore`, with the `RLock` held; plain `set` and
`delete` are single steps.  Threads call it directly, tasks through
`AsyncWrapper`, whose lock they hold from `Begin` to `Finish`.  A ttl of 0 gives
`exp_at` = 0, which is kept apart (`Epoch`).  The operations contain no `await`,
so tasks of one event loop do not really interleave inside them; the model lets
them, and so shows that it is the wrapper's lock alone that is relied on.

**Cached.**  Of a value only its age counts, whether it is older than the last
reset, and whether it is `None` (which `get` also returns when there is no
entry: such an entry is stored, and missed).  `Hit`, `Miss`, `Compute`, `Set` go
through the layers inwards and back; `StartReset` and `ResetLayer` delete from
the outermost inwards; `Abandon` is an exception or a death.  A value is as new as the moment the
function returns it (`Compute`): one that a running function has read before a
reset and returns after it counts as newer, as nothing in the code could tell.

**LockedCache.**  Every step is one of `Lock` joined with what it means for the
cache: `Enter` is `Acquire` with the start of a cached call, `Body` a step of
that call, `Return` and `Fail` its last step with `EndBody`, `Die` a death in
either.  `release` is `ForceRelease` followed by a reset of the layers, `reset`
(which `functools.wraps` hands on from the cached function) the same without the
lock; both go on in `ResetStep`.  `mixed` (auxiliary) remembers a breach until no
layer has anything to find.

**Clients.**  A client is a pair of spaces, one per side; a space is a backend
under a prefix.  `Make` is what `init_cachify` builds of its arguments: with no
async client the async side wraps the sync side's `MemoryCache`, or a new one if
the sync client is of another kind.  The first call makes a `Cachify` instance,
the others replace the global client, at any time.  `shared` records that the
arguments promised one space to both sides (docs/reference/init.md).

**Decorators.**  A process calls its stack of wrappers: `EnterGuard` and
`RefuseGuard` on the way in, `RunBody` (any outcome), `ExitGuard` on the way
out, each outcome passed through the `except` clause of the wrapper (`handled`).
`EnterFails` is `CachifyInitError` or a backend that raises, before or after it
has stored the entry; `ExitFails` a backend that raises, or a pool whose
meta-lock is busy too long.  `held` has the entries, per space and guard.
`enters`, `leaves` and `provider` say which client a wrapper enters with, leaves
with, and is asked and released through.  A `once`, and a pool that `@pooled` or
an instance makes, is bound to the client it entered with; the wrapper of `lock`
builds an unbound lock, and `pool(...).pooled()` uses the unbound pool it is
called on (`Unbound`), so each of these looks for the global client twice, and if
`init_cachify` was called in between its entry stays where it was.  Leases end at
any time (`Expire`), `Die` is a death, `ForceRelease` is `f.release()` of a sync
or async function, and `ReplaceGlobal` is `init_cachify`.  `on_full` is the
user's: it returns, raises, or is refused by a lock or pool of its own.  `lost`
(entries somebody else removed) is auxiliary; what calls that died, failed or
missed their entry leave behind belongs to a ghost.

**Guarded.**  `Decorators` enters a lock or a pool in one step, `Lock` and `Pool`
take many.  What joins them is a contract for one key: a user enters when fewer
than `Places` entries are there, and then stores one (which may be over before
it is inside); an entry may be stranded, given back, expire, or become somebody
else's; nothing else happens.  `Lock` refines it with one place
(`ImplementsGuarded`) and `Pool` with `max_size` (`PoolImplementsGuarded`), and
every step of `Decorators` is a step of it at every key (`ObeysGuards`).  So the
decorators count on nothing but what is provided.  It is a contract and not a
refinement of `Decorators` by `Lock` and `Pool`: which exception a refusal
raises, and when a wait ends, is not part of it.

## 3. What TLC checks

Every property of a passing run has a mutant in PROJECT.json: a definition of
the model changed as a plausible bug would, under which the property fails.

| Run | Instance | Shows |
|---|---|---|
| `lock` | 2 processes; nowait, timeout 1, no timeout; leases 1, 2, none | `HolderProtected`, `MutualExclusion`, refinement of `ExclusiveUse` and `Guarded`, `WaitersAdvance`, `WaiterResolves` |
| `memory_threads` | 3 threads, ttls 1, 2, none | `OneGrantUnlessRaced` |
| `memory_tasks` | 3 tasks, 2 values, plain sets too | `OneGrant`, refinement of `Store` |
| `pool_expiry` | 2 processes, 1 slot of 1 unit, clock up to 1 unit stale, both also call and release a locked namesake | `Capacity`, `RunningSlotsSaved`, `SavedWithinMaxSize`, `SizeTruthful`, `FullMeansFull`, refinement of `SlotPool` and `Guarded` |
| `pool_nested` | 2 processes, 2 slots without expiry, 2 deep, one backend failure | `SlotsAccounted`, `OperationsAdvance`, `OperationsEnd` |
| `cached` | 3 processes, 2 layers of ttl 1 and 2, results that may be `None` | `StalenessBounded`, `ResetClears`, `NoneRecomputed` |
| `locked_cache` | 2 processes; nowait without expiry, or no timeout and a lease of 2; 2 layers of ttl 1 and 2 | `OneVersion`, `ComputesOnlyWhenAbsent` |
| `decorators` | a sync function in a pool and a lock, an async one under a once of an instance, a pool the program made and the same lock; an instance and two global clients; one ghost | `Unwound`, `GuardsLimit`, `ResultFaithful`, `LockedWhileRunning`, `ObeysGuards` |
| `lock_overstay` | 3 processes, nothing fails | violates `UnexpiredHoldersExclude` |
| `memory_reap` | 2 threads, 1 task | violates `OneGrant` |
| `pool_leak` | 2 processes, nothing fails | violates `ExitReleases` |
| `instance_lock` | 1 lock decorator of an instance | violates `LockedWhileRunning` |

The four violations are disagreements between the code and what its docs say;
each is a finding in PROJECT.json with the sentence it contradicts:

* a body that outlives its lease deletes its successor's entry, and a third
  process enters (`_lock.py:86`);
* `MemoryCache.get` may delete a live entry that was stored since it read an
  expired one (`_clients.py:41`);
* a pool exit that does not get the meta-lock in time leaves its slot
  (`_pool.py:154`);
* the lock decorator of a `Cachify` instance locks on the global client and
  answers `is_locked` from its own (`_lock.py:204`).

**Provisos.**  `HolderProtected`, `MutualExclusion`, `ExclusiveUse` and
`ComputesOnlyWhenAbsent` hold until `breach`, the pool properties, `SlotPool` and
`PoolImplementsGuarded` until `tainted`, `OneVersion` until `mixed`, `OneGrantUnlessRaced` until `raced`,
`ResetClears` unless something was `carried`; `ImplementsGuarded` and
`ObeysGuards` have none.  `Unwound` leaves out calls that died or whose exit
failed, and what the exit of an unbound lock or pool misses; `LockedWhileRunning` the locks whose client was replaced
by one on another space (`Replaced`); `GuardsLimit` is about calls on one space,
and about calls on one client that promised one space; `ResultFaithful` leaves
out calls during which a backend failed.  Each proviso is the smallest the code
leaves: the violation runs show what happens without it.  A call that
carries a value over a reset does store it afterwards (`_cached.py:124`): the docs
promise a cleared cache to the caller of `reset` alone, so this is a proviso of
`ResetClears` and not a finding.

**Bounds, and why they are enough.**  Time units are the coarsest that make
every comparison of the code fall on both sides and on equality: a lease of 2
can outlive, meet or undercut a timeout of 1.  Two processes are enough for
every two-party hazard of lock and pool; the overstay needs a third, and three
threads are used where a reader, a writer and a taker meet.

* `MaxStall` = 1 bounds the time from reading the clock to saving (pool), or from
  having a value to storing it (cached): with it `now` is up to one unit old.
* `MaxAge` = 6 bounds the ages told apart.  The ttls and stalls add up to 5, so
  the bound cannot hide a violation.
* `MaxDepth` bounds nesting of one pool, `MaxFaults` how often the backend
  raises: what one failure leaves behind meets every operation after it.
* `SlotId` has nine ids, more than can be in use at once; `NewSlot` takes an
  unused one, and which one it is makes no difference.
* `Setup` is three calls of `init_cachify`: a custom sync client alone, for the
  instance; a `MemoryCache`, promising one space for both sides; and then
  another sync backend with the same space for the async side.  Replacing the
  global client so moves the entries of sync functions and not of async ones.
* `Ghosts` has one member, as `MaxSize` and the limits of locks are 1: it may
  have an entry at every key, so no exit, failure or death has to wait for it.
* `Results` of a function are a value, an exception of its own,
  `CachifyLockError` and `CachifyPoolFullError`: what wrappers tell apart.

`pool_expiry` stops at tainted states (constraint `Untainted`): its properties
but `SavedWithinMaxSize` say nothing of them, and a tainted state stays tainted,
so nothing that they say is cut off; `SavedWithinMaxSize` is proved without the
constraint.  Symmetry is used for safety runs only, over processes that the
model treats alike.

**Fairness.**  Time passes (`Tick`), and a process that is executing library
code goes on: weak fairness of its steps, those after a failed backend call
(`FinishFailed`) among them.  Nothing is assumed of user code: bodies need not
end, calls need not be made, nobody has to die or to release, no backend has to
fail.  Weak fairness is what an operating system or an event loop gives; a
waiter without timeout may therefore starve, and no property says otherwise.
Two processes that take two locks in opposite orders and wait without a timeout
hold each other up until a lease ends; the code has nothing against that, and no
property claims it.

## 4. What is proved

TLAPS checks these theorems for any processes, calls, timeouts, ttls, layers,
stacks, clients and bounds.  Every safety property of the passing runs is among
them.

| Module | Theorem | Statement |
|---|---|---|
| `LockProofs` | `LockTypeCorrect` | `LockSpec => []LockTypeOK` |
| | `HoldersAreProtected` | `LockSpec => []HolderProtected` |
| | `LockExcludes` | `LockSpec => []MutualExclusion` |
| | `LockImplements` | `LockSpec => ImplementsExclusiveUse` |
| | `LockIsGuarded` | `LockSpec => ImplementsGuarded` |
| | `WaitersDoAdvance` | `LockSpec => WaitersAdvance` |
| | `TimelyUsersExclude` | `TimelySpec => [](\A p, q \in Holding : p = q)` |
| `MemoryCacheProofs` | `MemTypeCorrect` | `MemSpec => []MemTypeOK` |
| | `OneGrantUnlessRacedCorrect` | `MemSpec => []OneGrantUnlessRaced` |
| | `TasksExclude` | `MemSpec => []OneGrant`, for tasks |
| | `TasksImplementStore` | `MemSpec => ImplementsStore`, for tasks |
| `PoolProofs` | `MetaLockIsLock` | `PoolSpec => LockSpec` |
| | `PoolTypeCorrect` | `PoolSpec => []PoolTypeOK` |
| | `SavedWithinMaxSizeCorrect` | `PoolSpec => []SavedWithinMaxSize` |
| | `RunningSlotsSavedCorrect` | `PoolSpec => []RunningSlotsSaved` |
| | `SlotsAccountedCorrect` | `PoolSpec => []SlotsAccounted` |
| | `CapacityCorrect` | `PoolSpec => []Capacity` |
| | `SizeIsTruthful` | `PoolSpec => SizeTruthful` |
| | `FullIsFull` | `PoolSpec => FullMeansFull` |
| | `PoolImplements` | `PoolSpec => ImplementsSlotPool` |
| | `PoolIsGuarded` | `PoolSpec => PoolImplementsGuarded` |
| | `OperationsDoAdvance` | `PoolSpec => OperationsAdvance` |
| | `TimelyPoolKeepsLimit` | `TimelyPoolSpec =>` at most `MaxSize` running, each slot stored |
| | `EndlessMetaLockKeepsLimit` | the limit, if no lease of the meta-lock ends and nobody else releases it while it is held |
| | `TimelyPoolIsGuarded` | `TimelyPoolSpec => Use!Spec` |
| `CachedProofs` | `CachedTypeCorrect` | `CachedSpec => []CachedTypeOK` |
| | `ResetClearsCorrect` | `CachedSpec => []ResetClears` |
| | `NoneRecomputedCorrect` | `CachedSpec => []NoneRecomputed` |
| | `StalenessBoundedCorrect` | `CachedSpec => []StalenessBounded` |
| `LockedCacheProofs` | `StackIsLock` | `LCSpec => LockSpec` |
| | `StackIsCached` | `LCSpec => C!CachedSpec` |
| | `LCTypeCorrect` | `LCSpec => []LCTypeOK` |
| | `ComputesOnlyWhenAbsentCorrect` | `LCSpec => ComputesOnlyWhenAbsent` |
| | `OneVersionCorrect` | `LCSpec => []OneVersion` |
| | `StackKeepsCache` | `LCSpec =>` the invariants of `Cached` |
| | `TimelyStackComputesOnce` | `TimelyLCSpec =>` both of the above without `breach` and `mixed` |
| `DecoratorsProofs` | `DecTypeCorrect` | `DecSpec => []DecTypeOK` |
| | `UnwoundCorrect` | `DecSpec => []Unwound` |
| | `GuardsLimitCorrect` | `DecSpec => []GuardsLimit` |
| | `ResultsAreFaithful` | `DecSpec => []ResultFaithful` |
| | `LockedWhileRunningCorrect` | `DecSpec => []LockedWhileRunning` |
| | `StacksObeyGuards` | `DecSpec => ObeysGuards` |
| | `TimelyStacksKeepLimits` | `TimelyDecSpec =>` those inside are those with an entry, and within the limit |
| | `TimelyExitsStrandNothing` | `TimelyDecSpec =>` only failures and deaths make an entry nobody's |

**Assumptions.**  `NeverAssumption` (`Never` is no integer), `LockAssumption`
(calls are well formed, `Nobody` is no process), `PoolAssumption` (the meta-lock
is taken with a timeout; bounds are naturals), `CachedAssumption` and
`LockedCacheAssumption` (no ttl is 0),
`MemoryAssumption` and `ClientsAssumption` (`None` is no value and no client),
`DecoratorsAssumption` (a stack has no guard twice).  TLC evaluates each of them
in the runs of its module.  Four theorems have hypotheses of their own:
`EndlessMetaLockKeepsLimit` (nothing takes the meta-lock with an expiry); the two
about tasks assume that there are no threads and no ttl of 0, as in
`memory_tasks`; `LockedWhileRunningCorrect` assumes that no lock decorator
belongs to an instance, and `instance_lock` shows that it needs to.

**Timely users.**  The provisos of section 3 are about what users do, and
what they do can be stated instead.  `TimelySpec`, `TimelyPoolSpec` and
`TimelyLCSpec` are the specifications with users as the docs want them: no holder
is still inside when its lease ends (`LeasesLast`) and nobody calls `release()`
while somebody is (`Timely`, and `HeldUnreleased` for the meta-lock).  Everything else goes on as before: deaths, failing
backends, timeouts, resets, expiry.  For these users `breach`, `tainted` and
`mixed` never become true, so exclusion, the limit of a pool and "one run of the
function" hold as the docs state them.  `TimelyDecSpec` says the same of stacks, whose leases `Decorators` does not
count: what expires or is released is nobody's who is inside, and `init_cachify`
leaves the entries of unbound locks and pools that are in use where their exits
will look for them (`FoundWith`).  Then nothing is ever `lost` (`Intact`) and every
exit finds what it is to remove (`Found`), so entries and users coincide
(`TimelyStacksKeepLimits`) and only failures and deaths leave an entry behind
(`TimelyExitsStrandNothing`).  For a meta-lock that never expires half of the
assumption goes: `EndlessMetaLockKeepsLimit` has none on how long anything takes,
only that nobody calls `release()` on the meta-lock's key while it is held; the
price is that who dies inside leaves it taken.

**Progress.**  `WaitersAdvance` and `OperationsAdvance` are the safety halves
of `WaiterResolves` and `OperationsEnd`.  Each is a statement about one step: a
waiter keeps its `stop_at` and, out of time, only comes nearer to the end
(`StepsLeft`); an operation of a pool never goes back, except to try the
meta-lock again before its `stop_at` (`StepsToEnd`).  With fairness, each of them
gives the liveness property, which TLC checks.

**Lock.**  `MutualExclusion` is not inductive by itself.  A second process is
kept out only because the entry is there while somebody holds, and it is there
only because nobody else's delete and no expiry took it.  The strengthening is
`HolderProtected`: unless breached, each holder *owns* the entry and the entry
has exactly its lease left.  Then a delete by a holder removes its own entry, a
tick expires entry and lease together (and is a breach by definition if somebody
still holds), and `set nx` succeeds only when nobody holds.  Two holders would
both be the owner.  It needs one more fact, that a breach always has a holder
(`BreachHasHolder`), so that the proviso ends when the key is unused; with it
every step maps to a step of `ExclusiveUse` or a stutter.  `LockIsGuarded` rests on
`FreeUnowned`: where no entry is, nobody owns one, so a `set nx` that succeeds
finds no place taken, breach or no breach.

**MemoryCache.**  With threads, `Exclusive` (who is between the check and the
store of a `set nx` has the `RLock`) and `GrantStored` (whoever was granted the
key has its entry there, and a `set nx` in progress has read that entry; unless
raced) make up the strengthening `NxInv`.  For tasks, `AsyncWrapper`'s
lock puts a whole operation of one task between those of the others, so nothing
changes between `get`'s read and its delete: `raced` never becomes true
(`TaskInv`), and each operation takes effect at one step, the step of `Store` it
is mapped to.

**Pool.**  `MetaLockIsLock` carries all of `LockProofs` over: two processes are
under the meta-lock only after a breach.  On it rests `PoolInv`.  Its parts:
`Controlled` (where `pc` of the lock says a process is agrees with `op` and
`stage`), `Sized` (what is stored and what was loaded are within `max_size`: this
needs no exclusion, as the limit is checked on the view that is saved),
`Distinct` (no two processes, and no two bodies of one, have the same slot) and
`Data` (until tainted, the view of the process under the meta-lock is what is
stored, less what had expired by a `now` at most `age` old; and every running
body's slot is stored with what is left of it).  `Capacity` then follows by counting: the running bodies map one to
one into the stored slots.  The refinement goes action by action: `Admit` is
`Grant`, `Finish` of an entry is `Use`, the start of an exit, a fault or a death
is `End`, `ReleaseSlot` is `Free`, and a save that drops slots drops only those
that are no longer in `Taken`.  `PoolIsGuarded` needs less of it and maps only what
has not expired by the clock itself: `Admit` checks the limit against an older
`now`, which can only count more slots, and a slot that is out of time when it is
saved is the `Enter` whose entry is over at once.

**Cached.**  `ResetInv` says that while a reset runs over which nothing was
`carried`, the layers it has been at and the values in hand are no older than
it; the other strengthenings are inductive on their own.  `NoneAge` bounds the age of a `None` in hand by the layers it
has come through.  `StaleInv` relates each entry, and each value in hand, to
`Staleness`; that `Staleness` is what its recursive definition says for every
layer is proved by taking the least number of inner layers for which it would
not be (`Least`, from the well-foundedness of the naturals).

**LockedCache.**  `StackIsLock` and `StackIsCached` bring mutual exclusion and
the types of the cache.  `StillAbsent` says that the layers the caller inside has
found empty (`Searched`) are empty as long as the lock is not breached: only a
holder stores, there is no other holder, and what everybody else does (resets,
releases, expiry) only removes.  So a computation ends with nothing to be found,
which is `ComputesOnlyWhenAbsent`, and that is why a second version cannot come
up next to a first: every other step copies, ages or marks all values alike, or
drops some, which is `OneVersion`.

**Decorators.**  The strengthening `DecInv` adds to the checked invariants:
`Placed` (who is idle has entered nothing), `ClientsFound` (an entered wrapper
found a client, and an instance's never changes), `SharedIsOne` (a client that
promised one space for both sides has one), `Counted` (no entry is held more
often than its guard allows) and `Reported` (results at every point of a call).
A wrapper's exit removes the caller's own entry, or hands it to a ghost if it
looks elsewhere (`ExitHeld`), which is `Unwound`; guards in a stack are distinct,
so it removes no other of its own.  `GuardsLimit` follows because calls that are to
exclude each other are all in one entry, by `Unwound` and `SharedIsOne`, and that
entry is `Counted`.  `StacksObeyGuards` goes action by action and key by key: who
enters has no entry there already (by `Unwound`, and as guards in a stack are
distinct), an exit that misses, a failing exit or a death disowns the entry,
`EnterFails` strands one, and every other step takes away or changes nothing.

**Only model-checked.**  Liveness (`WaiterResolves`, `OperationsEnd`): fairness and
ENABLED are out of TLAPS's reach.  The safety half of both is proved, see
*Progress*.

## 5. What is not modelled, and why

* Formatting of keys, pickling, encoders, logging, types: no property is about
  them.  (Two names that format to one key are modelled where the library makes
  them so itself: a pool and a lock decorator, `LockedCall`.)
* An encoder that turns `None` into something else: it makes `None` a result
  like the others.
* `@cached` in or over a stack with `@once` and `@pooled`: under `@once` it is
  as in `LockedCache` (the same lock, with `nowait`); a pool shares no state with
  a cache, and its limit on computations is its capacity.
* One `asyncio.Lock` used from several event loops: what it does then is not
  code of this repository.
* Redis and other custom backends: `Store` is what the code asks of them.
* Clocks of different hosts are one clock; steps of the clock are not modelled.
* A global client replaced within one operation of an unbound pool, which asks for
  it at the load and again at the save: in `Decorators` an entry is one step.
* A ttl of 0: `MemoryCache` has it, but what it is to mean is documented nowhere,
  and no property is about it.
* `size()` of a pooled function: it is `size()` of the pool (`Pool`).

## 6. Plan

1. *Done:* `Timers`, `Lock` with `ExclusiveUse`; `MemoryCache` with `Store`;
   `Pool` over `Lock`, with `SlotPool`; `Cached`; `LockedCache` over both `Lock`
   and `Cached`; `Clients` and `Decorators`; `Guarded`, which `Lock` and `Pool`
   refine and `Decorators` obeys; proofs of every safety property and refinement,
   and of the main promises for users that keep to the docs.
2. *Left to model:* more than one instance in `Decorators`.
3. *Left to prove:* the same contract for a lock over the in-memory backend, whose
   threads can break a `set nx` (finding 2): that a lock of tasks on one
   `AsyncWrapper` keeps it follows from `TasksImplementStore` and `LockIsGuarded`
   only by the reading that `left` in `Lock` is the entry in `Store`.
