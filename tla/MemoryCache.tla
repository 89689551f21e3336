---------------------------- MODULE MemoryCache ----------------------------
(***************************************************************************)
(* MemoryCache and AsyncWrapper (_clients.py): the backend that is used    *)
(* when init_cachify gets no clients, one MemoryCache behind both.         *)
(*                                                                         *)
(* A step is what one thread does to the shared dict between two points    *)
(* where another thread may run.  Threads call MemoryCache directly; tasks *)
(* go through AsyncWrapper, whose asyncio.Lock they hold for a whole       *)
(* operation.  One key is enough: the dict entries are independent and the *)
(* two locks are shared by all keys, which only excludes more.             *)
(***************************************************************************)
EXTENDS Timers, FiniteSets

CONSTANTS Thread, Task, \* callers of the sync and of the async client
          Val,          \* pickled payloads
          None,         \* Python's None
          Ttl,          \* the `ex' arguments in use
          PlainSet      \* BOOLEAN: `set' without nx is used on this key

Client == Thread \cup Task

ASSUME MemoryAssumption ==
  /\ Ttl \subseteq Duration /\ PlainSet \in BOOLEAN
  /\ None \notin Val \cup Client \cup BOOLEAN

VARIABLES
  entry,    \* the tuple _cache.get(name, (None, None)) gives
  rlock,    \* who holds MemoryCache._lock
  alock,    \* which task holds AsyncWrapper._lock
  pc,       \* where each client is in its operation
  snap,     \* the tuple it read
  reply,    \* what its last operation returned
  grant,    \* time left of a successful nx nobody has undone (auxiliary)
  raced     \* a get has removed a live entry (auxiliary)

memVars == <<entry, rlock, alock, pc, snap, reply, grant, raced>>

\* exp_at = 0, from `ex and time.time() + ex' with ex = 0; every other exp_at
\* is kept as the time left.
Epoch == -1

Absent == [val |-> None, exp |-> Never]

Tuple == [val: Val \cup {None}, exp: Duration \cup {Epoch}]

MemTypeOK ==
  /\ entry \in Tuple
  /\ rlock \in Client \cup {None} /\ alock \in Task \cup {None}
  /\ pc \in [Client -> {"idle", "get", "reap", "nx"}]
  /\ snap \in [Client -> Tuple]
  /\ reply \in [Client -> Val \cup {None} \cup BOOLEAN]
  /\ grant \in [Client -> Duration]
  /\ raced \in BOOLEAN

MemInit ==
  /\ entry = Absent
  /\ rlock = None /\ alock = None
  /\ pc = [c \in Client |-> "idle"]
  /\ snap = [c \in Client |-> Absent]
  /\ reply = [c \in Client |-> None]
  /\ grant = [c \in Client |-> 0]
  /\ raced = FALSE
-----------------------------------------------------------------------------
exp_at(ex) == IF ex = 0 THEN Epoch ELSE ex

\* Mutant: a value is still returned at the moment it expires.
Readable_AtExpiry(e) == e.exp \notin {Never, Epoch} => e.exp >= 0

\* `not exp_at or exp_at > time.time()' in get.
Readable(e) == e.exp \notin {Never, Epoch} => e.exp > 0

\* `existing is not None' and `exp_at is None or exp_at > time.time()' in set.
Taken(e) == e.val # None /\ (e.exp # Never => e.exp > 0)

\* Mutant: AsyncWrapper without its lock.
Begin_NoAsyncLock(c, where) ==
  /\ pc[c] = "idle"
  /\ pc' = [pc EXCEPT ![c] = where]
  /\ snap' = [snap EXCEPT ![c] = entry]
  /\ UNCHANGED alock

\* Mutant: the dict lookup has no default.
Begin_NoDefault(c, where) ==
  /\ pc[c] = "idle"
  /\ pc' = [pc EXCEPT ![c] = where]
  /\ snap' = [snap EXCEPT ![c] = IF entry = Absent THEN None ELSE entry]
  /\ UNCHANGED alock

\* A task waits for AsyncWrapper._lock and keeps it to the end.
Begin(c, where) ==
  /\ pc[c] = "idle"
  /\ c \in Task => alock = None
  /\ alock' = IF c \in Task THEN c ELSE alock
  /\ pc' = [pc EXCEPT ![c] = where]
  /\ snap' = [snap EXCEPT ![c] = entry]

Finish(c, result) ==
  /\ alock' = IF c \in Task THEN None ELSE alock
  /\ pc' = [pc EXCEPT ![c] = "idle"]
  /\ snap' = [snap EXCEPT ![c] = Absent]
  /\ reply' = [reply EXCEPT ![c] = result]

\* An operation that touches the dict once.
AtOnce(c, result) ==
  /\ pc[c] = "idle"
  /\ c \in Task => alock = None
  /\ reply' = [reply EXCEPT ![c] = result]
  /\ UNCHANGED <<alock, pc, snap>>

Ungrant == grant' = [c \in Client |-> 0]

GetRead(c) ==
  /\ Begin(c, "get")
  /\ UNCHANGED <<entry, rlock, reply, grant, raced>>

GetReturn(c) ==
  /\ pc[c] = "get"
  /\ Readable(snap[c])
  /\ Finish(c, snap[c].val)
  /\ UNCHANGED <<entry, rlock, grant, raced>>

GetExpired(c) ==
  /\ pc[c] = "get"
  /\ ~Readable(snap[c])
  /\ pc' = [pc EXCEPT ![c] = "reap"]
  /\ UNCHANGED <<entry, rlock, alock, snap, reply, grant, raced>>

\* self.delete(name), without _lock, whatever is stored there by now.
GetReap(c) ==
  /\ pc[c] = "reap"
  /\ entry' = Absent
  /\ raced' = (raced \/ Taken(entry))
  /\ Finish(c, None)
  /\ UNCHANGED <<rlock, grant>>

Set(c, v, ex) ==
  /\ PlainSet
  /\ entry' = [val |-> v, exp |-> exp_at(ex)]
  /\ AtOnce(c, None)
  /\ Ungrant
  /\ UNCHANGED <<rlock, raced>>

Delete(c) ==
  /\ entry' = Absent
  /\ AtOnce(c, None)
  /\ Ungrant
  /\ UNCHANGED <<rlock, raced>>

\* Mutant: check and store without the RLock.
NxRead_NoLock(c) ==
  /\ rlock' = c
  /\ Begin(c, "nx")
  /\ UNCHANGED <<entry, reply, grant, raced>>

\* set(nx=True): the RLock is held from the read to the store.
NxRead(c) ==
  /\ rlock = None
  /\ rlock' = c
  /\ Begin(c, "nx")
  /\ UNCHANGED <<entry, reply, grant, raced>>

NxRefuse(c) ==
  /\ pc[c] = "nx"
  /\ Taken(snap[c])
  /\ rlock' = None
  /\ Finish(c, FALSE)
  /\ UNCHANGED <<entry, grant, raced>>

NxStore(c, v, ex) ==
  /\ pc[c] = "nx"
  /\ ~Taken(snap[c])
  /\ entry' = [val |-> v, exp |-> exp_at(ex)]
  /\ grant' = [grant EXCEPT ![c] = ex]
  /\ rlock' = None
  /\ Finish(c, TRUE)
  /\ UNCHANGED raced

Aged(d) == IF d = Epoch THEN Epoch ELSE Elapse(d, 0)

\* One unit of time, also for the tuples that were read and not yet judged.
Tick ==
  /\ entry' = [entry EXCEPT !.exp = Aged(@)]
  /\ snap' = [c \in Client |-> [snap[c] EXCEPT !.exp = Aged(@)]]
  /\ grant' = [c \in Client |-> Elapse(grant[c], 0)]
  /\ UNCHANGED <<rlock, alock, pc, reply, raced>>

MemNext ==
  \/ \E c \in Client :
       \/ GetRead(c) \/ GetReturn(c) \/ GetExpired(c) \/ GetReap(c)
       \/ Delete(c) \/ NxRead(c) \/ NxRefuse(c)
       \/ \E v \in Val, ex \in Ttl : Set(c, v, ex) \/ NxStore(c, v, ex)
  \/ Tick

MemSpec == MemInit /\ [][MemNext]_memVars
-----------------------------------------------------------------------------
Granted == {c \in Client : grant[c] # 0}

(***************************************************************************)
(* The RLock of MemoryCache.set makes `set nx' a lock: while one client's  *)
(* success has neither run out nor been deleted no other client succeeds,  *)
(* unless a concurrent get has removed a live entry.                       *)
(***************************************************************************)
OneGrantUnlessRaced == ~raced => \A c, d \in Granted : c = d

(***************************************************************************)
(* The same without the proviso: "Built-in clients implement this behavior *)
(* and use it to acquire and release locks safely" (docs/reference/        *)
(* lock.md:68).                                                            *)
(***************************************************************************)
OneGrant == \A c, d \in Granted : c = d

(***************************************************************************)
(* Behind AsyncWrapper every operation is one atomic step of Store.tla,    *)
(* with the results that step gives: a get takes effect when it compares   *)
(* the expiry, an nx when it stores or refuses.                            *)
(***************************************************************************)
Atomic == INSTANCE Store WITH
            Ttl <- Ttl \ {0},
            value <- IF Readable(entry) THEN entry.val ELSE None,
            left <- IF entry.val = None THEN 0 ELSE entry.exp
ImplementsStore == Atomic!Spec
=============================================================================
