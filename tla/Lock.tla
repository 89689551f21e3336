-------------------------------- MODULE Lock --------------------------------
(***************************************************************************)
(* `lock' (_lock.py): processes (threads, tasks, or workers on other       *)
(* hosts) that take, hold and give back one key of a shared backend.       *)
(*                                                                         *)
(* Keys are independent entries of the backend, so one key is enough.  The *)
(* backend is the contract of docs/reference/lock.md: one `set nx', `get'  *)
(* or `delete' is atomic (MemoryCache.tla is about when that is true).     *)
(* Sync and async methods are the same code up to `await', so a process    *)
(* stands for either kind.                                                 *)
(*                                                                         *)
(* The entry holds pickle.dumps(1) whoever set it: `owner', `lease' and    *)
(* `breach' are auxiliary, no guard reads them.                            *)
(***************************************************************************)
EXTENDS Timers, FiniteSets

CONSTANTS Proc,     \* the processes
          Calls,    \* the lock(nowait=, timeout=, exp=) arguments in use
          Nobody,   \* owner of a free key
          NoCall    \* arguments of a process that is in no with statement

CallArgs == [nowait: BOOLEAN, timeout: Duration, exp: Duration \ {0}]

ASSUME LockAssumption ==
  /\ Calls \subseteq CallArgs
  /\ Nobody \notin Proc

VARIABLES
  left,     \* time the key's entry still has; 0: absent or expired
  owner,    \* who set that entry (auxiliary)
  pc,       \* where each process is in `with lock(...)'
  call,     \* the arguments of its lock object
  wait,     \* time left until its stop_at; -1: time.time() > stop_at
  lease,    \* time left of the entry it set itself (auxiliary)
  breach    \* since the key was last unused, a holder outlived its lease or
            \* was released from outside (auxiliary)

lockVars == <<left, owner, pc, call, wait, lease, breach>>

Waiting == {"trying", "refused", "sleeping"}    \* in _acquire / _a_acquire
Holding == {p \in Proc : pc[p] \in {"inside", "leaving"}}

LockTypeOK ==
  /\ left \in Duration
  /\ owner \in Proc \cup {Nobody}
  /\ pc \in [Proc -> Waiting \cup {"idle", "inside", "leaving"}]
  /\ call \in [Proc -> Calls \cup {NoCall}]
  /\ \A p \in Proc : pc[p] # "idle" => call[p] \in Calls
  /\ wait \in [Proc -> Duration \cup {-1}]
  /\ \A p \in Proc : wait[p] = -1 => pc[p] \in Waiting
  /\ lease \in [Proc -> Duration]
  /\ breach \in BOOLEAN

LockInit ==
  /\ left = 0 /\ owner = Nobody
  /\ pc = [p \in Proc |-> "idle"]
  /\ call = [p \in Proc |-> NoCall]
  /\ wait = [p \in Proc |-> 0]
  /\ lease = [p \in Proc |-> 0]
  /\ breach = FALSE
-----------------------------------------------------------------------------
\* Mutant: exp_at compared one unit too early.
is_locked_Early == left \notin {0, 1}

is_locked == left # 0

\* Mutant: the arguments do not reach the lock object.
Start_NoArgs(p, c) ==
  /\ pc[p] = "idle"
  /\ pc' = [pc EXCEPT ![p] = "trying"]
  /\ wait' = [wait EXCEPT ![p] = c.timeout]
  /\ UNCHANGED <<left, owner, call, lease, breach>>

\* __enter__ starts: stop_at is computed once, before the loop.
Start(p, c) ==
  /\ pc[p] = "idle"
  /\ pc' = [pc EXCEPT ![p] = "trying"]
  /\ call' = [call EXCEPT ![p] = c]
  /\ wait' = [wait EXCEPT ![p] = c.timeout]
  /\ UNCHANGED <<left, owner, lease, breach>>

\* Mutant: a plain `set' instead of `set nx'.
Acquire_PlainSet(p) ==
  /\ pc[p] = "trying"
  /\ left' = call[p].exp
  /\ owner' = p
  /\ lease' = [lease EXCEPT ![p] = call[p].exp]
  /\ pc' = [pc EXCEPT ![p] = "inside"]
  /\ wait' = [wait EXCEPT ![p] = 0]
  /\ UNCHANGED <<call, breach>>

\* `set nx' finds the key absent or expired and takes it.
Acquire(p) ==
  /\ pc[p] = "trying"
  /\ ~is_locked
  /\ left' = call[p].exp
  /\ owner' = p
  /\ lease' = [lease EXCEPT ![p] = call[p].exp]
  /\ pc' = [pc EXCEPT ![p] = "inside"]
  /\ wait' = [wait EXCEPT ![p] = 0]
  /\ UNCHANGED <<call, breach>>

\* `set nx' finds the key taken; the clock is read only once the reply is in.
Refuse(p) ==
  /\ pc[p] = "trying"
  /\ is_locked
  /\ pc' = [pc EXCEPT ![p] = "refused"]
  /\ UNCHANGED <<left, owner, call, wait, lease, breach>>

\* Mutant: stop_at is never looked at.
do_raise_NoTimeout(p) == call[p].nowait

do_raise(p) == call[p].nowait \/ wait[p] = -1

\* The key is deleted whoever owns it by now.
Delete == left' = 0 /\ owner' = Nobody

\* Mutant: __exit__ also runs when __enter__ has raised.
Raise_RunsExit(p) ==
  /\ pc[p] = "refused"
  /\ do_raise(p)
  /\ pc' = [pc EXCEPT ![p] = "idle"]
  /\ call' = [call EXCEPT ![p] = NoCall]
  /\ wait' = [wait EXCEPT ![p] = 0]
  /\ Delete
  /\ UNCHANGED <<lease, breach>>

\* CachifyLockError leaves the with statement before it was entered.
Raise(p) ==
  /\ pc[p] = "refused"
  /\ do_raise(p)
  /\ pc' = [pc EXCEPT ![p] = "idle"]
  /\ call' = [call EXCEPT ![p] = NoCall]
  /\ wait' = [wait EXCEPT ![p] = 0]
  /\ UNCHANGED <<left, owner, lease, breach>>

Sleep(p) ==
  /\ pc[p] = "refused"
  /\ ~do_raise(p)
  /\ pc' = [pc EXCEPT ![p] = "sleeping"]
  /\ UNCHANGED <<left, owner, call, wait, lease, breach>>

\* Mutant: stop_at is computed anew at every try.
Wake_Restarts(p) ==
  /\ pc[p] = "sleeping"
  /\ pc' = [pc EXCEPT ![p] = "trying"]
  /\ wait' = [wait EXCEPT ![p] = call[p].timeout]
  /\ UNCHANGED <<left, owner, call, lease, breach>>

Wake(p) ==
  /\ pc[p] = "sleeping"
  /\ pc' = [pc EXCEPT ![p] = "trying"]
  /\ UNCHANGED <<left, owner, call, wait, lease, breach>>

\* The body returns or raises; __exit__ runs either way and sends its delete.
EndBody(p) ==
  /\ pc[p] = "inside"
  /\ pc' = [pc EXCEPT ![p] = "leaving"]
  /\ UNCHANGED <<left, owner, call, wait, lease, breach>>

\* p stops holding; a breach ends with the last holder.
StopHolding(p) ==
  /\ pc' = [pc EXCEPT ![p] = "idle"]
  /\ call' = [call EXCEPT ![p] = NoCall]
  /\ lease' = [lease EXCEPT ![p] = 0]
  /\ breach' = (breach /\ Holding \ {p} # {})

Release(p) ==
  /\ pc[p] = "leaving"
  /\ Delete
  /\ StopHolding(p)
  /\ UNCHANGED wait
-----------------------------------------------------------------------------
(* What the environment does. *)

\* Another lock object on this key calls release() / arelease(), as the docs
\* offer; the program allows it at any time, locked or not.
ForceRelease ==
  /\ Delete
  /\ breach' = (breach \/ Holding # {})
  /\ UNCHANGED <<pc, call, wait, lease>>

\* The process dies, or its task is cancelled, anywhere in the with statement
\* and without running __exit__: between the `set nx' at the backend and its
\* reply (pc is "inside" by then), in the body, or before the delete is sent.
\* Another one may take its place.  A `set nx' or delete that raises, with or
\* without effect, ends the with statement the same way.
Crash(p) ==
  /\ pc[p] # "idle"
  /\ StopHolding(p)
  /\ wait' = [wait EXCEPT ![p] = 0]
  /\ UNCHANGED <<left, owner>>

\* One unit of time; an entry whose time is up is gone for every later nx.
Tick ==
  /\ left' = Elapse(left, 0)
  /\ owner' = IF left' = 0 THEN Nobody ELSE owner
  /\ wait' = [p \in Proc |->
                Elapse(wait[p], IF pc[p] \in Waiting THEN -1 ELSE 0)]
  /\ lease' = [p \in Proc |-> Elapse(lease[p], 0)]
  /\ breach' = (breach \/ \E p \in Holding : lease'[p] = 0)
  /\ UNCHANGED <<pc, call>>
-----------------------------------------------------------------------------
Step(p) ==
  \/ \E c \in Calls : Start(p, c)
  \/ Acquire(p) \/ Refuse(p) \/ Raise(p) \/ Sleep(p) \/ Wake(p)
  \/ EndBody(p) \/ Release(p)

\* Nobody crashes and nobody is released from outside.
Undisturbed == (\E p \in Proc : Step(p)) \/ Tick

LockNext == Undisturbed \/ ForceRelease \/ (\E p \in Proc : Crash(p))

LockSpec == LockInit /\ [][LockNext]_lockVars

UndisturbedSpec == LockInit /\ [][Undisturbed]_lockVars

\* Time passes and a process that neither rests nor runs user code goes on.
\* Nothing is assumed of Start, EndBody, Crash and ForceRelease.
Proceed(p) == Acquire(p) \/ Refuse(p) \/ Raise(p) \/ Sleep(p) \/ Wake(p)
                \/ Release(p)

LockFairness == WF_lockVars(Tick) /\ \A p \in Proc : WF_lockVars(Proceed(p))

FairLockSpec == LockSpec /\ LockFairness
-----------------------------------------------------------------------------
(***************************************************************************)
(* A holder that has neither outlived its lease nor been released from     *)
(* outside owns the entry, the entry lives exactly as long as its lease,   *)
(* and is_locked says so: _lock.py deletes without checking an owner, and  *)
(* still never takes such a holder's entry away, whoever waits, times out  *)
(* or crashes around it.                                                   *)
(***************************************************************************)
HolderProtected ==
  ~breach => \A p \in Holding : owner = p /\ left = lease[p] /\ is_locked

(***************************************************************************)
(* 'Locks enforce "only one at a time"' (docs/tutorial/pools/pools-intro.  *)
(* md:28): from the `set nx' that let it in to its delete a process is     *)
(* alone, unless there was a breach since the key was last unused.         *)
(***************************************************************************)
MutualExclusion == ~breach => \A p, q \in Holding : p = q

(***************************************************************************)
(* The same without the proviso: two processes are never both inside on    *)
(* leases that are both still running.  The unconditional delete of        *)
(* _lock.py:52,86 does not give this.                                      *)
(***************************************************************************)
UnexpiredHoldersExclude ==
  \A p, q \in Holding : lease[p] # 0 /\ lease[q] # 0 => p = q

(***************************************************************************)
(* A call with nowait or a timeout does not wait for ever: it enters the   *)
(* body, raises CachifyLockError or dies, whatever the others do.          *)
(***************************************************************************)
Bounded(p) == pc[p] \in Waiting /\ (call[p].nowait \/ call[p].timeout # Never)

WaiterResolves == \A p \in Proc : Bounded(p) ~> pc[p] \notin Waiting

\* What a waiter can still do once its time is up: wake, try, be refused.
StepsLeft == [sleeping |-> 3, trying |-> 2, refused |-> 1]

OutOfTime(p) == call[p].nowait \/ wait[p] = -1

Advances(p) ==
  pc[p] \in Waiting /\ pc'[p] \in Waiting =>
    /\ call'[p] = call[p]
    /\ wait'[p] \in {wait[p], Elapse(wait[p], -1)}
    /\ OutOfTime(p) => pc'[p] = pc[p] \/ StepsLeft[pc'[p]] < StepsLeft[pc[p]]

(***************************************************************************)
(* Why a bounded call comes to its end: whatever anybody does, a waiter    *)
(* keeps the arguments and the stop_at it started with, and once that has  *)
(* passed every step of its own brings it nearer to the end; it sends at   *)
(* most one more `set nx'.                                                 *)
(***************************************************************************)
WaitersAdvance == [][\A p \in Proc : Advances(p)]_lockVars
-----------------------------------------------------------------------------
\* The lock, seen by the code it protects: ExclusiveUse.tla.
Exclusive == INSTANCE ExclusiveUse WITH User <- Proc, using <- Holding,
                                        broken <- breach
ImplementsExclusiveUse == Exclusive!Spec

\* The lock, seen by a stack of decorators: Guarded.tla.
Guard == INSTANCE Guarded WITH Places <- 1, inside <- Holding,
                               entries <- {owner} \ {Nobody}

(***************************************************************************)
(* A process gets inside only if the key has no entry, its own or another  *)
(* one's, whatever expired, was deleted or was left behind before.         *)
(***************************************************************************)
ImplementsGuarded == Guard!Spec
=============================================================================
