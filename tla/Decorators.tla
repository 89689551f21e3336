----------------------------- MODULE Decorators -----------------------------
(***************************************************************************)
(* Functions wrapped by lock(...)(f), @once and @pooled (_lock.py,         *)
(* _pool.py): each wrapper enters a `with' statement, calls what it wraps, *)
(* leaves, and may turn an exception into a return value.  Wrappers are    *)
(* stacked, the functions of two processes may share some of them, a       *)
(* function is sync or async, and a wrapper belongs to a Cachify instance  *)
(* or to the global client, which init_cachify may replace at any time.    *)
(*                                                                         *)
(* Lock.tla and Pool.tla are about the `with' statements; here one of them *)
(* is entered, refused or left in a single step, and leases end at any     *)
(* time.  Waiting with a timeout is a refusal that comes late.             *)
(***************************************************************************)
EXTENDS Clients, FiniteSets

CONSTANTS
  Proc,       \* the processes
  Side,       \* which clients the function of each uses: "sync" or "async"
  Guard,      \* the decorators of the program, each with a key of its own
  Kind,       \* what each is: "lock", "once" or "pooled"
  Raising,    \* those with raise_on_locked=True or raise_on_full=True
  Patient,    \* the locks with nowait=False and timeout=None
  Instance,   \* those of the Cachify instance
  Unbound,    \* pool(...).pooled() of a pool the program made itself: neither
              \* of a Cachify instance nor made anew for each call
  MaxSize,    \* max_size of the pools
  Stack,      \* the function of each process: its decorators, outermost first
  Results,    \* what the functions may come to
  Ghosts      \* whose the entries are that nobody will give back

Outcome == {"value", "LockError", "PoolFullError", "Exception"}

ASSUME DecoratorsAssumption ==
  /\ Side \in [Proc -> {"sync", "async"}]
  /\ Kind \in [Guard -> {"lock", "once", "pooled"}]
  /\ Raising \subseteq {g \in Guard : Kind[g] # "lock"}
  /\ Patient \subseteq {g \in Guard : Kind[g] = "lock"}
  /\ Instance \subseteq Guard /\ MaxSize \in Nat \ {0}
  /\ Unbound \subseteq {g \in Guard \ Instance : Kind[g] = "pooled"}
  /\ Stack \in [Proc -> Seq(Guard) \ {<<>>}]
  /\ \A p \in Proc : \A i, j \in DOMAIN Stack[p] :
       Stack[p][i] = Stack[p][j] => i = j
  /\ Results \subseteq Outcome /\ Ghosts \cap Proc = {}

VARIABLES
  held,   \* who has an entry, per space and guard; the entry itself does not
          \* say (auxiliary: the code only sees how many)
  pc,     \* where each process is in its call
  with,   \* the clients with which it has entered its wrappers, outermost first
  out,    \* what the call comes to so far, and at last
  ran,    \* what the wrapped function itself came to, or "failed" if a wrapper
          \* was not entered or left properly (auxiliary)
  lost    \* its entries that somebody else removed (auxiliary)

callVars == <<pc, with, out, ran>>
vars == <<clientVars, held, callVars, lost>>

Refusal(g) == IF Kind[g] = "pooled" THEN "PoolFullError" ELSE "LockError"
Limit(g) == IF Kind[g] = "pooled" THEN MaxSize ELSE 1

depth(p) == Len(with[p])
Coming(p) == Stack[p][depth(p) + 1]    \* the guard to be entered
Top(p) == Stack[p][depth(p)]           \* the guard entered last

\* The entry that client c gives p's function for guard g, and the one that p
\* took with wrapper i.
entry(p, c, g) == <<c[Side[p]], g>>
Taken(p, i) == entry(p, with[p][i], Stack[p][i])
Taking(p) == {Taken(p, i) : i \in 1..depth(p)}

DecTypeOK ==
  /\ ClientsTypeOK
  /\ held \in [Space \X Guard -> SUBSET (Proc \cup Ghosts)]
  /\ pc \in [Proc -> {"idle", "enter", "run", "exit"}]
  /\ with \in [Proc -> Seq(CachifyClient)]
  /\ \A p \in Proc :
       /\ depth(p) \in 0..Len(Stack[p])
       /\ pc[p] = "run" => depth(p) = Len(Stack[p])
       /\ pc[p] = "exit" => depth(p) > 0
       /\ lost[p] \subseteq Taking(p)
  /\ out \in [Proc -> Outcome \cup {"substitute", "HandlerError", "none"}]
  /\ ran \in [Proc -> Outcome \cup {"none", "failed"}]
  /\ lost \in [Proc -> SUBSET (Space \X Guard)]

DecInit ==
  /\ ClientsInit
  /\ held = [e \in Space \X Guard |-> {}]
  /\ pc = [p \in Proc |-> "idle"]
  /\ with = [p \in Proc |-> <<>>]
  /\ out = [p \in Proc |-> "none"]
  /\ ran = [p \in Proc |-> "none"]
  /\ lost = [p \in Proc |-> {}]
-----------------------------------------------------------------------------
\* The client is_locked and release of a decorator ask, at every call.
provider(g) == IF g \in Instance THEN local ELSE global

\* Mutant: once does not bind its lock object to the client.
enters_Unbound(g) == IF Kind[g] = "pooled" THEN provider(g) ELSE global

\* The client its `with' statement is entered with.  The wrapper of `lock'
\* makes a new lock object, which is bound to no client: it finds the global one.
enters(g) == IF Kind[g] = "lock" THEN global ELSE provider(g)

\* Mutant: a once and a pool made for the call ask for their client again.
leaves_Again(p) == enters(Top(p))

\* Bound to no client: such an object looks for the global one at each step.
unbound(g) == Kind[g] = "lock" \/ g \in Unbound

\* The client that p leaves its innermost wrapper with: a once, and a pool made
\* for the call or by an instance, are bound to the one they entered with.
leaves(p) == IF unbound(Top(p)) THEN global ELSE with[p][depth(p)]

\* Mutant: `except Exception' instead of `except CachifyLockError'.
handled_Broad(g, o) ==
  IF o # "value" /\ Kind[g] # "lock" /\ g \notin Raising THEN {"substitute"} ELSE {o}

\* What on_full may come to: it returns, is refused itself, or raises.
on_full == {"substitute", "LockError", "PoolFullError", "HandlerError"}

\* What an outcome may become outside the wrapper of g: return_on_locked, or
\* what on_full comes to, replaces the exception it catches.
handled(g, o) ==
  IF o = Refusal(g) /\ Kind[g] # "lock" /\ g \notin Raising
    THEN IF Kind[g] = "pooled" THEN on_full ELSE {"substitute"}
    ELSE {o}

\* Mutant: the last wrapper does not return.
Unwind_NoReturn(p, d, o) ==
  /\ with' = [with EXCEPT ![p] = SubSeq(@, 1, d)]
  /\ out' = [out EXCEPT ![p] = o]
  /\ pc' = [pc EXCEPT ![p] = "exit"]

\* Control goes to the wrapper around the one that has come to o, with d
\* wrappers still entered.
Unwind(p, d, o) ==
  /\ with' = [with EXCEPT ![p] = SubSeq(@, 1, d)]
  /\ out' = [out EXCEPT ![p] = o]
  /\ pc' = [pc EXCEPT ![p] = IF d = 0 THEN "idle" ELSE "exit"]

\* The entry e of the processes S is gone; those of `leaving' leave their
\* innermost wrapper.
Gone(e, S, leaving) ==
  lost' = [q \in Proc |->
    (IF q \in S /\ e \in Taking(q) THEN lost[q] \cup {e} ELSE lost[q])
      \ (IF q \in leaving THEN {Taken(q, depth(q))} ELSE {})]

Call(p) ==
  /\ pc[p] = "idle"
  /\ pc' = [pc EXCEPT ![p] = "enter"]
  /\ out' = [out EXCEPT ![p] = "none"]
  /\ ran' = [ran EXCEPT ![p] = "none"]
  /\ UNCHANGED <<clientVars, held, with, lost>>

\* p is about to enter a wrapper and finds client c for it.
Entering(p, c) == pc[p] = "enter" /\ c = enters(Coming(p)) /\ c # None

\* Mutant: one more than max_size.
Room_OffByOne(p, c) == Cardinality(held[entry(p, c, Coming(p))]) <= Limit(Coming(p))

Room(p, c) == Cardinality(held[entry(p, c, Coming(p))]) < Limit(Coming(p))

EnterGuard(p) ==
  /\ \E c \in {global, local} :
       /\ Entering(p, c) /\ Room(p, c)
       /\ held' = [held EXCEPT ![entry(p, c, Coming(p))] = @ \cup {p}]
       /\ with' = [with EXCEPT ![p] = Append(@, c)]
  /\ pc' = [pc EXCEPT ![p] = IF Len(with'[p]) = Len(Stack[p]) THEN "run" ELSE "enter"]
  /\ UNCHANGED <<clientVars, out, ran, lost>>

\* A lock is taken (and stays so until the timeout, if there is one); a pool
\* is full, or its meta-lock is busy for too long.
RefuseGuard(p) ==
  /\ \E c \in {global, local} :
       Entering(p, c) /\ (Kind[Coming(p)] # "pooled" => ~Room(p, c))
  /\ Coming(p) \notin Patient
  /\ \E o \in handled(Coming(p), Refusal(Coming(p))) : Unwind(p, depth(p), o)
  /\ UNCHANGED <<clientVars, held, ran, lost>>

\* If p still has its entry, it becomes x's: nobody will give it back.
Abandoned(p, S, x) == IF p \in S THEN (S \ {p}) \cup {x} ELSE S

\* Who can take over the entries among E that p still has.
Spare(p, E) == {x \in Ghosts : \A e \in E : p \in held[e] => x \notin held[e]}

\* There is no client yet (CachifyInitError), or the backend raises: before or
\* after it has stored the entry, which is then nobody's.
EnterFails(p) ==
  /\ pc[p] = "enter"
  /\ \/ UNCHANGED held
     \/ \E c \in {global, local} :
          /\ Entering(p, c) /\ Room(p, c)
          /\ \E x \in Ghosts \ held[entry(p, c, Coming(p))] :
               held' = [held EXCEPT ![entry(p, c, Coming(p))] = @ \cup {x}]
  /\ ran' = [ran EXCEPT ![p] = "failed"]
  /\ Unwind(p, depth(p), "Exception")
  /\ UNCHANGED <<clientVars, lost>>

\* The function returns or raises; it may use locks and pools of its own.
RunBody(p) ==
  /\ pc[p] = "run"
  /\ \E o \in Results :
       /\ ran' = [ran EXCEPT ![p] = o]
       /\ out' = [out EXCEPT ![p] = o]
  /\ pc' = [pc EXCEPT ![p] = "exit"]
  /\ UNCHANGED <<clientVars, held, with, lost>>

\* A lock is deleted whoever has it by now, a slot only if it is p's.  If that
\* is not where an unbound lock or pool took its entry, the entry stays.
ExitGuard(p) ==
  /\ pc[p] = "exit"
  /\ LET g == Top(p)
         e == entry(p, leaves(p), g)
         gone == IF Kind[g] = "pooled" THEN {p} ELSE held[e]
         missed == {f \in {Taken(p, depth(p))} : unbound(g) /\ f # e}
     IN  /\ \E x \in Spare(p, missed) :
              held' = [f \in Space \X Guard |->
                         IF f = e THEN held[f] \ gone
                         ELSE IF f \in missed THEN Abandoned(p, held[f], x)
                         ELSE held[f]]
         /\ Gone(e, gone, {p})
         /\ \E o \in handled(g, out[p]) : Unwind(p, depth(p) - 1, o)
  /\ UNCHANGED <<clientVars, ran>>

\* The backend raises, or the meta-lock of a pool is not free in time: the
\* entry stays, and the exception replaces what the body came to.
ExitFails(p) ==
  /\ pc[p] = "exit"
  /\ LET e == Taken(p, depth(p))
     IN  /\ \E x \in Spare(p, {e}) : held' = [held EXCEPT ![e] = Abandoned(p, @, x)]
         /\ Gone(e, {p}, {p})
  /\ ran' = [ran EXCEPT ![p] = "failed"]
  /\ \E r \in {"Exception", "LockError"} :
       /\ r = "LockError" => Kind[Top(p)] = "pooled"
       /\ \E o \in handled(Top(p), r) : Unwind(p, depth(p) - 1, o)
  /\ UNCHANGED clientVars
-----------------------------------------------------------------------------
(* What the environment does. *)

\* init_cachify, while calls go on.
ReplaceGlobal == init_cachify /\ UNCHANGED <<held, callVars, lost>>

Release(e, S) ==
  /\ held' = [held EXCEPT ![e] = @ \ S]
  /\ Gone(e, S, {})
  /\ UNCHANGED <<clientVars, callVars>>

\* f.release() of a sync or of an async function: it deletes where `provider'
\* says, then calls the `reset' of what is wrapped, which a lock or a once has
\* not.
ForceRelease(g, p) ==
  /\ Kind[g] # "pooled" /\ provider(g) # None
  /\ Release(entry(p, provider(g), g), held[entry(p, provider(g), g)])

\* The lease of a lock, or of one slot, is over.
Expire(g) == \E s \in Space : \E q \in held[s, g] : Release(<<s, g>>, {q})

\* p dies in its call; no __exit__ runs.
Die(p) ==
  /\ pc[p] # "idle"
  /\ \E x \in Spare(p, Taking(p)) :
       held' = [e \in Space \X Guard |-> Abandoned(p, held[e], x)]
  /\ pc' = [pc EXCEPT ![p] = "idle"]
  /\ with' = [with EXCEPT ![p] = <<>>]
  /\ out' = [out EXCEPT ![p] = "none"]
  /\ ran' = [ran EXCEPT ![p] = "none"]
  /\ lost' = [lost EXCEPT ![p] = {}]
  /\ UNCHANGED clientVars
-----------------------------------------------------------------------------
Step(p) ==
  Call(p) \/ EnterGuard(p) \/ RefuseGuard(p) \/ EnterFails(p) \/ RunBody(p)
    \/ ExitGuard(p) \/ ExitFails(p)

DecNext ==
  \/ \E p \in Proc : Step(p) \/ Die(p)
  \/ \E g \in Guard : Expire(g) \/ \E p \in Proc : ForceRelease(g, p)
  \/ ReplaceGlobal

DecSpec == DecInit /\ [][DecNext]_vars
-----------------------------------------------------------------------------
\* p is inside its wrapper i, and nobody took the entry from it.
Keeps(p, i) == i \in 1..depth(p) /\ Taken(p, i) \notin lost[p]

(***************************************************************************)
(* However a call ends - refused half way down, by an exception, by one    *)
(* that a wrapper turned into a value - it leaves no entry of its own, and *)
(* while it runs it has every entry it took: only a death, a failing       *)
(* backend and the exit of an unbound lock or pool that finds another      *)
(* global client leave one, and only expiry and other processes take one   *)
(* away.                                                                   *)
(***************************************************************************)
Unwound ==
  \A p \in Proc :
    /\ \A i \in 1..depth(p) : Keeps(p, i) => p \in held[Taken(p, i)]
    /\ \A e \in Space \X Guard : p \in held[e] =>
         \E i \in 1..depth(p) : Keeps(p, i) /\ Taken(p, i) = e

\* Wrappers i of p and j of q are to exclude each other: they work on one
\* space, or with one client that was to have the same space for both sides.
Meet(p, i, q, j) ==
  /\ Stack[p][i] = Stack[q][j]
  /\ \/ Taken(p, i) = Taken(q, j)
     \/ with[p][i] = with[q][j] /\ with[p][i].shared

(***************************************************************************)
(* "Only one invocation of the wrapped function occurs at a time" (docs/   *)
(* reference/once.md:21), and at most max_size through a pool, among the   *)
(* calls whose entry is theirs to the end: sync and async ones alike if    *)
(* init_cachify was given no client, one MemoryCache or one space for      *)
(* both, and also across a call of init_cachify that keeps the space.      *)
(***************************************************************************)
GuardsLimit ==
  \A p \in Proc : \A i \in 1..depth(p) : Keeps(p, i) =>
    LET others == {q \in Proc : \E j \in 1..depth(q) : Keeps(q, j) /\ Meet(p, i, q, j)}
    IN  Cardinality(others) <= Limit(Stack[p][i])

(***************************************************************************)
(* What the caller gets is what the function came to: its value unless a   *)
(* backend failed, its exceptions unless they are CachifyLockError or      *)
(* CachifyPoolFullError; and no value or other exception is made up.  (A   *)
(* CachifyLockError of the function itself is taken for a refusal.)        *)
(***************************************************************************)
ResultFaithful ==
  \A p \in Proc : pc[p] = "idle" /\ ran[p] # "failed" =>
    /\ ran[p] \in {"value", "Exception"} => out[p] = ran[p]
    /\ out[p] \in {"value", "Exception"} => ran[p] = out[p]

\* f.is_locked() of wrapper i of p's function: its own key, where `provider'
\* says, or what is_locked of the function it wraps says (functools.wraps
\* hands that on through a pool).
is_locked(p, i) ==
  \E j \in i..Len(Stack[p]) :
    LET g == Stack[p][j]
    IN  Kind[g] # "pooled" /\ provider(g) # None /\ held[entry(p, provider(g), g)] # {}

\* The global client was replaced since p entered wrapper i.
Replaced(p, i) ==
  Stack[p][i] \notin Instance /\ with[p][i][Side[p]] # global[Side[p]]

(***************************************************************************)
(* "is_locked: check if the function is currently locked" (docs/reference/ *)
(* lock.md:54): it is while a call has a lock it has not lost, unless the  *)
(* global client was replaced by one on another space meanwhile.           *)
(***************************************************************************)
LockedWhileRunning ==
  \A p \in Proc : \A i \in 1..depth(p) :
    Kind[Stack[p][i]] # "pooled" /\ Keeps(p, i) /\ ~Replaced(p, i)
      => \A j \in 1..i : is_locked(p, j)
-----------------------------------------------------------------------------
\* The processes inside a wrapper that took an entry at key e.
Inside(e) ==
  {p \in Proc : \E i \in DOMAIN with[p] :
     Stack[p][i] = e[2] /\ with[p][i][Side[p]] = e[1]}

Use(e) == INSTANCE Guarded WITH Places <- Limit(e[2]), inside <- Inside(e),
                                entries <- held[e]

(***************************************************************************)
(* At every key the wrappers behave as Guarded.tla says, which is what     *)
(* Lock.tla and Pool.tla provide: nothing a stack does (unwinding,         *)
(* re-initialising, failing half way) adds an entry or a user to a key     *)
(* that has no room.                                                       *)
(***************************************************************************)
ObeysGuards ==
  /\ \A e \in Space \X Guard : Use(e)!Init
  /\ [][\/ UNCHANGED <<held, with>>
        \/ \A e \in Space \X Guard : [Use(e)!Next]_(Use(e)!vars)]_vars
=============================================================================
