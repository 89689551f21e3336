------------------------------- MODULE Clients -------------------------------
(***************************************************************************)
(* init_cachify and the clients it makes (_lib.py): on which entries of    *)
(* which backend a sync or an async function works.  A space is a backend  *)
(* under a prefix: clients share entries if they have a space in common.   *)
(***************************************************************************)
EXTENDS Naturals, Sequences

CONSTANTS
  Custom,    \* spaces of backends of the program's own
  OwnCache,  \* spaces of MemoryCaches the program has made itself
  None,      \* Python's None
  Setup      \* what each call of init_cachify is given for clients: the first
             \* makes a Cachify instance (is_global=False), the others are
             \* global

\* Call n of init_cachify makes MemoryCache n, if it makes one.
MemoryCache == OwnCache \cup 1..Len(Setup)
Space == Custom \cup MemoryCache
ClientArgs == [sync: Space \cup {None}, async: Space \cup {None}]

\* `shared': the arguments promise one space for both sides (auxiliary).
CachifyClient == [sync: Space, async: Space, shared: BOOLEAN]

ASSUME ClientsAssumption ==
  /\ Setup \in Seq(ClientArgs) \ {<<>>}
  /\ Custom \cap MemoryCache = {} /\ None \notin Space \cup CachifyClient

VARIABLES
  global,  \* _cachify
  local,   \* the client of the Cachify instance
  inits    \* how often init_cachify has been called

clientVars == <<global, local, inits>>

ClientsTypeOK ==
  /\ global \in CachifyClient \cup {None} /\ local \in CachifyClient
  /\ inits \in DOMAIN Setup

\* docs/reference/init.md, Defaulting Behavior.
Promised(args) ==
  \/ args.async = args.sync
  \/ args.async = None /\ args.sync \in MemoryCache

\* Mutant: the async side gets a space of its own, whatever the sync side is.
Make_OwnAsync(args, n) ==
  [sync   |-> IF args.sync = None THEN 1 ELSE args.sync,
   async  |-> IF args.async = None THEN n ELSE args.async,
   shared |-> Promised(args)]

\* The client made of these arguments and of one new MemoryCache, n: the async
\* side wraps the sync side's if that is a MemoryCache.
Make(args, n) ==
  LET sync == IF args.sync = None THEN n ELSE args.sync
      wrapped == IF sync \in MemoryCache THEN sync ELSE n
  IN  [sync   |-> sync,
       async  |-> IF args.async = None THEN wrapped ELSE args.async,
       shared |-> Promised(args)]

ClientsInit == global = None /\ local = Make(Setup[1], 1) /\ inits = 1

\* The global client is replaced; whoever has got hold of the old one keeps it.
init_cachify ==
  /\ inits < Len(Setup)
  /\ inits' = inits + 1
  /\ global' = Make(Setup[inits'], inits')
  /\ UNCHANGED local
=============================================================================
