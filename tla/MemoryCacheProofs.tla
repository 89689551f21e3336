------------------------- MODULE MemoryCacheProofs -------------------------
(***************************************************************************)
(* Proofs about MemoryCache.tla for any threads, tasks, payloads and ttls: *)
(* its types, what `set nx' is worth to threads and to tasks, and that the *)
(* tasks see the backend of Store.tla.                                     *)
(***************************************************************************)
EXTENDS MemoryCache, TLAPS

LEMMA TtlType ==
  /\ Ttl \subseteq Duration /\ None \notin Val /\ None \notin Client
  /\ Never \notin Int
  /\ \A ex \in Duration : ex = Never \/ ex \in Nat
BY MemoryAssumption, NeverAssumption DEF Duration

LEMMA AbsentType == Absent \in Tuple /\ ~Taken(Absent) /\ Readable(Absent)
BY DEF Absent, Tuple, Duration, Taken, Readable

LEMMA StoredType ==
  ASSUME NEW v \in Val, NEW ex \in Ttl
  PROVE  [val |-> v, exp |-> exp_at(ex)] \in Tuple
BY TtlType DEF Tuple, exp_at

LEMMA ElapseType ==
  ASSUME NEW d \in Duration
  PROVE  Elapse(d, 0) \in Duration /\ (Elapse(d, 0) # 0 => d # 0)
BY NeverAssumption DEF Elapse, Duration

\* A tuple one unit of time later.
LEMMA AgedType ==
  ASSUME NEW e \in Tuple
  PROVE  /\ [e EXCEPT !.exp = Aged(@)] \in Tuple
         /\ [e EXCEPT !.exp = Aged(@)].val = e.val
         /\ [e EXCEPT !.exp = Aged(@)].exp = Aged(e.exp)
<1>1. e.exp \in Duration \cup {Epoch}
  BY DEF Tuple
<1>2. Aged(e.exp) \in Duration \cup {Epoch}
  BY <1>1, ElapseType DEF Aged
<1> QED
  BY <1>2 DEF Tuple
-----------------------------------------------------------------------------
LEMMA TypeInit == MemInit => MemTypeOK
BY AbsentType, TtlType DEF MemInit, MemTypeOK, Duration

LEMMA ReadTypes ==
  ASSUME MemTypeOK, NEW c \in Client, GetRead(c) \/ NxRead(c)
  PROVE  MemTypeOK'
BY DEF MemTypeOK, GetRead, NxRead, Begin

LEMMA GetTypes ==
  ASSUME MemTypeOK, NEW c \in Client,
         GetReturn(c) \/ GetExpired(c) \/ GetReap(c) \/ Delete(c)
  PROVE  MemTypeOK'
<1>1. CASE GetReturn(c)
  <2>1. snap[c].val \in Val \cup {None}
    BY DEF MemTypeOK, Tuple
  <2> QED
    BY <1>1, <2>1, AbsentType DEF MemTypeOK, GetReturn, Finish
<1>2. CASE GetExpired(c)
  BY <1>2 DEF MemTypeOK, GetExpired
<1>3. CASE GetReap(c)
  BY <1>3, AbsentType DEF MemTypeOK, GetReap, Finish, Taken
<1>4. CASE Delete(c)
  BY <1>4, AbsentType DEF MemTypeOK, Delete, AtOnce, Ungrant, Duration
<1> QED
  BY <1>1, <1>2, <1>3, <1>4

LEMMA StoreTypes ==
  ASSUME MemTypeOK, NEW c \in Client,
         \/ NxRefuse(c)
         \/ \E v \in Val, ex \in Ttl : Set(c, v, ex) \/ NxStore(c, v, ex)
  PROVE  MemTypeOK'
<1>1. CASE NxRefuse(c)
  BY <1>1, AbsentType DEF MemTypeOK, NxRefuse, Finish
<1>2. ASSUME NEW v \in Val, NEW ex \in Ttl, Set(c, v, ex)
      PROVE  MemTypeOK'
  BY <1>2, StoredType DEF MemTypeOK, Set, AtOnce, Ungrant, Duration
<1>3. ASSUME NEW v \in Val, NEW ex \in Ttl, NxStore(c, v, ex)
      PROVE  MemTypeOK'
  BY <1>3, StoredType, TtlType, AbsentType DEF MemTypeOK, NxStore, Finish
<1> QED
  BY <1>1, <1>2, <1>3

LEMMA TickTypes ==
  ASSUME MemTypeOK, Tick
  PROVE  MemTypeOK'
<1>1. entry' \in Tuple
  BY AgedType DEF MemTypeOK, Tick
<1>2. snap' \in [Client -> Tuple]
  BY AgedType DEF MemTypeOK, Tick
<1>3. grant' \in [Client -> Duration]
  BY ElapseType DEF MemTypeOK, Tick
<1> QED
  BY <1>1, <1>2, <1>3 DEF MemTypeOK, Tick

LEMMA MemTypeStep == MemTypeOK /\ [MemNext]_memVars => MemTypeOK'
<1> SUFFICES ASSUME MemTypeOK, [MemNext]_memVars
             PROVE  MemTypeOK'
  OBVIOUS
<1>1. CASE UNCHANGED memVars
  BY <1>1 DEF memVars, MemTypeOK
<1>2. CASE MemNext
  BY <1>2, ReadTypes, GetTypes, StoreTypes, TickTypes DEF MemNext
<1> QED
  BY <1>1, <1>2

(***************************************************************************)
(* MemTypeOK for any threads, tasks, payloads and ttls.                    *)
(***************************************************************************)
THEOREM MemTypeCorrect == MemSpec => []MemTypeOK
BY TypeInit, MemTypeStep, PTL DEF MemSpec
-----------------------------------------------------------------------------
(* Threads: `set nx' under the RLock.                                       *)

\* The RLock is held from the read of a `set nx' to its end.
Exclusive == \A c \in Client : pc[c] = "nx" <=> rlock = c

\* Whoever was granted the key has it: the entry is there for as long as the
\* grant, and a `set nx' in progress has read that very entry.
GrantStored ==
  \A c \in Granted :
    /\ Taken(entry) /\ entry.exp = grant[c]
    /\ \A d \in Client : pc[d] = "nx" => snap[d] = entry

NxInv ==
  /\ MemTypeOK
  /\ Exclusive
  /\ ~raced => GrantStored /\ \A c, d \in Granted : c = d

LEMMA ExclusiveStep ==
  ASSUME MemTypeOK, Exclusive, [MemNext]_memVars
  PROVE  Exclusive'
<1> USE TtlType DEF MemTypeOK, Exclusive
<1>1. CASE UNCHANGED memVars
  BY <1>1 DEF memVars
<1>2. ASSUME NEW c \in Client, GetRead(c) \/ NxRead(c)
      PROVE  Exclusive'
  BY <1>2 DEF GetRead, NxRead, Begin
<1>3. ASSUME NEW c \in Client,
             GetReturn(c) \/ GetExpired(c) \/ GetReap(c) \/ Delete(c)
      PROVE  Exclusive'
  BY <1>3 DEF GetReturn, GetExpired, GetReap, Delete, Finish, AtOnce
<1>4. ASSUME NEW c \in Client, NEW v \in Val, NEW ex \in Ttl,
             NxRefuse(c) \/ NxStore(c, v, ex) \/ Set(c, v, ex)
      PROVE  Exclusive'
  BY <1>4 DEF NxRefuse, NxStore, Set, Finish, AtOnce
<1>5. ASSUME NEW c \in Client, NxRefuse(c)
      PROVE  Exclusive'
  BY <1>5 DEF NxRefuse, Finish
<1>6. CASE Tick
  BY <1>6 DEF Tick
<1> QED
  BY <1>1, <1>2, <1>3, <1>4, <1>5, <1>6 DEF MemNext

LEMMA GrantStep ==
  ASSUME NxInv, [MemNext]_memVars, ~raced'
  PROVE  GrantStored' /\ (\A c, d \in Granted : c = d)'
<1>1. ~raced
  BY DEF memVars, MemNext, GetRead, GetReturn, GetExpired, GetReap, Delete, NxRead,
     NxRefuse, Set, NxStore, Tick
<1>2. MemTypeOK /\ Exclusive /\ GrantStored /\ \A c, d \in Granted : c = d
  BY <1>1 DEF NxInv
<1> USE <1>2
<1>3. ASSUME grant' = grant, entry' = entry, snap' = snap,
             \A d \in Client : pc'[d] = "nx" => pc[d] = "nx"
      PROVE  GrantStored' /\ (\A c, d \in Granted : c = d)'
  BY <1>3 DEF GrantStored, Granted
<1>4. ASSUME grant' = [c \in Client |-> 0]
      PROVE  GrantStored' /\ (\A c, d \in Granted : c = d)'
  BY <1>4 DEF GrantStored, Granted
<1>5. CASE UNCHANGED memVars
  BY <1>3, <1>5 DEF memVars
<1>6. ASSUME NEW c \in Client, GetRead(c) \/ NxRead(c)
      PROVE  GrantStored' /\ (\A d, e \in Granted : d = e)'
  BY <1>6 DEF GetRead, NxRead, Begin, GrantStored, Granted, MemTypeOK
<1>7. ASSUME NEW c \in Client, GetReturn(c) \/ NxRefuse(c)
      PROVE  GrantStored' /\ (\A d, e \in Granted : d = e)'
  BY <1>7 DEF GetReturn, NxRefuse, Finish, GrantStored, Granted, MemTypeOK
<1>8. ASSUME NEW c \in Client, GetExpired(c)
      PROVE  GrantStored' /\ (\A d, e \in Granted : d = e)'
  BY <1>8 DEF GetExpired, GrantStored, Granted, MemTypeOK
<1>9. ASSUME NEW c \in Client, GetReap(c)
      PROVE  GrantStored' /\ (\A d, e \in Granted : d = e)'
  <2>1. ~Taken(entry) /\ grant' = grant
    BY <1>9 DEF GetReap
  <2>2. Granted = {} /\ Granted' = {}
    BY <2>1 DEF GrantStored, Granted
  <2> QED
    BY <2>2 DEF GrantStored
<1>10. ASSUME NEW c \in Client,
              Delete(c) \/ \E v \in Val, ex \in Ttl : Set(c, v, ex)
       PROVE  GrantStored' /\ (\A d, e \in Granted : d = e)'
  BY <1>4, <1>10 DEF Delete, Set, Ungrant
<1>11. ASSUME NEW c \in Client, NEW v \in Val, NEW ex \in Ttl, NxStore(c, v, ex)
       PROVE  GrantStored' /\ (\A d, e \in Granted : d = e)'
  <2>1. pc[c] = "nx" /\ ~Taken(snap[c])
    BY <1>11 DEF NxStore
  <2>2. Granted = {}
    BY <2>1 DEF GrantStored
  <2>3. /\ grant' = [grant EXCEPT ![c] = ex]
        /\ entry' = [val |-> v, exp |-> exp_at(ex)]
        /\ pc' = [pc EXCEPT ![c] = "idle"]
    BY <1>11 DEF NxStore, Finish
  <2>4. Granted' = IF ex = 0 THEN {} ELSE {c}
    BY <2>2, <2>3 DEF Granted, MemTypeOK
  <2>5. \A d \in Client : pc'[d] # "nx"
    BY <2>1, <2>3 DEF Exclusive, MemTypeOK
  <2>6. ex # 0 => Taken(entry') /\ entry'.exp = ex /\ grant'[c] = ex
    BY <2>3, TtlType DEF Taken, exp_at, MemTypeOK
  <2> QED
    BY <2>4, <2>5, <2>6 DEF GrantStored
<1>12. CASE Tick
  <2>1. ASSUME NEW c \in Client, grant'[c] # 0
        PROVE  /\ c \in Granted /\ grant'[c] = Elapse(grant[c], 0)
               /\ grant[c] \in Duration
    BY <1>12, <2>1, ElapseType DEF Tick, Granted, MemTypeOK
  <2>2. ASSUME NEW c \in Client, grant'[c] # 0
        PROVE  Taken(entry') /\ entry'.exp = grant'[c]
    <3>1. entry'.val = entry.val /\ entry'.exp = Aged(entry.exp)
      BY <1>12, AgedType DEF Tick, MemTypeOK
    <3>2. Taken(entry) /\ entry.exp = grant[c]
      BY <2>1, <2>2 DEF GrantStored
    <3> QED
      BY <2>1, <2>2, <3>1, <3>2, NeverAssumption
         DEF Taken, Aged, Elapse, Duration, Epoch
  <2>3. ASSUME NEW c \in Client, grant'[c] # 0, NEW d \in Client, pc'[d] = "nx"
        PROVE  snap'[d] = entry'
    BY <1>12, <2>1, <2>3 DEF Tick, GrantStored
  <2> QED
    BY <2>1, <2>2, <2>3 DEF GrantStored, Granted
<1> QED
  BY <1>5, <1>6, <1>7, <1>8, <1>9, <1>10, <1>11, <1>12 DEF MemNext

LEMMA NxInvariant == MemSpec => []NxInv
<1>1. MemInit => NxInv
  BY TypeInit, TtlType DEF MemInit, NxInv, Exclusive, GrantStored, Granted
<1>2. NxInv /\ [MemNext]_memVars => NxInv'
  BY MemTypeStep, ExclusiveStep, GrantStep DEF NxInv
<1> QED
  BY <1>1, <1>2, PTL DEF MemSpec

(***************************************************************************)
(* OneGrantUnlessRaced for any threads and tasks: under the RLock a        *)
(* `set nx' that succeeds has read an entry that is still what is stored,  *)
(* or nobody has a grant, unless a get has removed a live entry.           *)
(***************************************************************************)
THEOREM OneGrantUnlessRacedCorrect == MemSpec => []OneGrantUnlessRaced
<1>1. NxInv => OneGrantUnlessRaced
  BY DEF NxInv, OneGrantUnlessRaced
<1> QED
  BY <1>1, NxInvariant, PTL
-----------------------------------------------------------------------------
(* Tasks only: whole operations under the lock of AsyncWrapper.             *)

\* The task that is in an operation has AsyncWrapper._lock, nobody else
\* changes the entry, and time passes for what it has read as for the entry.
TaskInv ==
  /\ MemTypeOK
  /\ \A c \in Client : pc[c] # "idle" <=> alock = c
  /\ \A c \in Client : pc[c] # "idle" => snap[c] = entry
  /\ \A c \in Client : pc[c] = "reap" => ~Readable(snap[c])
  /\ entry.val = None => entry = Absent
  /\ entry.val # None => entry.exp # Epoch /\ Ttl # {}
  /\ \A c \in Granted : Taken(entry) /\ entry.exp = grant[c]
  /\ \A c, d \in Granted : c = d

LEMMA TaskInit == MemInit => TaskInv
<1> SUFFICES ASSUME MemInit
             PROVE  TaskInv
  OBVIOUS
<1>1. MemTypeOK
  BY TypeInit
<1> QED
  BY <1>1, TtlType DEF MemInit, TaskInv, Granted, Absent

\* Of an entry that can be read or not, and of one that nx takes for taken.
LEMMA EntryIs ==
  ASSUME NEW e \in Tuple, e.exp # Epoch, e.val = None => e = Absent
  PROVE  /\ ~Readable(e) => e.exp = 0 /\ e.val # None
         /\ Taken(e) <=> Readable(e) /\ e.val # None
         /\ e.exp = 0 => ~Readable(e)
BY NeverAssumption DEF Tuple, Duration, Readable, Taken, Epoch, Absent

LEMMA EntryAges ==
  ASSUME NEW e \in Tuple, e.exp # Epoch
  PROVE  /\ Aged(e.exp) = Elapse(e.exp, 0) /\ Aged(e.exp) # Epoch
         /\ e.exp = 0 => Aged(e.exp) = 0
BY NeverAssumption DEF Tuple, Duration, Aged, Elapse, Epoch

LEMMA EntryEpoch ==
  ASSUME TaskInv
  PROVE  entry \in Tuple /\ entry.exp # Epoch
BY NeverAssumption DEF TaskInv, MemTypeOK, Absent, Epoch

LEMMA TaskStep ==
  ASSUME Thread = {}, 0 \notin Ttl, TaskInv, [MemNext]_memVars
  PROVE  TaskInv'
<1>0. MemTypeOK' /\ MemTypeOK /\ Client = Task
  BY MemTypeStep DEF TaskInv, Client
<1> USE <1>0, TtlType
<1>1. CASE UNCHANGED memVars
  BY <1>1 DEF memVars, TaskInv, Granted
<1>2. ASSUME NEW c \in Client, GetRead(c) \/ NxRead(c)
      PROVE  TaskInv'
  BY <1>2 DEF TaskInv, GetRead, NxRead, Begin, MemTypeOK, Granted
<1>3. ASSUME NEW c \in Client, GetReturn(c) \/ NxRefuse(c)
      PROVE  TaskInv'
  BY <1>3 DEF TaskInv, GetReturn, NxRefuse, Finish, MemTypeOK, Granted
<1>4. ASSUME NEW c \in Client, GetExpired(c)
      PROVE  TaskInv'
  BY <1>4 DEF TaskInv, GetExpired, MemTypeOK, Granted
<1>5. ASSUME NEW c \in Client, GetReap(c)
      PROVE  TaskInv'
  <2>1. ~Taken(entry)
    <3>1. ~Readable(entry)
      BY <1>5 DEF GetReap, TaskInv
    <3> QED
      BY <3>1, EntryEpoch, EntryIs DEF TaskInv
  <2>2. Granted = {} /\ Granted' = {}
    BY <1>5, <2>1 DEF GetReap, TaskInv, Granted
  <2>3. \A d \in Client : pc'[d] = "idle" /\ alock' # d
    BY <1>5 DEF GetReap, Finish, TaskInv, MemTypeOK
  <2> QED
    BY <1>5, <2>2, <2>3 DEF GetReap, TaskInv, Absent
<1>6. ASSUME NEW c \in Client, NEW f, entry' = f, AtOnce(c, None), Ungrant,
             f.val = None => f = Absent, f.val # None => f.exp # Epoch /\ Ttl # {}
      PROVE  TaskInv'
  <2>1. Granted' = {}
    BY <1>6 DEF Ungrant, Granted
  <2>2. \A d \in Client : pc'[d] = "idle" /\ alock' # d
    BY <1>6 DEF AtOnce, TaskInv, MemTypeOK
  <2> QED
    BY <1>6, <2>1, <2>2 DEF TaskInv
<1>7. ASSUME NEW v \in Val, NEW ex \in Ttl
      PROVE  exp_at(ex) = ex /\ exp_at(ex) # Epoch /\ v # None
  BY <1>7 DEF exp_at, Epoch, Duration
<1>8. ASSUME NEW c \in Client, Delete(c)
      PROVE  TaskInv'
  BY <1>6, <1>8 DEF Delete, Absent
<1>9. ASSUME NEW c \in Client, NEW v \in Val, NEW ex \in Ttl, Set(c, v, ex)
      PROVE  TaskInv'
  <2> DEFINE f == [val |-> v, exp |-> exp_at(ex)]
  <2>1. f.val # None /\ f.exp # Epoch /\ Ttl # {}
    BY <1>7
  <2>2. entry' = f /\ AtOnce(c, None) /\ Ungrant
    BY <1>9 DEF Set
  <2> HIDE DEF f
  <2> QED
    BY <1>6, <2>1, <2>2
<1>10. ASSUME NEW c \in Client, NEW v \in Val, NEW ex \in Ttl, NxStore(c, v, ex)
       PROVE  TaskInv'
  <2>1. /\ grant' = [grant EXCEPT ![c] = ex]
        /\ entry' = [val |-> v, exp |-> ex]
        /\ ~Taken(entry)
    BY <1>7, <1>10 DEF NxStore, TaskInv
  <2>2. Granted = {} /\ Granted' = {c} /\ grant'[c] = ex
    BY <2>1 DEF TaskInv, Granted, MemTypeOK
  <2>3. \A d \in Client : pc'[d] = "idle" /\ alock' # d
    BY <1>10 DEF NxStore, Finish, TaskInv, MemTypeOK
  <2>4. Taken(entry') /\ entry'.exp = ex /\ entry'.exp # Epoch /\ entry'.val # None
    BY <1>7, <2>1 DEF Taken, Duration
  <2> QED
    BY <2>2, <2>3, <2>4 DEF TaskInv
<1>11. CASE Tick
  <2>1. /\ entry'.val = entry.val /\ entry'.exp = Aged(entry.exp)
        /\ entry \in Tuple /\ entry.exp # Epoch
    BY <1>11, AgedType, EntryEpoch DEF Tick, MemTypeOK
  <2>2. entry.val = None => entry' = Absent
    BY <1>11, NeverAssumption DEF Tick, TaskInv, Absent, Aged, Elapse, Epoch
  <2>3. \A c \in Client : pc[c] # "idle" => snap'[c] = entry'
    BY <1>11 DEF Tick, TaskInv
  <2>4. ASSUME ~Readable(entry)
        PROVE  ~Readable(entry')
    <3>1. entry.exp = 0 /\ entry.val # None
      BY <2>1, <2>4, EntryIs DEF TaskInv
    <3>2. entry'.exp = 0
      BY <2>1, <3>1, EntryAges
    <3> QED
      BY <3>2, NeverAssumption DEF Readable, Epoch
  <2>5. ASSUME NEW c \in Client, grant'[c] # 0
        PROVE  c \in Granted /\ Taken(entry') /\ entry'.exp = grant'[c]
    <3>1. /\ grant'[c] = Elapse(grant[c], 0) /\ grant[c] \in Duration
          /\ c \in Granted
      BY <1>11, <2>5, ElapseType DEF Tick, Granted, MemTypeOK
    <3>2. Taken(entry) /\ entry.exp = grant[c]
      BY <3>1 DEF TaskInv
    <3> QED
      BY <2>1, <2>5, <3>1, <3>2, NeverAssumption
         DEF Taken, Aged, Elapse, Duration, Epoch
  <2>6. UNCHANGED <<pc, alock>>
    BY <1>11 DEF Tick
  <2> QED
    BY <2>1, <2>2, <2>3, <2>4, <2>5, <2>6, EntryAges DEF TaskInv, Granted
<1> QED
  BY <1>1, <1>2, <1>3, <1>4, <1>5, <1>8, <1>9, <1>10, <1>11 DEF MemNext

LEMMA TaskInvariant ==
  ASSUME Thread = {}, 0 \notin Ttl
  PROVE  MemSpec => []TaskInv
<1>1. TaskInv /\ [MemNext]_memVars => TaskInv'
  BY TaskStep
<1> QED
  BY <1>1, TaskInit, PTL DEF MemSpec

(***************************************************************************)
(* OneGrant for any tasks behind one AsyncWrapper, without the proviso     *)
(* that threads need.                                                      *)
(***************************************************************************)
THEOREM TasksExclude ==
  ASSUME Thread = {}, 0 \notin Ttl
  PROVE  MemSpec => []OneGrant
<1>1. TaskInv => OneGrant
  BY DEF TaskInv, OneGrant
<1> QED
  BY <1>1, TaskInvariant, PTL
-----------------------------------------------------------------------------
(* What the tasks see of the backend: Store.tla.                            *)

value == IF Readable(entry) THEN entry.val ELSE None
left == IF entry.val = None THEN 0 ELSE entry.exp

\* A client is in the middle of an operation: the backend it sees is the one it
\* has read.
LEMMA ReadIsNow ==
  ASSUME TaskInv, NEW c \in Client, pc[c] # "idle"
  PROVE  /\ value = IF Readable(snap[c]) THEN snap[c].val ELSE None
         /\ Taken(snap[c]) <=> left # 0
<1>1. snap[c] = entry /\ entry \in Tuple /\ entry.exp # Epoch
  BY EntryEpoch DEF TaskInv
<1>2. Taken(entry) <=> left # 0
  BY <1>1, EntryIs, NeverAssumption
     DEF TaskInv, Taken, left, Tuple, Duration, Epoch, Absent
<1> QED
  BY <1>1, <1>2 DEF value

LEMMA WrittenIsSeen ==
  ASSUME 0 \notin Ttl, NEW v \in Val, NEW ex \in Ttl,
         entry' = [val |-> v, exp |-> exp_at(ex)]
  PROVE  value' = v /\ left' = ex
BY TtlType DEF value, left, exp_at, Readable, Duration

LEMMA RemovedIsSeen ==
  ASSUME entry' = Absent
  PROVE  value' = None /\ left' = 0
BY DEF value, left, Absent, Readable

LEMMA TaskStepIsStoreStep ==
  ASSUME Thread = {}, 0 \notin Ttl, TaskInv, [MemNext]_memVars
  PROVE  [Atomic!Next]_<<value, left, reply>>
<1> USE DEF Atomic!Next, Atomic!Return, Atomic!Put
<1>1. ASSUME entry' = entry, reply' = reply
      PROVE  [Atomic!Next]_<<value, left, reply>>
  BY <1>1 DEF value, left
<1>2. CASE UNCHANGED memVars
  BY <1>1, <1>2 DEF memVars
<1>3. ASSUME NEW c \in Client, GetRead(c) \/ NxRead(c) \/ GetExpired(c)
      PROVE  [Atomic!Next]_<<value, left, reply>>
  BY <1>1, <1>3 DEF GetRead, NxRead, GetExpired
<1>4. ASSUME NEW c \in Client, GetReturn(c)
      PROVE  Atomic!Get(c)
  <2>1. entry' = entry /\ reply' = [reply EXCEPT ![c] = snap[c].val]
    BY <1>4 DEF GetReturn, Finish
  <2>2. value = snap[c].val
    BY <1>4, ReadIsNow DEF GetReturn
  <2>3. value' = value /\ left' = left
    BY <2>1 DEF value, left
  <2> QED
    BY <2>1, <2>2, <2>3 DEF Atomic!Get, value, left
<1>5. ASSUME NEW c \in Client, GetReap(c)
      PROVE  Atomic!Get(c)
  <2>1. entry' = Absent /\ reply' = [reply EXCEPT ![c] = None]
    BY <1>5 DEF GetReap, Finish
  <2>2. ~Readable(snap[c]) /\ snap[c] = entry
    BY <1>5 DEF GetReap, TaskInv
  <2>3. value = None /\ left = 0
    BY <2>2, EntryEpoch, EntryIs DEF TaskInv, value, left
  <2>4. value' = None /\ left' = 0
    BY <2>1, RemovedIsSeen
  <2> QED
    BY <2>1, <2>3, <2>4 DEF Atomic!Get, value, left
<1>6. ASSUME NEW c \in Client, Delete(c)
      PROVE  Atomic!Delete(c)
  <2>1. value' = None /\ left' = 0 /\ reply' = [reply EXCEPT ![c] = None]
    BY <1>6, RemovedIsSeen DEF Delete, AtOnce
  <2> QED
    BY <2>1 DEF Atomic!Delete, value, left
<1>7. ASSUME NEW c \in Client, NEW v \in Val, NEW ex \in Ttl, Set(c, v, ex)
      PROVE  Atomic!Set(c, v, ex)
  <2>1. value' = v /\ left' = ex /\ reply' = [reply EXCEPT ![c] = None]
    BY <1>7, WrittenIsSeen DEF Set, AtOnce
  <2> QED
    BY <2>1 DEF Atomic!Set, value, left
<1>8. ASSUME NEW c \in Client, NEW v \in Val, NEW ex \in Ttl, NxStore(c, v, ex)
      PROVE  Atomic!SetNx(c, v, ex)
  <2>1. value' = v /\ left' = ex /\ reply' = [reply EXCEPT ![c] = TRUE]
    BY <1>8, WrittenIsSeen DEF NxStore, Finish
  <2>2. left = 0
    BY <1>8, ReadIsNow DEF NxStore
  <2> QED
    BY <2>1, <2>2 DEF Atomic!SetNx, value, left
<1>9. ASSUME NEW c \in Client, NxRefuse(c)
      PROVE  \E v \in Val, ex \in Ttl : Atomic!SetNx(c, v, ex)
  <2>1. entry' = entry /\ reply' = [reply EXCEPT ![c] = FALSE]
    BY <1>9 DEF NxRefuse, Finish
  <2>2. left # 0 /\ value' = value /\ left' = left
    <3>1. left # 0
      BY <1>9, ReadIsNow DEF NxRefuse
    <3> QED
      BY <2>1, <3>1 DEF value, left
  <2>3. PICK v \in Val, ex \in Ttl : TRUE
    <3>1. entry.val # None
      BY <2>2 DEF left
    <3>2. entry.val \in Val /\ Ttl # {}
      BY <3>1 DEF TaskInv, MemTypeOK, Tuple
    <3> QED
      BY <3>2
  <2>4. Atomic!SetNx(c, v, ex)
    BY <2>1, <2>2 DEF Atomic!SetNx, value, left
  <2> QED
    BY <2>4
<1>10. CASE Tick
  <2>1. /\ entry'.val = entry.val /\ entry'.exp = Aged(entry.exp)
        /\ entry \in Tuple /\ entry.exp # Epoch
        /\ Aged(entry.exp) = Elapse(entry.exp, 0)
    BY <1>10, AgedType, EntryEpoch, EntryAges DEF Tick, TaskInv, MemTypeOK
  <2>2. left' = Atomic!Elapse(left, 0)
    BY <2>1, NeverAssumption DEF left, Elapse, Atomic!Elapse
  <2>3. value' = IF left' = 0 THEN None ELSE value
    BY <2>1, NeverAssumption
       DEF value, left, Elapse, Readable, Tuple, Duration, Epoch
  <2>4. reply' = reply
    BY <1>10 DEF Tick
  <2> QED
    BY <2>2, <2>3, <2>4 DEF Atomic!Tick, value, left
<1>11. 0 \notin Ttl => Ttl = Ttl \ {0}
  OBVIOUS
<1> QED
  BY <1>2, <1>3, <1>4, <1>5, <1>6, <1>7, <1>8, <1>9, <1>10, <1>11 DEF MemNext

(***************************************************************************)
(* For any tasks the cache behind AsyncWrapper implements Store.tla: every *)
(* get, set, nx and delete is one atomic step, with the result of that     *)
(* step, however the tasks interleave.                                     *)
(***************************************************************************)
THEOREM TasksImplementStore ==
  ASSUME Thread = {}, 0 \notin Ttl
  PROVE  MemSpec => ImplementsStore
<1>1. MemInit => Atomic!Init
  BY DEF MemInit, Atomic!Init, Absent, Readable
<1>2. TaskInv /\ [MemNext]_memVars => [Atomic!Next]_<<value, left, reply>>
  BY TaskStepIsStoreStep
<1> QED
  BY <1>1, <1>2, TaskInvariant, PTL
     DEF MemSpec, ImplementsStore, Atomic!Spec, Atomic!vars, value, left
=============================================================================
