-------------------------------- MODULE Store --------------------------------
(***************************************************************************)
(* What CachifyClient asks of a backend for one key: get, set with a ttl,  *)
(* set with nx, delete, each of them one atomic step.  This is the         *)
(* contract of SyncClient / AsyncClient (_types/_common.py) and of         *)
(* docs/reference/lock.md; Lock, Pool and Cached are built on it.          *)
(***************************************************************************)
EXTENDS Timers

CONSTANTS Client,   \* callers of the backend
          Val,      \* pickled payloads
          None,     \* Python's None
          Ttl       \* the ttls in use, 0 not among them

VARIABLES value,    \* what `get' returns; None when absent or expired
          left,     \* time the value still has; 0 when there is none
          reply     \* what the last call of each client returned

vars == <<value, left, reply>>

Init ==
  /\ value = None /\ left = 0
  /\ reply = [c \in Client |-> None]

Return(c, r) == reply' = [reply EXCEPT ![c] = r]

Get(c) ==
  /\ Return(c, value)
  /\ UNCHANGED <<value, left>>

Put(v, ttl) == value' = v /\ left' = ttl

Set(c, v, ttl) ==
  /\ Put(v, ttl)
  /\ Return(c, None)

SetNx(c, v, ttl) ==
  \/ left = 0 /\ Put(v, ttl) /\ Return(c, TRUE)
  \/ left # 0 /\ UNCHANGED <<value, left>> /\ Return(c, FALSE)

Delete(c) ==
  /\ Put(None, 0)
  /\ Return(c, None)

Tick ==
  /\ left' = Elapse(left, 0)
  /\ value' = IF left' = 0 THEN None ELSE value
  /\ UNCHANGED reply

Next ==
  \/ \E c \in Client : Get(c) \/ Delete(c)
  \/ \E c \in Client, v \in Val, ttl \in Ttl :
       Set(c, v, ttl) \/ SetNx(c, v, ttl)
  \/ Tick

Spec == Init /\ [][Next]_vars
=============================================================================
