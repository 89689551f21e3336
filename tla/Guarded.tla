------------------------------- MODULE Guarded -------------------------------
(***************************************************************************)
(* What a stack of decorators counts on at one `with' statement, be it of  *)
(* a lock, a once or a pool: nobody enters unless fewer than Places entries *)
(* are there, and whoever enters stores one.  Nothing is promised of how   *)
(* long an entry stays: leases end, locks are deleted by anybody, and what *)
(* a dead user leaves goes when it goes.                                   *)
(***************************************************************************)
EXTENDS Naturals, FiniteSets

CONSTANT Places

VARIABLES inside,    \* the users between their entry and their exit
          entries    \* whose entries are there; others than users inside have
                     \* one if they died, failed or look for it elsewhere

vars == <<inside, entries>>

Init == inside = {} /\ entries = {}

Room == Cardinality(entries) < Places

\* The lease may be over before the user is inside.
Enter(u) ==
  /\ u \notin inside \cup entries /\ Room
  /\ inside' = inside \cup {u}
  /\ entries' \in {entries, entries \cup {u}}

\* An entry is stored, but its user does not get inside.
Strand(x) ==
  /\ x \notin inside \cup entries /\ Room
  /\ entries' = entries \cup {x}
  /\ UNCHANGED inside

\* Users leave; entries are given back, deleted or expire.
Less == inside' \subseteq inside /\ entries' \subseteq entries

\* A user is gone and its entry has become somebody else's.
Disown(u, x) ==
  /\ u \in entries /\ x \notin inside \cup entries
  /\ inside' = inside \ {u}
  /\ entries' = (entries \ {u}) \cup {x}

Next ==
  \/ Less
  \/ \E u \in inside' : Enter(u)
  \/ \E x \in entries' : Strand(x) \/ \E u \in entries : Disown(u, x)

Spec == Init /\ [][Next]_vars
=============================================================================
