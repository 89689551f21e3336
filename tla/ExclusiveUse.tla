---------------------------- MODULE ExclusiveUse ----------------------------
(***************************************************************************)
(* What `with lock(key)' promises its users, and no more: one user at a    *)
(* time, until the promise is broken (a lease outlived, a release from     *)
(* outside); once everybody has left, the promise holds again.             *)
(***************************************************************************)
CONSTANT User

VARIABLES using,    \* the users between their entry and their exit
          broken    \* the promise is suspended

vars == <<using, broken>>

TypeOK == using \subseteq User /\ broken \in BOOLEAN

Init == using = {} /\ broken = FALSE

Enter(u) ==
  /\ u \notin using
  /\ using = {} \/ broken
  /\ using' = using \cup {u}
  /\ UNCHANGED broken

\* Leaving heals the promise when nobody else is there.
Leave(u) ==
  /\ u \in using
  /\ using' = using \ {u}
  /\ broken' = (broken /\ using' # {})

\* Only somebody's use can be broken.
Break ==
  /\ using # {}
  /\ broken' = TRUE
  /\ UNCHANGED using

Next == (\E u \in User : Enter(u) \/ Leave(u)) \/ Break

Spec == Init /\ [][Next]_vars

\* At most one user unless the promise is broken.
OneUser == ~broken => \A u, v \in using : u = v
=============================================================================
