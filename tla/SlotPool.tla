------------------------------ MODULE SlotPool ------------------------------
(***************************************************************************)
(* What a pool promises, and no more: a slot is granted only while fewer   *)
(* than MaxSize are taken, and it stays taken until its lease is over or,  *)
(* after its use has ended, somebody frees it; nothing is promised once    *)
(* the pool is broken (its meta-lock was breached).                        *)
(***************************************************************************)
EXTENDS Timers, FiniteSets

CONSTANTS Slot, MaxSize, SlotExp

VARIABLES taken,   \* the slots that are taken: the phase of each (its user is
                   \* granted it, uses it or has ended) and what is left of it
          broken

vars == <<taken, broken>>

Phase == {"granted", "used", "ended"}

TypeOK ==
  /\ DOMAIN taken \subseteq Slot
  /\ \A s \in DOMAIN taken : taken[s] \in [phase: Phase, left: Duration]
  /\ broken \in BOOLEAN

Init == taken = [s \in {} |-> 0] /\ broken = FALSE

Only(S) == [s \in S |-> taken[s]]

\* The slots of S enter a phase.
Phased(S, phase) ==
  [s \in DOMAIN taken |->
     [phase |-> IF s \in S THEN phase ELSE taken[s].phase, left |-> taken[s].left]]

\* The lease may already have been running for a while.
Grant(s) ==
  /\ s \notin DOMAIN taken /\ Cardinality(DOMAIN taken) < MaxSize
  /\ \E d \in IF SlotExp = Never THEN {Never} ELSE 0..SlotExp :
       taken' = [t \in DOMAIN taken \cup {s} |->
         IF t = s THEN [phase |-> "granted", left |-> d] ELSE taken[t]]

Use(s) ==
  /\ taken[s].phase = "granted"
  /\ taken' = Phased({s}, "used")

\* Several uses end at once if a process dies.
End(S) ==
  /\ \A s \in S : taken[s].phase # "ended"
  /\ taken' = Phased(S, "ended")

Free(s) ==
  /\ taken[s].phase = "ended"
  /\ taken' = Only(DOMAIN taken \ {s})

\* A lease of which nothing is left is over a moment later.
Tick ==
  taken' = [s \in {t \in DOMAIN taken : taken[t].left # 0} |->
              [phase |-> taken[s].phase, left |-> Elapse(taken[s].left, 0)]]

Keep ==
  \/ \E s \in Slot : Grant(s)
  \/ \E s \in DOMAIN taken : Use(s) \/ Free(s)
  \/ \E S \in SUBSET DOMAIN taken : End(S)
  \/ Tick

Next == (Keep /\ UNCHANGED broken) \/ broken'

Spec == Init /\ [][Next]_vars
=============================================================================
