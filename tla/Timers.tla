------------------------------- MODULE Timers -------------------------------
(***************************************************************************)
(* Time as py-cachify sees it.  The code stores absolute moments           *)
(* (exp_at, stop_at, slot expirations) and only ever compares one of them  *)
(* with time.time().  A deadline is therefore kept as the time that is     *)
(* still left of it, and the passing of time counts every deadline down.   *)
(* No clock has to be bounded, so behaviours may be infinitely long.       *)
(***************************************************************************)
EXTENDS Integers

CONSTANT Never      \* ex=None, timeout=None, slot_exp=None: float('inf')

ASSUME NeverAssumption == Never \notin Int

\* A ttl or timeout argument.
Duration == Nat \cup {Never}

\* What is left of a deadline one unit of time later.  `floor' is the
\* smallest value the comparisons of the code can tell apart.
Elapse(d, floor) == IF d = Never \/ d = floor THEN d ELSE d - 1
=============================================================================
