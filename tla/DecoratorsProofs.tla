--------------------------- MODULE DecoratorsProofs ---------------------------
(***************************************************************************)
(* What is proved of stacks of lock, once and pooled wrappers, for any     *)
(* stacks, processes, instances, clients and calls of init_cachify.        *)
(***************************************************************************)
EXTENDS Decorators, FiniteSetTheorems, TLAPS

-----------------------------------------------------------------------------
(* The parts of the inductive invariant that no run checks. *)

\* A process outside a call has entered nothing; one that enters has
\* something left to enter.
Placed ==
  \A p \in Proc :
    /\ pc[p] = "idle" => with[p] = <<>>
    /\ pc[p] = "enter" => depth(p) < Len(Stack[p])

\* A wrapper that is entered found a client: the instance's does not change,
\* the global one does not go away.
ClientsFound ==
  \A p \in Proc : \A i \in 1..depth(p) :
    /\ Stack[p][i] \notin Instance \/ Kind[Stack[p][i]] = "lock" => global # None
    /\ Stack[p][i] \in Instance /\ Kind[Stack[p][i]] # "lock" => with[p][i] = local

\* A client that promises one space for both sides has one.
OneSpace(c) == c.shared => c.sync = c.async

SharedIsOne ==
  /\ global # None => OneSpace(global)
  /\ OneSpace(local)
  /\ \A p \in Proc : \A i \in 1..depth(p) : OneSpace(with[p][i])

\* No entry is given out more often than its guard allows.
Counted ==
  \A e \in Space \X Guard :
    IsFiniteSet(held[e]) /\ Cardinality(held[e]) <= Limit(e[2])

\* ResultFaithful at every point of a call.
Faithful(p) ==
  ran[p] # "failed" =>
    /\ ran[p] \in {"value", "Exception"} => out[p] = ran[p]
    /\ out[p] \in {"value", "Exception"} => ran[p] = out[p]

Reported ==
  \A p \in Proc : Faithful(p) /\ (pc[p] = "enter" => ran[p] = "none")

DecInv ==
  /\ DecTypeOK /\ Placed
  /\ Unwound
  /\ ClientsFound /\ SharedIsOne /\ Counted /\ Reported
-----------------------------------------------------------------------------
(* Stacks and entries. *)

LEMMA StackType ==
  ASSUME NEW p \in Proc
  PROVE  /\ Stack[p] \in Seq(Guard) /\ Len(Stack[p]) \in Nat \ {0}
         /\ \A i \in 1..Len(Stack[p]) : Stack[p][i] \in Guard
<1>1. Stack[p] \in Seq(Guard) \ {<<>>}
  BY DecoratorsAssumption
<1> QED
  BY <1>1

LEMMA EntryType ==
  ASSUME NEW p \in Proc, NEW c \in CachifyClient, NEW g \in Guard
  PROVE  c[Side[p]] \in Space /\ entry(p, c, g) \in Space \X Guard
<1>1. Side[p] \in {"sync", "async"}
  BY DecoratorsAssumption
<1>2. c.sync \in Space /\ c.async \in Space
  BY DEF CachifyClient
<1> QED
  BY <1>1, <1>2 DEF entry

LEMMA TakenType ==
  ASSUME DecTypeOK, NEW p \in Proc, NEW i \in 1..depth(p)
  PROVE  /\ i \in 1..Len(Stack[p]) /\ Stack[p][i] \in Guard
         /\ with[p][i] \in CachifyClient
         /\ Taken(p, i) \in Space \X Guard
<1>1. with[p] \in Seq(CachifyClient) /\ depth(p) \in 0..Len(Stack[p])
  BY DEF DecTypeOK
<1>2. i \in 1..Len(Stack[p]) /\ with[p][i] \in CachifyClient
  BY <1>1, StackType DEF depth
<1>3. Stack[p][i] \in Guard
  BY <1>2, StackType
<1> QED
  BY <1>2, <1>3, EntryType DEF Taken

LEMMA TakenOnce ==
  ASSUME DecTypeOK, NEW p \in Proc, NEW i \in 1..depth(p), NEW j \in 1..depth(p),
         Taken(p, i) = Taken(p, j)
  PROVE  i = j
<1>1. Stack[p][i] = Stack[p][j]
  BY DEF Taken, entry
<1>2. i \in DOMAIN Stack[p] /\ j \in DOMAIN Stack[p]
  BY TakenType, StackType
<1> QED
  BY <1>1, <1>2, DecoratorsAssumption

LEMMA Prefix ==
  ASSUME NEW S, NEW s \in Seq(S), NEW d \in 0..Len(s)
  PROVE  /\ SubSeq(s, 1, d) \in Seq(S) /\ Len(SubSeq(s, 1, d)) = d
         /\ \A i \in 1..d : SubSeq(s, 1, d)[i] = s[i]
         /\ d = 0 => SubSeq(s, 1, d) = <<>>
         /\ d = Len(s) => SubSeq(s, 1, d) = s
  OBVIOUS
-----------------------------------------------------------------------------
(* Leaving wrappers and losing entries. *)

\* The processes L leave their innermost wrapper, the others none.
Left(L) ==
  \A q \in Proc :
    /\ q \in L => depth(q) > 0
    /\ depth(q)' = IF q \in L THEN depth(q) - 1 ELSE depth(q)
    /\ with'[q] \in Seq(CachifyClient)
    /\ \A i \in 1..depth(q)' : with'[q][i] = with[q][i]

LEMMA LeftTaken ==
  ASSUME DecTypeOK, NEW L, Left(L), NEW q \in Proc, NEW i \in 1..depth(q)'
  PROVE  /\ i \in 1..depth(q) /\ (q \in L => i # depth(q))
         /\ Taken(q, i)' = Taken(q, i) /\ with'[q][i] = with[q][i]
<1>1. depth(q) \in Nat
  BY DEF DecTypeOK, depth
<1>2. depth(q)' = IF q \in L THEN depth(q) - 1 ELSE depth(q)
  BY DEF Left
<1>3. with'[q][i] = with[q][i]
  BY DEF Left
<1>4. Taken(q, i)' = Taken(q, i)
  BY <1>3 DEF Taken, entry
<1> QED
  BY <1>1, <1>2, <1>3, <1>4

\* What p is known to have lost after Gone.
LEMMA KeptBefore ==
  ASSUME DecTypeOK, NEW e, NEW S, NEW L, Left(L), Gone(e, S, L),
         NEW q \in Proc, NEW i \in 1..depth(q)', Keeps(q, i)'
  PROVE  Keeps(q, i) /\ ~(Taken(q, i) = e /\ q \in S)
<1>1. /\ i \in 1..depth(q) /\ (q \in L => i # depth(q))
      /\ Taken(q, i)' = Taken(q, i)
  BY LeftTaken
<1>2. lost'[q] = (IF q \in S /\ e \in Taking(q) THEN lost[q] \cup {e} ELSE lost[q])
                   \ (IF q \in L THEN {Taken(q, depth(q))} ELSE {})
  BY DEF Gone
<1>3. Taken(q, i) \notin lost'[q]
  BY <1>1 DEF Keeps
<1>4. q \in L => Taken(q, i) # Taken(q, depth(q))
  <2>1. depth(q) \in Nat
    BY DEF DecTypeOK, depth
  <2> QED
    BY <1>1, <2>1, TakenOnce
<1>5. Taken(q, i) \in Taking(q)
  BY <1>1 DEF Taking
<1> QED
  BY <1>1, <1>2, <1>3, <1>4, <1>5 DEF Keeps

LEMMA GoneLost ==
  ASSUME DecTypeOK, NEW e, NEW S, NEW L, Left(L), Gone(e, S, L), NEW q \in Proc
  PROVE  lost'[q] \subseteq Taking(q)'
<1> SUFFICES ASSUME NEW f \in lost'[q]
             PROVE  f \in Taking(q)'
  OBVIOUS
<1>1. lost'[q] = (IF q \in S /\ e \in Taking(q) THEN lost[q] \cup {e} ELSE lost[q])
                   \ (IF q \in L THEN {Taken(q, depth(q))} ELSE {})
  BY DEF Gone
<1>2. lost[q] \subseteq Taking(q)
  BY DEF DecTypeOK
<1>3. PICK i \in 1..depth(q) : f = Taken(q, i)
  BY <1>1, <1>2 DEF Taking
<1>4. q \in L => i # depth(q)
  BY <1>1, <1>3
<1>5. depth(q) \in Nat /\ depth(q)' = IF q \in L THEN depth(q) - 1 ELSE depth(q)
  BY DEF Left, DecTypeOK, depth
<1>6. i \in 1..depth(q)'
  BY <1>3, <1>4, <1>5
<1>7. Taken(q, i)' = Taken(q, i)
  BY <1>6, LeftTaken
<1> QED
  BY <1>3, <1>6, <1>7 DEF Taking

\* Nothing is left behind if those who leave have their entry no more.
LEMMA GoneUnwound ==
  ASSUME DecTypeOK, Unwound, NEW e, NEW S, NEW L, Left(L), Gone(e, S, L),
         \A q \in Proc : \A f \in Space \X Guard :
           q \in held'[f] <=>
             /\ q \in held[f] /\ ~(f = e /\ q \in S)
             /\ ~(q \in L /\ f = Taken(q, depth(q)))
  PROVE  Unwound'
<1>1. ASSUME NEW q \in Proc, NEW i \in 1..depth(q)', Keeps(q, i)'
      PROVE  q \in held'[Taken(q, i)']
  <2>1. Keeps(q, i) /\ ~(Taken(q, i) = e /\ q \in S)
    BY <1>1, KeptBefore
  <2>2. i \in 1..depth(q) /\ Taken(q, i)' = Taken(q, i) /\ (q \in L => i # depth(q))
    BY <1>1, LeftTaken
  <2>3. q \in held[Taken(q, i)] /\ Taken(q, i) \in Space \X Guard
    BY <2>1, <2>2, TakenType DEF Unwound
  <2>4. q \in L => Taken(q, i) # Taken(q, depth(q))
    <3>1. depth(q) \in Nat
      BY DEF DecTypeOK, depth
    <3> QED
      BY <2>2, <3>1, TakenOnce
  <2> QED
    BY <2>1, <2>2, <2>3, <2>4
<1>2. ASSUME NEW q \in Proc, NEW f \in Space \X Guard, q \in held'[f]
      PROVE  \E i \in 1..depth(q)' : Keeps(q, i)' /\ Taken(q, i)' = f
  <2>1. /\ q \in held[f] /\ ~(f = e /\ q \in S)
        /\ ~(q \in L /\ f = Taken(q, depth(q)))
    BY <1>2
  <2>2. PICK i \in 1..depth(q) : Keeps(q, i) /\ Taken(q, i) = f
    BY <2>1 DEF Unwound
  <2>3. depth(q) \in Nat /\ depth(q)' = IF q \in L THEN depth(q) - 1 ELSE depth(q)
    BY DEF Left, DecTypeOK, depth
  <2>4. i \in 1..depth(q)'
    BY <2>1, <2>2, <2>3
  <2>5. Taken(q, i)' = f
    BY <2>2, <2>4, LeftTaken
  <2>6. f \notin lost'[q]
    BY <2>1, <2>2 DEF Keeps, Gone
  <2> QED
    BY <2>4, <2>5, <2>6 DEF Keeps
<1>3. \A q \in Proc : \A i \in 1..depth(q)' :
        Keeps(q, i)' => q \in held'[Taken(q, i)']
  BY <1>1
<1>4. \A q \in Proc : \A f \in Space \X Guard : q \in held'[f] =>
        \E i \in 1..depth(q)' : Keeps(q, i)' /\ Taken(q, i)' = f
  BY <1>2
<1> QED
  BY <1>3, <1>4 DEF Unwound
-----------------------------------------------------------------------------
(* Clients. *)

LEMMA MakeType ==
  ASSUME NEW args \in ClientArgs, NEW n \in 1..Len(Setup)
  PROVE  Make(args, n) \in CachifyClient /\ OneSpace(Make(args, n))
<1>1. n \in MemoryCache /\ MemoryCache \subseteq Space /\ None \notin Space
  BY ClientsAssumption DEF MemoryCache, Space
<1>2. args.sync \in Space \cup {None} /\ args.async \in Space \cup {None}
  BY DEF ClientArgs
<1> DEFINE sync == IF args.sync = None THEN n ELSE args.sync
           wrapped == IF sync \in MemoryCache THEN sync ELSE n
           async == IF args.async = None THEN wrapped ELSE args.async
<1>3. sync \in Space /\ async \in Space
  BY <1>1, <1>2
<1>4. Promised(args) \in BOOLEAN /\ (Promised(args) => sync = async)
  BY <1>1, <1>2 DEF Promised
<1>5. Make(args, n) = [sync |-> sync, async |-> async, shared |-> Promised(args)]
  BY DEF Make
<1> HIDE DEF sync, async
<1> QED
  BY <1>3, <1>4, <1>5 DEF CachifyClient, OneSpace

LEMMA InitCachify ==
  ASSUME ClientsTypeOK, init_cachify
  PROVE  /\ ClientsTypeOK' /\ local' = local
         /\ global' \in CachifyClient /\ OneSpace(global') /\ global' # None
<1>1. Setup \in Seq(ClientArgs)
  BY ClientsAssumption
<1>2. inits' \in DOMAIN Setup /\ inits' \in 1..Len(Setup)
  BY <1>1 DEF ClientsTypeOK, init_cachify
<1>3. Setup[inits'] \in ClientArgs
  BY <1>1, <1>2
<1>4. global' = Make(Setup[inits'], inits') /\ local' = local
  BY DEF init_cachify
<1>5. global' \in CachifyClient /\ OneSpace(global')
  BY <1>2, <1>3, <1>4, MakeType
<1> QED
  BY <1>2, <1>4, <1>5, ClientsAssumption DEF ClientsTypeOK
-----------------------------------------------------------------------------
(* Calls. *)

Outcomes == Outcome \cup {"substitute", "HandlerError", "none"}

LEMMA HandledType ==
  ASSUME NEW g \in Guard, NEW o \in Outcomes
  PROVE  Refusal(g) \in Outcomes /\ handled(g, o) \subseteq Outcomes
  BY DEF Refusal, handled, on_full, Outcome, Outcomes

\* What DecTypeOK and Placed say of the calls alone.
CallsOK ==
  /\ pc \in [Proc -> {"idle", "enter", "run", "exit"}]
  /\ with \in [Proc -> Seq(CachifyClient)]
  /\ \A p \in Proc :
       /\ depth(p) \in 0..Len(Stack[p])
       /\ pc[p] = "run" => depth(p) = Len(Stack[p])
       /\ pc[p] = "exit" => depth(p) > 0
       /\ pc[p] = "idle" => with[p] = <<>>
       /\ pc[p] = "enter" => depth(p) < Len(Stack[p])
  /\ out \in [Proc -> Outcomes]
  /\ ran \in [Proc -> Outcome \cup {"none", "failed"}]

LEMMA CallsAreOK ==
  ASSUME DecTypeOK, Placed
  PROVE  CallsOK
  BY DEF DecTypeOK, Placed, CallsOK, Outcomes

\* What it says of lost entries.
LostOK ==
  /\ lost \in [Proc -> SUBSET (Space \X Guard)]
  /\ \A p \in Proc : lost[p] \subseteq Taking(p)

LEMMA TypeFromCalls ==
  ASSUME CallsOK', ClientsTypeOK', LostOK',
         held' \in [Space \X Guard -> SUBSET (Proc \cup Ghosts)]
  PROVE  DecTypeOK' /\ Placed'
  BY DEF DecTypeOK, Placed, CallsOK, LostOK, Outcomes

LEMMA UnwindCalls ==
  ASSUME CallsOK, NEW p \in Proc, NEW d \in 0..depth(p), NEW o \in Outcomes,
         Unwind(p, d, o), ran' \in [Proc -> Outcome \cup {"none", "failed"}]
  PROVE  CallsOK'
<1>1. with[p] \in Seq(CachifyClient) /\ depth(p) = Len(with[p])
  BY DEF CallsOK, depth
<1>2. /\ SubSeq(with[p], 1, d) \in Seq(CachifyClient)
      /\ Len(SubSeq(with[p], 1, d)) = d
      /\ d = 0 => SubSeq(with[p], 1, d) = <<>>
  BY <1>1, Prefix
<1>3. with' = [with EXCEPT ![p] = SubSeq(with[p], 1, d)]
  BY DEF Unwind
<1>4. /\ pc' \in [Proc -> {"idle", "enter", "run", "exit"}]
      /\ with' \in [Proc -> Seq(CachifyClient)]
      /\ out' \in [Proc -> Outcomes]
  BY <1>2, <1>3 DEF Unwind, CallsOK
<1>5. ASSUME NEW q \in Proc
      PROVE  /\ depth(q)' \in 0..Len(Stack[q])
             /\ pc'[q] = "run" => depth(q)' = Len(Stack[q])
             /\ pc'[q] = "exit" => depth(q)' > 0
             /\ pc'[q] = "idle" => with'[q] = <<>>
             /\ pc'[q] = "enter" => depth(q)' < Len(Stack[q])
  <2>1. CASE q = p
    <3>1. with'[q] = SubSeq(with[p], 1, d)
      BY <2>1, <1>3 DEF CallsOK
    <3>2. pc'[q] = IF d = 0 THEN "idle" ELSE "exit"
      BY <2>1 DEF CallsOK, Unwind
    <3>3. depth(q)' = d /\ d \in 0..Len(Stack[q]) /\ Len(Stack[q]) \in Nat \ {0}
      BY <2>1, <3>1, <1>2, StackType DEF depth, CallsOK
    <3> QED
      BY <3>1, <3>2, <3>3, <1>2
  <2>2. CASE q # p
    <3>1. with'[q] = with[q] /\ pc'[q] = pc[q]
      BY <2>2, <1>3 DEF CallsOK, Unwind
    <3> QED
      BY <3>1 DEF CallsOK, depth
  <2> QED
    BY <2>1, <2>2
<1> QED
  BY <1>4, <1>5 DEF CallsOK

\* An Unwind that leaves no wrapper, and one that leaves one.
LEMMA UnwindStays ==
  ASSUME CallsOK, NEW p \in Proc, NEW o, Unwind(p, depth(p), o)
  PROVE  with' = with
<1>1. with[p] \in Seq(CachifyClient) /\ depth(p) = Len(with[p])
  BY DEF CallsOK, depth
<1>2. SubSeq(with[p], 1, depth(p)) = with[p]
  BY <1>1, Prefix
<1> QED
  BY <1>2 DEF Unwind, CallsOK

LEMMA StaysLeft ==
  ASSUME CallsOK, UNCHANGED with
  PROVE  Left({})
  BY DEF CallsOK, Left, depth

LEMMA UnwindLeft ==
  ASSUME CallsOK, NEW p \in Proc, NEW o, depth(p) > 0, Unwind(p, depth(p) - 1, o)
  PROVE  Left({p})
<1>1. with[p] \in Seq(CachifyClient) /\ depth(p) = Len(with[p]) /\ depth(p) \in Nat
  BY DEF CallsOK, depth
<1>2. PICK d \in 0..Len(with[p]) : d = depth(p) - 1
  BY <1>1
<1>3. /\ SubSeq(with[p], 1, d) \in Seq(CachifyClient)
      /\ Len(SubSeq(with[p], 1, d)) = d
      /\ \A i \in 1..d : SubSeq(with[p], 1, d)[i] = with[p][i]
  BY <1>1, Prefix
<1>4. with' = [with EXCEPT ![p] = SubSeq(with[p], 1, d)]
  BY <1>2 DEF Unwind
<1> SUFFICES ASSUME NEW q \in Proc
             PROVE  /\ q \in {p} => depth(q) > 0
                    /\ depth(q)' = IF q \in {p} THEN depth(q) - 1 ELSE depth(q)
                    /\ with'[q] \in Seq(CachifyClient)
                    /\ \A i \in 1..depth(q)' : with'[q][i] = with[q][i]
  BY DEF Left
<1>5. CASE q = p
  <2>1. with'[q] = SubSeq(with[p], 1, d)
    BY <1>5, <1>4 DEF CallsOK
  <2>2. depth(q)' = d
    BY <2>1, <1>3 DEF depth
  <2> QED
    BY <2>1, <2>2, <1>2, <1>3, <1>5
<1>6. CASE q # p
  <2>1. with'[q] = with[q]
    BY <1>6, <1>4 DEF CallsOK
  <2> QED
    BY <2>1, <1>6 DEF CallsOK, depth
<1> QED
  BY <1>5, <1>6

\* p enters its next wrapper with client c.
Enters(p, c) ==
  /\ c \in CachifyClient /\ c = enters(Coming(p)) /\ Coming(p) \in Guard
  /\ Room(p, c)
  /\ held' = [held EXCEPT ![entry(p, c, Coming(p))] = @ \cup {p}]
  /\ depth(p)' = depth(p) + 1
  /\ with'[p][depth(p) + 1] = c
  /\ \A i \in 1..depth(p) : with'[p][i] = with[p][i]
  /\ \A q \in Proc \ {p} : with'[q] = with[q]

LEMMA ComingType ==
  ASSUME CallsOK, NEW p \in Proc, pc[p] = "enter"
  PROVE  /\ Coming(p) \in Guard /\ depth(p) + 1 \in 1..Len(Stack[p])
         /\ Coming(p) = Stack[p][depth(p) + 1]
<1>1. depth(p) \in Nat /\ depth(p) < Len(Stack[p])
  BY DEF CallsOK
<1>2. depth(p) + 1 \in 1..Len(Stack[p])
  BY <1>1, StackType
<1> QED
  BY <1>2, StackType DEF Coming

LEMMA EnterGuardEnters ==
  ASSUME CallsOK, ClientsTypeOK, NEW p \in Proc, EnterGuard(p)
  PROVE  CallsOK' /\ \E c : Enters(p, c)
<1>1. PICK c \in {global, local} :
        /\ Entering(p, c) /\ Room(p, c)
        /\ held' = [held EXCEPT ![entry(p, c, Coming(p))] = @ \cup {p}]
        /\ with' = [with EXCEPT ![p] = Append(@, c)]
  BY DEF EnterGuard
<1>2. c \in CachifyClient /\ c = enters(Coming(p)) /\ pc[p] = "enter"
  BY <1>1 DEF Entering, ClientsTypeOK
<1>3. /\ Coming(p) \in Guard /\ depth(p) + 1 \in 1..Len(Stack[p])
      /\ depth(p) \in Nat /\ with[p] \in Seq(CachifyClient) /\ depth(p) = Len(with[p])
  BY <1>2, ComingType DEF CallsOK, depth
<1>4. with'[p] = Append(with[p], c)
  BY <1>1 DEF CallsOK
<1>5. /\ with'[p] \in Seq(CachifyClient) /\ depth(p)' = depth(p) + 1
      /\ with'[p][depth(p) + 1] = c
      /\ \A i \in 1..depth(p) : with'[p][i] = with[p][i]
  BY <1>2, <1>3, <1>4 DEF depth
<1>6. \A q \in Proc \ {p} : with'[q] = with[q]
  BY <1>1 DEF CallsOK
<1>7. Enters(p, c)
  BY <1>1, <1>2, <1>3, <1>5, <1>6 DEF Enters
<1>8. with' \in [Proc -> Seq(CachifyClient)]
  BY <1>1, <1>2, <1>3, <1>4, <1>5 DEF CallsOK
<1>9. pc' = [pc EXCEPT ![p] =
               IF Len(with'[p]) = Len(Stack[p]) THEN "run" ELSE "enter"]
  BY DEF EnterGuard
<1>10. ASSUME NEW q \in Proc
       PROVE  /\ depth(q)' \in 0..Len(Stack[q])
              /\ pc'[q] = "run" => depth(q)' = Len(Stack[q])
              /\ pc'[q] = "exit" => depth(q)' > 0
              /\ pc'[q] = "idle" => with'[q] = <<>>
              /\ pc'[q] = "enter" => depth(q)' < Len(Stack[q])
  <2>1. CASE q = p
    <3>1. pc'[q] = IF depth(q)' = Len(Stack[q]) THEN "run" ELSE "enter"
      BY <2>1, <1>9 DEF CallsOK, depth
    <3> QED
      BY <2>1, <3>1, <1>3, <1>5, StackType
  <2>2. CASE q # p
    <3>1. with'[q] = with[q] /\ pc'[q] = pc[q]
      BY <2>2, <1>6, <1>9 DEF CallsOK
    <3> QED
      BY <3>1 DEF CallsOK, depth
  <2> QED
    BY <2>1, <2>2
<1>11. CallsOK'
  BY <1>8, <1>9, <1>10 DEF CallsOK, EnterGuard
<1> QED
  BY <1>7, <1>11

\* Where p is in a wrapper it leaves.
LEMMA LeavesType ==
  ASSUME DecTypeOK, ClientsFound, NEW p \in Proc, pc[p] = "exit"
  PROVE  /\ depth(p) \in 1..Len(Stack[p]) /\ depth(p) \in 1..depth(p)
         /\ Top(p) \in Guard /\ Top(p) = Stack[p][depth(p)]
         /\ leaves(p) \in CachifyClient
         /\ entry(p, leaves(p), Top(p)) \in Space \X Guard
         /\ Taken(p, depth(p)) \in Space \X Guard
         /\ ~unbound(Top(p)) => entry(p, leaves(p), Top(p)) = Taken(p, depth(p))
<1>1. depth(p) \in 1..Len(Stack[p]) /\ depth(p) \in 1..depth(p)
  <2>1. depth(p) \in 0..Len(Stack[p]) /\ depth(p) > 0
    BY DEF DecTypeOK
  <2> QED
    BY <2>1, StackType
<1>2. Top(p) \in Guard /\ Top(p) = Stack[p][depth(p)]
  BY <1>1, StackType DEF Top
<1>3. with[p][depth(p)] \in CachifyClient /\ Taken(p, depth(p)) \in Space \X Guard
  BY <1>1, TakenType
<1>4. unbound(Top(p)) => global \in CachifyClient
  BY <1>1, <1>2, DecoratorsAssumption
     DEF unbound, ClientsFound, DecTypeOK, ClientsTypeOK
<1>5. leaves(p) \in CachifyClient
  BY <1>3, <1>4 DEF leaves
<1>6. ~unbound(Top(p)) => leaves(p) = with[p][depth(p)]
  BY DEF leaves
<1> QED
  BY <1>1, <1>2, <1>3, <1>5, <1>6, EntryType DEF Taken

\* What is left of the calls once p has died.
LEMMA DieCalls ==
  ASSUME CallsOK, NEW p \in Proc, Die(p)
  PROVE  /\ CallsOK' /\ with'[p] = <<>> /\ depth(p)' = 0
         /\ \A q \in Proc \ {p} : with'[q] = with[q] /\ depth(q)' = depth(q)
<1>1. with'[p] = <<>> /\ depth(p)' = 0 /\ \A q \in Proc \ {p} : with'[q] = with[q]
  BY DEF Die, CallsOK, depth
<1>2. \A q \in Proc \ {p} : depth(q)' = depth(q)
  BY <1>1 DEF depth
<1>3. /\ pc' = [pc EXCEPT ![p] = "idle"] /\ with' = [with EXCEPT ![p] = <<>>]
      /\ out' = [out EXCEPT ![p] = "none"] /\ ran' = [ran EXCEPT ![p] = "none"]
  BY DEF Die
<1>4. <<>> \in Seq(CachifyClient)
  OBVIOUS
<1>5. ASSUME NEW q \in Proc
      PROVE  /\ depth(q)' \in 0..Len(Stack[q])
             /\ pc'[q] = "run" => depth(q)' = Len(Stack[q])
             /\ pc'[q] = "exit" => depth(q)' > 0
             /\ pc'[q] = "idle" => with'[q] = <<>>
             /\ pc'[q] = "enter" => depth(q)' < Len(Stack[q])
  <2>1. CASE q = p
    BY <2>1, <1>1, <1>3, StackType DEF CallsOK
  <2>2. CASE q # p
    BY <2>2, <1>1, <1>2, <1>3 DEF CallsOK
  <2> QED
    BY <2>1, <2>2
<1>6. CallsOK'
  BY <1>3, <1>4, <1>5 DEF CallsOK, Outcomes
<1> QED
  BY <1>1, <1>2, <1>6
-----------------------------------------------------------------------------
(* Types. *)

\* What p's exit does to the entries: it removes S from e, and if p's own entry
\* is another, that stays as x's.
ExitHeld(p, e, S, x) ==
  /\ e \in Space \X Guard /\ e = entry(p, leaves(p), Top(p)) /\ Gone(e, S, {p})
  /\ S = IF Kind[Top(p)] = "pooled" THEN {p} ELSE held[e]
  /\ \A f \in Space \X Guard :
       held'[f] = IF f = e THEN held[f] \ S
                  ELSE IF f = Taken(p, depth(p)) THEN Abandoned(p, held[f], x)
                  ELSE held[f]
  /\ x \in Ghosts
  /\ e # Taken(p, depth(p)) /\ p \in held[Taken(p, depth(p))] =>
       x \notin held[Taken(p, depth(p))]

LEMMA ExitGuardHeld ==
  ASSUME DecTypeOK, ClientsFound, NEW p \in Proc, ExitGuard(p)
  PROVE  /\ held' \in [Space \X Guard -> SUBSET (Proc \cup Ghosts)]
         /\ \E e, S, x : ExitHeld(p, e, S, x)
<1> DEFINE g == Top(p)
           mine == Taken(p, depth(p))
           e == entry(p, leaves(p), g)
           S == IF Kind[g] = "pooled" THEN {p} ELSE held[e]
           missed == {f \in {mine} : unbound(g) /\ f # e}
<1>1. pc[p] = "exit" /\ Gone(e, S, {p})
  BY DEF ExitGuard
<1>2. PICK x \in Spare(p, missed) :
        held' = [f \in Space \X Guard |->
                   IF f = e THEN held[f] \ S
                   ELSE IF f \in missed THEN Abandoned(p, held[f], x)
                   ELSE held[f]]
  BY DEF ExitGuard
<1>3. e \in Space \X Guard /\ (~unbound(g) => e = mine)
  BY <1>1, LeavesType
<1> HIDE DEF e, S, mine
<1>4. x \in Ghosts /\ (e # mine /\ p \in held[mine] => x \notin held[mine])
  BY <1>3 DEF Spare
<1>5. \A f \in Space \X Guard :
        held'[f] = IF f = e THEN held[f] \ S
                   ELSE IF f = mine THEN Abandoned(p, held[f], x)
                   ELSE held[f]
  BY <1>2, <1>3
<1>6. held' \in [Space \X Guard -> SUBSET (Proc \cup Ghosts)]
  BY <1>2, <1>4 DEF DecTypeOK, Abandoned
<1>7. ExitHeld(p, e, S, x)
  BY <1>1, <1>3, <1>4, <1>5 DEF e, S, mine, ExitHeld
<1> QED
  BY <1>6, <1>7

\* Who lost what, when nothing is lost or left.
LEMMA SameLost ==
  ASSUME DecTypeOK, UNCHANGED <<lost>>,
         \A q \in Proc : depth(q)' \in Nat /\ depth(q) <= depth(q)',
         \A q \in Proc : \A i \in 1..depth(q) : with'[q][i] = with[q][i]
  PROVE  LostOK'
<1> SUFFICES ASSUME NEW q \in Proc
             PROVE  Taking(q) \subseteq Taking(q)'
  BY DEF DecTypeOK, LostOK
<1> SUFFICES ASSUME NEW i \in 1..depth(q)
             PROVE  Taken(q, i) \in Taking(q)'
  BY DEF Taking
<1>1. i \in 1..depth(q)' /\ Taken(q, i)' = Taken(q, i)
  BY DEF DecTypeOK, depth, Taken, entry
<1> QED
  BY <1>1 DEF Taking

LEMMA StaysSameLost ==
  ASSUME DecTypeOK, UNCHANGED <<with, lost>>
  PROVE  LostOK'
<1>1. \A q \in Proc : depth(q)' \in Nat /\ depth(q) <= depth(q)'
  BY DEF DecTypeOK, depth
<1> QED
  BY <1>1, SameLost

LEMMA GoneType ==
  ASSUME DecTypeOK, NEW e, NEW S, NEW L, Left(L), Gone(e, S, L)
  PROVE  LostOK'
<1>1. \A q \in Proc : lost'[q] \subseteq Taking(q)'
  BY GoneLost
<1>3. \A q \in Proc : Taking(q) \subseteq Space \X Guard
  BY TakenType DEF Taking
<1>4. ASSUME NEW q \in Proc
      PROVE  lost'[q] \subseteq Space \X Guard
  BY <1>3 DEF Gone, DecTypeOK
<1>5. lost' \in [Proc -> SUBSET (Space \X Guard)]
  BY <1>4 DEF Gone
<1> QED
  BY <1>1, <1>5 DEF LostOK

\* What is released is an entry.
LEMMA ForceReleaseReleases ==
  ASSUME ClientsTypeOK, NEW g \in Guard, NEW p \in Proc, ForceRelease(g, p)
  PROVE  \E e \in Space \X Guard : \E S : Release(e, S)
<1>1. provider(g) \in CachifyClient
  BY DEF ForceRelease, provider, ClientsTypeOK
<1>2. entry(p, provider(g), g) \in Space \X Guard
  BY <1>1, EntryType
<1> QED
  BY <1>2 DEF ForceRelease

LEMMA EnterCalls ==
  ASSUME CallsOK, NEW p \in Proc, NEW o \in Outcomes, Unwind(p, depth(p), o),
         ran' \in [Proc -> Outcome \cup {"none", "failed"}]
  PROVE  CallsOK' /\ with' = with
<1>1. depth(p) \in 0..depth(p)
  BY StackType DEF CallsOK
<1> QED
  BY <1>1, UnwindCalls, UnwindStays

LEMMA ExitCalls ==
  ASSUME CallsOK, NEW p \in Proc, NEW o \in Outcomes, depth(p) > 0,
         Unwind(p, depth(p) - 1, o),
         ran' \in [Proc -> Outcome \cup {"none", "failed"}]
  PROVE  CallsOK' /\ Left({p})
<1>1. depth(p) - 1 \in 0..depth(p)
  BY StackType DEF CallsOK
<1> QED
  BY <1>1, UnwindCalls, UnwindLeft

LEMMA TypeStep ==
  ASSUME DecInv, DecNext
  PROVE  DecTypeOK' /\ Placed'
<1> USE DEF DecInv
<1>1. CallsOK /\ ClientsTypeOK
  BY CallsAreOK DEF DecTypeOK
<1>2. /\ held \in [Space \X Guard -> SUBSET (Proc \cup Ghosts)]
      /\ ran \in [Proc -> Outcome \cup {"none", "failed"}]
  BY DEF DecTypeOK
<1>3. ASSUME NEW p \in Proc, Call(p)
      PROVE  DecTypeOK' /\ Placed'
  <2>1. CallsOK'
    BY <1>1, <1>3, StackType DEF Call, CallsOK, Outcomes, depth
  <2>2. UNCHANGED <<clientVars, held, with, lost>>
    BY <1>3 DEF Call
  <2>3. ClientsTypeOK'
    BY <1>1, <2>2 DEF ClientsTypeOK, clientVars
  <2> QED
    BY <1>2, <2>1, <2>2, <2>3, StaysSameLost, TypeFromCalls
<1>4. ASSUME NEW p \in Proc, EnterGuard(p)
      PROVE  DecTypeOK' /\ Placed'
  <2>1. CallsOK' /\ \E c : Enters(p, c)
    BY <1>1, <1>4, EnterGuardEnters
  <2>2. PICK c : Enters(p, c)
    BY <2>1
  <2>3. UNCHANGED <<clientVars, lost>>
    BY <1>4 DEF EnterGuard
  <2>4. ClientsTypeOK'
    BY <1>1, <2>3 DEF ClientsTypeOK, clientVars
  <2>5. held' \in [Space \X Guard -> SUBSET (Proc \cup Ghosts)]
    BY <1>2, <2>2 DEF Enters
  <2>6. /\ \A q \in Proc : depth(q)' \in Nat /\ depth(q) <= depth(q)'
        /\ \A q \in Proc : \A i \in 1..depth(q) : with'[q][i] = with[q][i]
    <3> SUFFICES ASSUME NEW q \in Proc
                 PROVE  /\ depth(q)' \in Nat /\ depth(q) <= depth(q)'
                        /\ \A i \in 1..depth(q) : with'[q][i] = with[q][i]
      OBVIOUS
    <3>1. depth(q) \in Nat
      BY DEF DecTypeOK, depth
    <3>2. CASE q = p
      BY <2>2, <3>1, <3>2 DEF Enters
    <3>3. CASE q # p
      BY <2>2, <3>1, <3>3 DEF Enters, depth
    <3> QED
      BY <3>2, <3>3
  <2> QED
    BY <2>1, <2>3, <2>4, <2>5, <2>6, SameLost, TypeFromCalls
<1>5. ASSUME NEW p \in Proc, RefuseGuard(p)
      PROVE  DecTypeOK' /\ Placed'
  <2>1. pc[p] = "enter"
    BY <1>5 DEF RefuseGuard, Entering
  <2>2. Coming(p) \in Guard
    BY <1>1, <2>1, ComingType
  <2>3. PICK o \in handled(Coming(p), Refusal(Coming(p))) : Unwind(p, depth(p), o)
    BY <1>5 DEF RefuseGuard
  <2>4. UNCHANGED <<clientVars, held, ran, lost>>
    BY <1>5 DEF RefuseGuard
  <2>5. CallsOK' /\ with' = with
    <3>1. Refusal(Coming(p)) \in Outcomes
      BY DEF Refusal, Outcomes, Outcome
    <3>2. o \in Outcomes
      BY <2>2, <2>3, <3>1, HandledType
    <3> QED
      BY <1>1, <1>2, <2>3, <2>4, <3>2, EnterCalls
  <2>6. ClientsTypeOK'
    BY <1>1, <2>4 DEF ClientsTypeOK, clientVars
  <2> QED
    BY <1>2, <2>4, <2>5, <2>6, StaysSameLost, TypeFromCalls
<1>6. ASSUME NEW p \in Proc, EnterFails(p)
      PROVE  DecTypeOK' /\ Placed'
  <2>1. ran' \in [Proc -> Outcome \cup {"none", "failed"}]
    BY <1>2, <1>6 DEF EnterFails
  <2>2. UNCHANGED <<clientVars, lost>>
    BY <1>6 DEF EnterFails
  <2>3. "Exception" \in Outcomes
    BY DEF Outcomes, Outcome
  <2>4. CallsOK' /\ with' = with
    BY <1>1, <1>6, <2>1, <2>3, EnterCalls DEF EnterFails
  <2>5. ClientsTypeOK'
    BY <1>1, <2>2 DEF ClientsTypeOK, clientVars
  <2>6. held' \in [Space \X Guard -> SUBSET (Proc \cup Ghosts)]
    BY <1>2, <1>6 DEF EnterFails
  <2> QED
    BY <2>2, <2>4, <2>5, <2>6, StaysSameLost, TypeFromCalls
<1>7. ASSUME NEW p \in Proc, RunBody(p)
      PROVE  DecTypeOK' /\ Placed'
  <2>1. PICK o \in Results : /\ ran' = [ran EXCEPT ![p] = o]
                             /\ out' = [out EXCEPT ![p] = o]
    BY <1>7 DEF RunBody
  <2>2. o \in Outcome
    BY DecoratorsAssumption
  <2>3. CallsOK'
    BY <1>1, <1>7, <2>1, <2>2, StackType DEF RunBody, CallsOK, Outcomes, depth
  <2>4. UNCHANGED <<clientVars, held, with, lost>>
    BY <1>7 DEF RunBody
  <2>5. ClientsTypeOK'
    BY <1>1, <2>4 DEF ClientsTypeOK, clientVars
  <2> QED
    BY <1>2, <2>3, <2>4, <2>5, StaysSameLost, TypeFromCalls
<1>8. ASSUME NEW p \in Proc, ExitGuard(p)
      PROVE  DecTypeOK' /\ Placed'
  <2>1. pc[p] = "exit" /\ UNCHANGED <<clientVars, ran>>
    BY <1>8 DEF ExitGuard
  <2>2. Top(p) \in Guard /\ depth(p) > 0
    BY <2>1, LeavesType DEF DecTypeOK
  <2>3. PICK o \in handled(Top(p), out[p]) : Unwind(p, depth(p) - 1, o)
    BY <1>8 DEF ExitGuard
  <2>4. CallsOK' /\ Left({p})
    <3>1. o \in Outcomes
      BY <1>1, <2>2, <2>3, HandledType DEF CallsOK
    <3> QED
      BY <1>1, <1>2, <2>1, <2>2, <2>3, <3>1, ExitCalls
  <2>5. ClientsTypeOK'
    BY <1>1, <2>1 DEF ClientsTypeOK, clientVars
  <2>6. PICK e, S : Gone(e, S, {p})
    BY <1>8 DEF ExitGuard
  <2>7. held' \in [Space \X Guard -> SUBSET (Proc \cup Ghosts)]
    BY <1>2, <1>8, ExitGuardHeld
  <2> QED
    BY <2>4, <2>5, <2>6, <2>7, GoneType, TypeFromCalls
<1>9. ASSUME NEW p \in Proc, ExitFails(p)
      PROVE  DecTypeOK' /\ Placed'
  <2>1. pc[p] = "exit" /\ UNCHANGED clientVars
    BY <1>9 DEF ExitFails
  <2>2. Top(p) \in Guard /\ depth(p) > 0
    BY <2>1, LeavesType DEF DecTypeOK
  <2>31. PICK r \in {"Exception", "LockError"} :
           \E o \in handled(Top(p), r) : Unwind(p, depth(p) - 1, o)
    BY <1>9 DEF ExitFails
  <2>3. PICK o \in handled(Top(p), r) : Unwind(p, depth(p) - 1, o)
    BY <2>31
  <2>4. o \in Outcomes
    BY <2>2, <2>3, HandledType DEF Outcomes, Outcome
  <2>5. ran' \in [Proc -> Outcome \cup {"none", "failed"}]
    BY <1>2, <1>9 DEF ExitFails
  <2>6. CallsOK' /\ Left({p})
    BY <1>1, <2>2, <2>3, <2>4, <2>5, ExitCalls
  <2>7. ClientsTypeOK'
    BY <1>1, <2>1 DEF ClientsTypeOK, clientVars
  <2>8. held' \in [Space \X Guard -> SUBSET (Proc \cup Ghosts)]
    <3>1. PICK x \in Ghosts, e \in {Taken(p, depth(p))} :
            held' = [held EXCEPT ![e] = Abandoned(p, @, x)]
      BY <1>9 DEF ExitFails, Spare
    <3> QED
      BY <1>2, <3>1 DEF Abandoned
  <2>9. Gone(Taken(p, depth(p)), {p}, {p})
    BY <1>9 DEF ExitFails
  <2> QED
    BY <2>6, <2>7, <2>8, <2>9, GoneType, TypeFromCalls
<1>10. ASSUME NEW p \in Proc, Die(p)
       PROVE  DecTypeOK' /\ Placed'
  <2>1. /\ CallsOK' /\ with'[p] = <<>> /\ depth(p)' = 0
        /\ \A q \in Proc \ {p} : with'[q] = with[q] /\ depth(q)' = depth(q)
    BY <1>1, <1>10, DieCalls
  <2>2. ClientsTypeOK'
    BY <1>1, <1>10 DEF ClientsTypeOK, clientVars, Die
  <2>3. held' \in [Space \X Guard -> SUBSET (Proc \cup Ghosts)]
    BY <1>2, <1>10 DEF Die, Abandoned, Spare
  <2>4. LostOK'
    <3>1. ASSUME NEW q \in Proc
          PROVE  lost'[q] \subseteq Taking(q)'
      <4>1. CASE q = p
        BY <1>10, <4>1 DEF Die, DecTypeOK
      <4>2. CASE q # p
        <5>1. Taking(q)' = Taking(q)
          BY <2>1, <4>2 DEF Taking, Taken, entry
        <5> QED
          BY <1>10, <4>2, <5>1 DEF Die, DecTypeOK
      <4> QED
        BY <4>1, <4>2
    <3> QED
      BY <1>10, <3>1 DEF Die, DecTypeOK, LostOK
  <2> QED
    BY <2>1, <2>2, <2>3, <2>4, TypeFromCalls
<1>11. ASSUME NEW e \in Space \X Guard, NEW S, Release(e, S)
       PROVE  DecTypeOK' /\ Placed'
  <2>1. UNCHANGED <<clientVars, callVars>>
    BY <1>11 DEF Release
  <2>2. CallsOK' /\ ClientsTypeOK' /\ with' = with
    BY <1>1, <2>1 DEF CallsOK, ClientsTypeOK, callVars, clientVars, depth
  <2>3. Left({})
    BY <1>1, <2>2, StaysLeft
  <2>4. held' \in [Space \X Guard -> SUBSET (Proc \cup Ghosts)]
    BY <1>2, <1>11 DEF Release
  <2>5. Gone(e, S, {})
    BY <1>11 DEF Release
  <2> QED
    BY <2>2, <2>3, <2>4, <2>5, GoneType, TypeFromCalls
<1>12. CASE ReplaceGlobal
  <2>1. init_cachify /\ UNCHANGED <<held, callVars, lost>>
    BY <1>12 DEF ReplaceGlobal
  <2>2. CallsOK' /\ with' = with
    BY <1>1, <2>1 DEF CallsOK, callVars, depth
  <2>3. ClientsTypeOK'
    BY <1>1, <2>1, InitCachify
  <2>4. LostOK'
    <3>1. \A q \in Proc : Taking(q)' = Taking(q)
      BY <2>2 DEF Taking, Taken, entry, depth
    <3> QED
      BY <2>1, <3>1 DEF DecTypeOK, LostOK
  <2> QED
    BY <1>2, <2>1, <2>2, <2>3, <2>4, TypeFromCalls
<1>13. ASSUME NEW g \in Guard, Expire(g)
       PROVE  \E e \in Space \X Guard : \E S : Release(e, S)
  BY <1>13 DEF Expire
<1>14. ASSUME NEW g \in Guard, NEW p \in Proc, ForceRelease(g, p)
       PROVE  \E e \in Space \X Guard : \E S : Release(e, S)
  BY <1>1, <1>14, ForceReleaseReleases
<1> QED
  BY <1>3, <1>4, <1>5, <1>6, <1>7, <1>8, <1>9, <1>10, <1>11, <1>12, <1>13, <1>14
     DEF DecNext, Step
-----------------------------------------------------------------------------
(* Every step is one of these, as far as clients, wrappers and entries go. *)

\* p leaves its innermost wrapper and has its entry no more, and S is removed
\* from the entry e.
Exits(p, e, S) ==
  /\ pc[p] = "exit" /\ e \in Space \X Guard
  /\ Left({p}) /\ Gone(e, S, {p})
  /\ \A q \in Proc : \A f \in Space \X Guard :
       q \in held'[f] <=>
         /\ q \in held[f] /\ ~(f = e /\ q \in S)
         /\ ~(q \in {p} /\ f = Taken(q, depth(q)))

LEMMA ExitGuardExits ==
  ASSUME DecInv, NEW p \in Proc, ExitGuard(p)
  PROVE  \E e, S : Exits(p, e, S)
<1>1. CallsOK /\ DecTypeOK /\ ClientsFound
  BY CallsAreOK DEF DecInv
<1>2. pc[p] = "exit" /\ depth(p) > 0 /\ \E o : Unwind(p, depth(p) - 1, o)
  BY <1>1 DEF ExitGuard, DecTypeOK
<1>3. Left({p})
  BY <1>1, <1>2, UnwindLeft
<1>4. PICK mine : mine = Taken(p, depth(p))
  OBVIOUS
<1>51. PICK e, S, x : ExitHeld(p, e, S, x)
  BY <1>1, ExitGuardHeld
<1>5. /\ e \in Space \X Guard /\ Gone(e, S, {p})
      /\ S = IF Kind[Top(p)] = "pooled" THEN {p} ELSE held[e]
      /\ \A f \in Space \X Guard :
           held'[f] = IF f = e THEN held[f] \ S
                      ELSE IF f = mine THEN Abandoned(p, held[f], x)
                      ELSE held[f]
      /\ e # mine => x \in Ghosts
  BY <1>4, <1>51 DEF ExitHeld
<1>6. p \in held[e] => p \in S
  BY <1>5
<1>7. ASSUME NEW q \in Proc, NEW f \in Space \X Guard
      PROVE  q \in held'[f] <=>
               q \in held[f] /\ ~(f = e /\ q \in S) /\ ~(q = p /\ f = mine)
  <2>1. CASE f = e
    BY <2>1, <1>5, <1>6
  <2>2. CASE f # e /\ f = mine
    <3>1. x \notin Proc
      BY <2>2, <1>5, DecoratorsAssumption
    <3>2. held'[f] = Abandoned(p, held[f], x)
      BY <2>2, <1>5
    <3> QED
      BY <2>2, <3>1, <3>2 DEF Abandoned
  <2>3. CASE f # e /\ f # mine
    BY <2>3, <1>5
  <2> QED
    BY <2>1, <2>2, <2>3
<1>8. \A q \in Proc : \A f \in Space \X Guard :
        q \in held'[f] <=>
          /\ q \in held[f] /\ ~(f = e /\ q \in S)
          /\ ~(q \in {p} /\ f = Taken(q, depth(q)))
  BY <1>4, <1>7
<1>9. Exits(p, e, S)
  BY <1>2, <1>3, <1>5, <1>8 DEF Exits
<1> QED
  BY <1>9

LEMMA ExitFailsExits ==
  ASSUME DecInv, NEW p \in Proc, ExitFails(p)
  PROVE  Exits(p, Taken(p, depth(p)), {p})
<1>1. CallsOK /\ DecTypeOK /\ ClientsFound
  BY CallsAreOK DEF DecInv
<1>2. pc[p] = "exit" /\ Gone(Taken(p, depth(p)), {p}, {p})
  BY DEF ExitFails
<1>3. depth(p) > 0 /\ Taken(p, depth(p)) \in Space \X Guard
  BY <1>1, <1>2, LeavesType DEF DecTypeOK
<1>4. Left({p})
  <2>1. \E o : Unwind(p, depth(p) - 1, o)
    BY DEF ExitFails
  <2> QED
    BY <2>1, <1>1, <1>3, UnwindLeft
<1>5. PICK e : e = Taken(p, depth(p))
  OBVIOUS
<1>6. PICK x \in Ghosts : held' = [held EXCEPT ![e] = Abandoned(p, @, x)]
  BY <1>5 DEF ExitFails, Spare
<1>7. x \notin Proc
  BY DecoratorsAssumption
<1>8. \A q \in Proc : \A f \in Space \X Guard :
        q \in held'[f] <=> q \in held[f] /\ ~(f = e /\ q = p)
  BY <1>1, <1>3, <1>5, <1>6, <1>7 DEF DecTypeOK, Abandoned
<1>9. Exits(p, e, {p})
  BY <1>2, <1>3, <1>4, <1>5, <1>8 DEF Exits
<1> QED
  BY <1>5, <1>9
-----------------------------------------------------------------------------
(* Nothing is left behind. *)

\* A step at which nobody leaves and p may enter.
LEMMA SameUnwound ==
  ASSUME DecTypeOK, Unwound, UNCHANGED <<with, lost>>,
         \A q \in Proc : \A f \in Space \X Guard : q \in held'[f] <=> q \in held[f]
  PROVE  Unwound'
<1>1. \A q \in Proc : depth(q)' = depth(q)
  BY DEF depth
<1>2. \A q \in Proc : \A i \in 1..depth(q) :
        Taken(q, i)' = Taken(q, i) /\ Keeps(q, i)' = Keeps(q, i)
  BY <1>1 DEF Keeps, Taken, entry
<1>4. \A q \in Proc : \A i \in 1..depth(q) : Taken(q, i) \in Space \X Guard
  BY TakenType
<1>5. ASSUME NEW q \in Proc, NEW i \in 1..depth(q)', Keeps(q, i)'
      PROVE  q \in held'[Taken(q, i)']
  BY <1>1, <1>2, <1>4, <1>5 DEF Unwound
<1>6. ASSUME NEW q \in Proc, NEW f \in Space \X Guard, q \in held'[f]
      PROVE  \E i \in 1..depth(q)' : Keeps(q, i)' /\ Taken(q, i)' = f
  <2>1. \E i \in 1..depth(q) : Keeps(q, i) /\ Taken(q, i) = f
    BY <1>6 DEF Unwound
  <2> QED
    BY <2>1, <1>1, <1>2
<1> QED
  BY <1>5, <1>6 DEF Unwound

\* Of the wrappers p was in, entering one more changes nothing.
LEMMA EntersTaken ==
  ASSUME DecTypeOK, Placed, NEW p \in Proc, pc[p] = "enter", NEW c, Enters(p, c),
         NEW n, n = depth(p) + 1, UNCHANGED <<lost>>
  PROVE  /\ \A q \in Proc : depth(q)' = IF q = p THEN depth(q) + 1 ELSE depth(q)
         /\ \A q \in Proc : \A i \in 1..depth(q) :
              /\ Taken(q, i)' = Taken(q, i) /\ Keeps(q, i)' = Keeps(q, i)
              /\ Taken(q, i) \in Space \X Guard
         /\ depth(p) \in Nat /\ Coming(p) = Stack[p][n]
         /\ Taken(p, n)' = entry(p, c, Coming(p))
         /\ entry(p, c, Coming(p)) \in Space \X Guard
         /\ Keeps(p, n)'
         /\ \A i \in 1..depth(p) : Taken(p, i) # entry(p, c, Coming(p))
<1>1. CallsOK
  BY CallsAreOK
<1>2. /\ depth(p) + 1 \in 1..Len(Stack[p]) /\ Coming(p) = Stack[p][depth(p) + 1]
      /\ depth(p) \in Nat /\ \A q \in Proc : depth(q) \in Nat
  BY <1>1, ComingType DEF CallsOK
<1>3. \A q \in Proc : depth(q)' = IF q = p THEN depth(q) + 1 ELSE depth(q)
  BY DEF Enters, depth
<1>4. ASSUME NEW q \in Proc, NEW i \in 1..depth(q)
      PROVE  /\ Taken(q, i)' = Taken(q, i) /\ Keeps(q, i)' = Keeps(q, i)
             /\ Taken(q, i) \in Space \X Guard
  <2>1. with'[q][i] = with[q][i]
    BY DEF Enters
  <2>2. Taken(q, i)' = Taken(q, i) /\ i \in 1..depth(q)'
    BY <2>1, <1>2, <1>3 DEF Taken, entry
  <2> QED
    BY <2>2, TakenType DEF Keeps
<1>5. /\ Taken(p, n)' = entry(p, c, Coming(p))
      /\ entry(p, c, Coming(p)) \in Space \X Guard
  <2>1. with'[p][n] = c /\ c \in CachifyClient /\ Coming(p) \in Guard
    BY DEF Enters
  <2> QED
    BY <2>1, <1>2, EntryType DEF Taken, entry
<1>6. ASSUME NEW i \in 1..depth(p), Taken(p, i) = entry(p, c, Coming(p))
      PROVE  FALSE
  <2>1. Stack[p][i] = Stack[p][depth(p) + 1]
    BY <1>6, <1>2 DEF Taken, entry
  <2>2. i \in DOMAIN Stack[p] /\ depth(p) + 1 \in DOMAIN Stack[p]
    BY <1>2, TakenType, StackType
  <2>3. i = depth(p) + 1
    BY <2>1, <2>2, DecoratorsAssumption
  <2> QED
    BY <2>3, <1>2
<1>7. Keeps(p, n)'
  <2>1. entry(p, c, Coming(p)) \notin lost[p]
    BY <1>6 DEF DecTypeOK, Taking
  <2> QED
    BY <2>1, <1>2, <1>3, <1>5 DEF Keeps
<1> QED
  BY <1>2, <1>3, <1>4, <1>5, <1>6, <1>7

LEMMA EntersUnwound ==
  ASSUME DecTypeOK, Placed, Unwound, NEW p \in Proc, pc[p] = "enter",
         NEW c, Enters(p, c), UNCHANGED lost
  PROVE  Unwound'
<1> DEFINE e == entry(p, c, Coming(p))
<1>0. PICK n : n = depth(p) + 1
  OBVIOUS
<1>1. /\ \A q \in Proc : depth(q)' = IF q = p THEN depth(q) + 1 ELSE depth(q)
      /\ \A q \in Proc : \A i \in 1..depth(q) :
           /\ Taken(q, i)' = Taken(q, i) /\ Keeps(q, i)' = Keeps(q, i)
           /\ Taken(q, i) \in Space \X Guard
      /\ depth(p) \in Nat /\ Taken(p, n)' = e /\ e \in Space \X Guard
      /\ Keeps(p, n)'
  BY <1>0, EntersTaken
<1>2. held' = [held EXCEPT ![e] = @ \cup {p}]
  BY DEF Enters
<1> HIDE DEF e
<1>4. \A q \in Proc : \A i \in 1..depth(q)' : i \in 1..depth(q) \/ (q = p /\ i = n)
  <2>1. \A q \in Proc : depth(q) \in Nat
    BY DEF DecTypeOK, depth
  <2> QED
    BY <1>1, <1>0, <2>1
<1>5. ASSUME NEW q \in Proc, NEW i \in 1..depth(q)', Keeps(q, i)'
      PROVE  q \in held'[Taken(q, i)']
  <2>1. CASE i \in 1..depth(q)
    <3>1. Keeps(q, i) /\ Taken(q, i)' = Taken(q, i) /\ Taken(q, i) \in Space \X Guard
      BY <1>1, <1>5, <2>1
    <3>2. q \in held[Taken(q, i)]
      BY <2>1, <3>1 DEF Unwound
    <3> QED
      BY <1>2, <3>1, <3>2 DEF DecTypeOK
  <2>2. CASE q = p /\ i = n
    <3>1. p \in held'[e]
      BY <1>1, <1>2 DEF DecTypeOK
    <3> QED
      BY <2>2, <3>1, <1>1
  <2> QED
    BY <2>1, <2>2, <1>4
<1>6. ASSUME NEW q \in Proc, NEW f \in Space \X Guard, q \in held'[f]
      PROVE  \E i \in 1..depth(q)' : Keeps(q, i)' /\ Taken(q, i)' = f
  <2>1. CASE q \in held[f]
    <3>1. PICK i \in 1..depth(q) : Keeps(q, i) /\ Taken(q, i) = f
      BY <2>1 DEF Unwound
    <3>2. Keeps(q, i)' /\ Taken(q, i)' = f
      BY <1>1, <3>1
    <3> QED
      BY <3>2 DEF Keeps
  <2>2. CASE q \notin held[f]
    <3>1. f = e /\ q = p
      BY <1>2, <1>6, <2>2 DEF DecTypeOK
    <3> QED
      BY <3>1, <1>1, <1>0 DEF Keeps
  <2> QED
    BY <2>1, <2>2
<1> QED
  BY <1>5, <1>6 DEF Unwound

LEMMA DieUnwound ==
  ASSUME DecInv, NEW p \in Proc, Die(p)
  PROVE  Unwound'
<1>1. DecTypeOK /\ Unwound /\ CallsOK
  BY CallsAreOK DEF DecInv
<1>2. /\ depth(p)' = 0
      /\ \A q \in Proc \ {p} : with'[q] = with[q] /\ depth(q)' = depth(q)
  BY <1>1, DieCalls
<1>3. PICK x \in Ghosts : held' = [f \in Space \X Guard |-> Abandoned(p, held[f], x)]
  BY DEF Die, Spare
<1>4. x \notin Proc
  BY DecoratorsAssumption
<1>5. \A q \in Proc : \A f \in Space \X Guard : q \in held'[f] <=> q \in held[f] /\ q # p
  BY <1>3, <1>4 DEF Abandoned
<1>6. \A q \in Proc \ {p} : lost'[q] = lost[q]
  BY <1>1 DEF Die, DecTypeOK
<1>8. ASSUME NEW q \in Proc, q # p
      PROVE  \A i \in 1..depth(q) :
               /\ Taken(q, i)' = Taken(q, i) /\ Keeps(q, i)' = Keeps(q, i)
               /\ Taken(q, i) \in Space \X Guard
  BY <1>1, <1>2, <1>6, <1>8, TakenType DEF Keeps, Taken, entry
<1>9. \A q \in Proc : \A i \in 1..depth(q)' : q # p /\ i \in 1..depth(q)
  BY <1>2
<1>11. ASSUME NEW q \in Proc, NEW i \in 1..depth(q)', Keeps(q, i)'
       PROVE  q \in held'[Taken(q, i)']
  BY <1>1, <1>5, <1>8, <1>9, <1>11 DEF Unwound
<1>12. ASSUME NEW q \in Proc, NEW f \in Space \X Guard, q \in held'[f]
       PROVE  \E i \in 1..depth(q)' : Keeps(q, i)' /\ Taken(q, i)' = f
  <2>1. q # p /\ q \in held[f]
    BY <1>5, <1>12
  <2>2. PICK i \in 1..depth(q) : Keeps(q, i) /\ Taken(q, i) = f
    BY <2>1, <1>1 DEF Unwound
  <2> QED
    BY <2>1, <2>2, <1>2, <1>8
<1> QED
  BY <1>11, <1>12 DEF Unwound

LEMMA ReleaseUnwound ==
  ASSUME DecInv, NEW e \in Space \X Guard, NEW S, Release(e, S)
  PROVE  Unwound'
<1>1. DecTypeOK /\ Unwound /\ CallsOK
  BY CallsAreOK DEF DecInv
<1>2. UNCHANGED with /\ Gone(e, S, {}) /\ held' = [held EXCEPT ![e] = @ \ S]
  BY DEF Release, callVars
<1>3. Left({})
  BY <1>1, <1>2, StaysLeft
<1>4. \A q \in Proc : \A f \in Space \X Guard :
        q \in held'[f] <=> q \in held[f] /\ ~(f = e /\ q \in S)
  BY <1>1, <1>2 DEF DecTypeOK
<1> QED
  BY <1>1, <1>2, <1>3, <1>4, GoneUnwound

LEMMA ExitsUnwound ==
  ASSUME DecInv, NEW p \in Proc, NEW e, NEW S, Exits(p, e, S)
  PROVE  Unwound'
  BY GoneUnwound DEF Exits, DecInv

\* What one step adds to an entry is nobody's.
LEMMA EnterFailsHeld ==
  ASSUME DecTypeOK, NEW p \in Proc, EnterFails(p)
  PROVE  \A q \in Proc : \A f \in Space \X Guard : q \in held'[f] <=> q \in held[f]
<1>1. CASE UNCHANGED held
  BY <1>1
<1>2. CASE ~UNCHANGED held
  <2>1. PICK c \in {global, local}, x \in Ghosts :
          held' = [held EXCEPT ![entry(p, c, Coming(p))] = @ \cup {x}]
    BY <1>2 DEF EnterFails
  <2>2. x \notin Proc
    BY DecoratorsAssumption
  <2> QED
    BY <2>1, <2>2 DEF DecTypeOK
<1> QED
  BY <1>1, <1>2

LEMMA UnwoundStep ==
  ASSUME DecInv, DecNext
  PROVE  Unwound'
<1>1. DecTypeOK /\ Placed /\ Unwound /\ CallsOK /\ ClientsTypeOK
  BY CallsAreOK DEF DecInv, DecTypeOK
<1>2. ASSUME NEW p \in Proc, Call(p) \/ RunBody(p)
      PROVE  Unwound'
  <2>1. UNCHANGED <<held, with, lost>>
    BY <1>2 DEF Call, RunBody
  <2> QED
    BY <1>1, <2>1, SameUnwound
<1>3. ASSUME NEW p \in Proc, EnterGuard(p)
      PROVE  Unwound'
  <2>1. \E c : Enters(p, c)
    BY <1>1, <1>3, EnterGuardEnters
  <2>2. pc[p] = "enter" /\ UNCHANGED lost
    BY <1>3 DEF EnterGuard, Entering
  <2> QED
    BY <1>1, <2>1, <2>2, EntersUnwound
<1>4. ASSUME NEW p \in Proc, RefuseGuard(p)
      PROVE  Unwound'
  <2>1. with' = with
    BY <1>1, <1>4, UnwindStays DEF RefuseGuard
  <2>2. UNCHANGED <<held, lost>>
    BY <1>4 DEF RefuseGuard
  <2> QED
    BY <1>1, <2>1, <2>2, SameUnwound
<1>5. ASSUME NEW p \in Proc, EnterFails(p)
      PROVE  Unwound'
  <2>1. with' = with
    BY <1>1, <1>5, UnwindStays DEF EnterFails
  <2>2. UNCHANGED lost
    BY <1>5 DEF EnterFails
  <2>3. \A q \in Proc : \A f \in Space \X Guard : q \in held'[f] <=> q \in held[f]
    BY <1>1, <1>5, EnterFailsHeld
  <2> QED
    BY <1>1, <2>1, <2>2, <2>3, SameUnwound
<1>6. ASSUME NEW p \in Proc, ExitGuard(p) \/ ExitFails(p)
      PROVE  Unwound'
  BY <1>6, ExitGuardExits, ExitFailsExits, ExitsUnwound
<1>7. ASSUME NEW g \in Guard, Expire(g)
      PROVE  Unwound'
  BY <1>7, ReleaseUnwound DEF Expire
<1>8. ASSUME NEW g \in Guard, NEW p \in Proc, ForceRelease(g, p)
      PROVE  Unwound'
  BY <1>1, <1>8, ForceReleaseReleases, ReleaseUnwound
<1>9. CASE ReplaceGlobal
  <2>1. UNCHANGED <<held, with, lost>>
    BY <1>9 DEF ReplaceGlobal, callVars
  <2> QED
    BY <1>1, <2>1, SameUnwound
<1> QED
  BY <1>2, <1>3, <1>4, <1>5, <1>6, <1>7, <1>8, <1>9, DieUnwound DEF DecNext, Step
-----------------------------------------------------------------------------
(* Clients are found, and are what they were promised to be. *)

\* A wrapper somebody is in was entered before or by this step.
EnteredBefore ==
  \A q \in Proc : \A i \in 1..depth(q)' :
    \/ i \in 1..depth(q) /\ with'[q][i] = with[q][i]
    \/ with'[q][i] = enters(Stack[q][i]) /\ with'[q][i] \in CachifyClient

LEMMA LeftEnteredBefore ==
  ASSUME DecTypeOK, NEW L, Left(L)
  PROVE  EnteredBefore
  BY LeftTaken DEF EnteredBefore

LEMMA StepEnteredBefore ==
  ASSUME DecInv, DecNext
  PROVE  EnteredBefore
<1>1. DecTypeOK /\ CallsOK /\ ClientsTypeOK
  BY CallsAreOK DEF DecInv, DecTypeOK
<1>2. UNCHANGED with => EnteredBefore
  BY <1>1, StaysLeft, LeftEnteredBefore
<1>3. ASSUME NEW p \in Proc, Call(p) \/ RunBody(p) \/ RefuseGuard(p) \/ EnterFails(p)
      PROVE  EnteredBefore
  BY <1>1, <1>2, <1>3, UnwindStays DEF Call, RunBody, RefuseGuard, EnterFails
<1>4. ASSUME NEW p \in Proc, EnterGuard(p)
      PROVE  EnteredBefore
  <2>1. PICK c : Enters(p, c)
    BY <1>1, <1>4, EnterGuardEnters
  <2>2. /\ Coming(p) = Stack[p][depth(p) + 1]
        /\ with'[p][depth(p) + 1] = enters(Coming(p))
        /\ with'[p][depth(p) + 1] \in CachifyClient
        /\ depth(p)' = depth(p) + 1
        /\ \A i \in 1..depth(p) : with'[p][i] = with[p][i]
        /\ \A q \in Proc \ {p} : with'[q] = with[q]
    BY <2>1 DEF Enters, Coming
  <2>3. ASSUME NEW q \in Proc, NEW i \in 1..depth(q)'
        PROVE  \/ i \in 1..depth(q) /\ with'[q][i] = with[q][i]
               \/ with'[q][i] = enters(Stack[q][i]) /\ with'[q][i] \in CachifyClient
    <3>1. depth(p) \in Nat
      BY <1>1 DEF CallsOK
    <3>2. CASE q = p
      <4>1. i \in 1..depth(p) \/ i = depth(p) + 1
        BY <2>2, <3>1, <3>2
      <4> QED
        BY <2>2, <3>2, <4>1
    <3>3. CASE q # p
      BY <2>2, <3>3 DEF depth
    <3> QED
      BY <3>2, <3>3
  <2> QED
    BY <2>3 DEF EnteredBefore
<1>5. ASSUME NEW p \in Proc, ExitGuard(p)
      PROVE  EnteredBefore
  BY <1>1, <1>5, ExitGuardExits, LeftEnteredBefore DEF Exits
<1>6. ASSUME NEW p \in Proc, ExitFails(p)
      PROVE  EnteredBefore
  BY <1>1, <1>6, ExitFailsExits, LeftEnteredBefore DEF Exits
<1>7. ASSUME NEW p \in Proc, Die(p)
      PROVE  EnteredBefore
  BY <1>1, <1>7, DieCalls DEF EnteredBefore
<1>8. ASSUME NEW e, NEW S, Release(e, S)
      PROVE  EnteredBefore
  BY <1>2, <1>8 DEF Release, callVars
<1>9. ASSUME NEW g \in Guard, NEW p \in Proc, ForceRelease(g, p)
      PROVE  EnteredBefore
  BY <1>8, <1>9 DEF ForceRelease
<1>10. CASE ReplaceGlobal
  BY <1>2, <1>10 DEF ReplaceGlobal, callVars
<1>11. ASSUME NEW g \in Guard, Expire(g)
       PROVE  EnteredBefore
  BY <1>8, <1>11 DEF Expire
<1> QED
  BY <1>3, <1>4, <1>5, <1>6, <1>7, <1>9, <1>10, <1>11 DEF DecNext, Step

LEMMA StepClients ==
  ASSUME DecInv, DecNext
  PROVE  \/ UNCHANGED <<global, local>>
         \/ /\ local' = local /\ global' \in CachifyClient
            /\ OneSpace(global') /\ global' # None
<1>1. ClientsTypeOK
  BY DEF DecInv, DecTypeOK
<1>2. CASE ReplaceGlobal
  BY <1>1, <1>2, InitCachify DEF ReplaceGlobal
<1>3. CASE ~ReplaceGlobal
  BY <1>3 DEF DecNext, Step, Call, EnterGuard, RefuseGuard, EnterFails, RunBody,
     ExitGuard, ExitFails, Die, ForceRelease, Expire, Release, clientVars
<1> QED
  BY <1>2, <1>3

LEMMA ClientsStep ==
  ASSUME DecInv, DecNext
  PROVE  ClientsFound' /\ SharedIsOne'
<1>1. ClientsFound /\ SharedIsOne /\ ClientsTypeOK
  BY DEF DecInv, DecTypeOK
<1>2. EnteredBefore
  BY StepEnteredBefore
<1>3. /\ local' = local /\ (global # None => global' # None)
      /\ global' # None => OneSpace(global')
      /\ OneSpace(local')
  BY <1>1, StepClients DEF SharedIsOne
<1>4. ASSUME NEW p \in Proc, NEW i \in 1..depth(p)'
      PROVE  /\ OneSpace(with'[p][i])
             /\ Stack[p][i] \notin Instance \/ Kind[Stack[p][i]] = "lock" => global' # None
             /\ Stack[p][i] \in Instance /\ Kind[Stack[p][i]] # "lock" => with'[p][i] = local'
  <2>1. CASE i \in 1..depth(p) /\ with'[p][i] = with[p][i]
    BY <1>1, <1>3, <2>1 DEF ClientsFound, SharedIsOne
  <2>2. CASE with'[p][i] = enters(Stack[p][i]) /\ with'[p][i] \in CachifyClient
    <3>1. None \notin CachifyClient
      BY ClientsAssumption
    <3> QED
      BY <1>1, <1>3, <2>2, <3>1 DEF SharedIsOne, enters, provider
  <2> QED
    BY <1>2, <2>1, <2>2 DEF EnteredBefore
<1>5. ClientsFound'
  BY <1>4 DEF ClientsFound
<1> QED
  BY <1>3, <1>4, <1>5 DEF SharedIsOne, OneSpace
-----------------------------------------------------------------------------
(* No more entries than a guard allows. *)

LEMMA LimitType ==
  ASSUME NEW g \in Guard
  PROVE  Limit(g) \in Nat \ {0}
  BY DecoratorsAssumption DEF Limit

LEMMA CountedMore ==
  ASSUME DecTypeOK, Counted, NEW e \in Space \X Guard, NEW y,
         Cardinality(held[e]) < Limit(e[2]), held' = [held EXCEPT ![e] = @ \cup {y}]
  PROVE  Counted'
<1>1. IsFiniteSet(held[e]) /\ Cardinality(held[e]) \in Nat /\ Limit(e[2]) \in Nat
  BY FS_CardinalityType, LimitType DEF Counted
<1>2. /\ IsFiniteSet(held[e] \cup {y})
      /\ Cardinality(held[e] \cup {y}) <= Cardinality(held[e]) + 1
  BY <1>1, FS_AddElement
<1>3. Cardinality(held[e] \cup {y}) <= Limit(e[2])
  <2>1. Cardinality(held[e] \cup {y}) \in Nat
    BY <1>2, FS_CardinalityType
  <2> QED
    BY <1>1, <1>2, <2>1
<1>4. ASSUME NEW f \in Space \X Guard
      PROVE  held'[f] = IF f = e THEN held[e] \cup {y} ELSE held[f]
  BY DEF DecTypeOK
<1> QED
  BY <1>2, <1>3, <1>4 DEF Counted

LEMMA CountedLess ==
  ASSUME Counted, \A f \in Space \X Guard : held'[f] \subseteq held[f]
  PROVE  Counted'
<1> SUFFICES ASSUME NEW f \in Space \X Guard
             PROVE  IsFiniteSet(held'[f]) /\ Cardinality(held'[f]) <= Limit(f[2])
  BY DEF Counted, Limit
<1>1. IsFiniteSet(held[f]) /\ Cardinality(held[f]) <= Limit(f[2])
  BY DEF Counted
<1>2. IsFiniteSet(held'[f]) /\ Cardinality(held'[f]) <= Cardinality(held[f])
  BY <1>1, FS_Subset
<1>3. /\ Cardinality(held[f]) \in Nat /\ Cardinality(held'[f]) \in Nat
      /\ Limit(f[2]) \in Nat
  BY <1>1, <1>2, FS_CardinalityType, LimitType
<1> QED
  BY <1>1, <1>2, <1>3

LEMMA AbandonedCount ==
  ASSUME NEW p, NEW S, NEW x, IsFiniteSet(S)
  PROVE  /\ IsFiniteSet(Abandoned(p, S, x))
         /\ Cardinality(Abandoned(p, S, x)) <= Cardinality(S)
<1>1. Cardinality(S) \in Nat
  BY FS_CardinalityType
<1>2. CASE p \notin S
  BY <1>1, <1>2 DEF Abandoned
<1>3. CASE p \in S
  <2>1. IsFiniteSet(S \ {p}) /\ Cardinality(S \ {p}) = Cardinality(S) - 1
    BY <1>3, FS_RemoveElement
  <2>2. /\ IsFiniteSet((S \ {p}) \cup {x})
        /\ \/ Cardinality((S \ {p}) \cup {x}) = Cardinality(S \ {p})
           \/ Cardinality((S \ {p}) \cup {x}) = Cardinality(S \ {p}) + 1
    BY <2>1, FS_AddElement
  <2> QED
    BY <1>1, <1>3, <2>1, <2>2 DEF Abandoned
<1> QED
  BY <1>2, <1>3

LEMMA CountedAbandoned ==
  ASSUME Counted, NEW p, NEW x,
         \A f \in Space \X Guard :
           held'[f] \subseteq held[f] \/ held'[f] = Abandoned(p, held[f], x)
  PROVE  Counted'
<1> SUFFICES ASSUME NEW f \in Space \X Guard
             PROVE  IsFiniteSet(held'[f]) /\ Cardinality(held'[f]) <= Limit(f[2])
  BY DEF Counted, Limit
<1>1. IsFiniteSet(held[f]) /\ Cardinality(held[f]) <= Limit(f[2])
  BY DEF Counted
<1>2. Cardinality(held[f]) \in Nat /\ Limit(f[2]) \in Nat
  BY <1>1, FS_CardinalityType, LimitType
<1>3. IsFiniteSet(held'[f]) /\ Cardinality(held'[f]) <= Cardinality(held[f])
  <2>1. CASE held'[f] \subseteq held[f]
    BY <1>1, <2>1, FS_Subset
  <2>2. CASE held'[f] = Abandoned(p, held[f], x)
    BY <1>1, <2>2, AbandonedCount
  <2> QED
    BY <2>1, <2>2
<1>4. Cardinality(held'[f]) \in Nat
  BY <1>3, FS_CardinalityType
<1> QED
  BY <1>1, <1>2, <1>3, <1>4

LEMMA CountedStep ==
  ASSUME DecInv, DecNext
  PROVE  Counted'
<1>1. DecTypeOK /\ Counted /\ CallsOK /\ ClientsTypeOK
  BY CallsAreOK DEF DecInv, DecTypeOK
<1>2. UNCHANGED held => Counted'
  BY <1>1, CountedLess
<1>3. ASSUME NEW p \in Proc, Call(p) \/ RunBody(p) \/ RefuseGuard(p)
      PROVE  Counted'
  BY <1>2, <1>3 DEF Call, RunBody, RefuseGuard
<1>4. ASSUME NEW p \in Proc, NEW c, NEW y, Entering(p, c), c \in CachifyClient, Room(p, c),
             held' = [held EXCEPT ![entry(p, c, Coming(p))] = @ \cup {y}]
      PROVE  Counted'
  <2>1. Coming(p) \in Guard
    BY <1>1, <1>4, ComingType DEF Entering
  <2>2. PICK e \in Space \X Guard : e = entry(p, c, Coming(p)) /\ e[2] = Coming(p)
    BY <1>4, <2>1, EntryType DEF entry
  <2>3. Cardinality(held[e]) < Limit(e[2])
    BY <1>4, <2>2 DEF Room
  <2>4. held' = [held EXCEPT ![e] = @ \cup {y}]
    BY <1>4, <2>2
  <2> QED
    BY <1>1, <2>3, <2>4, CountedMore
<1>5. ASSUME NEW p \in Proc, EnterGuard(p)
      PROVE  Counted'
  <2>1. PICK c \in {global, local} :
          /\ Entering(p, c) /\ Room(p, c)
          /\ held' = [held EXCEPT ![entry(p, c, Coming(p))] = @ \cup {p}]
    BY <1>5 DEF EnterGuard
  <2>2. c \in CachifyClient
    BY <1>1, <2>1 DEF Entering, ClientsTypeOK
  <2> QED
    BY <1>4, <2>1, <2>2
<1>6. ASSUME NEW p \in Proc, EnterFails(p)
      PROVE  Counted'
  <2>1. CASE UNCHANGED held
    BY <1>2, <2>1
  <2>2. CASE ~UNCHANGED held
    <3>1. PICK c, x :
            /\ c \in {global, local} /\ Entering(p, c) /\ Room(p, c)
            /\ held' = [held EXCEPT ![entry(p, c, Coming(p))] = @ \cup {x}]
      BY <1>6, <2>2 DEF EnterFails
    <3>2. c \in CachifyClient
      BY <1>1, <3>1 DEF Entering, ClientsTypeOK
    <3> QED
      BY <1>4, <3>1, <3>2
  <2> QED
    BY <2>1, <2>2
<1>7. ASSUME NEW e, NEW S, held' = [held EXCEPT ![e] = @ \ S]
      PROVE  Counted'
  <2>1. \A f \in Space \X Guard : held'[f] \subseteq held[f]
    BY <1>1, <1>7 DEF DecTypeOK
  <2> QED
    BY <1>1, <2>1, CountedLess
<1>8. ASSUME NEW p \in Proc, ExitGuard(p)
      PROVE  Counted'
  <2>1. PICK e, S, x : ExitHeld(p, e, S, x)
    BY <1>1, <1>8, ExitGuardHeld DEF DecInv
  <2>2. \A f \in Space \X Guard :
          held'[f] \subseteq held[f] \/ held'[f] = Abandoned(p, held[f], x)
    BY <2>1 DEF ExitHeld
  <2> QED
    BY <1>1, <2>2, CountedAbandoned
<1>9. ASSUME NEW p \in Proc, ExitFails(p)
      PROVE  Counted'
  <2>1. PICK e, x : held' = [held EXCEPT ![e] = Abandoned(p, @, x)]
    BY <1>9 DEF ExitFails
  <2>2. \A f \in Space \X Guard :
          held'[f] \subseteq held[f] \/ held'[f] = Abandoned(p, held[f], x)
    BY <1>1, <2>1 DEF DecTypeOK
  <2> QED
    BY <1>1, <2>2, CountedAbandoned
<1>10. ASSUME NEW p \in Proc, Die(p)
       PROVE  Counted'
  <2>1. PICK x : held' = [f \in Space \X Guard |-> Abandoned(p, held[f], x)]
    BY <1>10 DEF Die
  <2>2. \A f \in Space \X Guard :
          held'[f] \subseteq held[f] \/ held'[f] = Abandoned(p, held[f], x)
    BY <2>1
  <2> QED
    BY <1>1, <2>2, CountedAbandoned
<1>11. ASSUME NEW g \in Guard, NEW p \in Proc, ForceRelease(g, p)
       PROVE  Counted'
  BY <1>7, <1>11 DEF ForceRelease, Release
<1>12. ASSUME NEW g \in Guard, Expire(g)
       PROVE  Counted'
  BY <1>7, <1>12 DEF Expire, Release
<1>13. CASE ReplaceGlobal
  BY <1>2, <1>13 DEF ReplaceGlobal
<1> QED
  BY <1>3, <1>5, <1>6, <1>8, <1>9, <1>10, <1>11, <1>12, <1>13 DEF DecNext, Step
-----------------------------------------------------------------------------
(* What a call comes to. *)

LEMMA ReportedStep ==
  ASSUME DecInv, DecNext
  PROVE  Reported'
<1>1. /\ CallsOK /\ Reported
      /\ pc \in [Proc -> {"idle", "enter", "run", "exit"}]
      /\ out \in [Proc -> Outcomes]
      /\ ran \in [Proc -> Outcome \cup {"none", "failed"}]
  BY CallsAreOK DEF DecInv, CallsOK
<1>2. UNCHANGED callVars => Reported'
  BY <1>1 DEF callVars, Reported, Faithful
<1>3. ASSUME NEW p \in Proc, Call(p)
      PROVE  Reported'
  BY <1>1, <1>3 DEF Call, Reported, Faithful
<1>4. ASSUME NEW p \in Proc, EnterGuard(p)
      PROVE  Reported'
  <2>1. UNCHANGED <<out, ran>> /\ \A q \in Proc : pc'[q] = "enter" => pc[q] = "enter"
    BY <1>1, <1>4 DEF EnterGuard, Entering
  <2> QED
    BY <1>1, <2>1 DEF Reported, Faithful
<1>5. ASSUME NEW p \in Proc, RefuseGuard(p)
      PROVE  Reported'
  <2>1. pc[p] = "enter" /\ ran[p] = "none" /\ UNCHANGED ran
    BY <1>1, <1>5 DEF RefuseGuard, Entering, Reported
  <2>2. PICK o \in handled(Coming(p), Refusal(Coming(p))) : Unwind(p, depth(p), o)
    BY <1>5 DEF RefuseGuard
  <2>3. o \notin {"value", "Exception"}
    BY <2>2 DEF handled, on_full, Refusal
  <2>4. /\ out' = [out EXCEPT ![p] = o]
        /\ \A q \in Proc : pc'[q] = "enter" => pc[q] = "enter"
    BY <1>1, <1>5, <2>2 DEF RefuseGuard, Unwind
  <2> QED
    BY <1>1, <2>1, <2>3, <2>4 DEF Reported, Faithful
<1>6. ASSUME NEW p \in Proc, EnterFails(p)
      PROVE  Reported'
  <2>1. /\ ran' = [ran EXCEPT ![p] = "failed"]
        /\ out' = [out EXCEPT ![p] = "Exception"]
        /\ pc' = [pc EXCEPT ![p] = IF depth(p) = 0 THEN "idle" ELSE "exit"]
    BY <1>6 DEF EnterFails, Unwind
  <2> QED
    BY <1>1, <2>1 DEF Reported, Faithful
<1>7. ASSUME NEW p \in Proc, RunBody(p)
      PROVE  Reported'
  <2>1. PICK o \in Results : /\ ran' = [ran EXCEPT ![p] = o]
                             /\ out' = [out EXCEPT ![p] = o]
    BY <1>7 DEF RunBody
  <2>2. pc' = [pc EXCEPT ![p] = "exit"]
    BY <1>7 DEF RunBody
  <2> QED
    BY <1>1, <2>1, <2>2 DEF Reported, Faithful
<1>8. ASSUME NEW p \in Proc, ExitGuard(p)
      PROVE  Reported'
  <2>1. PICK o, d : /\ o \in handled(Top(p), out[p]) /\ d = depth(p) - 1
                    /\ out' = [out EXCEPT ![p] = o]
                    /\ pc' = [pc EXCEPT ![p] = IF d = 0 THEN "idle" ELSE "exit"]
                    /\ UNCHANGED ran
    BY <1>8 DEF ExitGuard, Unwind
  <2>2. \/ o = out[p]
        \/ /\ o \notin {"value", "Exception"}
           /\ out[p] \notin {"value", "Exception"}
    BY <2>1 DEF handled, on_full, Refusal
  <2>3. pc[p] = "exit"
    BY <1>8 DEF ExitGuard
  <2> QED
    BY <1>1, <2>1, <2>2, <2>3 DEF Reported, Faithful
<1>9. ASSUME NEW p \in Proc, ExitFails(p)
      PROVE  Reported'
  <2>1. PICK o, d : /\ d = depth(p) - 1
                    /\ out' = [out EXCEPT ![p] = o]
                    /\ pc' = [pc EXCEPT ![p] = IF d = 0 THEN "idle" ELSE "exit"]
                    /\ ran' = [ran EXCEPT ![p] = "failed"]
    BY <1>9 DEF ExitFails, Unwind
  <2> QED
    BY <1>1, <2>1 DEF Reported, Faithful
<1>10. ASSUME NEW p \in Proc, Die(p)
       PROVE  Reported'
  <2>1. /\ pc' = [pc EXCEPT ![p] = "idle"] /\ out' = [out EXCEPT ![p] = "none"]
        /\ ran' = [ran EXCEPT ![p] = "none"]
    BY <1>10 DEF Die
  <2> QED
    BY <1>1, <2>1 DEF Reported, Faithful
<1>11. ASSUME NEW e, NEW S, Release(e, S)
       PROVE  Reported'
  BY <1>2, <1>11 DEF Release
<1>12. ASSUME NEW g \in Guard, NEW p \in Proc, ForceRelease(g, p)
       PROVE  Reported'
  BY <1>11, <1>12 DEF ForceRelease
<1>13. ASSUME NEW g \in Guard, Expire(g)
       PROVE  Reported'
  BY <1>11, <1>13 DEF Expire
<1>14. CASE ReplaceGlobal
  BY <1>2, <1>14 DEF ReplaceGlobal
<1> QED
  BY <1>3, <1>4, <1>5, <1>6, <1>7, <1>8, <1>9, <1>10, <1>12, <1>13, <1>14
     DEF DecNext, Step
-----------------------------------------------------------------------------
(* The theorems. *)

LEMMA DecInitInv ==
  ASSUME DecInit
  PROVE  DecInv
<1>1. Setup[1] \in ClientArgs /\ 1 \in 1..Len(Setup) /\ 1 \in DOMAIN Setup
  <2>1. Setup \in Seq(ClientArgs) \ {<<>>}
    BY ClientsAssumption
  <2> QED
    BY <2>1
<1>2. /\ global = None /\ local = Make(Setup[1], 1) /\ inits = 1
      /\ local \in CachifyClient /\ OneSpace(local)
  BY <1>1, MakeType DEF DecInit, ClientsInit
<1>3. /\ held = [e \in Space \X Guard |-> {}] /\ pc = [p \in Proc |-> "idle"]
      /\ with = [p \in Proc |-> <<>>] /\ out = [p \in Proc |-> "none"]
      /\ ran = [p \in Proc |-> "none"] /\ lost = [p \in Proc |-> {}]
  BY DEF DecInit
<1>4. \A p \in Proc : with[p] = <<>> /\ depth(p) = 0
  BY <1>3 DEF depth
<1>5. \A p \in Proc : 1..depth(p) = {}
  BY <1>4
<1>6. DecTypeOK
  <2>1. ClientsTypeOK
    BY <1>1, <1>2 DEF ClientsTypeOK
  <2>2. with \in [Proc -> Seq(CachifyClient)]
    BY <1>3
  <2>3. \A p \in Proc : depth(p) \in 0..Len(Stack[p])
    BY <1>4, StackType
  <2> QED
    BY <1>3, <2>1, <2>2, <2>3 DEF DecTypeOK
<1>7. Placed
  BY <1>3 DEF Placed
<1>8. Unwound /\ ClientsFound
  BY <1>3, <1>5 DEF Unwound, ClientsFound
<1>9. SharedIsOne
  BY <1>2, <1>5 DEF SharedIsOne
<1>10. Counted
  <2>1. \A e \in Space \X Guard : held[e] = {} /\ Limit(e[2]) \in Nat
    BY <1>3, LimitType
  <2> QED
    BY <2>1, FS_EmptySet DEF Counted
<1>11. Reported
  BY <1>3 DEF Reported, Faithful
<1> QED
  BY <1>6, <1>7, <1>8, <1>9, <1>10, <1>11 DEF DecInv

LEMMA StutterInv ==
  ASSUME DecInv, UNCHANGED vars
  PROVE  DecInv'
<1>1. UNCHANGED <<global, local, inits, held, pc, with, out, ran, lost>>
  BY DEF vars, clientVars, callVars
<1>2. DecTypeOK' /\ Placed'
  BY <1>1 DEF DecInv, DecTypeOK, ClientsTypeOK, Placed, Taking, Taken, entry, depth
<1>3. Unwound'
  BY <1>1, SameUnwound DEF DecInv
<1>4. ClientsFound' /\ SharedIsOne'
  BY <1>1 DEF DecInv, ClientsFound, SharedIsOne, OneSpace, depth
<1>5. Counted' /\ Reported'
  BY <1>1 DEF DecInv, Counted, Reported, Faithful, Limit
<1> QED
  BY <1>2, <1>3, <1>4, <1>5 DEF DecInv

LEMMA DecInvariant == DecSpec => []DecInv
<1>1. DecInv /\ [DecNext]_vars => DecInv'
  <2>1. ASSUME DecInv, DecNext
        PROVE  DecInv'
    BY <2>1, TypeStep, UnwoundStep, ClientsStep, CountedStep, ReportedStep DEF DecInv
  <2> QED
    BY <2>1, StutterInv
<1> QED
  BY <1>1, DecInitInv, PTL DEF DecSpec

(***************************************************************************)
(* Every reachable state of stacked decorators is well typed, whatever     *)
(* the stacks, the instances and the calls of init_cachify are.            *)
(***************************************************************************)
THEOREM DecTypeCorrect == DecSpec => []DecTypeOK
<1>1. DecInv => DecTypeOK
  BY DEF DecInv
<1> QED
  BY <1>1, DecInvariant, PTL

(***************************************************************************)
(* A call leaves no entry behind, and has every entry it took and did not  *)
(* lose, for stacks of any depth and any number of re-initialisations.     *)
(***************************************************************************)
THEOREM UnwoundCorrect == DecSpec => []Unwound
<1>1. DecInv => Unwound
  BY DEF DecInv
<1> QED
  BY <1>1, DecInvariant, PTL

(***************************************************************************)
(* What a caller gets is what the function came to, through any stack of   *)
(* wrappers that turn exceptions into values.                              *)
(***************************************************************************)
THEOREM ResultsAreFaithful == DecSpec => []ResultFaithful
<1>1. DecInv => ResultFaithful
  BY DEF DecInv, ResultFaithful, Reported, Faithful
<1> QED
  BY <1>1, DecInvariant, PTL

\* Calls that are to exclude each other are all in one entry.
LEMMA MeetInOneEntry ==
  ASSUME DecInv, NEW p \in Proc, NEW i \in 1..depth(p),
         NEW q \in Proc, NEW j \in 1..depth(q), Keeps(q, j), Meet(p, i, q, j)
  PROVE  q \in held[Taken(p, i)]
<1>1. q \in held[Taken(q, j)]
  BY DEF DecInv, Unwound
<1>2. CASE Taken(p, i) = Taken(q, j)
  BY <1>1, <1>2
<1>3. CASE with[p][i] = with[q][j] /\ with[p][i].shared
  <2>1. with[p][i].sync = with[p][i].async
    BY <1>3 DEF DecInv, SharedIsOne, OneSpace
  <2>2. Side[p] \in {"sync", "async"} /\ Side[q] \in {"sync", "async"}
    BY DecoratorsAssumption
  <2>3. with[p][i][Side[p]] = with[q][j][Side[q]]
    BY <1>3, <2>1, <2>2
  <2>4. Taken(p, i) = Taken(q, j)
    BY <2>3 DEF Taken, entry, Meet
  <2> QED
    BY <1>1, <2>4
<1> QED
  BY <1>2, <1>3 DEF Meet

(***************************************************************************)
(* No guard lets in more calls than it allows, sync and async ones alike   *)
(* where they share a space or were promised one, for any number of        *)
(* processes.                                                              *)
(***************************************************************************)
THEOREM GuardsLimitCorrect == DecSpec => []GuardsLimit
<1>1. ASSUME DecInv
      PROVE  GuardsLimit
  <2> SUFFICES ASSUME NEW p \in Proc, NEW i \in 1..depth(p), Keeps(p, i)
               PROVE  Cardinality({q \in Proc : \E j \in 1..depth(q) :
                                     Keeps(q, j) /\ Meet(p, i, q, j)})
                        <= Limit(Stack[p][i])
    BY DEF GuardsLimit
  <2> DEFINE others == {q \in Proc : \E j \in 1..depth(q) :
                          Keeps(q, j) /\ Meet(p, i, q, j)}
             e == Taken(p, i)
  <2>1. others \subseteq held[e]
    BY <1>1, MeetInOneEntry
  <2>2. e \in Space \X Guard /\ e[2] = Stack[p][i] /\ Stack[p][i] \in Guard
    BY <1>1, TakenType DEF DecInv, Taken, entry
  <2>3. IsFiniteSet(held[e]) /\ Cardinality(held[e]) <= Limit(Stack[p][i])
    BY <1>1, <2>2 DEF DecInv, Counted
  <2>4. IsFiniteSet(others) /\ Cardinality(others) <= Cardinality(held[e])
    BY <2>1, <2>3, FS_Subset
  <2>5. /\ Cardinality(others) \in Nat /\ Cardinality(held[e]) \in Nat
        /\ Limit(Stack[p][i]) \in Nat
    BY <2>2, <2>3, <2>4, FS_CardinalityType, LimitType
  <2> QED
    BY <2>3, <2>4, <2>5
<1> QED
  BY <1>1, DecInvariant, PTL

(***************************************************************************)
(* is_locked says so while a call has a lock it has not lost, if no lock   *)
(* decorator belongs to an instance: those lock on the global client.      *)
(***************************************************************************)
THEOREM LockedWhileRunningCorrect ==
  ASSUME \A g \in Instance : Kind[g] # "lock"
  PROVE  DecSpec => []LockedWhileRunning
<1>1. ASSUME DecInv
      PROVE  LockedWhileRunning
  <2> SUFFICES ASSUME NEW p \in Proc, NEW i \in 1..depth(p),
                      Kind[Stack[p][i]] # "pooled", Keeps(p, i), ~Replaced(p, i),
                      NEW j \in 1..i
               PROVE  is_locked(p, j)
    BY DEF LockedWhileRunning
  <2> DEFINE g == Stack[p][i]
  <2>1. /\ i \in 1..Len(Stack[p]) /\ g \in Guard /\ with[p][i] \in CachifyClient
        /\ p \in held[Taken(p, i)]
    BY <1>1, TakenType DEF DecInv, Unwound
  <2>2. provider(g) # None /\ entry(p, provider(g), g) = Taken(p, i)
    <3>1. CASE g \in Instance
      <4>1. with[p][i] = local /\ provider(g) = local
        BY <1>1, <3>1 DEF DecInv, ClientsFound, provider
      <4>2. None \notin CachifyClient
        BY ClientsAssumption
      <4> QED
        BY <2>1, <4>1, <4>2 DEF Taken
    <3>2. CASE g \notin Instance
      <4>1. global # None /\ provider(g) = global
        BY <1>1, <3>2 DEF DecInv, ClientsFound, provider
      <4>2. with[p][i][Side[p]] = global[Side[p]]
        BY <3>2 DEF Replaced
      <4> QED
        BY <4>1, <4>2 DEF Taken, entry
    <3> QED
      BY <3>1, <3>2
  <2>3. held[entry(p, provider(g), g)] # {}
    BY <2>1, <2>2
  <2>4. i \in j..Len(Stack[p])
    BY <2>1
  <2> QED
    BY <2>2, <2>3, <2>4 DEF is_locked
<1> QED
  BY <1>1, DecInvariant, PTL
-----------------------------------------------------------------------------
(* The contract of the guards, at every key.                                *)

LEMMA InsideIs ==
  ASSUME DecTypeOK, NEW e \in Space \X Guard, NEW q \in Proc
  PROVE  q \in Inside(e) <=> \E i \in 1..depth(q) : Taken(q, i) = e
<1>1. DOMAIN with[q] = 1..depth(q)
  BY DEF DecTypeOK, depth
<1>2. \A i \in 1..depth(q) :
        Taken(q, i) = e <=> Stack[q][i] = e[2] /\ with[q][i][Side[q]] = e[1]
  BY DEF Taken, entry
<1> QED
  BY <1>1, <1>2 DEF Inside

LEMMA InsideWillBe ==
  ASSUME DecTypeOK', NEW e \in Space \X Guard, NEW q \in Proc
  PROVE  q \in Inside(e)' <=> \E i \in 1..depth(q)' : Taken(q, i)' = e
<1>1. DOMAIN with'[q] = 1..depth(q)'
  BY DEF DecTypeOK, depth
<1>2. \A i \in 1..depth(q)' :
        Taken(q, i)' = e <=> Stack[q][i] = e[2] /\ with'[q][i][Side[q]] = e[1]
  BY DEF Taken, entry
<1> QED
  BY <1>1, <1>2 DEF Inside

LEMMA LeftInside ==
  ASSUME DecTypeOK, DecTypeOK', NEW p \in Proc, Left({p}), NEW e \in Space \X Guard
  PROVE  /\ Inside(e)' \subseteq Inside(e)
         /\ Taken(p, depth(p)) = e => Inside(e)' = Inside(e) \ {p}
<1>1. Inside(e) \subseteq Proc /\ Inside(e)' \subseteq Proc
  BY DEF Inside
<1>2. ASSUME NEW q \in Proc, q \in Inside(e)'
      PROVE  q \in Inside(e) /\ (Taken(p, depth(p)) = e => q # p)
  <2>1. PICK i \in 1..depth(q)' : Taken(q, i)' = e
    BY <1>2, InsideWillBe
  <2>2. /\ i \in 1..depth(q) /\ (q \in {p} => i # depth(q))
        /\ Taken(q, i) = e
    BY <2>1, LeftTaken
  <2>3. depth(p) \in 1..depth(p)
    BY DEF Left, DecTypeOK, depth
  <2> QED
    BY <2>2, <2>3, InsideIs, TakenOnce
<1>3. ASSUME NEW q \in Proc, q # p, q \in Inside(e)
      PROVE  q \in Inside(e)'
  <2>1. PICK i \in 1..depth(q) : Taken(q, i) = e
    BY <1>3, InsideIs
  <2>2. i \in 1..depth(q)'
    BY <1>3 DEF Left
  <2>3. Taken(q, i)' = e
    BY <2>1, <2>2, LeftTaken
  <2> QED
    BY <2>2, <2>3, InsideWillBe
<1> QED
  BY <1>1, <1>2, <1>3

\* Four ways to obey.
LEMMA LessObeys ==
  ASSUME NEW e, Inside(e)' \subseteq Inside(e), held'[e] \subseteq held[e]
  PROVE  Use(e)!Next
BY DEF Use!Next, Use!Less

LEMMA EnterObeys ==
  ASSUME NEW e, NEW p, p \notin Inside(e) \cup held[e],
         Cardinality(held[e]) < Limit(e[2]),
         Inside(e)' = Inside(e) \cup {p}, held'[e] = held[e] \cup {p}
  PROVE  Use(e)!Next
<1>1. Use(e)!Room
  BY DEF Use!Room, Use!Cardinality, Cardinality
<1>2. Use(e)!Enter(p)
  BY <1>1 DEF Use!Enter
<1> QED
  BY <1>2 DEF Use!Next

LEMMA StrandObeys ==
  ASSUME NEW e, NEW x, x \notin Inside(e) \cup held[e],
         Cardinality(held[e]) < Limit(e[2]),
         Inside(e)' = Inside(e), held'[e] = held[e] \cup {x}
  PROVE  Use(e)!Next
<1>1. Use(e)!Room
  BY DEF Use!Room, Use!Cardinality, Cardinality
<1>2. Use(e)!Strand(x)
  BY <1>1 DEF Use!Strand
<1> QED
  BY <1>2 DEF Use!Next

LEMMA DisownObeys ==
  ASSUME NEW e, NEW p \in held[e], NEW x, x \notin Inside(e) \cup held[e],
         Inside(e)' = Inside(e) \ {p}, held'[e] = (held[e] \ {p}) \cup {x}
  PROVE  Use(e)!Next
<1>1. Use(e)!Disown(p, x)
  BY DEF Use!Disown
<1> QED
  BY <1>1 DEF Use!Next

\* Nobody is inside a wrapper anew or no more.
LEMMA SameInside ==
  ASSUME UNCHANGED with, NEW e
  PROVE  Inside(e)' = Inside(e)
BY DEF Inside

\* An abandoned entry is disowned.
LEMMA AbandonedObeys ==
  ASSUME NEW e \in Space \X Guard, NEW p \in Proc, NEW x \in Ghosts,
         p \in held[e] => x \notin held[e],
         Inside(e)' = Inside(e) \ {p}, held'[e] = Abandoned(p, held[e], x)
  PROVE  Use(e)!Next
<1>1. CASE p \in held[e]
  <2>1. x \notin Inside(e) \cup held[e]
    BY <1>1, DecoratorsAssumption DEF Inside
  <2>2. held'[e] = (held[e] \ {p}) \cup {x}
    BY <1>1 DEF Abandoned
  <2> QED
    BY <1>1, <2>1, <2>2, DisownObeys
<1>2. CASE p \notin held[e]
  BY <1>2, LessObeys DEF Abandoned
<1> QED
  BY <1>1, <1>2

\* Whoever is about to enter a wrapper has no entry there.
LEMMA EntersAfresh ==
  ASSUME DecTypeOK, Placed, Unwound, UNCHANGED lost,
         NEW p \in Proc, pc[p] = "enter", NEW c, Enters(p, c)
  PROVE  p \notin held[entry(p, c, Coming(p))]
<1>1. PICK n : n = depth(p) + 1
  OBVIOUS
<1>2. PICK e : e = entry(p, c, Coming(p))
  OBVIOUS
<1>3. e \in Space \X Guard /\ \A i \in 1..depth(p) : Taken(p, i) # e
  BY <1>1, <1>2, EntersTaken
<1> QED
  BY <1>2, <1>3 DEF Unwound

LEMMA EnterGuardObeys ==
  ASSUME DecInv, DecTypeOK', NEW p \in Proc, EnterGuard(p),
         NEW e \in Space \X Guard
  PROVE  Use(e)!Next
<1>1. DecTypeOK /\ Placed /\ Unwound /\ Counted /\ CallsOK /\ ClientsTypeOK
  BY CallsAreOK DEF DecInv, DecTypeOK
<1>2. pc[p] = "enter" /\ UNCHANGED <<lost>>
  BY DEF EnterGuard, Entering
<1>3. PICK c : Enters(p, c)
  BY <1>1, EnterGuardEnters
<1>4. PICK f, n : f = entry(p, c, Coming(p)) /\ n = depth(p) + 1
  OBVIOUS
<1>5. /\ \A q \in Proc : depth(q)' = IF q = p THEN depth(q) + 1 ELSE depth(q)
      /\ \A q \in Proc : \A i \in 1..depth(q) : Taken(q, i)' = Taken(q, i)
      /\ depth(p) \in Nat /\ Taken(p, n)' = f /\ f \in Space \X Guard
      /\ \A i \in 1..depth(p) : Taken(p, i) # f
  BY <1>1, <1>2, <1>3, <1>4, EntersTaken
<1>6. ASSUME NEW q \in Proc
      PROVE  q \in Inside(e)' <=> q \in Inside(e) \/ (q = p /\ e = f)
  <2>1. CASE q # p
    BY <2>1, <1>1, <1>5, InsideIs, InsideWillBe
  <2>2. CASE q = p
    <3>1. \A i : i \in 1..depth(p)' <=> i \in 1..depth(p) \/ i = n
      BY <1>4, <1>5
    <3>2. p \in Inside(e)' <=> (\E i \in 1..depth(p)' : Taken(p, i)' = e)
      BY InsideWillBe
    <3>3. p \in Inside(e) <=> \E i \in 1..depth(p) : Taken(p, i) = e
      BY <1>1, InsideIs
    <3> QED
      BY <2>2, <3>1, <3>2, <3>3, <1>5
  <2> QED
    BY <2>1, <2>2
<1>7. Inside(e) \subseteq Proc /\ Inside(e)' \subseteq Proc
  BY DEF Inside
<1>8. held' = [held EXCEPT ![f] = @ \cup {p}] /\ Room(p, c)
  BY <1>3, <1>4 DEF Enters
<1>9. CASE e # f
  <2>1. held'[e] = held[e]
    BY <1>1, <1>8, <1>9 DEF DecTypeOK
  <2> QED
    BY <2>1, <1>6, <1>7, <1>9, LessObeys
<1>10. CASE e = f
  <2>1. held'[e] = held[e] \cup {p}
    BY <1>1, <1>8, <1>10 DEF DecTypeOK
  <2>2. p \notin held[e]
    BY <1>1, <1>2, <1>3, <1>4, <1>10, EntersAfresh
  <2>3. p \notin Inside(e)
    BY <1>1, <1>5, <1>10, InsideIs
  <2>4. Cardinality(held[e]) < Limit(e[2])
    BY <1>4, <1>8, <1>10 DEF Room, entry
  <2>5. Inside(e)' = Inside(e) \cup {p}
    BY <1>6, <1>7, <1>10
  <2> QED
    BY <2>1, <2>2, <2>3, <2>4, <2>5, EnterObeys
<1> QED
  BY <1>9, <1>10

LEMMA EnterFailsObeys ==
  ASSUME DecInv, NEW p \in Proc, EnterFails(p), NEW e \in Space \X Guard
  PROVE  Use(e)!Next
<1>1. DecTypeOK /\ CallsOK /\ ClientsTypeOK
  BY CallsAreOK DEF DecInv, DecTypeOK
<1>2. Inside(e)' = Inside(e)
  <2>1. depth(p) = Len(with[p]) /\ \E o : Unwind(p, depth(p), o)
    BY DEF EnterFails, depth
  <2>2. UNCHANGED with
    BY <2>1, <1>1, UnwindStays
  <2> QED
    BY <2>2, SameInside
<1>3. CASE UNCHANGED held
  BY <1>2, <1>3, LessObeys
<1>4. CASE ~UNCHANGED held
  <2>1. PICK c \in {global, local}, x \in Ghosts :
          /\ Entering(p, c) /\ Room(p, c)
          /\ x \notin held[entry(p, c, Coming(p))]
          /\ held' = [held EXCEPT ![entry(p, c, Coming(p))] = @ \cup {x}]
    BY <1>4 DEF EnterFails
  <2>2. CASE e = entry(p, c, Coming(p))
    <3>1. Cardinality(held[e]) < Limit(e[2])
      BY <2>1, <2>2 DEF Room, entry
    <3>2. x \notin Inside(e) \cup held[e]
      BY <2>1, <2>2, DecoratorsAssumption DEF Inside
    <3>3. held'[e] = held[e] \cup {x}
      BY <1>1, <2>1, <2>2 DEF DecTypeOK
    <3> QED
      BY <1>2, <3>1, <3>2, <3>3, StrandObeys
  <2>3. CASE e # entry(p, c, Coming(p))
    <3>1. held'[e] = held[e]
      BY <1>1, <2>1, <2>3 DEF DecTypeOK
    <3> QED
      BY <1>2, <3>1, LessObeys
  <2> QED
    BY <2>2, <2>3
<1> QED
  BY <1>3, <1>4

LEMMA ExitGuardObeys ==
  ASSUME DecInv, DecTypeOK', NEW p \in Proc, ExitGuard(p), NEW e \in Space \X Guard
  PROVE  Use(e)!Next
<1>1. DecTypeOK /\ ClientsFound /\ Left({p})
  BY ExitGuardExits DEF Exits, DecInv
<1>2. PICK mine : mine = Taken(p, depth(p))
  OBVIOUS
<1>3. Inside(e)' \subseteq Inside(e) /\ (e = mine => Inside(e)' = Inside(e) \ {p})
  BY <1>1, <1>2, LeftInside
<1>41. PICK f, S, x : ExitHeld(p, f, S, x)
  BY <1>1, ExitGuardHeld
<1>4. /\ held'[e] = IF e = f THEN held[e] \ S
                    ELSE IF e = mine THEN Abandoned(p, held[e], x)
                    ELSE held[e]
      /\ x \in Ghosts /\ (f # mine /\ p \in held[mine] => x \notin held[mine])
  BY <1>2, <1>41 DEF ExitHeld
<1>5. CASE e # f /\ e = mine
  BY <1>3, <1>4, <1>5, AbandonedObeys
<1>6. CASE ~(e # f /\ e = mine)
  BY <1>3, <1>4, <1>6, LessObeys
<1> QED
  BY <1>5, <1>6

LEMMA ExitFailsObeys ==
  ASSUME DecInv, DecTypeOK', NEW p \in Proc, ExitFails(p), NEW e \in Space \X Guard
  PROVE  Use(e)!Next
<1>1. PICK f : f = Taken(p, depth(p))
  OBVIOUS
<1>2. PICK x \in Spare(p, {f}) : held' = [held EXCEPT ![f] = Abandoned(p, @, x)]
  BY <1>1 DEF ExitFails
<1>3. DecTypeOK /\ Left({p})
  BY ExitFailsExits DEF Exits, DecInv
<1>4. Inside(e)' \subseteq Inside(e) /\ (e = f => Inside(e)' = Inside(e) \ {p})
  BY <1>1, <1>3, LeftInside
<1>5. held'[e] = IF e = f THEN Abandoned(p, held[e], x) ELSE held[e]
  BY <1>2, <1>3 DEF DecTypeOK
<1>6. x \in Ghosts /\ (p \in held[f] => x \notin held[f])
  BY <1>2 DEF Spare
<1> QED
  BY <1>3, <1>4, <1>5, <1>6, AbandonedObeys, LessObeys

LEMMA DieObeys ==
  ASSUME DecInv, DecTypeOK', NEW p \in Proc, Die(p), NEW e \in Space \X Guard
  PROVE  Use(e)!Next
<1>1. DecTypeOK /\ Unwound /\ CallsOK
  BY CallsAreOK DEF DecInv
<1>2. PICK x \in Spare(p, Taking(p)) :
        held' = [f \in Space \X Guard |-> Abandoned(p, held[f], x)]
  BY DEF Die
<1>3. depth(p)' = 0 /\ \A q \in Proc \ {p} : with'[q] = with[q]
  BY <1>1, DieCalls
<1>4. p \notin Inside(e)'
  BY <1>3, InsideWillBe
<1>5. Inside(e)' = Inside(e) \ {p}
  BY <1>3, <1>4 DEF Inside
<1>6. held'[e] = Abandoned(p, held[e], x)
  BY <1>2
<1>7. x \in Ghosts /\ (p \in held[e] => x \notin held[e])
  BY <1>1 DEF Spare, Taking, Unwound
<1> QED
  BY <1>5, <1>6, <1>7, AbandonedObeys

LEMMA ReleaseObeys ==
  ASSUME DecInv, NEW f \in Space \X Guard, NEW S, Release(f, S), NEW e \in Space \X Guard
  PROVE  Use(e)!Next
<1>1. Inside(e)' = Inside(e)
  BY SameInside DEF Release, callVars
<1>2. held'[e] \subseteq held[e]
  BY DEF Release, DecInv, DecTypeOK
<1> QED
  BY <1>1, <1>2, LessObeys

LEMMA GuardsStep ==
  ASSUME DecInv, DecTypeOK', DecNext
  PROVE  UNCHANGED <<held, with>> \/ \A e \in Space \X Guard : Use(e)!Next
<1> DEFINE Obeys == \A e \in Space \X Guard : Use(e)!Next
<1>1. ASSUME NEW p \in Proc, Call(p) \/ RunBody(p)
      PROVE  UNCHANGED <<held, with>>
  BY <1>1 DEF Call, RunBody
<1>2. ASSUME NEW p \in Proc, RefuseGuard(p)
      PROVE  UNCHANGED <<held, with>>
  <2>1. UNCHANGED held /\ depth(p) = Len(with[p]) /\ \E o : Unwind(p, depth(p), o)
    BY <1>2 DEF RefuseGuard, depth
  <2> QED
    BY <2>1, CallsAreOK, UnwindStays DEF DecInv
<1>3. ASSUME NEW p \in Proc,
             EnterGuard(p) \/ EnterFails(p) \/ ExitGuard(p) \/ ExitFails(p) \/ Die(p)
      PROVE  Obeys
  BY <1>3, EnterGuardObeys, EnterFailsObeys, ExitGuardObeys, ExitFailsObeys, DieObeys
<1>4. ASSUME NEW g \in Guard, Expire(g) \/ \E p \in Proc : ForceRelease(g, p)
      PROVE  Obeys
  <2>1. CASE Expire(g)
    BY <2>1, ReleaseObeys DEF Expire
  <2>2. CASE \E p \in Proc : ForceRelease(g, p)
    BY <2>2, ForceReleaseReleases, ReleaseObeys DEF DecInv, DecTypeOK
  <2> QED
    BY <1>4, <2>1, <2>2
<1>5. CASE ReplaceGlobal
  BY <1>5 DEF ReplaceGlobal, callVars
<1> QED
  BY <1>1, <1>2, <1>3, <1>4, <1>5 DEF DecNext, Step

(***************************************************************************)
(* Every step of every stack is, at every key, one that Guarded.tla        *)
(* allows: nobody enters a wrapper unless there is room, and nothing else  *)
(* adds an entry or a user.                                                *)
(***************************************************************************)
THEOREM StacksObeyGuards == DecSpec => ObeysGuards
<1>1. DecInit => \A e \in Space \X Guard : Use(e)!Init
  BY DEF DecInit, Inside, Use!Init
<1>2. DecInv /\ DecInv' /\ [DecNext]_vars =>
        [\/ UNCHANGED <<held, with>>
         \/ \A e \in Space \X Guard : [Use(e)!Next]_(Use(e)!vars)]_vars
  BY GuardsStep DEF DecInv
<1> QED
  BY <1>1, <1>2, DecInvariant, PTL DEF DecSpec, ObeysGuards
-----------------------------------------------------------------------------
(* Users as the docs want them: leases end and f.release() is called only   *)
(* for entries of nobody inside, and init_cachify is not called with another *)
(* space while an entry of an unbound lock or pool is held.                  *)

\* Unbound locks and pools are where client c has them.
FoundWith(c) ==
  \A p \in Proc : \A i \in 1..depth(p) :
    unbound(Stack[p][i]) => entry(p, c, Stack[p][i]) = Taken(p, i)

Timely ==
  /\ (\E g \in Guard : Expire(g) \/ \E p \in Proc : ForceRelease(g, p)) =>
       \A e \in Space \X Guard : held[e] \cap Proc \subseteq held'[e]
  /\ ReplaceGlobal => FoundWith(global')

TimelyDecSpec == DecInit /\ [][DecNext /\ Timely]_vars

\* Nobody has lost an entry.
Intact == \A p \in Proc : lost[p] = {}

Found == FoundWith(global)

LEMMA FoundStep ==
  ASSUME DecInv, Found, [DecNext /\ Timely]_vars
  PROVE  Found'
<1>1. CASE ReplaceGlobal /\ Timely
  <2>1. FoundWith(global') /\ with' = with
    BY <1>1 DEF Timely, ReplaceGlobal, callVars
  <2> QED
    BY <2>1 DEF Found, FoundWith, Taken, entry, depth
<1>2. CASE DecNext /\ ~ReplaceGlobal
  <2>1. global' = global
    BY <1>2 DEF DecNext, Step, Call, EnterGuard, RefuseGuard, EnterFails, RunBody,
       ExitGuard, ExitFails, Die, ForceRelease, Expire, Release, clientVars
  <2>2. EnteredBefore
    BY <1>2, StepEnteredBefore
  <2> SUFFICES ASSUME NEW p \in Proc, NEW i \in 1..depth(p)', unbound(Stack[p][i])
               PROVE  entry(p, global, Stack[p][i]) = Taken(p, i)'
    BY <2>1 DEF Found, FoundWith, entry
  <2>3. CASE i \in 1..depth(p) /\ with'[p][i] = with[p][i]
    BY <2>3 DEF Found, FoundWith, Taken, entry
  <2>4. CASE with'[p][i] = enters(Stack[p][i])
    <3>1. enters(Stack[p][i]) = global
      BY DecoratorsAssumption DEF unbound, enters, provider
    <3> QED
      BY <2>4, <3>1 DEF Taken, entry
  <2> QED
    BY <2>2, <2>3, <2>4 DEF EnteredBefore
<1>3. CASE UNCHANGED vars
  BY <1>3 DEF Found, FoundWith, Taken, entry, depth, vars, clientVars, callVars
<1> QED
  BY <1>1, <1>2, <1>3

\* An exit then finds the entry.
LEMMA FoundAtExit ==
  ASSUME DecInv, Found, NEW p \in Proc, pc[p] = "exit"
  PROVE  entry(p, leaves(p), Top(p)) = Taken(p, depth(p))
<1>1. /\ depth(p) \in 1..depth(p) /\ Top(p) = Stack[p][depth(p)]
      /\ ~unbound(Top(p)) => entry(p, leaves(p), Top(p)) = Taken(p, depth(p))
  BY LeavesType DEF DecInv
<1>2. unbound(Top(p)) => leaves(p) = global
  BY DEF leaves
<1> QED
  BY <1>1, <1>2 DEF Found, FoundWith

\* It stays so if an entry goes with the wrapper it belongs to.
LEMMA GoneIntact ==
  ASSUME Intact, NEW e, NEW S, NEW L, Gone(e, S, L),
         \A q \in Proc : q \in S => q \in L /\ e = Taken(q, depth(q))
  PROVE  Intact'
BY DEF Intact, Gone

LEMMA ReleaseIntact ==
  ASSUME DecTypeOK, Intact, NEW e \in Space \X Guard, NEW S \in SUBSET held[e],
         Release(e, S),
         \A f \in Space \X Guard : held[f] \cap Proc \subseteq held'[f]
  PROVE  Intact'
<1>1. held'[e] = held[e] \ S /\ Gone(e, S, {})
  BY DEF Release, DecTypeOK
<1>2. \A q \in Proc : q \notin S
  BY <1>1
<1> QED
  BY <1>1, <1>2, GoneIntact

LEMMA ExitIntact ==
  ASSUME DecInv, Intact, Found, NEW p \in Proc, ExitGuard(p)
  PROVE  Intact'
<1>1. PICK i, e : i = depth(p) /\ e = entry(p, leaves(p), Top(p))
  OBVIOUS
<1>2. PICK S : S = IF Kind[Top(p)] = "pooled" THEN {p} ELSE held[e]
  OBVIOUS
<1>3. Gone(e, S, {p}) /\ pc[p] = "exit"
  BY <1>1, <1>2 DEF ExitGuard
<1>4. i \in 1..depth(p) /\ Top(p) = Stack[p][i] /\ Top(p) \in Guard
  BY <1>1, <1>3, LeavesType DEF DecInv
<1>5. Keeps(p, i)
  BY <1>4 DEF Keeps, Intact
<1>6. e = Taken(p, i)
  BY <1>1, <1>3, FoundAtExit
<1>7. \A q \in Proc : q \in S => q = p
  <2>1. CASE Kind[Top(p)] = "pooled"
    BY <2>1, <1>2
  <2>2. CASE Kind[Top(p)] # "pooled"
    <3>1. e \in Space \X Guard /\ e[2] = Top(p)
      BY <1>4, <1>6, TakenType DEF DecInv, Taken, entry
    <3>2. IsFiniteSet(held[e]) /\ Cardinality(held[e]) <= 1
      BY <2>2, <3>1 DEF DecInv, Counted, Limit
    <3>3. p \in held[e]
      BY <1>4, <1>5, <1>6 DEF DecInv, Unwound
    <3>4. \A q \in held[e] : q = p
      <4> SUFFICES ASSUME NEW q \in held[e], q # p
                   PROVE  FALSE
        OBVIOUS
      <4>1. IsFiniteSet({p, q}) /\ Cardinality({p, q}) <= Cardinality(held[e])
        BY <3>2, <3>3, FS_Subset
      <4>2. IsFiniteSet({p}) /\ Cardinality({p}) = 1
        BY FS_Singleton
      <4>3. Cardinality({p} \cup {q}) = 2
        BY <4>2, FS_AddElement
      <4>4. {p, q} = {p} \cup {q}
        OBVIOUS
      <4>5. Cardinality(held[e]) \in Nat
        BY <3>2, FS_CardinalityType
      <4> QED
        BY <3>2, <4>1, <4>3, <4>4, <4>5
    <3> QED
      BY <2>2, <3>4, <1>2
  <2> QED
    BY <2>1, <2>2
<1> QED
  BY <1>1, <1>3, <1>6, <1>7, GoneIntact

LEMMA IntactStep ==
  ASSUME DecInv, Intact, Found, [DecNext /\ Timely]_vars
  PROVE  Intact'
<1>1. UNCHANGED lost => Intact'
  BY DEF Intact
<1>2. ASSUME NEW p \in Proc,
             Call(p) \/ EnterGuard(p) \/ RefuseGuard(p) \/ EnterFails(p) \/ RunBody(p)
      PROVE  Intact'
  BY <1>1, <1>2 DEF Call, EnterGuard, RefuseGuard, EnterFails, RunBody
<1>3. ASSUME NEW p \in Proc, ExitFails(p)
      PROVE  Intact'
  <2>1. Gone(Taken(p, depth(p)), {p}, {p})
    BY <1>3 DEF ExitFails
  <2> QED
    BY <2>1, GoneIntact
<1>4. ASSUME NEW p \in Proc, Die(p)
      PROVE  Intact'
  BY <1>4 DEF Die, Intact, DecInv, DecTypeOK
<1>5. ASSUME NEW g \in Guard, Expire(g) \/ \E p \in Proc : ForceRelease(g, p), Timely
      PROVE  Intact'
  <2>1. \A f \in Space \X Guard : held[f] \cap Proc \subseteq held'[f]
    BY <1>5 DEF Timely
  <2>2. CASE Expire(g)
    <3>1. PICK s \in Space : \E q \in held[s, g] : Release(<<s, g>>, {q})
      BY <2>2 DEF Expire
    <3>2. PICK q \in held[<<s, g>>] : Release(<<s, g>>, {q})
      BY <3>1
    <3> QED
      BY <2>1, <3>2, ReleaseIntact DEF DecInv
  <2>3. CASE \E p \in Proc : ForceRelease(g, p)
    <3>1. PICK p \in Proc : ForceRelease(g, p)
      BY <2>3
    <3>2. entry(p, provider(g), g) \in Space \X Guard
      BY <3>1, EntryType DEF ForceRelease, provider, ClientsTypeOK, DecInv, DecTypeOK
    <3> QED
      BY <2>1, <3>1, <3>2, ReleaseIntact DEF DecInv, ForceRelease
  <2> QED
    BY <1>5, <2>2, <2>3
<1>6. ReplaceGlobal => Intact'
  BY <1>1 DEF ReplaceGlobal
<1> QED
  BY <1>1, <1>2, <1>3, <1>4, <1>5, <1>6, ExitIntact DEF DecNext, Step, vars

LEMMA TimelyInvariant == TimelyDecSpec => [](DecInv /\ Intact /\ Found)
<1>1. TimelyDecSpec => DecSpec
  BY PTL DEF TimelyDecSpec, DecSpec
<1>2. DecInit => Intact /\ Found
  <2>1. DecInit => \A p \in Proc : 1..depth(p) = {}
    BY DEF DecInit, depth
  <2> QED
    BY <2>1 DEF DecInit, Intact, Found, FoundWith
<1>3. DecInv /\ Intact /\ Found /\ [DecNext /\ Timely]_vars => Intact' /\ Found'
  BY IntactStep, FoundStep
<1> QED
  BY <1>1, <1>2, <1>3, DecInvariant, PTL DEF TimelyDecSpec

(***************************************************************************)
(* With such users the limits hold without a proviso, however calls fail,  *)
(* are refused or die: at every key exactly those inside a wrapper have an *)
(* entry that is still somebody's, and there are never more than the guard *)
(* allows.                                                                 *)
(***************************************************************************)
THEOREM TimelyStacksKeepLimits ==
  TimelyDecSpec =>
    [](\A e \in Space \X Guard :
         held[e] \cap Proc = Inside(e) /\ Cardinality(Inside(e)) <= Limit(e[2]))
<1>1. ASSUME DecInv, Intact, NEW e \in Space \X Guard
      PROVE  held[e] \cap Proc = Inside(e) /\ Cardinality(Inside(e)) <= Limit(e[2])
  <2>1. DecTypeOK /\ Unwound /\ Counted
    BY <1>1 DEF DecInv
  <2>2. ASSUME NEW q \in Proc
        PROVE  q \in held[e] <=> q \in Inside(e)
    <3>1. q \in Inside(e) <=> \E i \in 1..depth(q) : Taken(q, i) = e
      BY <2>1, InsideIs
    <3>2. \A i \in 1..depth(q) : Keeps(q, i)
      BY <1>1 DEF Intact, Keeps
    <3>3. q \in held[e] => \E i \in 1..depth(q) : Taken(q, i) = e
      BY <2>1 DEF Unwound
    <3>4. (\E i \in 1..depth(q) : Taken(q, i) = e) => q \in held[e]
      BY <2>1, <3>2 DEF Unwound
    <3> QED
      BY <3>1, <3>3, <3>4
  <2>3. held[e] \cap Proc = Inside(e)
    BY <2>2 DEF Inside
  <2>4. IsFiniteSet(held[e]) /\ Cardinality(held[e]) <= Limit(e[2])
    BY <2>1 DEF Counted
  <2>5. IsFiniteSet(Inside(e)) /\ Cardinality(Inside(e)) <= Cardinality(held[e])
    BY <2>3, <2>4, FS_Subset
  <2>6. Limit(e[2]) \in Nat
    BY LimitType
  <2> QED
    BY <2>3, <2>4, <2>5, <2>6, FS_CardinalityType
<1>2. DecInv /\ Intact /\ Found =>
        \A e \in Space \X Guard :
          held[e] \cap Proc = Inside(e) /\ Cardinality(Inside(e)) <= Limit(e[2])
  BY <1>1
<1> QED
  BY <1>2, TimelyInvariant, PTL

\* An entry becomes nobody's.
Stranding == \E e \in Space \X Guard : ~(held'[e] \cap Ghosts \subseteq held[e])

(***************************************************************************)
(* And no exit of a wrapper then leaves its entry behind, were it refused  *)
(* half way down or left by an exception: only a death or a failing        *)
(* backend (or a meta-lock that is not free in time) does.                 *)
(***************************************************************************)
THEOREM TimelyExitsStrandNothing ==
  TimelyDecSpec =>
    [][Stranding => \E p \in Proc : EnterFails(p) \/ ExitFails(p) \/ Die(p)]_vars
<1>1. (\A e \in Space \X Guard : held'[e] \cap Ghosts \subseteq held[e]) => ~Stranding
  BY DEF Stranding
<1>2. UNCHANGED held => ~Stranding
  BY <1>1
<1>3. ASSUME DecInv, NEW p \in Proc,
             Call(p) \/ RunBody(p) \/ RefuseGuard(p)
      PROVE  ~Stranding
  BY <1>2, <1>3 DEF Call, RunBody, RefuseGuard
<1>4. ASSUME DecInv, NEW p \in Proc, EnterGuard(p)
      PROVE  ~Stranding
  <2>1. PICK e : held' = [held EXCEPT ![e] = @ \cup {p}]
    BY <1>4 DEF EnterGuard
  <2>2. p \notin Ghosts
    BY DecoratorsAssumption
  <2> QED
    BY <1>1, <1>4, <2>1, <2>2 DEF DecInv, DecTypeOK
<1>5. ASSUME DecInv, Found, NEW p \in Proc, ExitGuard(p)
      PROVE  ~Stranding
  <2>1. PICK e, S, x : ExitHeld(p, e, S, x)
    BY <1>5, ExitGuardHeld DEF DecInv
  <2>2. e = Taken(p, depth(p))
    BY <1>5, <2>1, FoundAtExit DEF ExitGuard, ExitHeld
  <2> QED
    BY <1>1, <2>1, <2>2 DEF ExitHeld
<1>6. ASSUME DecInv, NEW g \in Guard, Expire(g) \/ \E p \in Proc : ForceRelease(g, p)
      PROVE  ~Stranding
  <2>1. PICK e, S : held' = [held EXCEPT ![e] = @ \ S]
    BY <1>6 DEF Expire, ForceRelease, Release
  <2> QED
    BY <1>1, <1>6, <2>1 DEF DecInv, DecTypeOK
<1>7. ReplaceGlobal => ~Stranding
  BY <1>2 DEF ReplaceGlobal
<1>8. DecInv /\ Found /\ [DecNext /\ Timely]_vars =>
        [Stranding => \E p \in Proc : EnterFails(p) \/ ExitFails(p) \/ Die(p)]_vars
  BY <1>3, <1>4, <1>5, <1>6, <1>7 DEF DecNext, Step
<1> QED
  BY <1>8, TimelyInvariant, PTL DEF TimelyDecSpec
=============================================================================
