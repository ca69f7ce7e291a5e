----------------------------- MODULE PmQosProofs ----------------------------
(***************************************************************************)
(* For any processes, clients, files, watchers, classes and values: the    *)
(* types of PmQos, that a target is current or about to be recomputed, and *)
(* that a requirement counts for as long as its client or file is open.    *)
(***************************************************************************)
EXTENDS PmQos, WellFoundedInduction, TLAPS

(***************************************************************************)
(* The fold.  ExtremeValue(c, list) is by definition the last value of a   *)
(* recursive function; that the function exists, and that its values are   *)
(* extremes, is shown by the least index at which it would not be so.      *)
(***************************************************************************)
\* The order of the naturals is well founded, as a relation.
LEMMA LessThanWellFounded ==
  IsWellFoundedOn({p \in Nat \X Nat : p[1] < p[2]}, Nat)
BY NatLessThanWellFounded DEF OpToRel

\* A nonempty set of naturals has a least element.
LEMMA LeastNat ==
  ASSUME NEW S \in SUBSET Nat, S # {}
  PROVE  \E n \in S : \A m \in S : n <= m
<1>. DEFINE R == {p \in Nat \X Nat : p[1] < p[2]}
<1>1. IsWellFoundedOn(R, Nat)
  BY LessThanWellFounded
<1>. HIDE DEF R
<1>2. PICK n \in S : \A m \in S : ~(<<m, n>> \in R)
  BY <1>1, WFMin
<1>3. \A m \in S : ~(m < n)
  BY <1>2 DEF R
<1>. QED
  BY <1>2, <1>3

\* Extremes(c, list) satisfies the recursion that defines it.
LEMMA ExtremesEquation ==
  ASSUME NEW c \in Classes, NEW list \in Seq(Requirement)
  PROVE  Extremes(c, list) =
           [i \in 0..Len(list) |->
              IF i = 0 THEN Default[c]
              ELSE Comparitor(c, Extremes(c, list)[i - 1], list[i].value)]
<1>. DEFINE Solves(f, n) ==
              f = [i \in 0..n |-> IF i = 0 THEN Default[c]
                                  ELSE Comparitor(c, f[i - 1], list[i].value)]
            unsolved == {n \in 0..Len(list) : ~\E f : Solves(f, n)}
<1>1. Len(list) \in Nat
  OBVIOUS
<1>2. unsolved = {}
  <2>1. SUFFICES ASSUME unsolved # {} PROVE FALSE
    OBVIOUS
  <2>. unsolved \in SUBSET Nat
    BY <1>1
  <2>. HIDE DEF unsolved
  <2>2. PICK n \in unsolved : \A m \in unsolved : n <= m
    BY <2>1, LeastNat
  <2>. USE DEF unsolved
  <2>3. n \in 0..Len(list) /\ ~\E f : Solves(f, n)
    BY <2>2
  <2>4. CASE n = 0
    <3>1. Solves([i \in 0..0 |-> Default[c]], 0)
      OBVIOUS
    <3>. QED
      BY <2>3, <2>4, <3>1
  <2>5. CASE n # 0
    <3>1. n - 1 \in 0..Len(list) /\ ~(n <= n - 1)
      BY <1>1, <2>3, <2>5
    <3>6. n - 1 \notin unsolved
      <4>. HIDE DEF unsolved
      <4>. QED
        BY <2>2, <3>1
    <3>2. PICK g : Solves(g, n - 1)
      BY <3>1, <3>6
    <3>. DEFINE f == [i \in 0..n |-> IF i = n THEN Comparitor(c, g[n - 1], list[n].value)
                                     ELSE g[i]]
    <3>3. \A i \in 0..n : f[i] = IF i = 0 THEN Default[c]
                                 ELSE Comparitor(c, f[i - 1], list[i].value)
      BY <2>3, <2>5, <3>2
    <3>4. Solves(f, n)
      BY <3>3
    <3>. QED
      BY <2>3, <3>4
  <2>. QED
    BY <2>4, <2>5
<1>3. \E f : Solves(f, Len(list))
  BY <1>1, <1>2
<1>. QED
  BY <1>3 DEF Extremes

\* Comparing the extreme of a set with one more value gives the extreme of
\* the set with that value.
LEMMA ComparitorIsExtreme ==
  ASSUME NEW c \in Classes, NEW S \in SUBSET Int, NEW e \in Int, NEW v \in Int,
         IsExtreme(c, e, S)
  PROVE  /\ Comparitor(c, e, v) \in Int
         /\ IsExtreme(c, Comparitor(c, e, v), S \cup {v})
<1>1. Default[c] \in Int
  BY PmQosAssumption
<1>2. CASE c \in Minimized
  BY <1>1, <1>2 DEF IsExtreme, Comparitor
<1>3. CASE c \notin Minimized
  BY <1>1, <1>3 DEF IsExtreme, Comparitor
<1>. QED
  BY <1>2, <1>3

\* ExtremeValue(c, list) is an integer, and the extreme of the default and
\* the values in the list.
LEMMA ExtremeValueIsExtreme ==
  ASSUME NEW c \in Classes, NEW list \in Seq(Requirement)
  PROVE  /\ ExtremeValue(c, list) \in Int
         /\ IsExtreme(c, ExtremeValue(c, list), ValuesOf(list))
<1>. DEFINE e == Extremes(c, list)
            upTo(n) == {list[i].value : i \in 1..n}
            wrong == {n \in 0..Len(list) :
                        ~(e[n] \in Int /\ IsExtreme(c, e[n], upTo(n)))}
<1>1. Len(list) \in Nat /\ Default[c] \in Int
  BY PmQosAssumption
<1>2. ASSUME NEW i \in 1..Len(list) PROVE list[i].value \in Int
  <2>1. list[i] \in Requirement
    OBVIOUS
  <2>. QED
    BY <2>1 DEF Requirement
<1>3. /\ e[0] = Default[c]
      /\ \A i \in 1..Len(list) : e[i] = Comparitor(c, e[i - 1], list[i].value)
  BY <1>1, ExtremesEquation
<1>. HIDE DEF e
<1>4. wrong = {}
  <2>1. SUFFICES ASSUME wrong # {} PROVE FALSE
    OBVIOUS
  <2>. wrong \in SUBSET Nat
    BY <1>1
  <2>. HIDE DEF wrong
  <2>2. PICK n \in wrong : \A m \in wrong : n <= m
    BY <2>1, LeastNat
  <2>. USE DEF wrong
  <2>3. n \in 0..Len(list)
    BY <2>2
  <2>4. CASE n = 0
    <3>1. upTo(0) = {}
      OBVIOUS
    <3>2. e[0] \in Int /\ IsExtreme(c, e[0], upTo(0))
      BY <1>1, <1>3, <3>1 DEF IsExtreme
    <3>. QED
      BY <2>2, <2>4, <3>2
  <2>5. CASE n # 0
    <3>1. n \in 1..Len(list) /\ n - 1 \in 0..Len(list) /\ ~(n <= n - 1)
      BY <1>1, <2>3, <2>5
    <3>6. n - 1 \notin wrong
      <4>. HIDE DEF wrong
      <4>. QED
        BY <2>2, <3>1
    <3>2. e[n - 1] \in Int /\ IsExtreme(c, e[n - 1], upTo(n - 1))
      BY <3>1, <3>6
    <3>3. /\ upTo(n) = upTo(n - 1) \cup {list[n].value}
          /\ upTo(n - 1) \subseteq Int /\ list[n].value \in Int
      BY <1>2, <3>1
    <3>4. e[n] = Comparitor(c, e[n - 1], list[n].value)
      BY <1>3, <3>1
    <3>5. e[n] \in Int /\ IsExtreme(c, e[n], upTo(n))
      <4>. HIDE DEF upTo, wrong
      <4>1. PICK before, v :
              /\ before = upTo(n - 1) /\ v = list[n].value
              /\ before \in SUBSET Int /\ v \in Int
        BY <3>3
      <4>2. /\ Comparitor(c, e[n - 1], v) \in Int
            /\ IsExtreme(c, Comparitor(c, e[n - 1], v), before \cup {v})
        BY <3>2, <4>1, ComparitorIsExtreme
      <4>. QED
        BY <3>3, <3>4, <4>1, <4>2
    <3>. QED
      BY <2>2, <3>5
  <2>. QED
    BY <2>4, <2>5
<1>5. Len(list) \notin wrong /\ Len(list) \in 0..Len(list)
  <2>. HIDE DEF wrong
  <2>. QED
    BY <1>1, <1>4
<1>6. e[Len(list)] \in Int /\ IsExtreme(c, e[Len(list)], upTo(Len(list)))
  <2>. HIDE DEF upTo
  <2>. QED
    BY <1>5
<1>. QED
  BY <1>6 DEF ExtremeValue, ValuesOf, e

-----------------------------------------------------------------------------
(***************************************************************************)
(* The calls.                                                              *)
(***************************************************************************)
\* Resolving the default keeps a value an integer.
LEMMA ResolvedInt ==
  ASSUME NEW c \in Classes, NEW v \in Int
  PROVE  Resolved(c, v) \in Int
BY PmQosAssumption DEF Resolved

\* Each change of a list of requirements leaves a list of requirements.
LEMMA ListTypes ==
  ASSUME NEW list \in Seq(Requirement), NEW n \in Threads \cup Clients, NEW v \in Int
  PROVE  /\ <<[name |-> n, value |-> v]>> \o list \in Seq(Requirement)
         /\ \A i \in FirstNamed(list, n) : WithValue(list, i, v) \in Seq(Requirement)
         /\ \A i \in FirstNamed(list, n) : Without(list, i) \in Seq(Requirement)
<1>1. [name |-> n, value |-> v] \in Requirement
  BY DEF Requirement
<1>2. <<[name |-> n, value |-> v]>> \o list \in Seq(Requirement)
  BY <1>1
<1>3. ASSUME NEW i \in FirstNamed(list, n)
      PROVE  WithValue(list, i, v) \in Seq(Requirement)
  <2>1. i \in 1..Len(list) /\ list[i] \in Requirement
    BY DEF FirstNamed
  <2>2. [name |-> list[i].name, value |-> v] \in Requirement
    BY <2>1 DEF Requirement
  <2>3. QED
    BY <2>1, <2>2 DEF WithValue
<1>4. ASSUME NEW i \in FirstNamed(list, n)
      PROVE  Without(list, i) \in Seq(Requirement)
  <2>1. i \in 1..Len(list) /\ Len(list) - 1 \in Nat
    BY DEF FirstNamed
  <2>2. \A j \in 1..Len(list) - 1 :
          (IF j < i THEN list[j] ELSE list[j + 1]) \in Requirement
    BY <2>1
  <2>3. QED
    BY <2>1, <2>2 DEF Without
<1>. QED
  BY <1>2, <1>3, <1>4

\* A call keeps the list of every class but its own, and leaves its own
\* pending if it changed it.
LEMMA CallEffect ==
  ASSUME TypeOK, NEW t \in Threads, NEW c \in Classes,
         NEW n \in Threads \cup Clients, NEW v \in Int,
         \/ AddRequirement(t, c, n, v)
         \/ UpdateRequirement(t, c, n, v)
         \/ RemoveRequirement(t, c, n)
  PROVE  /\ requirements' \in [Classes -> Seq(Requirement)]
         /\ op' \in [Threads -> Calls]
         /\ op[t] = Idle
         /\ UNCHANGED <<target, watching, seen>>
         /\ \/ UNCHANGED <<requirements, op>>
            \/ /\ Pending(t, c)
               /\ \A d \in Classes \ {c} : requirements'[d] = requirements[d]
<1>. DEFINE list == requirements[c]
            changed == \E l \in Seq(Requirement) :
                         requirements' = [requirements EXCEPT ![c] = l]
<1>1. list \in Seq(Requirement) /\ Resolved(c, v) \in Int
  BY ResolvedInt DEF TypeOK
<1>2. \/ UNCHANGED <<requirements, op>>
      \/ Pending(t, c) /\ changed
  <2>1. CASE AddRequirement(t, c, n, v)
    BY <2>1, <1>1, ListTypes DEF AddRequirement
  <2>2. CASE UpdateRequirement(t, c, n, v)
    BY <2>2, <1>1, ListTypes DEF UpdateRequirement, Unnamed
  <2>3. CASE RemoveRequirement(t, c, n)
    BY <2>3, <1>1, ListTypes DEF RemoveRequirement, Unnamed
  <2>. QED
    BY <2>1, <2>2, <2>3
<1>3. op[t] = Idle /\ UNCHANGED <<target, watching, seen>>
  BY DEF AddRequirement, UpdateRequirement, RemoveRequirement
<1>4. CASE UNCHANGED <<requirements, op>>
  BY <1>3, <1>4 DEF TypeOK
<1>5. CASE Pending(t, c) /\ changed
  <2>1. op' \in [Threads -> Calls]
    BY <1>5 DEF TypeOK, Pending, Calls
  <2>2. /\ requirements' \in [Classes -> Seq(Requirement)]
        /\ \A d \in Classes \ {c} : requirements'[d] = requirements[d]
    BY <1>5 DEF TypeOK
  <2>. QED
    BY <1>3, <1>5, <2>1, <2>2
<1>. QED
  BY <1>2, <1>4, <1>5

\* A call by a kernel client or through a file is one of the three calls on
\* one list, and keeps the types of what the caller holds.
LEMMA KernelCallEffect ==
  ASSUME TypeOK, NEW t \in Threads, KernelCall(t)
  PROVE  /\ \E c \in Classes, n \in Threads \cup Clients, v \in Int :
              \/ AddRequirement(t, c, n, v)
              \/ UpdateRequirement(t, c, n, v)
              \/ RemoveRequirement(t, c, n)
         /\ file' \in [Files -> Handles \cup {None}]
         /\ held' \in [Holders -> Holdings \cup {None}]
<1>. PICK n \in Clients :
       \/ \E c \in Classes, v \in Values : Add(t, c, n, v)
       \/ \E v \in Values : Update(t, n, v)
       \/ Remove(t, n)
  BY DEF KernelCall
<1>1. n \in Holders /\ n \in Threads \cup Clients /\ 0 \in Int
  BY DEF Holders
<1>2. held[n] # None => held[n].class \in Classes
  BY <1>1 DEF TypeOK, Holdings
<1>3. file' = file
  BY DEF Add, Update, Remove
<1>4. CASE \E c \in Classes, v \in Values : Add(t, c, n, v)
  <2>1. PICK c \in Classes, v \in Values : Add(t, c, n, v)
    BY <1>4
  <2>2. v \in Int /\ Resolved(c, v) \in Int
    BY ResolvedInt, PmQosAssumption
  <2>3. held' \in [Holders -> Holdings \cup {None}]
    BY <1>1, <2>1, <2>2 DEF Add, Holds, TypeOK, Holdings
  <2>. QED
    BY <1>1, <1>3, <2>1, <2>2, <2>3 DEF Add, TypeOK
<1>5. CASE \E v \in Values : Update(t, n, v)
  <2>1. PICK v \in Values : Update(t, n, v)
    BY <1>5
  <2>2. held[n].class \in Classes
    BY <1>2, <2>1 DEF Update
  <2>3. v \in Int /\ Resolved(held[n].class, v) \in Int
    BY <2>2, ResolvedInt, PmQosAssumption
  <2>4. held' \in [Holders -> Holdings \cup {None}]
    BY <1>1, <2>1, <2>2, <2>3 DEF Update, Holds, TypeOK, Holdings
  <2>. QED
    BY <1>1, <1>3, <2>1, <2>2, <2>3, <2>4 DEF Update, TypeOK
<1>6. CASE Remove(t, n)
  <2>1. held[n].class \in Classes
    BY <1>2, <1>6 DEF Remove
  <2>2. held' \in [Holders -> Holdings \cup {None}]
    BY <1>6 DEF Remove, TypeOK
  <2>. QED
    BY <1>1, <1>3, <1>6, <2>1, <2>2 DEF Remove, TypeOK
<1>. QED
  BY <1>4, <1>5, <1>6

\* The same of a call through a file.
LEMMA FileCallEffect ==
  ASSUME TypeOK, NEW t \in Threads, FileCall(t)
  PROVE  /\ \E c \in Classes, n \in Threads \cup Clients, v \in Int :
              \/ AddRequirement(t, c, n, v)
              \/ UpdateRequirement(t, c, n, v)
              \/ RemoveRequirement(t, c, n)
         /\ file' \in [Files -> Handles \cup {None}]
         /\ held' \in [Holders -> Holdings \cup {None}]
<1>. PICK f \in Files :
       \/ \E c \in Classes : PowerOpen(t, f, c)
       \/ \E v \in Values : PowerWrite(t, f, v)
       \/ PowerRelease(t, f)
  BY DEF FileCall
<1>1. f \in Holders /\ t \in Threads \cup Clients
      /\ 0 \in Int /\ PM_QOS_DEFAULT_VALUE \in Int
  BY DEF Holders, PM_QOS_DEFAULT_VALUE
<1>2. file[f] # None => file[f].class \in Classes
  BY DEF TypeOK, Handles
<1>3. CASE \E c \in Classes : PowerOpen(t, f, c)
  <2>1. PICK c \in Classes : PowerOpen(t, f, c)
    BY <1>3
  <2>2. Resolved(c, PM_QOS_DEFAULT_VALUE) \in Int
    BY <1>1, ResolvedInt
  <2>3. file' \in [Files -> Handles \cup {None}]
    BY <2>1 DEF PowerOpen, TypeOK, Handles
  <2>4. held' \in [Holders -> Holdings \cup {None}]
    BY <1>1, <2>1, <2>2 DEF PowerOpen, Holds, TypeOK, Holdings
  <2>. QED
    BY <1>1, <2>1, <2>3, <2>4 DEF PowerOpen
<1>4. CASE \E v \in Values : PowerWrite(t, f, v)
  <2>1. PICK v \in Values : PowerWrite(t, f, v)
    BY <1>4
  <2>2. file[f].class \in Classes
    BY <1>2, <2>1 DEF PowerWrite, Uses
  <2>3. v \in Int /\ Resolved(file[f].class, v) \in Int
    BY <2>2, ResolvedInt, PmQosAssumption
  <2>4. held' \in [Holders -> Holdings \cup {None}]
    BY <1>1, <2>1, <2>2, <2>3 DEF PowerWrite, Holds, TypeOK, Holdings
  <2>. QED
    BY <1>1, <2>1, <2>2, <2>3, <2>4 DEF PowerWrite, TypeOK
<1>5. CASE PowerRelease(t, f)
  <2>1. file[f].class \in Classes
    BY <1>2, <1>5 DEF PowerRelease, Uses
  <2>2. /\ held' \in [Holders -> Holdings \cup {None}]
        /\ file' \in [Files -> Handles \cup {None}]
    BY <1>5 DEF PowerRelease, TypeOK
  <2>. QED
    BY <1>1, <1>5, <2>1, <2>2 DEF PowerRelease
<1>. QED
  BY <1>3, <1>4, <1>5

-----------------------------------------------------------------------------
(***************************************************************************)
(* The inductive invariant: TargetCurrent speaks of what other threads are *)
(* about to do, so it is inductive once the types are known.  A call makes *)
(* its own class pending; only UpdateTarget ends a pending class, and it   *)
(* leaves the extreme of the list it has just read behind.                 *)
(***************************************************************************)
IInv == TypeOK /\ TargetCurrent

LEMMA InitIInv == Init => IInv
<1>. SUFFICES ASSUME Init PROVE IInv
  OBVIOUS
<1>1. TypeOK
  BY PmQosAssumption DEF Init, TypeOK, Calls
<1>2. ASSUME NEW c \in Classes PROVE IsExtreme(c, target[c], ValuesOf(requirements[c]))
  <2>1. ValuesOf(requirements[c]) = {} /\ target[c] = Default[c] /\ Default[c] \in Int
    BY PmQosAssumption DEF Init, ValuesOf
  <2>. QED
    BY <2>1 DEF IsExtreme
<1>. QED
  BY <1>1, <1>2 DEF IInv, TargetCurrent

\* A call keeps the invariant.
LEMMA CallKeepsIInv ==
  ASSUME IInv, NEW t \in Threads, KernelCall(t) \/ FileCall(t)
  PROVE  IInv'
<1>1. TypeOK /\ TargetCurrent
  BY DEF IInv
<1>2. /\ \E c \in Classes, n \in Threads \cup Clients, v \in Int :
           \/ AddRequirement(t, c, n, v)
           \/ UpdateRequirement(t, c, n, v)
           \/ RemoveRequirement(t, c, n)
      /\ file' \in [Files -> Handles \cup {None}]
      /\ held' \in [Holders -> Holdings \cup {None}]
  BY <1>1, KernelCallEffect, FileCallEffect
<1>3. PICK c \in Classes, n \in Threads \cup Clients, v \in Int :
           \/ AddRequirement(t, c, n, v)
           \/ UpdateRequirement(t, c, n, v)
           \/ RemoveRequirement(t, c, n)
  BY <1>2
<1>4. /\ requirements' \in [Classes -> Seq(Requirement)]
      /\ op' \in [Threads -> Calls]
      /\ op[t] = Idle
      /\ UNCHANGED <<target, watching, seen>>
      /\ \/ UNCHANGED <<requirements, op>>
         \/ /\ Pending(t, c)
            /\ \A d \in Classes \ {c} : requirements'[d] = requirements[d]
  BY <1>1, <1>3, CallEffect
<1>5. TypeOK'
  BY <1>1, <1>2, <1>4 DEF TypeOK
<1>6. CASE UNCHANGED <<requirements, op>>
  BY <1>1, <1>4, <1>5, <1>6 DEF IInv, TargetCurrent, Updating
<1>7. CASE Pending(t, c) /\ \A d \in Classes \ {c} : requirements'[d] = requirements[d]
  <2>. SUFFICES ASSUME NEW d \in Classes
                PROVE  Updating(d)' \/ IsExtreme(d, target'[d], ValuesOf(requirements'[d]))
    BY <1>5 DEF IInv, TargetCurrent
  <2>1. CASE d = c
    <3>1. op'[t] = [pc |-> "update", class |-> c, value |-> None]
      BY <1>1, <1>7 DEF TypeOK, Pending
    <3>. QED
      BY <2>1, <3>1 DEF Updating
  <2>2. CASE d # c
    <3>1. ASSUME NEW u \in Threads, op[u].pc = "update", op[u].class = d
          PROVE  op'[u].pc = "update" /\ op'[u].class = d
      BY <1>1, <1>4, <1>7, <3>1 DEF TypeOK, Pending, Idle
    <3>2. Updating(d) => Updating(d)'
      BY <3>1 DEF Updating
    <3>. QED
      BY <1>1, <1>4, <1>7, <2>2, <3>2 DEF TargetCurrent
  <2>. QED
    BY <2>1, <2>2
<1>. QED
  BY <1>4, <1>6, <1>7

\* Recomputing the target keeps the invariant.
LEMMA UpdateTargetKeepsIInv ==
  ASSUME IInv, NEW t \in Threads, UpdateTarget(t)
  PROVE  IInv'
<1>. DEFINE c     == op[t].class
            value == ExtremeValue(c, requirements[c])
<1>1. TypeOK /\ TargetCurrent
  BY DEF IInv
<1>2. op[t].pc = "update" /\ c \in Classes
  BY <1>1 DEF UpdateTarget, TypeOK, Calls, Idle
<1>3. requirements[c] \in Seq(Requirement)
  BY <1>1, <1>2 DEF TypeOK
<1>4. value \in Int /\ IsExtreme(c, value, ValuesOf(requirements[c]))
  BY <1>2, <1>3, ExtremeValueIsExtreme
<1>. HIDE DEF c, value
<1>5. /\ target' = [target EXCEPT ![c] = value]
      /\ op' = [op EXCEPT ![t] =
           IF value = target[c] THEN Idle
           ELSE [pc |-> "notify", class |-> c, value |-> value]]
      /\ UNCHANGED <<requirements, file, watching, seen, held>>
  BY DEF UpdateTarget, c, value
<1>6. TypeOK'
  BY <1>1, <1>2, <1>4, <1>5 DEF TypeOK, Calls
<1>7. ASSUME NEW d \in Classes
      PROVE  Updating(d)' \/ IsExtreme(d, target'[d], ValuesOf(requirements'[d]))
  <2>1. CASE d = c
    BY <1>1, <1>4, <1>5, <2>1 DEF TypeOK
  <2>2. CASE d # c
    <3>1. ASSUME NEW u \in Threads, op[u].pc = "update", op[u].class = d
          PROVE  op'[u].pc = "update" /\ op'[u].class = d
      BY <1>1, <1>5, <2>2, <3>1 DEF TypeOK, c
    <3>2. Updating(d) => Updating(d)'
      BY <3>1 DEF Updating
    <3>. QED
      BY <1>1, <1>5, <2>2, <3>2 DEF TargetCurrent, TypeOK
  <2>. QED
    BY <2>1, <2>2
<1>. QED
  BY <1>6, <1>7 DEF IInv, TargetCurrent

\* A step that changes neither list, nor target, nor which classes are
\* pending keeps the invariant if it keeps the types.
LEMMA OtherStepsKeepIInv ==
  ASSUME IInv, (\E t \in Threads : CallNotifiers(t)) \/ NotifierCall \/ UNCHANGED vars
  PROVE  IInv'
<1>1. TypeOK /\ TargetCurrent
  BY DEF IInv
<1>2. TypeOK' /\ UNCHANGED <<requirements, target>>
  <2>1. ASSUME NEW t \in Threads, CallNotifiers(t)
        PROVE  TypeOK' /\ UNCHANGED <<requirements, target>>
    <3>1. op[t].pc = "notify" /\ op[t].class \in Classes /\ op[t].value \in Int
      BY <1>1, <2>1 DEF CallNotifiers, TypeOK, Calls, Idle
    <3>2. seen' \in [Classes -> [Watchers -> Int \cup {None}]]
      BY <1>1, <2>1, <3>1 DEF CallNotifiers, TypeOK
    <3>3. op' \in [Threads -> Calls]
      BY <1>1, <2>1 DEF CallNotifiers, TypeOK, Calls
    <3>. QED
      BY <1>1, <2>1, <3>2, <3>3 DEF CallNotifiers, TypeOK
  <2>2. ASSUME NEW c \in Classes, NEW w \in Watchers, AddNotifier(c, w) \/ RemoveNotifier(c, w)
        PROVE  TypeOK' /\ UNCHANGED <<requirements, target>>
    <3>. DEFINE told == IF AddNotifier(c, w) THEN target[c] ELSE None
    <3>1. told \in Int \cup {None} /\ [seen[c] EXCEPT ![w] = told] \in [Watchers -> Int \cup {None}]
      BY <1>1 DEF TypeOK
    <3>2. seen' = [seen EXCEPT ![c] = [seen[c] EXCEPT ![w] = told]]
      BY <1>1, <2>2 DEF AddNotifier, RemoveNotifier, TypeOK
    <3>3. seen' \in [Classes -> [Watchers -> Int \cup {None}]]
      <4>. HIDE DEF told
      <4>. QED
        BY <1>1, <3>1, <3>2 DEF TypeOK
    <3>4. watching' \in [Classes -> SUBSET Watchers]
      <4>1. watching[c] \cup {w} \in SUBSET Watchers /\ watching[c] \ {w} \in SUBSET Watchers
        BY <1>1 DEF TypeOK
      <4>2. PICK s \in SUBSET Watchers : watching' = [watching EXCEPT ![c] = s]
        BY <2>2, <4>1 DEF AddNotifier, RemoveNotifier
      <4>. QED
        BY <1>1, <4>2 DEF TypeOK
    <3>. QED
      BY <1>1, <2>2, <3>3, <3>4 DEF AddNotifier, RemoveNotifier, TypeOK
  <2>. QED
    BY <1>1, <2>1, <2>2 DEF NotifierCall, TypeOK, vars
<1>3. ASSUME NEW c \in Classes PROVE Updating(c) => Updating(c)'
  <2>1. ASSUME NEW u \in Threads, op[u].pc = "update" PROVE op'[u] = op[u]
    BY <1>1, <2>1 DEF CallNotifiers, NotifierCall, AddNotifier, RemoveNotifier, TypeOK, vars
  <2>. QED
    BY <2>1 DEF Updating
<1>. QED
  BY <1>1, <1>2, <1>3 DEF IInv, TargetCurrent

LEMMA NextIInv == IInv /\ [Next]_vars => IInv'
<1>. SUFFICES ASSUME IInv, [Next]_vars PROVE IInv'
  OBVIOUS
<1>1. ASSUME NEW t \in Threads, KernelCall(t) \/ FileCall(t) PROVE IInv'
  BY <1>1, CallKeepsIInv
<1>2. ASSUME NEW t \in Threads, UpdateTarget(t) PROVE IInv'
  BY <1>2, UpdateTargetKeepsIInv
<1>3. CASE (\E t \in Threads : CallNotifiers(t)) \/ NotifierCall \/ UNCHANGED vars
  BY <1>3, OtherStepsKeepIInv
<1>. QED
  BY <1>1, <1>2, <1>3 DEF Next, Finish

\* In every state of the program the lists, targets, calls and notifiers are
\* what pm_qos_params.c takes them to be; in particular a target is a number.
THEOREM TypeCorrect == Spec => []TypeOK
<1>1. IInv => TypeOK
  BY DEF IInv
<1>. QED
  BY InitIInv, NextIInv, <1>1, PTL DEF Spec

\* However the calls of any number of processes interleave between changing a
\* list and recomputing its target, a target is the extreme of its list or
\* some thread is still to run update_target() for it.
THEOREM TargetIsCurrent == Spec => []TargetCurrent
<1>1. IInv => TargetCurrent
  BY DEF IInv
<1>. QED
  BY InitIInv, NextIInv, <1>1, PTL DEF Spec

-----------------------------------------------------------------------------
(***************************************************************************)
(* Accounting.  A file is used by the process that opened it, which opens  *)
(* no second one of the class (~AnyHandles): then the list of a class has  *)
(* one element for each client and each open file, with its last value.    *)
(***************************************************************************)
Elements(list) == {list[i] : i \in 1..Len(list)}

\* The list has the elements E, and no two of them have the same name.
Lists(list, E) ==
  /\ \A i, j \in 1..Len(list) : list[i].name = list[j].name => i = j
  /\ Elements(list) = E

\* The name under which h has its requirement, and the elements that the
\* holders of class c should have in its list.
NameOf(h)  == IF h \in Clients THEN h ELSE file[h].opener
HoldersOf(c) == {h \in Holders : held[h] # None /\ held[h].class = c}
Entry(h)   == [name |-> NameOf(h), value |-> held[h].value]
Entries(c) == {Entry(h) : h \in HoldersOf(c)}

FilesHeld ==
  /\ \A f \in Files : file[f] = None <=> held[f] = None
  /\ \A f \in Files : file[f] # None => held[f].class = file[f].class
  /\ \A f, g \in Files : file[f] # None /\ file[f] = file[g] => f = g

Accounts == FilesHeld /\ \A c \in Classes : Lists(requirements[c], Entries(c))

\* A new name at the head of a list.
LEMMA ListAdd ==
  ASSUME NEW list \in Seq(Requirement), NEW E, Lists(list, E), NEW r \in Requirement,
         \A e \in E : e.name # r.name
  PROVE  Lists(<<r>> \o list, E \cup {r})
<1>. DEFINE new == <<r>> \o list
<1>1. /\ Len(list) \in Nat /\ Len(new) = Len(list) + 1 /\ new[1] = r
      /\ \A i \in 2..Len(new) : new[i] = list[i - 1] /\ i - 1 \in 1..Len(list)
      /\ \A i \in 1..Len(list) : new[i + 1] = list[i] /\ i + 1 \in 2..Len(new)
  OBVIOUS
<1>. HIDE DEF new
<1>2. \A i \in 1..Len(list) : list[i] \in E
  BY DEF Lists, Elements
<1>3. Elements(new) = E \cup {r}
  BY SMTT(30), <1>1 DEF Lists, Elements
<1>4. ASSUME NEW i \in 1..Len(new), NEW j \in 1..Len(new), new[i].name = new[j].name
      PROVE  i = j
  <2>1. CASE i = 1 \/ j = 1
    BY <1>1, <1>2, <1>4, <2>1
  <2>2. CASE i # 1 /\ j # 1
    <3>1. /\ i - 1 \in 1..Len(list) /\ j - 1 \in 1..Len(list)
          /\ list[i - 1].name = list[j - 1].name
      BY <1>1, <1>4, <2>2
    <3>2. i - 1 = j - 1
      BY <3>1 DEF Lists
    <3>. QED
      BY <1>1, <3>2
  <2>. QED
    BY <2>1, <2>2
<1>. QED
  BY <1>3, <1>4 DEF Lists, new

\* The first element of a name is the only one.
LEMMA ListNamed ==
  ASSUME NEW list \in Seq(Requirement), NEW E, Lists(list, E), NEW e \in E
  PROVE  FirstNamed(list, e.name) # {}
<1>1. PICK i \in 1..Len(list) : list[i] = e
  BY DEF Lists, Elements
<1>2. \A j \in 1..i - 1 : list[j].name # e.name
  BY <1>1 DEF Lists
<1>. QED
  BY <1>1, <1>2 DEF FirstNamed

\* Another value for a name.
LEMMA ListUpdate ==
  ASSUME NEW list \in Seq(Requirement), NEW E, Lists(list, E), NEW n, NEW v,
         NEW i \in FirstNamed(list, n)
  PROVE  Lists(WithValue(list, i, v), {e \in E : e.name # n} \cup {[name |-> n, value |-> v]})
<1>. DEFINE r   == [name |-> n, value |-> v]
            new == WithValue(list, i, v)
<1>1. i \in 1..Len(list) /\ list[i].name = n /\ Len(list) \in Nat
  BY DEF FirstNamed
<1>2. /\ Len(new) = Len(list) /\ new[i] = r
      /\ \A j \in 1..Len(list) : j # i => new[j] = list[j]
  BY <1>1 DEF WithValue
<1>. HIDE DEF new
<1>3. \A j \in 1..Len(list) : j # i <=> list[j].name # n
  BY <1>1 DEF Lists
<1>4. \A j \in 1..Len(list) : new[j].name = list[j].name
  BY <1>1, <1>2
<1>5. Elements(new) = {e \in E : e.name # n} \cup {r}
  BY <1>1, <1>2, <1>3 DEF Lists, Elements
<1>. QED
  BY <1>2, <1>4, <1>5 DEF Lists, new

\* The list without a name.
LEMMA ListRemove ==
  ASSUME NEW list \in Seq(Requirement), NEW E, Lists(list, E), NEW n,
         NEW i \in FirstNamed(list, n)
  PROVE  Lists(Without(list, i), {e \in E : e.name # n})
<1>. DEFINE new == Without(list, i)
            old(j) == IF j < i THEN j ELSE j + 1
<1>1. i \in 1..Len(list) /\ list[i].name = n /\ Len(list) \in Nat
  BY DEF FirstNamed
<1>2. /\ Len(new) = Len(list) - 1
      /\ \A j \in 1..Len(new) : new[j] = list[old(j)] /\ old(j) \in (1..Len(list)) \ {i}
      /\ \A k \in (1..Len(list)) \ {i} : \E j \in 1..Len(new) : old(j) = k
  <2>1. Len(new) = Len(list) - 1 /\ \A j \in 1..Len(new) : new[j] = list[old(j)]
    BY <1>1 DEF Without
  <2>2. \A j \in 1..Len(list) - 1 : old(j) \in (1..Len(list)) \ {i}
    BY <1>1
  <2>3. ASSUME NEW k \in (1..Len(list)) \ {i}
        PROVE  \E j \in 1..Len(list) - 1 : old(j) = k
    <3>1. CASE k < i
      BY SMTT(30), <1>1, <3>1
    <3>2. CASE k > i
      <4>1. k - 1 \in 1..Len(list) - 1 /\ old(k - 1) = k
        BY <1>1, <3>2
      <4>. QED
        BY <4>1
    <3>. QED
      BY <1>1, <3>1, <3>2
  <2>. HIDE DEF new, old
  <2>. QED
    BY <2>1, <2>2, <2>3
<1>3. \A j \in 1..Len(list) : j # i <=> list[j].name # n
  BY <1>1 DEF Lists
<1>4. \A j, k \in 1..Len(new) : old(j) = old(k) => j = k
  BY <1>1
<1>. HIDE DEF new, old
<1>5. Elements(new) = {e \in E : e.name # n}
  <2>1. ASSUME NEW j \in 1..Len(new) PROVE new[j] \in {e \in E : e.name # n}
    BY <1>2, <1>3 DEF Lists, Elements
  <2>2. ASSUME NEW e \in E, e.name # n PROVE e \in Elements(new)
    <3>1. PICK k \in 1..Len(list) : list[k] = e
      BY DEF Lists, Elements
    <3>. QED
      BY <1>2, <1>3, <2>2, <3>1 DEF Elements
  <2>. QED
    BY <2>1, <2>2 DEF Elements
<1>6. \A j, k \in 1..Len(new) : new[j].name = new[k].name => j = k
  BY <1>2, <1>4 DEF Lists
<1>. QED
  BY <1>5, <1>6 DEF Lists, new

\* The holders of a class have names of their own, and their elements are
\* requirements.
LEMMA NamesDiffer ==
  ASSUME TypeOK, FilesHeld, NEW c \in Classes
  PROVE  /\ \A h \in HoldersOf(c) : /\ Entry(h) \in Requirement
                                    /\ h \notin Clients => file[h] = [class |-> c, opener |-> NameOf(h)]
         /\ \A g, h \in HoldersOf(c) : NameOf(g) = NameOf(h) => g = h
<1>1. ASSUME NEW h \in HoldersOf(c)
      PROVE  /\ Entry(h) \in Requirement
             /\ h \in Clients => NameOf(h) \in Clients
             /\ h \notin Clients =>
                  h \in Files /\ NameOf(h) \in Threads
                  /\ file[h] # None /\ file[h] = [class |-> c, opener |-> NameOf(h)]
  <2>1. h \in Holders /\ held[h] \in Holdings /\ held[h].class = c /\ held[h] # None
    BY DEF HoldersOf, TypeOK
  <2>2. held[h].value \in Int
    BY <2>1 DEF Holdings
  <2>3. CASE h \in Clients
    BY <2>1, <2>2, <2>3 DEF Entry, NameOf, Requirement
  <2>4. CASE h \notin Clients
    <3>1. h \in Files
      BY <2>1, <2>4 DEF Holders
    <3>2. file[h] # None /\ file[h].class = c /\ file[h] \in Handles
      BY <2>1, <3>1 DEF FilesHeld, TypeOK
    <3>3. file[h] = [class |-> c, opener |-> NameOf(h)] /\ NameOf(h) \in Threads
      BY <2>4, <3>2 DEF Handles, NameOf
    <3>. QED
      BY <2>2, <2>4, <3>1, <3>2, <3>3 DEF Entry, Requirement
  <2>. QED
    BY <2>3, <2>4
<1>2. ASSUME NEW g \in HoldersOf(c), NEW h \in HoldersOf(c), NameOf(g) = NameOf(h)
      PROVE  g = h
  <2>1. g \in Clients <=> h \in Clients
    BY <1>1, <1>2, PmQosAssumption
  <2>2. CASE g \in Clients /\ h \in Clients
    BY <1>2, <2>2 DEF NameOf
  <2>3. CASE g \notin Clients /\ h \notin Clients
    BY <1>1, <1>2, <2>3 DEF FilesHeld
  <2>. QED
    BY <2>1, <2>2, <2>3
<1>. QED
  BY <1>1, <1>2

\* What the holders should have in the lists when h comes to hold class c
\* under the name n with the value v, as the others go on as before.
LEMMA EntriesHeld ==
  ASSUME TypeOK, FilesHeld, NEW c \in Classes, NEW h \in Holders, NEW n, NEW v \in Int,
         held' = [held EXCEPT ![h] = [class |-> c, value |-> v]],
         held[h] # None => held[h].class = c /\ NameOf(h) = n,
         NameOf(h)' = n,
         \A g \in Holders : held[g] # None => NameOf(g)' = NameOf(g)
  PROVE  /\ Entries(c)' = {Entry(g) : g \in HoldersOf(c) \ {h}} \cup {[name |-> n, value |-> v]}
         /\ \A d \in Classes \ {c} : Entries(d)' = Entries(d)
<1>1. /\ held'[h] = [class |-> c, value |-> v]
      /\ \A g \in Holders \ {h} : held'[g] = held[g]
  BY DEF TypeOK
<1>2. held'[h] # None /\ held'[h].class = c /\ Entry(h)' = [name |-> n, value |-> v]
  BY <1>1, PmQosAssumption DEF Entry
<1>3. \A g \in Holders \ {h} : held[g] # None => Entry(g)' = Entry(g)
  BY <1>1 DEF Entry
<1>4. HoldersOf(c)' = (HoldersOf(c) \ {h}) \cup {h}
  BY <1>1, <1>2 DEF HoldersOf
<1>5. \A d \in Classes \ {c} : HoldersOf(d)' = HoldersOf(d) /\ h \notin HoldersOf(d)
  BY <1>1, <1>2 DEF HoldersOf
<1>6. \A d \in Classes : \A g \in HoldersOf(d) : g \in Holders /\ held[g] # None
  BY DEF HoldersOf
<1>7. Entries(c)' = {Entry(g)' : g \in (HoldersOf(c) \ {h}) \cup {h}}
  BY <1>4 DEF Entries
<1>8. Entries(c)' = {Entry(g)' : g \in HoldersOf(c) \ {h}} \cup {Entry(h)'}
  BY <1>7
<1>9. \A g \in HoldersOf(c) \ {h} : Entry(g)' = Entry(g)
  BY <1>3, <1>6
<1>10. ASSUME NEW d \in Classes \ {c} PROVE Entries(d)' = Entries(d)
  <2>1. Entries(d)' = {Entry(g)' : g \in HoldersOf(d)}
    BY <1>5 DEF Entries
  <2>2. \A g \in HoldersOf(d) : Entry(g)' = Entry(g)
    BY <1>3, <1>5, <1>6
  <2>. QED
    BY <2>1, <2>2 DEF Entries
<1>. QED
  BY <1>2, <1>8, <1>9, <1>10

\* The same when h gives class c up.
LEMMA EntriesDropped ==
  ASSUME TypeOK, NEW c \in Classes, NEW h \in Holders,
         held' = [held EXCEPT ![h] = None],
         held[h].class = c,
         \A g \in Holders \ {h} : held[g] # None => NameOf(g)' = NameOf(g)
  PROVE  /\ Entries(c)' = {Entry(g) : g \in HoldersOf(c) \ {h}}
         /\ \A d \in Classes \ {c} : Entries(d)' = Entries(d)
<1>1. held'[h] = None /\ \A g \in Holders \ {h} : held'[g] = held[g]
  BY DEF TypeOK
<1>2. \A g \in Holders \ {h} : held[g] # None => Entry(g)' = Entry(g)
  BY <1>1 DEF Entry
<1>3. \A d \in Classes : /\ HoldersOf(d)' = HoldersOf(d) \ {h}
                         /\ d # c => h \notin HoldersOf(d)
                         /\ \A g \in HoldersOf(d) : g \in Holders /\ held[g] # None
  BY <1>1 DEF HoldersOf
<1>4. ASSUME NEW d \in Classes
      PROVE  Entries(d)' = {Entry(g) : g \in HoldersOf(d) \ {h}}
  <2>1. Entries(d)' = {Entry(g)' : g \in HoldersOf(d) \ {h}}
    BY <1>3 DEF Entries
  <2>2. \A g \in HoldersOf(d) \ {h} : Entry(g)' = Entry(g)
    BY <1>2, <1>3
  <2>. QED
    BY <2>1, <2>2
<1>5. ASSUME NEW d \in Classes \ {c} PROVE HoldersOf(d) \ {h} = HoldersOf(d)
  BY <1>3
<1>. QED
  BY <1>4, <1>5 DEF Entries

\* The elements of the other holders are those of other names.
LEMMA OtherNames ==
  ASSUME TypeOK, FilesHeld, NEW c \in Classes, NEW h \in HoldersOf(c)
  PROVE  {Entry(g) : g \in HoldersOf(c) \ {h}} = {e \in Entries(c) : e.name # NameOf(h)}
<1>1. \A g \in HoldersOf(c) : Entry(g).name = NameOf(g)
  BY DEF Entry
<1>2. \A g \in HoldersOf(c) : g # h <=> NameOf(g) # NameOf(h)
  BY NamesDiffer
<1>. QED
  BY <1>1, <1>2 DEF Entries
-----------------------------------------------------------------------------
\* An update of the list of c for the holder h keeps the accounts, if h holds
\* c under the name n it is made under.
LEMMA UpdateKeepsAccounts ==
  ASSUME TypeOK, Accounts, NEW t \in Threads, NEW c \in Classes,
         NEW h \in HoldersOf(c), NEW v \in Int,
         UpdateRequirement(t, c, NameOf(h), v), Holds(h, c, v), file' = file
  PROVE  Accounts'
<1>. DEFINE n == NameOf(h)
            r == [name |-> n, value |-> Resolved(c, v)]
<1>1. h \in Holders /\ held[h] # None /\ held[h].class = c /\ Resolved(c, v) \in Int
  BY ResolvedInt DEF HoldersOf
<1>2. \A g : NameOf(g)' = NameOf(g)
  BY DEF NameOf
<1>3. /\ Entries(c)' = {e \in Entries(c) : e.name # n} \cup {r}
      /\ \A d \in Classes \ {c} : Entries(d)' = Entries(d)
  <2>1. FilesHeld /\ held' = [held EXCEPT ![h] = [class |-> c, value |-> Resolved(c, v)]]
    BY DEF Accounts, Holds
  <2>2. /\ Entries(c)' = {Entry(g) : g \in HoldersOf(c) \ {h}} \cup {r}
        /\ \A d \in Classes \ {c} : Entries(d)' = Entries(d)
    BY ZenonT(40), <1>1, <1>2, <2>1, EntriesHeld
  <2>. QED
    BY <2>1, <2>2, OtherNames
<1>4. requirements[c] \in Seq(Requirement) /\ Lists(requirements[c], Entries(c))
  BY DEF TypeOK, Accounts
<1>5. FirstNamed(requirements[c], n) # {}
  <2>1. Entry(h) \in Entries(c) /\ Entry(h).name = n
    BY DEF Entries, Entry
  <2>. QED
    BY <1>4, <2>1, ListNamed
<1>6. PICK i \in FirstNamed(requirements[c], n) :
        requirements' = [requirements EXCEPT ![c] = WithValue(@, i, Resolved(c, v))]
  BY <1>5 DEF UpdateRequirement, Unnamed
<1>7. /\ requirements'[c] = WithValue(requirements[c], i, Resolved(c, v))
      /\ \A d \in Classes \ {c} : requirements'[d] = requirements[d]
  BY <1>6 DEF TypeOK
<1>8. Lists(requirements'[c], Entries(c)')
  BY <1>3, <1>4, <1>7, ListUpdate
<1>9. \A d \in Classes : Lists(requirements'[d], Entries(d)')
  BY <1>3, <1>7, <1>8 DEF Accounts
<1>10. FilesHeld'
  <2>1. /\ held'[h] = [class |-> c, value |-> Resolved(c, v)]
        /\ \A g \in Holders \ {h} : held'[g] = held[g]
    BY <1>1 DEF Holds, TypeOK
  <2>2. held'[h] # None /\ held'[h].class = held[h].class
    BY <1>1, <2>1, PmQosAssumption
  <2>3. Files \subseteq Holders
    BY DEF Holders
  <2>. QED
    BY <1>1, <2>1, <2>2, <2>3 DEF FilesHeld, Accounts
<1>. QED
  BY <1>9, <1>10 DEF Accounts, Lists

\* So does a removal, if h gives c up and its file, if it is one, is closed.
LEMMA RemoveKeepsAccounts ==
  ASSUME TypeOK, Accounts, NEW t \in Threads, NEW c \in Classes,
         NEW h \in HoldersOf(c),
         RemoveRequirement(t, c, NameOf(h)), held' = [held EXCEPT ![h] = None],
         IF h \in Clients THEN file' = file ELSE file' = [file EXCEPT ![h] = None]
  PROVE  Accounts'
<1>. DEFINE n == NameOf(h)
<1>1. h \in Holders /\ held[h] # None /\ held[h].class = c
  BY DEF HoldersOf
<1>2. \A f \in Files : file'[f] = IF f = h THEN None ELSE file[f]
  BY <1>1, PmQosAssumption DEF Holders, TypeOK
<1>3. /\ Entries(c)' = {e \in Entries(c) : e.name # n}
      /\ \A d \in Classes \ {c} : Entries(d)' = Entries(d)
  <2>1. \A g \in Holders \ {h} : held[g] # None => NameOf(g)' = NameOf(g)
    BY <1>2 DEF NameOf, Holders
  <2>2. /\ Entries(c)' = {Entry(g) : g \in HoldersOf(c) \ {h}}
        /\ \A d \in Classes \ {c} : Entries(d)' = Entries(d)
    <3>1. h \in Holders /\ held[h].class = c /\ held' = [held EXCEPT ![h] = None]
      BY <1>1
    <3>. QED
      BY ONLY TypeOK, c \in Classes, <2>1, <3>1, EntriesDropped
  <2>. QED
    BY <2>2, OtherNames DEF Accounts
<1>4. requirements[c] \in Seq(Requirement) /\ Lists(requirements[c], Entries(c))
  BY DEF TypeOK, Accounts
<1>5. FirstNamed(requirements[c], n) # {}
  <2>1. Entry(h) \in Entries(c) /\ Entry(h).name = n
    BY DEF Entries, Entry
  <2>. QED
    BY <1>4, <2>1, ListNamed
<1>6. PICK i \in FirstNamed(requirements[c], n) :
        requirements' = [requirements EXCEPT ![c] = Without(@, i)]
  BY <1>5 DEF RemoveRequirement, Unnamed
<1>7. /\ requirements'[c] = Without(requirements[c], i)
      /\ \A d \in Classes \ {c} : requirements'[d] = requirements[d]
  BY <1>6 DEF TypeOK
<1>8. Lists(requirements'[c], Entries(c)')
  BY <1>3, <1>4, <1>7, ListRemove
<1>9. \A d \in Classes : Lists(requirements'[d], Entries(d)')
  BY <1>3, <1>7, <1>8 DEF Accounts
<1>10. FilesHeld'
  <2>1. held'[h] = None /\ \A g \in Holders \ {h} : held'[g] = held[g]
    BY <1>1 DEF TypeOK
  <2>2. Files \subseteq Holders
    BY DEF Holders
  <2>. QED
    BY <1>2, <2>1, <2>2 DEF FilesHeld, Accounts
<1>. QED
  BY <1>9, <1>10 DEF Accounts, Lists

\* So does an addition for a new holder, under a name that no holder of the
\* class has.
LEMMA AddKeepsAccounts ==
  ASSUME TypeOK, Accounts, NEW t \in Threads, NEW c \in Classes,
         NEW h \in Holders, NEW n \in Threads \cup Clients, NEW v \in Int,
         held[h] = None, \A g \in HoldersOf(c) : NameOf(g) # n,
         AddRequirement(t, c, n, v), Holds(h, c, v),
         NameOf(h)' = n,
         \A g \in Holders : held[g] # None => NameOf(g)' = NameOf(g),
         FilesHeld'
  PROVE  Accounts'
<1>. DEFINE r == [name |-> n, value |-> Resolved(c, v)]
<1>1. Resolved(c, v) \in Int
  BY ResolvedInt
<1>2. r \in Requirement
  BY <1>1 DEF Requirement
<1>3. /\ Entries(c)' = Entries(c) \cup {r}
      /\ \A d \in Classes \ {c} : Entries(d)' = Entries(d)
  <2>1. FilesHeld /\ held' = [held EXCEPT ![h] = [class |-> c, value |-> Resolved(c, v)]]
    BY DEF Accounts, Holds
  <2>2. /\ Entries(c)' = {Entry(g) : g \in HoldersOf(c) \ {h}} \cup {r}
        /\ \A d \in Classes \ {c} : Entries(d)' = Entries(d)
    BY ZenonT(40), <1>1, <2>1, EntriesHeld
  <2>3. HoldersOf(c) \ {h} = HoldersOf(c)
    BY DEF HoldersOf
  <2>. QED
    BY <2>2, <2>3 DEF Entries
<1>4. requirements[c] \in Seq(Requirement) /\ Lists(requirements[c], Entries(c))
  BY DEF TypeOK, Accounts
<1>5. /\ requirements'[c] = <<r>> \o requirements[c]
      /\ \A d \in Classes \ {c} : requirements'[d] = requirements[d]
  BY DEF AddRequirement, TypeOK
<1>6. \A e \in Entries(c) : e.name # r.name
  BY DEF Entries, Entry
<1>7. Lists(requirements'[c], Entries(c)')
  <2>. HIDE DEF r
  <2>. QED
    BY <1>2, <1>3, <1>4, <1>5, <1>6, ListAdd
<1>8. \A d \in Classes : Lists(requirements'[d], Entries(d)')
  BY <1>3, <1>5, <1>7 DEF Accounts
<1>. QED
  BY <1>8 DEF Accounts, Lists
LEMMA InitAccounts == Init => Accounts
<1>. SUFFICES ASSUME Init PROVE Accounts
  OBVIOUS
<1>1. FilesHeld
  BY DEF Init, FilesHeld, Holders
<1>2. ASSUME NEW c \in Classes PROVE Lists(requirements[c], Entries(c))
  <2>1. requirements[c] = <<>> /\ Entries(c) = {}
    BY DEF Init, Entries, HoldersOf
  <2>. QED
    BY <2>1 DEF Lists, Elements
<1>. QED
  BY <1>1, <1>2 DEF Accounts

\* A call of a kernel client keeps the accounts: the client's name is its own.
LEMMA KernelCallKeepsAccounts ==
  ASSUME TypeOK, Accounts, NEW t \in Threads, KernelCall(t)
  PROVE  Accounts'
<1>. PICK n \in Clients :
       \/ \E c \in Classes, v \in Values : Add(t, c, n, v)
       \/ \E v \in Values : Update(t, n, v)
       \/ Remove(t, n)
  BY DEF KernelCall
<1>1. n \in Holders /\ n \in Threads \cup Clients /\ NameOf(n) = n /\ n \notin Files
  BY PmQosAssumption DEF Holders, NameOf
<1>2. ASSUME held[n] # None PROVE held[n].class \in Classes /\ n \in HoldersOf(held[n].class)
  <2>1. held[n] \in Holdings
    BY <1>1, <1>2 DEF TypeOK
  <2>. QED
    BY <1>1, <1>2, <2>1 DEF Holdings, HoldersOf
<1>3. CASE \E c \in Classes, v \in Values : Add(t, c, n, v)
  <2>1. PICK c \in Classes, v \in Values : Add(t, c, n, v)
    BY <1>3
  <2>2. v \in Int
    BY PmQosAssumption
  <2>3. /\ held[n] = None /\ AddRequirement(t, c, n, v) /\ Holds(n, c, v) /\ file' = file
    BY <2>1 DEF Add
  <2>4. \A g \in HoldersOf(c) : NameOf(g) # n
    <3>. SUFFICES ASSUME NEW g \in HoldersOf(c), NameOf(g) = n PROVE FALSE
      OBVIOUS
    <3>1. g \in Holders /\ held[g] # None
      BY DEF HoldersOf
    <3>2. g \notin Clients
      BY <2>3, <3>1 DEF NameOf
    <3>3. g \in Files /\ file[g] \in Handles
      BY <3>1, <3>2 DEF Accounts, FilesHeld, Holders, TypeOK
    <3>4. NameOf(g) \in Threads
      BY <3>2, <3>3 DEF NameOf, Handles
    <3>. QED
      BY <3>4, PmQosAssumption
  <2>5. \A g : NameOf(g)' = NameOf(g)
    BY <2>3 DEF NameOf
  <2>6. FilesHeld'
    <3>1. \A f \in Files : f \in Holders /\ held'[f] = held[f]
      BY <1>1, <2>3 DEF Holds, TypeOK, Holders
    <3>. QED
      BY <2>3, <3>1 DEF Accounts, FilesHeld
  <2>7. NameOf(n)' = n /\ \A g \in Holders : held[g] # None => NameOf(g)' = NameOf(g)
    BY <1>1, <2>5
  <2>. QED
    BY ONLY TypeOK, Accounts, t \in Threads, <1>1, <2>2, <2>3, <2>4, <2>6, <2>7, c \in Classes,
            AddKeepsAccounts
<1>4. CASE \E v \in Values : Update(t, n, v)
  <2>1. PICK v \in Values : Update(t, n, v)
    BY <1>4
  <2>2. v \in Int
    BY PmQosAssumption
  <2>. QED
    BY <1>1, <1>2, <2>1, <2>2, UpdateKeepsAccounts DEF Update
<1>5. CASE Remove(t, n)
  BY <1>1, <1>2, <1>5, RemoveKeepsAccounts DEF Remove
<1>. QED
  BY <1>3, <1>4, <1>5

\* So does a call through a file, when it is of the process that opened it:
\* the requirement is looked up under the name it was registered under, and
\* no other file of the class has that name.
LEMMA FileCallKeepsAccounts ==
  ASSUME ~AnyHandles, TypeOK, Accounts, NEW t \in Threads, FileCall(t)
  PROVE  Accounts'
<1>. PICK f \in Files :
       \/ \E c \in Classes : PowerOpen(t, f, c)
       \/ \E v \in Values : PowerWrite(t, f, v)
       \/ PowerRelease(t, f)
  BY DEF FileCall
<1>1. f \in Holders /\ f \notin Clients /\ t \in Threads \cup Clients
      /\ PM_QOS_DEFAULT_VALUE \in Int
  BY PmQosAssumption DEF Holders, PM_QOS_DEFAULT_VALUE
<1>2. ASSUME Uses(t, f)
      PROVE  file[f].class \in Classes /\ f \in HoldersOf(file[f].class) /\ NameOf(f) = t
  <2>1. file[f] \in Handles /\ file[f].opener = t
    BY <1>2 DEF Uses, TypeOK
  <2>2. held[f] # None /\ held[f].class = file[f].class
    BY <1>2 DEF Uses, Accounts, FilesHeld
  <2>. QED
    BY <1>1, <2>1, <2>2 DEF Handles, HoldersOf, NameOf
<1>3. CASE \E c \in Classes : PowerOpen(t, f, c)
  <2>1. PICK c \in Classes : PowerOpen(t, f, c)
    BY <1>3
  <2>. DEFINE handle == [class |-> c, opener |-> t]
              v == PM_QOS_DEFAULT_VALUE
  <2>2. /\ file[f] = None /\ \A g \in Files : file[g] # handle
        /\ file' = [file EXCEPT ![f] = handle]
        /\ AddRequirement(t, c, t, v) /\ Holds(f, c, v)
    BY <2>1 DEF PowerOpen
  <2>3. held[f] = None
    BY <2>2 DEF Accounts, FilesHeld
  <2>4. /\ file'[f] = handle /\ \A g \in Files \ {f} : file'[g] = file[g]
    BY <2>2 DEF TypeOK
  <2>5. /\ held'[f] = [class |-> c, value |-> Resolved(c, v)]
        /\ \A g \in Holders \ {f} : held'[g] = held[g]
    BY <1>1, <2>2 DEF Holds, TypeOK
  <2>6. handle # None /\ held'[f] # None
    <3>1. Resolved(c, v) \in Int
      BY <1>1, ResolvedInt
    <3>2. handle \in [class : Classes, opener : Threads] /\ held'[f] \in [class : Classes, value : Int]
      BY <2>5, <3>1
    <3>. QED
      BY <3>2, PmQosAssumption
  <2>7. FilesHeld'
    <3>1. ASSUME NEW g \in Files
          PROVE  (file'[g] = None <=> held'[g] = None)
                 /\ (file'[g] # None => held'[g].class = file'[g].class)
      <4>1. CASE g = f
        BY <2>4, <2>5, <2>6, <4>1
      <4>2. CASE g # f
        <5>1. file'[g] = file[g] /\ held'[g] = held[g]
          BY <2>4, <2>5, <4>2 DEF Holders
        <5>. QED
          BY <5>1 DEF Accounts, FilesHeld
      <4>. QED
        BY <4>1, <4>2
    <3>2. ASSUME NEW g \in Files, NEW h \in Files, file'[g] # None, file'[g] = file'[h]
          PROVE  g = h
      <4>. HIDE DEF handle
      <4>1. CASE g = f \/ h = f
        BY <2>2, <2>4, <3>2, <4>1
      <4>2. CASE g # f /\ h # f
        BY <2>4, <3>2, <4>2 DEF Accounts, FilesHeld
      <4>. QED
        BY <4>1, <4>2
    <3>. QED
      BY <3>1, <3>2 DEF FilesHeld
  <2>8. \A g \in HoldersOf(c) : NameOf(g) # t
    <3>. SUFFICES ASSUME NEW g \in HoldersOf(c), NameOf(g) = t PROVE FALSE
      OBVIOUS
    <3>1. g \notin Clients
      BY PmQosAssumption DEF NameOf
    <3>2. g \in Files
      BY <3>1 DEF HoldersOf, Holders
    <3>3. file[g] = [class |-> c, opener |-> NameOf(g)]
      BY <3>1, NamesDiffer DEF Accounts
    <3>. QED
      BY <2>2, <3>2, <3>3
  <2>9. /\ NameOf(f)' = t
        /\ \A g \in Holders : held[g] # None => NameOf(g)' = NameOf(g)
    BY <1>1, <2>3, <2>4 DEF NameOf, Holders
  <2>. QED
    BY ONLY TypeOK, Accounts, t \in Threads, c \in Classes, <1>1, <2>2, <2>3, <2>7, <2>8, <2>9,
            AddKeepsAccounts
<1>4. CASE \E v \in Values : PowerWrite(t, f, v)
  <2>1. PICK v \in Values : PowerWrite(t, f, v)
    BY <1>4
  <2>2. v \in Int
    BY PmQosAssumption
  <2>. QED
    BY <1>2, <2>1, <2>2, UpdateKeepsAccounts DEF PowerWrite
<1>5. CASE PowerRelease(t, f)
  BY <1>1, <1>2, <1>5, RemoveKeepsAccounts DEF PowerRelease
<1>. QED
  BY <1>3, <1>4, <1>5

LEMMA NextAccounts ==
  ASSUME ~AnyHandles
  PROVE  TypeOK /\ Accounts /\ [Next]_vars => Accounts'
<1>. SUFFICES ASSUME TypeOK, Accounts, [Next]_vars PROVE Accounts'
  OBVIOUS
<1>1. ASSUME NEW t \in Threads, KernelCall(t) \/ FileCall(t) PROVE Accounts'
  BY <1>1, KernelCallKeepsAccounts, FileCallKeepsAccounts
<1>2. CASE UNCHANGED <<requirements, file, held>>
  BY <1>2 DEF Accounts, FilesHeld, Lists, Entries, Entry, HoldersOf, NameOf
<1>3. ASSUME NEW t \in Threads, Finish(t) PROVE UNCHANGED <<requirements, file, held>>
  BY <1>3 DEF Finish, UpdateTarget, CallNotifiers
<1>4. NotifierCall => UNCHANGED <<requirements, file, held>>
  BY DEF NotifierCall, AddNotifier, RemoveNotifier
<1>. QED
  BY <1>1, <1>2, <1>3, <1>4 DEF Next, vars

\* The values of the list of a class are those its holders last asked for.
LEMMA AccountsGiveValues ==
  ASSUME Accounts, NEW c \in Classes
  PROVE  ValuesOf(requirements[c]) = {held[h].value : h \in HoldersOf(c)}
<1>1. ValuesOf(requirements[c]) = {e.value : e \in Elements(requirements[c])}
  BY DEF ValuesOf, Elements
<1>2. Elements(requirements[c]) = Entries(c)
  BY DEF Accounts, Lists
<1>3. {e.value : e \in Entries(c)} = {held[h].value : h \in HoldersOf(c)}
  <2>1. \A h : Entry(h).value = held[h].value
    BY DEF Entry
  <2>2. {e.value : e \in Entries(c)} = {Entry(h).value : h \in HoldersOf(c)}
    BY DEF Entries
  <2>. QED
    BY <2>1, <2>2
<1>. QED
  BY <1>1, <1>2, <1>3

\* When every file is used by the process that opened it, and no process has
\* two files of a class, each client and each open file is accounted for: the
\* target of a class with no update under way is the extreme of what they
\* last asked for, for any number of processes, clients, files and classes.
THEOREM HandlesCount ==
  ASSUME ~AnyHandles
  PROVE  Spec => []HandlesAccounted
<1>1. ASSUME IInv, Accounts PROVE HandlesAccounted
  <2>. SUFFICES ASSUME NEW c \in Classes, ~Updating(c)
                PROVE  IsExtreme(c, target[c], {held[h].value : h \in HoldersOf(c)})
    BY DEF HandlesAccounted, HoldersOf
  <2>1. IsExtreme(c, target[c], ValuesOf(requirements[c]))
    BY <1>1 DEF IInv, TargetCurrent
  <2>. QED
    BY <1>1, <2>1, AccountsGiveValues
<1>2. IInv => TypeOK
  BY DEF IInv
<1>. QED
  BY InitIInv, NextIInv, InitAccounts, NextAccounts, <1>1, <1>2, PTL DEF Spec
=============================================================================
