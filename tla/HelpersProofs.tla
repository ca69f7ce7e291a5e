---------------------------- MODULE HelpersProofs ----------------------------
(***************************************************************************)
(* The machines of Helpers, for any number of actors: what each promises   *)
(* is part of an invariant of its own, which the steps of the others leave *)
(* alone.                                                                  *)
(***************************************************************************)
EXTENDS Helpers, FiniteSetTheorems, SequenceTheorems, WellFoundedInduction, TLAPS

-----------------------------------------------------------------------------
\* A step is one of the machine it is about; the others rest.
LEMMA StepsApart ==
  ASSUME [MachinesNext]_helpervars
  PROVE  /\ Wq!WqNext \/ UNCHANGED wqvars
         /\ Anchor!AnNext \/ UNCHANGED anchorvars
         /\ Ida!IdaNext \/ UNCHANGED idavars
         /\ Genl!GenlNext \/ UNCHANGED genlvars
         /\ Tty!FlowNext \/ UNCHANGED ttyvars
         /\ Tty!PacketNext \/ UNCHANGED pktvars
         /\ Dma!DmaBufNext \/ UNCHANGED dmavars
         /\ Led!LedNext \/ UNCHANGED ledvars
         /\ I2c!I2cNext \/ UNCHANGED i2cvars
         /\ Addr!DevAddrNext \/ UNCHANGED addrvars
<1>1. CASE UNCHANGED helpervars
  BY <1>1 DEF helpervars
<1>2. CASE MachinesNext
  BY <1>2 DEF MachinesNext, OthersRest
<1>. QED
  BY <1>1, <1>2

-----------------------------------------------------------------------------
(***************************************************************************)
(* Lists on which nothing is twice, and counts.                            *)
(***************************************************************************)
Once(list)     == \A j, k \in DOMAIN list : list[j] = list[k] => j = k
Elements(list) == {list[k] : k \in DOMAIN list}

\* A list from which one entry was dropped has the others.
LEMMA OnceDropped ==
  ASSUME NEW S, NEW list \in Seq(S), Once(list), NEW k \in 1..Len(list)
  PROVE  LET short == SubSeq(list, 1, k - 1) \o SubSeq(list, k + 1, Len(list))
         IN  /\ short \in Seq(S) /\ Once(short)
             /\ Elements(short) = Elements(list) \ {list[k]}
<1>. DEFINE left == SubSeq(list, 1, k - 1)
            right == SubSeq(list, k + 1, Len(list))
<1>0. PICK n \in Nat : n = Len(list) /\ DOMAIN list = 1..n
  OBVIOUS
<1>1. PICK l : l = left
  OBVIOUS
<1>2. PICK r : r = right
  OBVIOUS
<1>3. l \in Seq(S) /\ Len(l) = k - 1
  <2>1. 1 \in Int /\ k - 1 \in Int /\ \A j \in 1..k - 1 : list[j] \in S
    BY <1>0
  <2>2. left \in Seq(S) /\ Len(left) = IF 1 <= k - 1 THEN k - 1 - 1 + 1 ELSE 0
    BY <2>1, SubSeqProperties
  <2>. QED
    BY <1>0, <1>1, <2>2
<1>4. \A j \in 1..k - 1 : l[j] = list[j]
  <2>1. 1 \in Int /\ k - 1 \in Int /\ \A j \in 1..k - 1 : list[j] \in S
    BY <1>0
  <2>2. \A j \in 1..k - 1 - 1 + 1 : left[j] = list[1 + j - 1]
    BY <2>1, SubSeqProperties
  <2>. QED
    BY <1>0, <1>1, <2>2
<1>5. r \in Seq(S) /\ Len(r) = n - k
  <2>1. k + 1 \in Int /\ n \in Int /\ \A j \in k + 1..n : list[j] \in S
    BY <1>0
  <2>2. SubSeq(list, k + 1, n) \in Seq(S) /\ Len(SubSeq(list, k + 1, n)) =
          IF k + 1 <= n THEN n - (k + 1) + 1 ELSE 0
    BY <2>1, SubSeqProperties
  <2>. QED
    BY <1>0, <1>2, <2>2
<1>6. \A j \in 1..n - k : r[j] = list[k + j]
  <2>1. k + 1 \in Int /\ n \in Int /\ \A j \in k + 1..n : list[j] \in S
    BY <1>0
  <2>2. \A j \in 1..n - (k + 1) + 1 : SubSeq(list, k + 1, n)[j] = list[k + 1 + j - 1]
    BY <2>1, SubSeqProperties
  <2>. QED
    BY <1>0, <1>2, <2>2
<1>7. PICK short : short = left \o right /\ short = l \o r
  BY <1>1, <1>2
<1>. HIDE DEF left, right
<1>. k \in 1..n /\ n \in Nat
  BY <1>0
<1>8. short \in Seq(S) /\ Len(short) = n - 1
  <2>1. l \o r \in Seq(S) /\ Len(l \o r) = Len(l) + Len(r)
    BY <1>3, <1>5, ConcatProperties
  <2>. QED
    BY <1>3, <1>5, <1>7, <2>1
<1>9. \A j \in 1..n - 1 : short[j] = IF j < k THEN list[j] ELSE list[j + 1]
  <2>0. \A j \in 1..Len(l) + Len(r) : (l \o r)[j] = IF j <= Len(l) THEN l[j] ELSE r[j - Len(l)]
    BY <1>3, <1>5, ConcatProperties
  <2>1. \A j \in 1..n - 1 : short[j] = IF j <= k - 1 THEN l[j] ELSE r[j - (k - 1)]
    BY <1>3, <1>5, <1>7, <2>0
  <2>2. ASSUME NEW j \in 1..n - 1
        PROVE  short[j] = IF j < k THEN list[j] ELSE list[j + 1]
    <3>1. CASE j < k
      BY <1>0, <1>4, <2>1, <3>1
    <3>2. CASE j >= k
      <4>1. j - (k - 1) \in 1..n - k /\ ~(j <= k - 1)
        BY <1>0, <3>2
      <4>2. short[j] = r[j - (k - 1)]
        BY <2>1, <4>1
      <4>3. r[j - (k - 1)] = list[k + (j - (k - 1))]
        BY <1>6, <4>1
      <4>4. k + (j - (k - 1)) = j + 1
        BY <1>0
      <4>. QED
        BY <3>2, <4>2, <4>3, <4>4, <1>0
    <3>. QED
      BY <3>1, <3>2, <1>0
  <2>. QED
    BY <2>2
<1>10. Once(short)
  <2>1. ASSUME NEW j \in 1..n - 1, NEW m \in 1..n - 1, short[j] = short[m]
        PROVE  j = m
    <3>1. \A a, b \in 1..n : list[a] = list[b] => a = b
      BY <1>0 DEF Once
    <3>2. PICK a \in 1..n : short[j] = list[a] /\ a = IF j < k THEN j ELSE j + 1
      BY <1>0, <1>9
    <3>3. PICK b \in 1..n : short[m] = list[b] /\ b = IF m < k THEN m ELSE m + 1
      BY <1>0, <1>9
    <3>4. a = b
      BY <2>1, <3>1, <3>2, <3>3
    <3>. QED
      BY <3>2, <3>3, <3>4
  <2>. QED
    BY <1>0, <1>8, <2>1 DEF Once
<1>11. Elements(short) = Elements(list) \ {list[k]}
  <2>0. DOMAIN short = 1..n - 1
    BY <1>0, <1>8
  <2>1. ASSUME NEW j \in 1..n - 1
        PROVE  short[j] \in Elements(list) \ {list[k]}
    BY SMTT(30), <1>0, <1>9, <2>1 DEF Once, Elements
  <2>2. ASSUME NEW j \in 1..n, j # k
        PROVE  list[j] \in Elements(short)
    <3>1. CASE j < k
      <4>1. j \in 1..n - 1 /\ short[j] = list[j]
        BY <1>0, <1>9, <3>1
      <4>. QED
        BY <2>0, <4>1 DEF Elements
    <3>2. CASE j > k
      <4>1. j - 1 \in 1..n - 1 /\ short[j - 1] = list[j]
        BY <1>0, <1>9, <3>2
      <4>. QED
        BY <2>0, <4>1 DEF Elements
    <3>. QED
      BY <1>0, <2>2, <3>1, <3>2
  <2>3. Elements(short) \subseteq Elements(list) \ {list[k]}
    BY <2>0, <2>1 DEF Elements
  <2>4. Elements(list) \ {list[k]} \subseteq Elements(short)
    BY <1>0, <2>2 DEF Elements
  <2>. QED
    BY <2>3, <2>4
<1>. QED
  BY <1>7, <1>8, <1>10, <1>11 DEF left, right

\* A list gets an entry at its end or in front.
LEMMA OnceAppended ==
  ASSUME NEW S, NEW list \in Seq(S), Once(list), NEW x \in S, x \notin Elements(list)
  PROVE  /\ Append(list, x) \in Seq(S) /\ Once(Append(list, x))
         /\ Elements(Append(list, x)) = Elements(list) \cup {x}
<1>0. PICK n \in Nat : n = Len(list) /\ DOMAIN list = 1..n
  OBVIOUS
<1>1. PICK long : long = Append(list, x)
  OBVIOUS
<1>2. long \in Seq(S) /\ DOMAIN long = 1..n + 1
  BY <1>0, <1>1
<1>3. \A j \in 1..n + 1 : long[j] = IF j = n + 1 THEN x ELSE list[j]
  BY <1>0, <1>1
<1>4. Once(long)
  BY <1>0, <1>2, <1>3 DEF Once, Elements
<1>5. Elements(long) \subseteq Elements(list) \cup {x}
  BY <1>0, <1>2, <1>3 DEF Elements
<1>6. ASSUME NEW y \in Elements(list) \cup {x} PROVE y \in Elements(long)
  <2>1. CASE y = x
    <3>1. n + 1 \in DOMAIN long /\ long[n + 1] = x
      BY <1>0, <1>2, <1>3
    <3>. QED
      BY <2>1, <3>1 DEF Elements
  <2>2. CASE y \in Elements(list)
    <3>1. PICK j \in 1..n : list[j] = y
      BY <1>0, <2>2 DEF Elements
    <3>2. j \in DOMAIN long /\ long[j] = y
      BY <1>0, <1>2, <1>3, <3>1
    <3>. QED
      BY <3>2 DEF Elements
  <2>. QED
    BY <1>6, <2>1, <2>2
<1>. QED
  BY <1>1, <1>2, <1>4, <1>5, <1>6

LEMMA OnceTail ==
  ASSUME NEW S, NEW list \in Seq(S), Once(list), list # << >>
  PROVE  /\ Head(list) \in S /\ Head(list) \in Elements(list)
         /\ Tail(list) \in Seq(S) /\ Once(Tail(list))
         /\ Elements(Tail(list)) = Elements(list) \ {Head(list)}
<1>0. PICK n \in Nat \ {0} : n = Len(list) /\ DOMAIN list = 1..n
  OBVIOUS
<1>1. PICK short : short = Tail(list)
  OBVIOUS
<1>2. short \in Seq(S) /\ DOMAIN short = 1..n - 1 /\ Head(list) = list[1]
  BY <1>0, <1>1
<1>3. \A j \in 1..n - 1 : short[j] = list[j + 1]
  BY <1>0, <1>1
<1>4. Once(short)
  BY SMTT(30), <1>0, <1>2, <1>3 DEF Once
<1>5. Elements(short) \subseteq Elements(list) \ {list[1]}
  <2>1. ASSUME NEW j \in 1..n - 1 PROVE short[j] \in Elements(list) \ {list[1]}
    <3>1. j + 1 \in 1..n /\ 1 \in 1..n /\ j + 1 # 1 /\ short[j] = list[j + 1]
      BY <1>0, <1>3
    <3>2. list[j + 1] # list[1]
      BY <1>0, <3>1 DEF Once
    <3>. QED
      BY <1>0, <3>1, <3>2 DEF Elements
  <2>. QED
    BY <1>2, <2>1 DEF Elements
<1>6. ASSUME NEW y \in Elements(list) \ {list[1]} PROVE y \in Elements(short)
  <2>1. PICK j \in 1..n : list[j] = y /\ j # 1
    BY <1>0 DEF Elements
  <2>2. j - 1 \in DOMAIN short /\ short[j - 1] = y
    BY <1>0, <1>2, <1>3, <2>1
  <2>. QED
    BY <2>2 DEF Elements
<1>7. Head(list) \in S /\ Head(list) \in Elements(list)
  BY <1>0, <1>2 DEF Elements
<1>8. Elements(short) = Elements(list) \ {Head(list)}
  BY <1>2, <1>5, <1>6
<1>. QED
  BY <1>1, <1>2, <1>4, <1>7, <1>8

\* The members of a finite set with a value: one more, one less.
LEMMA OneMore ==
  ASSUME NEW A, NEW B, IsFiniteSet(A), NEW x, x \notin A, B = A \cup {x}
  PROVE  Cardinality(B) = Cardinality(A) + 1 /\ Cardinality(A) \in Nat /\ IsFiniteSet(B)
BY FS_AddElement, FS_CardinalityType

LEMMA OneLess ==
  ASSUME NEW A, NEW B, IsFiniteSet(A), NEW x \in A, B = A \ {x}
  PROVE  Cardinality(B) = Cardinality(A) - 1 /\ Cardinality(A) \in Nat \ {0} /\ IsFiniteSet(B)
<1>1. IsFiniteSet(B) /\ Cardinality(B) = Cardinality(A) - 1
  BY FS_RemoveElement
<1>2. Cardinality(A) \in Nat /\ Cardinality(B) \in Nat
  BY <1>1, FS_CardinalityType
<1>. QED
  BY <1>1, <1>2

\* A nonempty set of naturals has a least element.
LEMMA LeastNat ==
  ASSUME NEW S \in SUBSET Nat, S # {}
  PROVE  \E n \in S : \A m \in S : n <= m
<1>. DEFINE R == {p \in Nat \X Nat : p[1] < p[2]}
<1>1. IsWellFoundedOn(R, Nat)
  BY NatLessThanWellFounded DEF OpToRel
<1>. HIDE DEF R
<1>2. PICK n \in S : \A m \in S : ~(<<m, n>> \in R)
  BY <1>1, WFMin
<1>3. \A m \in S : ~(m < n)
  BY <1>2 DEF R
<1>. QED
  BY <1>2, <1>3

-----------------------------------------------------------------------------
(***************************************************************************)
(* The work queue.  At most one mod_delayed_work is between taking the     *)
(* work off its timer and clearing its bit; a pending work that is nowhere *)
(* is in its hands, and so is one that was asked for and is not pending.   *)
(***************************************************************************)
Clearing(d) == wq_driver[d].at = "clear" /\ wq_driver[d].hit

WqTyped ==
  /\ pending \in BOOLEAN /\ running \in BOOLEAN
  /\ work_asked \in BOOLEAN /\ work_stopped \in BOOLEAN
  /\ place \in {"none", "timer", "queue"}
  /\ wq_driver \in [Drivers -> [at : {"away", "mod", "clear", "queue", "flush_dw",
                                      "flush", "flush_all"},
                                hit : BOOLEAN, depth : Nat]]

WqInv ==
  /\ WqTyped
  /\ place # "none" => pending
  /\ \A d \in Drivers : Clearing(d) => pending /\ place = "none"
  /\ \A d, e \in Drivers : Clearing(d) /\ Clearing(e) => d = e
  /\ pending /\ place = "none" /\ ~work_stopped => \E d \in Drivers : Clearing(d)
  /\ work_asked /\ ~pending /\ ~work_stopped =>
       \E d \in Drivers : wq_driver[d].at = "queue"

LEMMA WqStarts ==
  ASSUME MachinesInit
  PROVE  WqInv
BY DEF MachinesInit, Wq!WqInit, Wq!Away, WqInv, WqTyped, Clearing

LEMMA WqStep ==
  ASSUME WqInv, Wq!WqNext
  PROVE  WqInv'
<1>. USE DEF WqInv, WqTyped, Clearing
<1>1. CASE Wq!backport_init \/ Wq!backport_exit
  BY <1>1 DEF Wq!backport_init, Wq!backport_exit
<1>2. CASE Wq!TimerFires
  BY <1>2 DEF Wq!TimerFires
<1>11. CASE Wq!Runs
  BY <1>11 DEF Wq!Runs
<1>12. CASE Wq!Ends
  BY <1>12 DEF Wq!Ends
<1>3. ASSUME NEW d \in Drivers, Wq!schedule_work(d) \/ Wq!schedule_delayed_work(d)
      PROVE  WqInv'
  BY <1>3 DEF Wq!schedule_work, Wq!schedule_delayed_work, Wq!queue_work
<1>4. ASSUME NEW d \in Drivers, Wq!Calls(d)
      PROVE  WqInv'
  <2>. DEFINE Places == {"away", "mod", "clear", "queue", "flush_dw", "flush", "flush_all"}
  <2>1. PICK to_at \in {"mod", "flush_dw", "flush_all"} :
               Wq!Goes(d, [Wq!Away EXCEPT !.at = to_at])
    BY <1>4 DEF Wq!Calls
  <2>2. PICK r : r = [Wq!Away EXCEPT !.at = to_at]
    OBVIOUS
  <2>3. PICK away \in [at : Places, hit : BOOLEAN, depth : Nat] : away = Wq!Away
    BY DEF Wq!Away
  <2>4. r \in [at : Places, hit : BOOLEAN, depth : Nat] /\ r.at = to_at
    BY <2>2, <2>3
  <2>. QED
    BY <1>4, <2>1, <2>2, <2>4 DEF Wq!Calls, Wq!At, Wq!Goes
<1>5. ASSUME NEW d \in Drivers, Wq!CancelTimer(d)
      PROVE  WqInv'
  BY ZenonT(40), <1>5 DEF Wq!CancelTimer, Wq!At, Wq!Goes, Wq!del_timer
<1>6. ASSUME NEW d \in Drivers, Wq!ClearPending(d)
      PROVE  WqInv'
  BY <1>6 DEF Wq!ClearPending, Wq!At, Wq!Goes
<1>7. ASSUME NEW d \in Drivers, Wq!mod_delayed_work(d)
      PROVE  WqInv'
  BY <1>7 DEF Wq!mod_delayed_work, Wq!At, Wq!Goes, Wq!queue_work, Wq!Away
<1>8. ASSUME NEW d \in Drivers, Wq!flush_delayed_work(d)
      PROVE  WqInv'
  BY <1>8 DEF Wq!flush_delayed_work, Wq!At, Wq!Goes, Wq!del_timer
<1>9. ASSUME NEW d \in Drivers, Wq!FlushWork(d)
      PROVE  WqInv'
  BY <1>9 DEF Wq!FlushWork, Wq!At, Wq!Goes, Wq!Away
<1>10. ASSUME NEW d \in Drivers, Wq!flush_scheduled_work(d)
      PROVE  WqInv'
  BY <1>10 DEF Wq!flush_scheduled_work, Wq!At, Wq!Goes
<1>. QED
  BY <1>1, <1>2, <1>3, <1>4, <1>5, <1>6, <1>7, <1>8, <1>9, <1>10, <1>11, <1>12
  DEF Wq!WqNext

-----------------------------------------------------------------------------
(***************************************************************************)
(* The anchor: an URB is on the list once.                                 *)
(***************************************************************************)
AnchorTyped ==
  /\ urb_list \in Seq(Urbs)
  /\ refs \in [Urbs -> Int] /\ urb_own \in [Urbs -> 0..1]
  /\ hcd \in [Urbs -> {"idle", "inflight", "completing"}]
  /\ victim \in [Unlinkers -> Urbs \cup {Nobody}]
  /\ asleep \in BOOLEAN /\ used \in BOOLEAN

AnchorInv == AnchorTyped /\ Once(urb_list) /\ AnchorsBalanced

\* The number of elements is the same in the module of the anchor.
LEMMA AnchorCardinality == \A S : Anchor!Cardinality(S) = Cardinality(S)
BY DEF Anchor!Cardinality, Cardinality

Holders(u) == {c \in Unlinkers : victim[c] = u}

Counted(u) ==
  refs[u] = urb_own[u] + (IF u \in Elements(urb_list) THEN 1 ELSE 0)
            + (IF hcd[u] = "idle" THEN 0 ELSE 1) + Cardinality(Holders(u))

LEMMA BalancedIsCounted ==
  AnchorsBalanced <=> /\ \A u \in Urbs : Counted(u)
                      /\ ~used
                      /\ urb_list = << >> => ~asleep
BY AnchorCardinality
   DEF AnchorsBalanced, Anchor!AnchorsBalanced, Anchor!Anchored, Anchor!ToSet,
       Anchor!usb_anchor_empty, Counted, Holders, Elements

LEMMA HoldersFinite == \A u : IsFiniteSet(Holders(u)) /\ Cardinality(Holders(u)) \in Nat
<1>1. ASSUME NEW u PROVE IsFiniteSet(Holders(u)) /\ Cardinality(Holders(u)) \in Nat
  <2>1. Holders(u) \in SUBSET Unlinkers /\ IsFiniteSet(Unlinkers)
    BY HelpersAssumption DEF Holders
  <2>2. IsFiniteSet(Holders(u))
    BY <2>1, FS_Subset
  <2>. QED
    BY <2>2, FS_CardinalityType
<1>. QED
  BY <1>1

LEMMA AnchorStarts ==
  ASSUME MachinesInit
  PROVE  AnchorInv
<1>1. Anchor!AnInit
  BY DEF MachinesInit
<1>2. AnchorTyped
  <2>1. urb_list \in Seq(Urbs)
    BY <1>1 DEF Anchor!AnInit
  <2>2. urb_own \in [Urbs -> 0..1] /\ refs \in [Urbs -> Int]
    BY <1>1 DEF Anchor!AnInit
  <2>. QED
    BY <1>1, <2>1, <2>2 DEF Anchor!AnInit, AnchorTyped
<1>4. Once(urb_list)
  BY <1>1 DEF Anchor!AnInit, Once
<1>3. ASSUME NEW u \in Urbs PROVE Counted(u)
  <2>1. Holders(u) = {}
    BY <1>1, HelpersAssumption DEF Anchor!AnInit, Holders
  <2>2. Cardinality(Holders(u)) = 0
    BY <2>1, FS_EmptySet
  <2>3. u \notin Elements(urb_list)
    BY <1>1 DEF Anchor!AnInit, Elements
  <2>. QED
    BY <1>1, <2>2, <2>3 DEF Anchor!AnInit, Counted
<1>. QED
  BY <1>1, <1>2, <1>3, <1>4, BalancedIsCounted DEF Anchor!AnInit, AnchorInv

\* The count of one URB changes.
LEMMA AddsOne ==
  ASSUME AnchorTyped, NEW u \in Urbs, NEW n \in Int, Anchor!Adds(Anchor!One(u, n))
  PROVE  /\ refs' \in [Urbs -> Int] /\ refs'[u] = refs[u] + n
         /\ \A v \in Urbs \ {u} : refs'[v] = refs[v]
BY DEF AnchorTyped, Anchor!Adds, Anchor!One

\* An URB that the list, the controller or a caller refers to has references.
LEMMA Referenced ==
  ASSUME AnchorInv, NEW u \in Urbs,
         u \in Elements(urb_list) \/ hcd[u] # "idle" \/ Holders(u) # {}
  PROVE  refs[u] # 0
<1>1. Counted(u) /\ urb_own[u] \in 0..1 /\ Cardinality(Holders(u)) \in Nat
  BY BalancedIsCounted, HoldersFinite DEF AnchorInv, AnchorTyped
<1>2. Holders(u) # {} => Cardinality(Holders(u)) # 0
  BY HoldersFinite, FS_EmptySet
<1>. QED
  BY <1>1, <1>2 DEF Counted

\* A caller takes hold of an URB, or lets it go.
LEMMA Takes ==
  ASSUME AnchorTyped, NEW c \in Unlinkers, victim[c] = Nobody, NEW u \in Urbs,
         victim' = [victim EXCEPT ![c] = u]
  PROVE  /\ Cardinality(Holders(u)') = Cardinality(Holders(u)) + 1
         /\ \A v \in Urbs \ {u} : Holders(v)' = Holders(v)
<1>1. c \notin Holders(u) /\ Holders(u)' = Holders(u) \cup {c}
  BY HelpersAssumption DEF AnchorTyped, Holders
<1>2. \A v \in Urbs \ {u} : Holders(v)' = Holders(v)
  BY HelpersAssumption DEF AnchorTyped, Holders
<1>. QED
  BY <1>1, <1>2, HoldersFinite, OneMore

LEMMA LetsGo ==
  ASSUME AnchorTyped, NEW c \in Unlinkers, NEW u \in Urbs, victim[c] = u,
         victim' = [victim EXCEPT ![c] = Nobody]
  PROVE  /\ Cardinality(Holders(u)') = Cardinality(Holders(u)) - 1
         /\ \A v \in Urbs \ {u} : Holders(v)' = Holders(v)
<1>1. c \in Holders(u) /\ Holders(u)' = Holders(u) \ {c}
  BY HelpersAssumption DEF AnchorTyped, Holders
<1>2. \A v \in Urbs \ {u} : Holders(v)' = Holders(v)
  BY HelpersAssumption DEF AnchorTyped, Holders
<1>. QED
  BY <1>1, <1>2, HoldersFinite, OneLess

\* usb_unanchor_urb: the list without the URB.
LEMMA Unanchored ==
  ASSUME AnchorInv, NEW u \in Elements(urb_list)
  PROVE  LET short == Anchor!RemoveFirst(urb_list, u)
         IN  /\ short \in Seq(Urbs) /\ Once(short)
             /\ Elements(short) = Elements(urb_list) \ {u}
<1>1. urb_list \in Seq(Urbs) /\ Once(urb_list)
  BY DEF AnchorInv, AnchorTyped
<1>2. PICK k \in 1..Len(urb_list) : urb_list[k] = u
  BY <1>1 DEF Elements
<1>3. {j \in 1..Len(urb_list) : urb_list[j] = u} = {k}
  BY <1>1, <1>2 DEF Once
<1>4. Anchor!Min({k}) = k
  BY DEF Anchor!Min
<1>5. Anchor!SelectInSeq(urb_list, LAMBDA v : v = u) = k
  BY <1>3, <1>4 DEF Anchor!SelectInSeq
<1>6. Anchor!RemoveFirst(urb_list, u) =
        SubSeq(urb_list, 1, k - 1) \o SubSeq(urb_list, k + 1, Len(urb_list))
  BY <1>2, <1>5 DEF Anchor!RemoveFirst, Anchor!RemoveAt
<1>. QED
  BY <1>1, <1>2, <1>6, OnceDropped

\* The invariant after a step, from what the step leaves of its parts.
LEMMA AnchorKept ==
  ASSUME AnchorTyped', Once(urb_list)', used' = FALSE, urb_list' = << >> => ~asleep',
         \A u \in Urbs : Counted(u)'
  PROVE  AnchorInv'
<1>1. /\ \A u \in Urbs : Counted(u)'
      /\ ~used'
      /\ urb_list' = << >> => ~asleep'
  OBVIOUS
<1>2. AnchorsBalanced'
  BY <1>1, AnchorCardinality
  DEF AnchorsBalanced, Anchor!AnchorsBalanced, Anchor!Anchored, Anchor!ToSet,
      Anchor!usb_anchor_empty, Counted, Holders, Elements
<1>. QED
  BY <1>2 DEF AnchorInv

LEMMA AnchorStep ==
  ASSUME AnchorInv, Anchor!AnNext
  PROVE  AnchorInv'
<1>0. /\ AnchorTyped /\ Once(urb_list) /\ used = FALSE
      /\ urb_list = << >> => ~asleep
      /\ \A u \in Urbs : Counted(u)
  BY BalancedIsCounted DEF AnchorInv, AnchorTyped
<1>. USE HoldersFinite
<1>1. ASSUME NEW u \in Urbs, Anchor!Submit(u)
      PROVE  AnchorInv'
  <2>1. u \notin Elements(urb_list) /\ urb_list' = Append(urb_list, u)
    BY <1>1 DEF Anchor!Submit, Anchor!Anchored, Anchor!ToSet, Elements
  <2>2. /\ urb_list' \in Seq(Urbs) /\ Once(urb_list')
        /\ Elements(urb_list') = Elements(urb_list) \cup {u}
    BY <1>0, <2>1, OnceAppended DEF AnchorTyped
  <2>3. /\ refs' \in [Urbs -> Int] /\ refs'[u] = refs[u] + 2
        /\ \A v \in Urbs \ {u} : refs'[v] = refs[v]
    BY <1>0, <1>1, AddsOne DEF Anchor!Submit
  <2>4. AnchorTyped'
    BY <1>0, <1>1, <2>2, <2>3 DEF Anchor!Submit, AnchorTyped
  <2>5. \A v \in Urbs : Holders(v)' = Holders(v)
    BY <1>1 DEF Anchor!Submit, Holders
  <2>6. ASSUME NEW v \in Urbs PROVE Counted(v)'
    <3>1. CASE v = u
      BY <1>0, <1>1, <2>1, <2>2, <2>3, <2>5, <3>1 DEF Anchor!Submit, AnchorTyped, Counted
    <3>2. CASE v # u
      BY <1>0, <1>1, <2>1, <2>2, <2>3, <2>5, <3>2 DEF Anchor!Submit, AnchorTyped, Counted
    <3>. QED
      BY <3>1, <3>2
  <2>7. urb_list' # << >> /\ used' = FALSE
    BY <1>0, <1>1, <2>1 DEF Anchor!Submit, AnchorTyped
  <2>. QED
    BY <2>2, <2>4, <2>6, <2>7, AnchorKept
<1>2. ASSUME NEW u \in Urbs, Anchor!Completes(u)
      PROVE  AnchorInv'
  <2>1. AnchorTyped'
    BY <1>0, <1>2 DEF Anchor!Completes, AnchorTyped
  <2>2. \A v \in Urbs : Holders(v)' = Holders(v)
    BY <1>2 DEF Anchor!Completes, Holders
  <2>3. \A v \in Urbs : Counted(v)'
    BY <1>0, <1>2, <2>2 DEF Anchor!Completes, AnchorTyped, Counted
  <2>. QED
    BY <1>0, <1>2, <2>1, <2>3, AnchorKept DEF Anchor!Completes
<1>3. ASSUME NEW u \in Urbs, Anchor!GivesBack(u)
      PROVE  AnchorInv'
  <2>0. Counted(u) /\ Cardinality(Holders(u)) \in Nat /\ urb_own[u] \in Int /\ refs[u] \in Int
    BY <1>0 DEF AnchorTyped
  <2>1. refs[u] # 0 /\ hcd[u] = "completing"
    BY <1>3, Referenced DEF Anchor!GivesBack
  <2>2. used' = FALSE
    BY <1>0, <1>3, <2>1 DEF Anchor!GivesBack, Anchor!Uses
  <2>3. \A v \in Urbs : Holders(v)' = Holders(v)
    BY <1>3 DEF Anchor!GivesBack, Holders
  <2>4. Anchor!Anchored(u) <=> u \in Elements(urb_list)
    BY DEF Anchor!Anchored, Anchor!ToSet, Elements
  <2>5. CASE u \in Elements(urb_list)
    <3>1. urb_list' = Anchor!RemoveFirst(urb_list, u) /\ (urb_list' = << >> => ~asleep')
      BY <1>3, <2>4, <2>5 DEF Anchor!GivesBack, Anchor!__usb_unanchor_urb
    <3>2. /\ urb_list' \in Seq(Urbs) /\ Once(urb_list')
          /\ Elements(urb_list') = Elements(urb_list) \ {u}
      BY <2>5, <3>1, Unanchored
    <3>3. Anchor!Adds(Anchor!One(u, -2))
      BY <1>3, <2>4, <2>5 DEF Anchor!GivesBack
    <3>4. /\ refs' \in [Urbs -> Int] /\ refs'[u] = refs[u] + (-2)
          /\ \A v \in Urbs \ {u} : refs'[v] = refs[v]
      BY <1>0, <3>3, AddsOne
    <3>5. AnchorTyped'
      BY <1>0, <1>3, <2>2, <2>4, <2>5, <3>2, <3>4
      DEF Anchor!GivesBack, Anchor!__usb_unanchor_urb, AnchorTyped
    <3>6. ASSUME NEW v \in Urbs PROVE Counted(v)'
      <4>1. CASE v = u
        <5>1. hcd'[u] = "idle" /\ urb_own'[u] = urb_own[u]
          BY <1>0, <1>3 DEF Anchor!GivesBack, AnchorTyped
        <5>2. u \notin Elements(urb_list)'
          BY <3>2
        <5>. QED
          BY <2>0, <2>1, <2>3, <2>5, <3>4, <4>1, <5>1, <5>2 DEF Counted
      <4>2. CASE v # u
        BY <1>0, <1>3, <2>1, <2>3, <2>5, <3>2, <3>4, <4>2
        DEF Anchor!GivesBack, AnchorTyped, Counted
      <4>. QED
        BY <4>1, <4>2
    <3>. QED
      BY <2>2, <3>1, <3>2, <3>5, <3>6, AnchorKept
  <2>6. CASE u \notin Elements(urb_list)
    <3>1. UNCHANGED <<urb_list, asleep>> /\ Anchor!Adds(Anchor!One(u, -1))
      BY <1>3, <2>4, <2>6 DEF Anchor!GivesBack
    <3>2. /\ refs' \in [Urbs -> Int] /\ refs'[u] = refs[u] + (-1)
          /\ \A v \in Urbs \ {u} : refs'[v] = refs[v]
      BY <1>0, <3>1, AddsOne
    <3>3. AnchorTyped'
      BY <1>0, <1>3, <2>2, <3>1, <3>2 DEF Anchor!GivesBack, AnchorTyped
    <3>4. ASSUME NEW v \in Urbs PROVE Counted(v)'
      <4>1. CASE v = u
        <5>1. hcd'[u] = "idle" /\ urb_own'[u] = urb_own[u]
          BY <1>0, <1>3 DEF Anchor!GivesBack, AnchorTyped
        <5>2. u \notin Elements(urb_list)'
          BY <2>6, <3>1
        <5>. QED
          BY <2>0, <2>1, <2>3, <2>6, <3>2, <4>1, <5>1, <5>2 DEF Counted
      <4>2. CASE v # u
        BY <1>0, <1>3, <2>1, <2>3, <2>6, <3>1, <3>2, <4>2
        DEF Anchor!GivesBack, AnchorTyped, Counted
      <4>. QED
        BY <4>1, <4>2
    <3>. QED
      BY <1>0, <2>2, <3>1, <3>3, <3>4, AnchorKept
  <2>. QED
    BY <2>5, <2>6
<1>4. ASSUME NEW u \in Urbs, Anchor!usb_free_urb(u)
      PROVE  AnchorInv'
  <2>1. /\ refs' \in [Urbs -> Int] /\ refs'[u] = refs[u] + (-1)
        /\ \A v \in Urbs \ {u} : refs'[v] = refs[v]
    BY <1>0, <1>4, AddsOne DEF Anchor!usb_free_urb
  <2>2. AnchorTyped'
    <3>1. urb_own' \in [Urbs -> 0..1]
      BY <1>0, <1>4 DEF Anchor!usb_free_urb, AnchorTyped
    <3>. QED
      BY <1>0, <1>4, <2>1, <3>1 DEF Anchor!usb_free_urb, AnchorTyped
  <2>3. \A v \in Urbs : Holders(v)' = Holders(v)
    BY <1>4 DEF Anchor!usb_free_urb, Holders
  <2>4. \A v \in Urbs : Counted(v)'
    BY SMTT(30), <1>0, <1>4, <2>1, <2>3 DEF Anchor!usb_free_urb, AnchorTyped, Counted
  <2>. QED
    BY <1>0, <1>4, <2>2, <2>4, AnchorKept DEF Anchor!usb_free_urb
<1>5. ASSUME NEW u \in Urbs, Anchor!Poison(u)
      PROVE  AnchorInv'
  <2>1. AnchorTyped' /\ \A v \in Urbs : Counted(v)'
    BY <1>0, <1>5 DEF Anchor!Poison, AnchorTyped, Counted, Holders
  <2>. QED
    BY <1>0, <1>5, <2>1, AnchorKept DEF Anchor!Poison
<1>6. ASSUME NEW c \in Unlinkers, Anchor!usb_get_from_anchor(c)
      PROVE  AnchorInv'
  <2>1. PICK u : u = Head(urb_list)
    OBVIOUS
  <2>2. /\ urb_list # << >> /\ victim[c] = Nobody
        /\ victim' = [victim EXCEPT ![c] = u]
        /\ urb_list' = Tail(urb_list) /\ (urb_list' = << >> => ~asleep')
        /\ Anchor!Adds(Anchor!One(u, 1 - 1)) /\ Anchor!Uses({u})
        /\ UNCHANGED <<urb_own, hcd>>
    BY <1>6, <2>1 DEF Anchor!usb_get_from_anchor, Anchor!__usb_unanchor_urb
  <2>3. /\ u \in Urbs /\ u \in Elements(urb_list)
        /\ urb_list' \in Seq(Urbs) /\ Once(urb_list')
        /\ Elements(urb_list') = Elements(urb_list) \ {u}
    BY <1>0, <2>1, <2>2, OnceTail DEF AnchorTyped
  <2>4. used' = FALSE
    BY <1>0, <2>2, <2>3, Referenced DEF Anchor!Uses
  <2>5. /\ refs' \in [Urbs -> Int] /\ refs'[u] = refs[u] + (1 - 1)
        /\ \A v \in Urbs \ {u} : refs'[v] = refs[v]
    BY <1>0, <2>2, <2>3, AddsOne
  <2>6. /\ Cardinality(Holders(u)') = Cardinality(Holders(u)) + 1
        /\ \A v \in Urbs \ {u} : Holders(v)' = Holders(v)
    BY <1>0, <2>2, <2>3, Takes
  <2>7. asleep' \in BOOLEAN
    BY <1>6, <1>0 DEF Anchor!usb_get_from_anchor, Anchor!__usb_unanchor_urb, AnchorTyped
  <2>8. AnchorTyped'
    BY <1>0, <2>2, <2>3, <2>4, <2>5, <2>7 DEF AnchorTyped
  <2>9. ASSUME NEW v \in Urbs PROVE Counted(v)'
    <3>1. CASE v = u
      <4>1. Counted(u) /\ Cardinality(Holders(u)) \in Nat /\ urb_own[u] \in Int
            /\ refs[u] \in Int
        BY <1>0, <2>3 DEF AnchorTyped
      <4>2. u \notin Elements(urb_list)' /\ u \in Elements(urb_list)
        BY <2>3
      <4>3. hcd'[u] = hcd[u] /\ urb_own'[u] = urb_own[u] /\ refs'[u] = refs[u]
        BY <2>2, <2>5, <4>1
      <4>. QED
        BY <2>6, <3>1, <4>1, <4>2, <4>3 DEF Counted
    <3>2. CASE v # u
      BY <1>0, <2>2, <2>3, <2>5, <2>6, <3>2 DEF AnchorTyped, Counted
    <3>. QED
      BY <3>1, <3>2
  <2>. QED
    BY <2>2, <2>3, <2>4, <2>8, <2>9, AnchorKept
<1>7. ASSUME NEW c \in Unlinkers, Anchor!usb_unlink_anchored_urbs(c)
      PROVE  AnchorInv'
  <2>1. PICK u \in Urbs : u = victim[c]
    BY <1>0, <1>7 DEF Anchor!usb_unlink_anchored_urbs, AnchorTyped
  <2>2. /\ victim' = [victim EXCEPT ![c] = Nobody]
        /\ hcd' = [hcd EXCEPT ![u] = IF @ = "inflight" THEN "completing" ELSE @]
        /\ Anchor!Uses({u}) /\ Anchor!Adds(Anchor!One(u, -1))
        /\ UNCHANGED <<urb_list, urb_own, asleep>>
    BY <1>7, <2>1 DEF Anchor!usb_unlink_anchored_urbs
  <2>3. c \in Holders(u)
    BY <2>1 DEF Holders
  <2>4. used' = FALSE
    BY <1>0, <2>2, <2>3, Referenced DEF Anchor!Uses
  <2>5. /\ refs' \in [Urbs -> Int] /\ refs'[u] = refs[u] + (-1)
        /\ \A v \in Urbs \ {u} : refs'[v] = refs[v]
    BY <1>0, <2>2, AddsOne
  <2>6. /\ Cardinality(Holders(u)') = Cardinality(Holders(u)) - 1
        /\ \A v \in Urbs \ {u} : Holders(v)' = Holders(v)
    BY <1>0, <2>1, <2>2, LetsGo
  <2>7. AnchorTyped'
    BY <1>0, <2>2, <2>4, <2>5 DEF AnchorTyped
  <2>8. ASSUME NEW v \in Urbs PROVE Counted(v)'
    <3>1. CASE v = u
      <4>1. Counted(u) /\ Cardinality(Holders(u)) \in Nat /\ urb_own[u] \in Int
            /\ refs[u] \in Int
        BY <1>0 DEF AnchorTyped
      <4>2. Elements(urb_list)' = Elements(urb_list) /\ (hcd'[u] = "idle" <=> hcd[u] = "idle")
        BY <1>0, <2>2 DEF AnchorTyped
      <4>. QED
        BY <2>2, <2>5, <2>6, <3>1, <4>1, <4>2 DEF Counted
    <3>2. CASE v # u
      BY <1>0, <2>2, <2>5, <2>6, <3>2 DEF AnchorTyped, Counted
    <3>. QED
      BY <3>1, <3>2
  <2>. QED
    BY <1>0, <2>2, <2>4, <2>7, <2>8, AnchorKept
<1>8. CASE Anchor!usb_scuttle_anchored_urbs
  <2>1. /\ urb_list' = << >> /\ asleep' = FALSE
        /\ UNCHANGED <<urb_own, hcd, victim>>
    BY <1>8 DEF Anchor!usb_scuttle_anchored_urbs, Anchor!__usb_unanchor_urb
  <2>2. Anchor!ToSet(urb_list) = Elements(urb_list) /\ Elements(urb_list) \subseteq Urbs
    BY <1>0 DEF Anchor!ToSet, Elements, AnchorTyped
  <2>3. /\ refs' \in [Urbs -> Int]
        /\ \A v \in Urbs : refs'[v] = refs[v] + IF v \in Elements(urb_list) THEN -1 ELSE 0
    BY <1>0, <1>8, <2>2 DEF Anchor!usb_scuttle_anchored_urbs, Anchor!Adds, AnchorTyped
  <2>4. used' = FALSE
    BY <1>0, <1>8, <2>2, Referenced DEF Anchor!usb_scuttle_anchored_urbs, Anchor!Uses
  <2>5. AnchorTyped'
    <3>1. urb_list' \in Seq(Urbs)
      BY <2>1
    <3>. QED
      BY <1>0, <2>1, <2>3, <2>4, <3>1 DEF AnchorTyped
  <2>6. Once(urb_list') /\ Elements(urb_list') = {}
    BY <2>1 DEF Once, Elements
  <2>7. \A v \in Urbs : Holders(v)' = Holders(v)
    BY <2>1 DEF Holders
  <2>8. ASSUME NEW v \in Urbs PROVE Counted(v)'
    <3>1. Counted(v) /\ Cardinality(Holders(v)) \in Nat /\ urb_own[v] \in Int
          /\ refs[v] \in Int
      BY <1>0 DEF AnchorTyped
    <3>2. v \notin Elements(urb_list)'
      BY <2>6
    <3>. QED
      BY <2>1, <2>3, <2>7, <3>1, <3>2 DEF Counted
  <2>. QED
    BY <2>1, <2>4, <2>5, <2>6, <2>8, AnchorKept
<1>9. CASE Anchor!usb_unpoison_anchored_urbs
  <2>1. AnchorTyped' /\ \A v \in Urbs : Counted(v)'
    BY <1>0, <1>9 DEF Anchor!usb_unpoison_anchored_urbs, AnchorTyped, Counted, Holders
  <2>. QED
    BY <1>0, <1>9, <2>1, AnchorKept DEF Anchor!usb_unpoison_anchored_urbs
<1>10. CASE Anchor!WaitEmpty
  <2>1. AnchorTyped' /\ \A v \in Urbs : Counted(v)'
    BY <1>0, <1>10 DEF Anchor!WaitEmpty, AnchorTyped, Counted, Holders
  <2>. QED
    BY <1>0, <1>10, <2>1, AnchorKept DEF Anchor!WaitEmpty
<1>. QED
  BY <1>1, <1>2, <1>3, <1>4, <1>5, <1>6, <1>7, <1>8, <1>9, <1>10 DEF Anchor!AnNext

-----------------------------------------------------------------------------
(***************************************************************************)
(* The allocator: a request that is under way asks for a range.            *)
(***************************************************************************)
IdaTyped ==
  /\ ida \subseteq 0..Top
  /\ client \in [Clients -> [at : {"idle", "again", "locked"},
                             range : Ida!Ranges \cup {None}, ids : SUBSET (0..Top),
                             ret : {"none", "ENOMEM", "ENOSPC", "id"}, full : BOOLEAN]]

IdaInv ==
  /\ IdaTyped
  /\ \A c \in Clients : client[c].at # "idle" => client[c].range \in Ida!Ranges
  /\ IdsUnique

ClientRecord ==
  [at : {"idle", "again", "locked"}, range : Ida!Ranges \cup {None}, ids : SUBSET (0..Top),
   ret : {"none", "ENOMEM", "ENOSPC", "id"}, full : BOOLEAN]

\* Who has which ids, without the union of a family of sets.
Owned ==
  /\ \A x : x \in ida <=> \E c \in Clients : x \in client[c].ids
  /\ \A c, d \in Clients : c # d => client[c].ids \cap client[d].ids = {}

Refused(c) == client[c].ret = "ENOSPC" => client[c].full

LEMMA UniqueIsOwned == IdsUnique <=> Owned /\ \A c \in Clients : Refused(c)
BY DEF IdsUnique, Ida!IdsUnique, Owned, Refused

LEMMA IdaStarts ==
  ASSUME MachinesInit
  PROVE  IdaInv
<1>1. Ida!IdaInit
  BY DEF MachinesInit
<1>2. \A c \in Clients : client[c] = Ida!Idle
  BY <1>1 DEF Ida!IdaInit
<1>3. Ida!Idle \in ClientRecord
  BY DEF Ida!Idle, ClientRecord
<1>4. IdaTyped
  BY <1>1, <1>3 DEF Ida!IdaInit, IdaTyped, ClientRecord
<1>5. Owned /\ \A c \in Clients : Refused(c)
  BY <1>1, <1>2 DEF Ida!IdaInit, Ida!Idle, Owned, Refused
<1>. QED
  BY <1>2, <1>4, <1>5, UniqueIsOwned DEF IdaInv, Ida!Idle

\* A step of one client: its own record, and what ids it holds then.
LEMMA IdaKept ==
  ASSUME IdaInv, NEW c \in Clients, NEW r \in ClientRecord, Ida!Goes(c, r),
         r.at # "idle" => r.range \in Ida!Ranges,
         r.ret = "ENOSPC" => r.full,
         \/ ida' = ida /\ r.ids = client[c].ids
         \/ \E x \in (0..Top) \ ida : ida' = ida \cup {x} /\ r.ids = client[c].ids \cup {x}
         \/ \E x \in client[c].ids : ida' = ida \ {x} /\ r.ids = client[c].ids \ {x}
  PROVE  IdaInv'
<1>. USE DEF IdaInv, IdaTyped, ClientRecord
<1>1. client' \in [Clients -> ClientRecord] /\ client' = [client EXCEPT ![c] = r]
  BY DEF Ida!Goes
<1>2. client'[c] = r /\ \A d \in Clients \ {c} : client'[d] = client[d]
  BY <1>1
<1>3. Owned /\ \A d \in Clients : Refused(d)
  BY UniqueIsOwned
<1>4. ida' \subseteq 0..Top
  OBVIOUS
<1>5. Owned'
  <2>1. CASE ida' = ida /\ r.ids = client[c].ids
    BY <1>2, <1>3, <2>1 DEF Owned
  <2>2. ASSUME NEW x \in (0..Top) \ ida, ida' = ida \cup {x}, r.ids = client[c].ids \cup {x}
        PROVE  Owned'
    <3>1. \A d \in Clients : x \notin client[d].ids
      BY <1>3, <2>2 DEF Owned
    <3>. QED
      BY <1>2, <1>3, <2>2, <3>1 DEF Owned
  <2>3. ASSUME NEW x \in client[c].ids, ida' = ida \ {x}, r.ids = client[c].ids \ {x}
        PROVE  Owned'
    <3>1. \A d \in Clients \ {c} : x \notin client[d].ids
      BY <1>3 DEF Owned
    <3>. QED
      BY <1>2, <1>3, <2>3, <3>1 DEF Owned
  <2>. QED
    BY <2>1, <2>2, <2>3
<1>6. \A d \in Clients : Refused(d)'
  BY <1>2, <1>3 DEF Refused
<1>7. IdsUnique'
  BY <1>5, <1>6 DEF IdsUnique, Ida!IdsUnique, Owned, Refused
<1>8. \A d \in Clients : client'[d].at # "idle" => client'[d].range \in Ida!Ranges
  BY <1>2
<1>. QED
  BY <1>1, <1>4, <1>7, <1>8

\* Some number of a set is its least.
LEMMA LeastId ==
  ASSUME NEW S \in SUBSET Nat, S # {}
  PROVE  \E n \in S : \A m \in S : n <= m
<1>. DEFINE R == {p \in Nat \X Nat : p[1] < p[2]}
<1>1. IsWellFoundedOn(R, Nat)
  BY NatLessThanWellFounded DEF OpToRel
<1>. HIDE DEF R
<1>2. PICK n \in S : \A m \in S : ~(<<m, n>> \in R)
  BY <1>1, WFMin
<1>3. \A m \in S : ~(m < n)
  BY <1>2 DEF R
<1>. QED
  BY <1>2, <1>3

LEMMA RangesAreNumbers ==
  \A r \in Ida!Ranges : r.start \in Nat /\ Ida!MaxOf(r) \in Int
BY HelpersAssumption DEF Ida!Ranges, Ida!MaxOf

LEMMA IdaStep ==
  ASSUME IdaInv, Ida!IdaNext
  PROVE  IdaInv'
<1>. USE DEF IdaInv, IdaTyped
<1>0. PICK c \in Clients :
         \/ Ida!Call(c) \/ Ida!ida_pre_get(c) \/ Ida!ida_simple_get(c)
         \/ \E x \in 0..Top : Ida!ida_simple_remove(c, x)
  BY DEF Ida!IdaNext
<1>1. client[c] \in ClientRecord /\ Refused(c)
  BY UniqueIsOwned DEF ClientRecord
<1>2. CASE Ida!Call(c)
  <2>1. PICK g \in Ida!Ranges : Ida!Goes(c, [client[c] EXCEPT !.at = "again", !.range = g])
    BY <1>2 DEF Ida!Call
  <2>2. PICK r : r = [client[c] EXCEPT !.at = "again", !.range = g]
    OBVIOUS
  <2>3. r \in ClientRecord /\ r.range = g /\ r.ids = client[c].ids /\ r.ret = client[c].ret
        /\ r.full = client[c].full
    BY <1>1, <2>2 DEF ClientRecord
  <2>. QED
    BY <1>1, <1>2, <2>1, <2>2, <2>3, IdaKept DEF Ida!Call, Refused
<1>3. CASE Ida!ida_pre_get(c)
  <2>1. CASE Ida!Goes(c, [client[c] EXCEPT !.at = "locked"])
    <3>2. PICK r : r = [client[c] EXCEPT !.at = "locked"]
      OBVIOUS
    <3>3. r \in ClientRecord /\ r.range = client[c].range /\ r.ids = client[c].ids
          /\ r.ret = client[c].ret /\ r.full = client[c].full
      BY <1>1, <3>2 DEF ClientRecord
    <3>4. client[c].range \in Ida!Ranges
      BY <1>3 DEF Ida!ida_pre_get
    <3>. QED
      BY <1>1, <1>3, <2>1, <3>2, <3>3, <3>4, IdaKept DEF Ida!ida_pre_get, Refused
  <2>2. CASE Ida!Goes(c, [client[c] EXCEPT !.at = "idle", !.range = None, !.ret = "ENOMEM"])
    <3>2. PICK r : r = [client[c] EXCEPT !.at = "idle", !.range = None, !.ret = "ENOMEM"]
      OBVIOUS
    <3>3. r \in ClientRecord /\ r.at = "idle" /\ r.ids = client[c].ids /\ r.ret = "ENOMEM"
      BY <1>1, <3>2 DEF ClientRecord
    <3>. QED
      BY <1>3, <2>2, <3>2, <3>3, IdaKept DEF Ida!ida_pre_get
  <2>. QED
    BY <1>3, <2>1, <2>2 DEF Ida!ida_pre_get
<1>4. CASE Ida!ida_simple_get(c)
  <2>. DEFINE range == client[c].range
              free == {x \in range.start..Top : x \notin ida}
              least == CHOOSE x \in free : \A y \in free : x <= y
              Ended(value, owns) == [Ida!Idle EXCEPT !.ids = owns, !.ret = value,
                                       !.full = free \cap 0..(Ida!MaxOf(range)) = {}]
  <2>1. client[c].at = "locked" /\ range \in Ida!Ranges
    BY <1>4 DEF Ida!ida_simple_get
  <2>2. range.start \in Nat /\ Ida!MaxOf(range) \in Int /\ Top \in Nat
    BY <2>1, RangesAreNumbers, HelpersAssumption
  <2>3. free # {} => least \in free /\ \A y \in free : least <= y
    <3>1. free \in SUBSET Nat
      BY <2>2
    <3>. QED
      BY <3>1, LeastId
  <2>4. \/ free = {} /\ Ida!Goes(c, Ended("ENOSPC", client[c].ids)) /\ ida' = ida
        \/ Ida!Goes(c, [client[c] EXCEPT !.at = "again"]) /\ ida' = ida
        \/ /\ free # {} /\ least > Ida!MaxOf(range)
           /\ Ida!Goes(c, Ended("ENOSPC", client[c].ids)) /\ ida' = ida
        \/ /\ free # {} /\ Ida!Goes(c, Ended("id", client[c].ids \cup {least}))
           /\ ida' = ida \cup {least}
    BY <1>4 DEF Ida!ida_simple_get, Ida!GivenBack
  <2>. HIDE DEF free, least
  <2>5. ASSUME NEW value \in {"id", "ENOSPC"}, NEW owns \in SUBSET (0..Top)
        PROVE  /\ Ended(value, owns) \in ClientRecord
               /\ Ended(value, owns).at = "idle" /\ Ended(value, owns).ids = owns
               /\ Ended(value, owns).ret = value
               /\ Ended(value, owns).full <=> free \cap 0..(Ida!MaxOf(range)) = {}
    <3>1. PICK none \in BOOLEAN : none <=> free \cap 0..(Ida!MaxOf(range)) = {}
      OBVIOUS
    <3>2. PICK idle \in ClientRecord : idle = Ida!Idle /\ idle.at = "idle"
      <4>1. Ida!Idle \in ClientRecord
        BY DEF Ida!Idle, ClientRecord
      <4>2. Ida!Idle.at = "idle"
        BY DEF Ida!Idle
      <4>. QED
        BY <4>1, <4>2
    <3>3. PICK r : r = [idle EXCEPT !.ids = owns, !.ret = value, !.full = none]
      OBVIOUS
    <3>4. r = Ended(value, owns)
      BY <3>1, <3>2, <3>3
    <3>5. /\ r \in ClientRecord /\ r.at = "idle" /\ r.ids = owns /\ r.ret = value
          /\ r.full = none
      BY <3>2, <3>3 DEF ClientRecord
    <3>. QED
      BY <3>1, <3>4, <3>5
  <2>. HIDE DEF Ended
  <2>10. client[c].ids \in SUBSET (0..Top)
    BY <1>1 DEF ClientRecord
  <2>6. CASE free = {} /\ Ida!Goes(c, Ended("ENOSPC", client[c].ids)) /\ ida' = ida
    <3>1. free \cap 0..(Ida!MaxOf(range)) = {}
      BY <2>6
    <3>. QED
      BY <2>5, <2>6, <2>10, <3>1, IdaKept
  <2>7. CASE Ida!Goes(c, [client[c] EXCEPT !.at = "again"]) /\ ida' = ida
    <3>1. PICK r : r = [client[c] EXCEPT !.at = "again"]
      OBVIOUS
    <3>2. r \in ClientRecord /\ r.range = client[c].range /\ r.ids = client[c].ids
          /\ r.ret = client[c].ret /\ r.full = client[c].full
      BY <1>1, <3>1 DEF ClientRecord
    <3>. QED
      BY <1>1, <2>1, <2>7, <3>1, <3>2, IdaKept DEF Refused
  <2>8. CASE /\ free # {} /\ least > Ida!MaxOf(range)
             /\ Ida!Goes(c, Ended("ENOSPC", client[c].ids)) /\ ida' = ida
    <3>1. free \cap 0..(Ida!MaxOf(range)) = {}
      BY <2>2, <2>3, <2>8 DEF free
    <3>. QED
      BY <2>5, <2>8, <2>10, <3>1, IdaKept
  <2>9. CASE /\ free # {} /\ Ida!Goes(c, Ended("id", client[c].ids \cup {least}))
             /\ ida' = ida \cup {least}
    <3>1. least \in (0..Top) \ ida
      BY <2>2, <2>3, <2>9 DEF free
    <3>2. client[c].ids \cup {least} \in SUBSET (0..Top)
      BY <2>10, <3>1
    <3>. QED
      BY <2>5, <2>9, <3>1, <3>2, IdaKept
  <2>. QED
    BY <2>4, <2>6, <2>7, <2>8, <2>9
<1>5. ASSUME NEW x \in 0..Top, Ida!ida_simple_remove(c, x)
      PROVE  IdaInv'
  <2>2. PICK r : r = [client[c] EXCEPT !.ids = @ \ {x}, !.ret = "none"]
    OBVIOUS
  <2>3. r \in ClientRecord /\ r.at = client[c].at /\ r.ids = client[c].ids \ {x}
        /\ r.ret = "none"
    BY <1>1, <2>2 DEF ClientRecord
  <2>4. x \in client[c].ids /\ ida' = ida \ {x} /\ Ida!Goes(c, r) /\ client[c].at = "idle"
    BY <1>5, <2>2 DEF Ida!ida_simple_remove
  <2>. QED
    BY <2>3, <2>4, IdaKept
<1>. QED
  BY <1>0, <1>2, <1>3, <1>4, <1>5

-----------------------------------------------------------------------------
(***************************************************************************)
(* The families.  While changes of the list do not race, the families on   *)
(* it are ordered by the time they were listed, and its links follow that  *)
(* order but for the few that the change under way has still to set.  A    *)
(* request looks for its family from the latest to the first, and has not  *)
(* passed it.                                                              *)
(***************************************************************************)
\* The families on the list, and the nodes it leads through.
OnList == {f \in Families : /\ family_at[f] \in {"live", "leaving", "del1", "del2"}
                            /\ f \notin failed}
Nodes == OnList \cup {ListHead}

\* Families are ranked by the time they were listed, the latest first; the
\* head comes before all and after all.
Ranks(L, rank, top) ==
  /\ L \subseteq Families /\ rank \in [Families -> Nat] /\ top \in Nat
  /\ \A f \in L : rank[f] < top
  /\ \A f, g \in L : rank[f] = rank[g] => f = g

KeyFrom(rank, top, x) == IF x = ListHead THEN top ELSE rank[x]
KeyTo(rank, y) == IF y = ListHead THEN -1 ELSE rank[y]

\* From x the list goes on with y: nothing on it is between them.
Leads(L, rank, top, x, y) ==
  /\ y \in L \cup {ListHead}
  /\ KeyTo(rank, y) < KeyFrom(rank, top, x)
  /\ \A g \in L : rank[g] <= KeyTo(rank, y) \/ rank[g] >= KeyFrom(rank, top, x)

Torn(y) == \E f \in Families : family_at[f] \in {"add2", "add3", "add4", "del2"} /\ y = saved[f].next

LinksOf(rank, top) ==
  /\ Ranks(OnList, rank, top)
  /\ \A x \in Nodes : Leads(OnList, rank, top, x, fam_next[x])
  /\ \A y \in Nodes : Torn(y) \/ (fam_prev[y] \in Nodes /\ Leads(OnList, rank, top, fam_prev[y], y))

PhaseOf(rank, top, f) ==
  /\ family_at[f] \in {"none", "ops", "listing"} => fam_next[f] = None /\ fam_prev[f] = None
  /\ family_at[f] \in Genl!Adding => saved[f] = [next |-> fam_next[ListHead], prev |-> ListHead]
  /\ family_at[f] \in {"add2", "add3", "add4"} => fam_prev[saved[f].next] = f
  /\ family_at[f] \in {"add3", "add4"} => fam_next[f] = saved[f].next
  /\ family_at[f] = "add4" => fam_prev[f] = ListHead
  /\ family_at[f] \in {"del1", "del2"} /\ f \notin failed =>
       /\ saved[f] = [next |-> fam_next[f], prev |-> fam_prev[f]]
       /\ fam_prev[f] \in Nodes /\ Leads(OnList, rank, top, fam_prev[f], f)
  /\ family_at[f] = "del2" => fam_prev[saved[f].next] = saved[f].prev
  /\ family_at[f] = "del3" => Leads(OnList, rank, top, f, fam_next[f])
  /\ family_at[f] = "del4" => fam_next[f] = None
  /\ f \in failed => /\ family_at[f] \in {"leaving", "del1"} /\ fam_next[f] = None
                     /\ family_at[f] = "del1" => saved[f].next = None

Coming == {"ops", "listing"} \cup Genl!Adding

WalkOf(rank) ==
  request # Genl!NoRequest =>
    /\ request.family \in Families
    /\ request.cmd \in kernel[request.family]
    /\ request.during \in Coming \/ (request.during = "live" /\ family_at[request.family] = "live")
    /\ request.answered /\ request.by = None => request.during \in Coming
    /\ ~request.answered =>
         /\ request.pos \in Nodes \/ (request.pos \in Families /\ family_at[request.pos] = "del3")
         /\ request.during = "live" =>
              /\ request.pos # ListHead
              /\ request.pos # request.family => rank[request.pos] > rank[request.family]

Changing(f) == family_at[f] \in Genl!Adding \cup Genl!Removing

ListOf(rank, top) ==
  /\ LinksOf(rank, top) /\ WalkOf(rank)
  /\ \A f \in Families : PhaseOf(rank, top, f)

GenlTyped ==
  /\ family_at \in [Families -> {"none", "ops", "listing", "live", "leaving"}
                                 \cup Genl!Adding \cup Genl!Removing]
  /\ kernel \in [Families -> SUBSET Cmds]
  /\ fam_next \in [Families \cup {ListHead} -> Families \cup {ListHead, None}]
  /\ fam_prev \in [Families \cup {ListHead} -> Families \cup {ListHead, None}]
  /\ saved \in [Families -> [next : Families \cup {ListHead, None},
                             prev : Families \cup {ListHead, None}]]
  /\ request.family \in Families \cup {None} /\ request.cmd \in Cmds \cup {None}
  /\ request.pos \in Families \cup {ListHead, None} /\ request.answered \in BOOLEAN
  /\ failed \subseteq Families /\ raced \in BOOLEAN /\ oops \in BOOLEAN
  /\ \A f \in Families : kernel[f] # {} => family_at[f] \in Coming \cup {"live"}

GenlList ==
  ~raced /\ ~oops =>
    /\ \A f, g \in Families : Changing(f) /\ Changing(g) => f = g
    /\ \E rank \in [Families -> Nat], top \in Nat : ListOf(rank, top)

GenlInv == GenlTyped /\ GenlList /\ (oops /\ ~raced => failed # {}) /\ Genl!OwnFamilyAnswers
           /\ (~raced /\ request.answered /\ request.by = None => request.during \in Coming)

\* In an order every node has one successor, and is that of one node.
LEMMA LeadsOnce ==
  ASSUME NEW L, NEW rank, NEW top, Ranks(L, rank, top),
         NEW x \in L \cup {ListHead}, NEW y, NEW z
  PROVE  /\ Leads(L, rank, top, x, y) /\ Leads(L, rank, top, x, z) => y = z
         /\ z \in L \cup {ListHead} /\ Leads(L, rank, top, x, y) /\ Leads(L, rank, top, z, y) => x = z
         /\ ~Leads(L, rank, top, x, None)
<1>. USE HelpersAssumption DEF Ranks, Leads, KeyFrom, KeyTo
<1>1. ListHead \notin L /\ None \notin L \cup {ListHead}
  OBVIOUS
<1>2. ASSUME Leads(L, rank, top, x, y), Leads(L, rank, top, x, z)
      PROVE  y = z
  <2>1. CASE y \in L
    BY <1>1, <1>2, <2>1
  <2>2. CASE y = ListHead
    BY <1>1, <1>2, <2>2
  <2>. QED
    BY <1>2, <2>1, <2>2
<1>3. ASSUME z \in L \cup {ListHead}, Leads(L, rank, top, x, y), Leads(L, rank, top, z, y)
      PROVE  x = z
  <2>1. CASE x \in L
    BY <1>1, <1>3, <2>1
  <2>2. CASE x = ListHead
    BY <1>1, <1>3, <2>2
  <2>. QED
    BY <2>1, <2>2
<1>. QED
  BY <1>1, <1>2, <1>3

\* Without one of its members the order goes on past it.
LEMMA LeadsPast ==
  ASSUME NEW L, NEW rank, NEW top, Ranks(L, rank, top), NEW f \in L,
         NEW p \in L \cup {ListHead}, NEW n,
         Leads(L, rank, top, p, f), Leads(L, rank, top, f, n)
  PROVE  LET M == L \ {f}
         IN  /\ Ranks(M, rank, top)
             /\ Leads(M, rank, top, p, n) /\ Leads(M, rank, top, f, n)
             /\ p \in M \cup {ListHead} /\ n \in M \cup {ListHead}
             /\ \A x \in Families \cup {ListHead}, y \in Families \cup {ListHead} :
                  Leads(L, rank, top, x, y) /\ y # f => Leads(M, rank, top, x, y)
<1>. USE HelpersAssumption DEF Ranks, Leads, KeyFrom, KeyTo
<1>. DEFINE M == L \ {f}
<1>1. ListHead \notin L /\ f \in Families
  OBVIOUS
<1>2. Ranks(M, rank, top)
  OBVIOUS
<1>3. p \in M \cup {ListHead} /\ n \in M \cup {ListHead}
  BY <1>1
<1>4. Leads(M, rank, top, f, n)
  BY <1>1, <1>3
<1>5. Leads(M, rank, top, p, n)
  BY <1>1, <1>3
<1>6. ASSUME NEW x \in Families \cup {ListHead}, NEW y \in Families \cup {ListHead},
             Leads(L, rank, top, x, y), y # f
      PROVE  Leads(M, rank, top, x, y)
  BY <1>1, <1>6
<1>. QED
  BY <1>2, <1>3, <1>4, <1>5, <1>6

\* A family that is listed comes first.
LEMMA LeadsFirst ==
  ASSUME NEW L, NEW rank, NEW top, Ranks(L, rank, top), NEW f \in Families \ L
  PROVE  LET later == [rank EXCEPT ![f] = top]
             M == L \cup {f}
         IN  /\ Ranks(M, later, top + 1)
             /\ Leads(M, later, top + 1, ListHead, f)
             /\ \A n \in Families \cup {ListHead} :
                  Leads(L, rank, top, ListHead, n) => Leads(M, later, top + 1, f, n)
             /\ \A x \in L, y \in Families \cup {ListHead} :
                  Leads(L, rank, top, x, y) => Leads(M, later, top + 1, x, y)
<1>. USE HelpersAssumption DEF Ranks, Leads, KeyFrom, KeyTo
<1>. DEFINE later == [rank EXCEPT ![f] = top]
            M == L \cup {f}
<1>1. ListHead \notin M /\ later \in [Families -> Nat] /\ later[f] = top
      /\ \A g \in L : later[g] = rank[g] /\ g # f
  OBVIOUS
<1>2. Ranks(M, later, top + 1)
  BY <1>1
<1>3. Leads(M, later, top + 1, ListHead, f)
  BY <1>1
<1>4. ASSUME NEW n \in Families \cup {ListHead}, Leads(L, rank, top, ListHead, n)
      PROVE  Leads(M, later, top + 1, f, n)
  BY <1>1, <1>4
<1>5. ASSUME NEW x \in L, NEW y \in Families \cup {ListHead}, Leads(L, rank, top, x, y)
      PROVE  Leads(M, later, top + 1, x, y)
  BY <1>1, <1>5
<1>. QED
  BY <1>2, <1>3, <1>4, <1>5

LEMMA GenlStarts ==
  ASSUME MachinesInit
  PROVE  GenlInv
<1>1. Genl!GenlInit
  BY DEF MachinesInit
<1>. USE HelpersAssumption DEF Genl!GenlInit, Genl!NoRequest, Genl!Asks, Genl!Unlinked
<1>2. GenlTyped
  BY <1>1 DEF GenlTyped, Coming
<1>3. PICK rank : rank = [f \in Families |-> 0]
  OBVIOUS
<1>4. OnList = {} /\ Nodes = {ListHead}
  BY <1>1 DEF OnList, Nodes
<1>5. LinksOf(rank, 0)
  BY <1>1, <1>3, <1>4 DEF LinksOf, Ranks, Leads, KeyFrom, KeyTo
<1>6. WalkOf(rank)
  BY <1>1 DEF WalkOf
<1>7. \A f \in Families : PhaseOf(rank, 0, f)
  BY <1>1 DEF PhaseOf, Genl!Adding
<1>8. GenlList
  BY <1>1, <1>3, <1>5, <1>6, <1>7 DEF GenlList, ListOf, Changing, Genl!Adding, Genl!Removing
<1>. QED
  BY <1>1, <1>2, <1>8 DEF GenlInv, Genl!OwnFamilyAnswers

\* The steps of the kernel, of a request and of the list.
GenlKernelStep(f) ==
  \/ Genl!RegisterFamily(f) \/ Genl!RegisterOpsFails(f) \/ Genl!genl_unregister_family(f)
  \/ \E cmd \in Cmds : Genl!RegisterOps(f, cmd)

GenlRequestStep ==
  \/ \E f \in Families, cmd \in Cmds : Genl!nl_doit_wrapper(f, cmd)
  \/ Genl!Walks \/ Genl!Returns

LEMMA GenlSteps ==
  Genl!GenlNext <=>
    ~oops /\ \/ GenlRequestStep
             \/ \E f \in Families : GenlKernelStep(f) \/ Genl!ListAdd(f) \/ Genl!ListDel(f)
BY DEF Genl!GenlNext, GenlKernelStep, GenlRequestStep

LEMMA AsksFields ==
  ASSUME NEW f, NEW cmd, NEW during, NEW pos, request' = Genl!Asks(f, cmd, during, pos)
  PROVE  /\ request'.family = f /\ request'.cmd = cmd /\ request'.during = during
         /\ request'.pos = pos /\ request'.answered = FALSE
BY DEF Genl!Asks

LEMMA AnswerFields ==
  ASSUME NEW g, NEW op, Genl!Answer(g, op)
  PROVE  /\ request'.family = request.family /\ request'.cmd = request.cmd
         /\ request'.during = request.during /\ request'.pos = request.pos
         /\ request'.answered = TRUE /\ request'.by = g /\ request'.called = op
         /\ UNCHANGED oops
BY DEF Genl!Answer

\* What a step of a walk does to the request.
LEMMA WalkSteps ==
  ASSUME GenlTyped, Genl!Walks
  PROVE  /\ request # Genl!NoRequest /\ ~request.answered
         /\ UNCHANGED <<family_at, kernel, fam_next, fam_prev, saved, failed, raced>>
         /\ \/ request.pos = None /\ oops' = TRUE /\ UNCHANGED request
            \/ request.pos = ListHead /\ Genl!Answer(None, None)
            \/ /\ request.pos \in Families /\ request.pos # request.family /\ UNCHANGED oops
               /\ request' = Genl!Asks(request.family, request.cmd, request.during, fam_next[request.pos])
            \/ /\ request.pos \in Families /\ request.pos = request.family
               /\ \/ request.cmd \notin kernel[request.family] /\ Genl!Answer(None, None)
                  \/ /\ request.cmd \in kernel[request.family]
                     /\ \E op \in {request.cmd, None} : Genl!Answer(request.family, op)
<1>1. request # Genl!NoRequest /\ ~request.answered
      /\ UNCHANGED <<family_at, kernel, fam_next, fam_prev, saved, failed, raced>>
  BY DEF Genl!Walks
<1>2. ASSUME request.pos = request.family, request.pos \in Families,
             IF Genl!genl_get_cmd(request.cmd, request.pos) = None THEN Genl!Answer(None, None)
             ELSE \/ Genl!Answer(request.pos, None)
                  \/ Genl!Answer(request.pos, Genl!genl_get_cmd(request.cmd, request.pos))
      PROVE  \/ request.cmd \notin kernel[request.family] /\ Genl!Answer(None, None)
             \/ /\ request.cmd \in kernel[request.family]
                /\ \E op \in {request.cmd, None} : Genl!Answer(request.family, op)
  <2>1. CASE request.cmd \in kernel[request.family]
    <3>1. request.cmd # None /\ Genl!genl_get_cmd(request.cmd, request.pos) = request.cmd
      BY <1>2, <2>1, HelpersAssumption DEF GenlTyped, Genl!genl_get_cmd
    <3>. QED
      BY <1>2, <2>1, <3>1
  <2>2. CASE request.cmd \notin kernel[request.family]
    <3>1. Genl!genl_get_cmd(request.cmd, request.pos) = None
      BY <1>2, <2>2 DEF Genl!genl_get_cmd
    <3>. QED
      BY <1>2, <2>2, <3>1
  <2>. QED
    BY <2>1, <2>2
<1>. QED
  BY <1>1, <1>2 DEF Genl!Walks, Genl!Matches

LEMMA RacesTyped ==
  ASSUME NEW f, Genl!Races(f)
  PROVE  raced' \in BOOLEAN
BY Zenon DEF Genl!Races

LEMMA SetsTyped ==
  ASSUME GenlTyped, NEW x \in Families \cup {ListHead, None}, NEW y \in Families \cup {ListHead, None}
  PROVE  /\ Genl!SetNext(x, y) =>
              /\ fam_next' \in [Families \cup {ListHead} -> Families \cup {ListHead, None}]
              /\ UNCHANGED fam_prev /\ oops' \in BOOLEAN
         /\ Genl!SetPrev(x, y) =>
              /\ fam_prev' \in [Families \cup {ListHead} -> Families \cup {ListHead, None}]
              /\ UNCHANGED fam_next /\ oops' \in BOOLEAN
<1>1. ASSUME NEW v, v = (x = None)
      PROVE  v \in BOOLEAN
  BY Zenon, <1>1
<1>2. ASSUME Genl!SetNext(x, y)
      PROVE  fam_next' \in [Families \cup {ListHead} -> Families \cup {ListHead, None}]
  BY <1>2 DEF Genl!SetNext, GenlTyped
<1>3. ASSUME Genl!SetPrev(x, y)
      PROVE  fam_prev' \in [Families \cup {ListHead} -> Families \cup {ListHead, None}]
  BY <1>3 DEF Genl!SetPrev, GenlTyped
<1>. QED
  BY <1>1, <1>2, <1>3 DEF Genl!SetNext, Genl!SetPrev

LEMMA GenlTypedStep ==
  ASSUME GenlTyped, Genl!GenlNext
  PROVE  GenlTyped'
<1>1. CASE GenlRequestStep
  <2>1. ASSUME NEW f \in Families, NEW cmd \in Cmds, Genl!nl_doit_wrapper(f, cmd)
        PROVE  GenlTyped'
    <3>1. request' = Genl!Asks(f, cmd, family_at[f], fam_next[ListHead])
      BY <2>1 DEF Genl!nl_doit_wrapper
    <3>2. /\ request'.family \in Families \cup {None} /\ request'.cmd \in Cmds \cup {None}
          /\ request'.pos \in Families \cup {ListHead, None} /\ request'.answered \in BOOLEAN
      <4>1. /\ request'.family = f /\ request'.cmd = cmd /\ request'.pos = fam_next[ListHead]
            /\ request'.answered = FALSE
        BY ONLY <3>1, AsksFields
      <4>. QED
        BY <4>1 DEF GenlTyped
    <3>. QED
      BY <2>1, <3>2 DEF Genl!nl_doit_wrapper, GenlTyped, Coming
  <2>2. CASE Genl!Walks
    <3>1. /\ request'.family \in Families \cup {None} /\ request'.cmd \in Cmds \cup {None}
          /\ request'.pos \in Families \cup {ListHead, None} /\ request'.answered \in BOOLEAN
          /\ oops' \in BOOLEAN
      <4>1. ASSUME NEW g, NEW op, Genl!Answer(g, op)
            PROVE  /\ request'.family = request.family /\ request'.cmd = request.cmd
                   /\ request'.pos = request.pos /\ request'.answered = TRUE /\ UNCHANGED oops
        BY ONLY <4>1, AnswerFields
      <4>2. ASSUME request' = Genl!Asks(request.family, request.cmd, request.during, fam_next[request.pos])
            PROVE  /\ request'.family = request.family /\ request'.cmd = request.cmd
                   /\ request'.pos = fam_next[request.pos] /\ request'.answered = FALSE
        BY ONLY <4>2 DEF Genl!Asks
      <4>3. fam_next[request.pos] \in Families \cup {ListHead, None} \/ request.pos \notin Families
        BY DEF GenlTyped
      <4>4. \/ oops' = TRUE /\ UNCHANGED request
            \/ UNCHANGED oops /\ request' = Genl!Asks(request.family, request.cmd, request.during, fam_next[request.pos])
               /\ request.pos \in Families
            \/ \E g, op : Genl!Answer(g, op)
        BY <2>2, WalkSteps
      <4>5. CASE oops' = TRUE /\ UNCHANGED request
        BY <4>5 DEF GenlTyped
      <4>6. CASE UNCHANGED oops /\ request' = Genl!Asks(request.family, request.cmd, request.during, fam_next[request.pos])
                 /\ request.pos \in Families
        BY <4>2, <4>3, <4>6 DEF GenlTyped
      <4>7. CASE \E g, op : Genl!Answer(g, op)
        BY <4>1, <4>7 DEF GenlTyped
      <4>. QED
        BY <4>4, <4>5, <4>6, <4>7
    <3>. QED
      BY <2>2, <3>1, WalkSteps DEF GenlTyped, Coming
  <2>3. CASE Genl!Returns
    <3>1. request' = Genl!Asks(None, None, "none", None)
      BY <2>3 DEF Genl!Returns, Genl!NoRequest
    <3>2. /\ request'.family \in Families \cup {None} /\ request'.cmd \in Cmds \cup {None}
          /\ request'.pos \in Families \cup {ListHead, None} /\ request'.answered \in BOOLEAN
      BY <3>1, AsksFields
    <3>. QED
      BY <2>3, <3>2 DEF Genl!Returns, GenlTyped, Coming
  <2>. QED
    BY <1>1, <2>1, <2>2, <2>3 DEF GenlRequestStep
<1>2. ASSUME NEW f \in Families, GenlKernelStep(f)
      PROVE  GenlTyped'
  BY <1>2, HelpersAssumption DEF GenlTyped, Coming, Genl!Goto, GenlKernelStep, Genl!RegisterFamily,
     Genl!RegisterOpsFails, Genl!genl_unregister_family, Genl!RegisterOps
<1>3. ASSUME NEW f \in Families, Genl!ListAdd(f) \/ Genl!ListDel(f)
      PROVE  GenlTyped'
  <2>1. raced' \in BOOLEAN
    BY <1>3, RacesTyped DEF Genl!ListAdd, Genl!ListDel
  <2>2. /\ saved[f].next \in Families \cup {ListHead, None} /\ saved[f].prev \in Families \cup {ListHead, None}
        /\ f \in Families \cup {ListHead, None} /\ None \in Families \cup {ListHead, None}
        /\ fam_next[f] \in Families \cup {ListHead, None} /\ fam_prev[f] \in Families \cup {ListHead, None}
        /\ fam_next[ListHead] \in Families \cup {ListHead, None}
    BY DEF GenlTyped
  <2>3. /\ fam_next' \in [Families \cup {ListHead} -> Families \cup {ListHead, None}]
        /\ fam_prev' \in [Families \cup {ListHead} -> Families \cup {ListHead, None}]
        /\ oops' \in BOOLEAN
    <3>. USE SetsTyped, <2>2 DEF Genl!Reads
    <3>1. CASE Genl!ListAdd(f)
      BY <3>1 DEF Genl!ListAdd, GenlTyped
    <3>2. CASE Genl!ListDel(f)
      BY <3>2 DEF Genl!ListDel, GenlTyped
    <3>. QED
      BY <1>3, <3>1, <3>2
  <2>4. saved' \in [Families -> [next : Families \cup {ListHead, None},
                                 prev : Families \cup {ListHead, None}]]
    <3>1. CASE Genl!ListAdd(f)
      BY <3>1, <2>2 DEF Genl!ListAdd, GenlTyped, Genl!Reads, Genl!Forgets, Genl!Unlinked
    <3>2. CASE Genl!ListDel(f)
      BY <3>2, <2>2 DEF Genl!ListDel, GenlTyped, Genl!Reads, Genl!Forgets, Genl!Unlinked
    <3>. QED
      BY <1>3, <3>1, <3>2
  <2>5. /\ family_at' \in [Families -> {"none", "ops", "listing", "live", "leaving"}
                                        \cup Genl!Adding \cup Genl!Removing]
        /\ \A g \in Families : family_at[g] \in Coming \cup {"live"} => family_at'[g] \in Coming \cup {"live"}
    <3>1. CASE Genl!ListAdd(f)
      BY <3>1 DEF Genl!ListAdd, GenlTyped, Genl!Goto, Genl!Adding, Genl!Removing, Coming
    <3>2. CASE Genl!ListDel(f)
      BY <3>2 DEF Genl!ListDel, GenlTyped, Genl!Goto, Genl!Adding, Genl!Removing, Coming
    <3>. QED
      BY <1>3, <3>1, <3>2
  <2>6. UNCHANGED <<kernel, request, failed>>
    BY <1>3 DEF Genl!ListAdd, Genl!ListDel
  <2>. QED
    BY <2>1, <2>3, <2>4, <2>5, <2>6 DEF GenlTyped
<1>. QED
  BY <1>1, <1>2, <1>3, GenlSteps

\* Whoever is found is the family the request names.
LEMMA OwnStep ==
  ASSUME GenlTyped, Genl!OwnFamilyAnswers, Genl!GenlNext
  PROVE  Genl!OwnFamilyAnswers'
<1>1. CASE Genl!Walks
  <2>1. ASSUME NEW g \in {request.family, None}, NEW op \in {request.cmd, None}, Genl!Answer(g, op),
               g = None => op = None
        PROVE  Genl!OwnFamilyAnswers'
    <3>1. /\ request'.family = request.family /\ request'.cmd = request.cmd
          /\ request'.by = g /\ request'.called = op
      BY ONLY <2>1, AnswerFields
    <3>. QED
      BY <2>1, <3>1 DEF Genl!OwnFamilyAnswers
  <2>2. ASSUME request' = Genl!Asks(request.family, request.cmd, request.during, fam_next[request.pos])
        PROVE  ~request'.answered
    BY ONLY <2>2, AsksFields
  <2>3. request.family \in Families => request.family # None
    BY HelpersAssumption
  <2>. QED
    BY <1>1, <2>1, <2>2, <2>3, WalkSteps DEF Genl!OwnFamilyAnswers
<1>2. CASE \E f \in Families, cmd \in Cmds : Genl!nl_doit_wrapper(f, cmd)
  BY <1>2, AsksFields DEF Genl!nl_doit_wrapper, Genl!OwnFamilyAnswers
<1>3. CASE Genl!Returns
  BY <1>3, AsksFields DEF Genl!Returns, Genl!NoRequest, Genl!OwnFamilyAnswers
<1>4. ASSUME NEW f \in Families, GenlKernelStep(f) \/ Genl!ListAdd(f) \/ Genl!ListDel(f)
      PROVE  UNCHANGED request
  BY <1>4 DEF GenlKernelStep, Genl!RegisterFamily, Genl!RegisterOpsFails,
     Genl!genl_unregister_family, Genl!RegisterOps, Genl!ListAdd, Genl!ListDel
<1>. QED
  BY <1>1, <1>2, <1>3, <1>4, GenlSteps DEF GenlRequestStep, Genl!OwnFamilyAnswers

\* What is left alone by a step that neither lists nor unlists a family.
LEMMA LinksRest ==
  ASSUME NEW rank, NEW top, LinksOf(rank, top), OnList' = OnList,
         \A x \in Nodes : fam_next'[x] = fam_next[x],
         \A y \in Nodes : Torn(y)' \/ (~Torn(y) /\ fam_prev'[y] = fam_prev[y])
  PROVE  LinksOf(rank, top)'
<1>1. Nodes' = Nodes
  BY DEF Nodes
<1>2. Ranks(OnList', rank, top)
  BY DEF LinksOf
<1>3. \A x \in Nodes : Leads(OnList', rank, top, x, fam_next'[x])
  BY DEF LinksOf
<1>4. \A y \in Nodes : Torn(y)' \/ (fam_prev'[y] \in Nodes /\ Leads(OnList', rank, top, fam_prev'[y], y))
  BY DEF LinksOf
<1>. QED
  BY <1>1, <1>2, <1>3, <1>4 DEF LinksOf

LEMMA WalkRests ==
  ASSUME NEW rank, WalkOf(rank), UNCHANGED <<kernel, request>>,
         \A g \in Families : family_at[g] = "live" => family_at'[g] = "live",
         request.pos \in Nodes => request.pos \in Nodes' \/ (request.pos \in Families /\ family_at'[request.pos] = "del3"),
         request.pos \in Families /\ family_at[request.pos] = "del3" => family_at'[request.pos] = "del3"
  PROVE  WalkOf(rank)'
<1>1. request' = request /\ kernel' = kernel
  OBVIOUS
<1>. QED
  BY <1>1 DEF WalkOf, Genl!NoRequest

\* A family no change of which is under way.
LEMMA OtherRests ==
  ASSUME NEW rank, NEW top, NEW later, NEW above, NEW g \in Families, PhaseOf(rank, top, g),
         ~Changing(g), family_at'[g] = family_at[g], failed' = failed,
         g \notin OnList => fam_next'[g] = fam_next[g] /\ fam_prev'[g] = fam_prev[g]
  PROVE  PhaseOf(later, above, g)'
BY DEF PhaseOf, Changing, OnList, Genl!Adding, Genl!Removing

\* Nothing leads from itself to itself; only the head leads to the first.
LEMMA LeadsAway ==
  ASSUME NEW L, NEW rank, NEW top, Ranks(L, rank, top), NEW x \in L, NEW y, Leads(L, rank, top, x, y)
  PROVE  y # x
BY HelpersAssumption DEF Ranks, Leads, KeyFrom, KeyTo

\* The list without changes, or with that of one family.
ListAlone(f) ==
  /\ \A g \in Families \ {f} : ~Changing(g) /\ family_at'[g] = family_at[g] /\ saved'[g] = saved[g]
  /\ UNCHANGED <<kernel, request, failed>>
  /\ ~(family_at[f] = "del3" /\ request.pos = f)

LEMMA ChangesAlone ==
  ASSUME GenlInv, ~oops, ~raced', NEW f \in Families, Genl!ListAdd(f) \/ Genl!ListDel(f)
  PROVE  ~raced /\ ListAlone(f)
<1>1. Genl!Races(f)
  BY DEF Genl!ListAdd, Genl!ListDel
<1>2. ~raced /\ (\A g \in Families \ {f} : ~Changing(g)) /\ ~(family_at[f] = "del3" /\ request.pos = f)
  BY <1>1 DEF Genl!Races, Changing
<1>3. UNCHANGED <<kernel, request, failed>>
  BY DEF Genl!ListAdd, Genl!ListDel
<1>4. family_at \in [Families -> {"none", "ops", "listing", "live", "leaving"}
                                 \cup Genl!Adding \cup Genl!Removing]
      /\ saved \in [Families -> [next : Families \cup {ListHead, None}, prev : Families \cup {ListHead, None}]]
  BY DEF GenlInv, GenlTyped
<1>5. ASSUME NEW g \in Families \ {f}
      PROVE  family_at'[g] = family_at[g]
  BY <1>4, <1>5 DEF Genl!ListAdd, Genl!ListDel, Genl!Goto
<1>6. ASSUME NEW g \in Families \ {f}
      PROVE  saved'[g] = saved[g]
  BY <1>4, <1>6 DEF Genl!ListAdd, Genl!ListDel, Genl!Reads, Genl!Forgets
<1>. QED
  BY <1>2, <1>3, <1>5, <1>6 DEF ListAlone

\* The family that changes, step by step.
LEMMA AddSteps ==
  ASSUME GenlTyped, NEW f \in Families, Genl!ListAdd(f)
  PROVE  /\ family_at[f] \in {"listing", "add1", "add2", "add3", "add4"}
         /\ family_at[f] = "listing" =>
              /\ family_at'[f] = "add1" /\ saved'[f] = [next |-> fam_next[ListHead], prev |-> ListHead]
              /\ UNCHANGED <<fam_next, fam_prev, oops>>
         /\ family_at[f] = "add1" =>
              family_at'[f] = "add2" /\ saved'[f] = saved[f] /\ Genl!SetPrev(saved[f].next, f)
         /\ family_at[f] = "add2" =>
              family_at'[f] = "add3" /\ saved'[f] = saved[f] /\ Genl!SetNext(f, saved[f].next)
         /\ family_at[f] = "add3" =>
              family_at'[f] = "add4" /\ saved'[f] = saved[f] /\ Genl!SetPrev(f, saved[f].prev)
         /\ family_at[f] = "add4" => family_at'[f] = "live" /\ Genl!SetNext(saved[f].prev, f)
<1>1. \A v : [family_at EXCEPT ![f] = v][f] = v
  BY DEF GenlTyped
<1>2. \A v : [saved EXCEPT ![f] = v][f] = v
  BY DEF GenlTyped
<1>. QED
  BY <1>1, <1>2 DEF Genl!ListAdd, Genl!Goto, Genl!Reads

LEMMA DelSteps ==
  ASSUME GenlTyped, NEW f \in Families, Genl!ListDel(f)
  PROVE  /\ family_at[f] \in {"leaving", "del1", "del2", "del3", "del4"}
         /\ family_at[f] = "leaving" =>
              /\ family_at'[f] = "del1" /\ saved'[f] = [next |-> fam_next[f], prev |-> fam_prev[f]]
              /\ UNCHANGED <<fam_next, fam_prev, oops>>
         /\ family_at[f] = "del1" =>
              family_at'[f] = "del2" /\ saved'[f] = saved[f] /\ Genl!SetPrev(saved[f].next, saved[f].prev)
         /\ family_at[f] = "del2" =>
              family_at'[f] = "del3" /\ saved'[f] = saved[f] /\ Genl!SetNext(saved[f].prev, saved[f].next)
         /\ family_at[f] = "del3" => family_at'[f] = "del4" /\ saved'[f] = saved[f] /\ Genl!SetNext(f, None)
         /\ family_at[f] = "del4" => family_at'[f] = "none" /\ Genl!SetPrev(f, None)
<1>1. \A v : [family_at EXCEPT ![f] = v][f] = v
  BY DEF GenlTyped
<1>2. \A v : [saved EXCEPT ![f] = v][f] = v
  BY DEF GenlTyped
<1>. QED
  BY <1>1, <1>2 DEF Genl!ListDel, Genl!Goto, Genl!Reads

LEMMA AddKeeps ==
  ASSUME GenlTyped, oops = FALSE, NEW rank \in [Families -> Nat], NEW top \in Nat, ListOf(rank, top),
         NEW f \in Families, Genl!ListAdd(f), ListAlone(f)
  PROVE  oops' = FALSE /\ \E later \in [Families -> Nat], above \in Nat : ListOf(later, above)'
<1>. DEFINE n == fam_next[ListHead]
<1>1. LinksOf(rank, top) /\ WalkOf(rank) /\ \A g \in Families : PhaseOf(rank, top, g)
  BY DEF ListOf
<1>2. /\ f \notin OnList /\ f \notin failed /\ f # ListHead /\ ListHead \notin OnList
      /\ None \notin Families \cup {ListHead} /\ OnList \subseteq Families
  BY <1>1, AddSteps, HelpersAssumption DEF PhaseOf, OnList
<1>3. Ranks(OnList, rank, top) /\ n \in Nodes /\ Leads(OnList, rank, top, ListHead, n)
  BY <1>1 DEF LinksOf, Nodes, Leads
<1>4. failed' = failed /\ UNCHANGED <<kernel, request>>
  BY DEF ListAlone
<1>5. \A g \in Families \ {f} : /\ ~Changing(g) /\ family_at'[g] = family_at[g]
                               /\ saved'[g] = saved[g]
  BY DEF ListAlone
<1>6. \A g \in Families : family_at[g] = "live" => family_at'[g] = "live"
  BY <1>5, AddSteps
<1>7. ~(request.pos \in Families /\ family_at[request.pos] = "del3")
  BY <1>5, AddSteps DEF Changing, Genl!Removing
<1>8. \A y : (Torn(y) <=> family_at[f] \in {"add2", "add3", "add4"} /\ y = saved[f].next)
  BY <1>5, AddSteps DEF Torn, Changing, Genl!Adding, Genl!Removing
<1>9. family_at[f] \in Genl!Adding => saved[f].next = n /\ saved[f].prev = ListHead
  <2>1. PhaseOf(rank, top, f)
    BY <1>1
  <2>2. family_at[f] \in Genl!Adding => saved[f] = [next |-> n, prev |-> ListHead]
    BY ONLY <2>1 DEF PhaseOf
  <2>. QED
    BY ONLY <2>2
<1>10. CASE family_at[f] # "add4"
  <2>1. /\ family_at'[f] \in Genl!Adding /\ saved'[f] = [next |-> n, prev |-> ListHead]
        /\ family_at'[f] = "add1" \/ family_at[f] \in Genl!Adding
    BY <1>1, <1>10, AddSteps DEF PhaseOf, Genl!Adding
  <2>2. OnList' = OnList /\ Nodes' = Nodes
    BY <1>2, <1>4, <1>5, <2>1 DEF OnList, Nodes, Genl!Adding
  <2>3. /\ oops' = FALSE
        /\ \A x \in Families \cup {ListHead} : x # f => fam_next'[x] = fam_next[x]
        /\ \A x \in Families \cup {ListHead} : x # f /\ fam_prev'[x] # fam_prev[x] => family_at[f] = "add1" /\ x = n
    <3>1. CASE family_at[f] = "listing"
      BY <3>1, AddSteps DEF GenlTyped
    <3>2. CASE family_at[f] = "add1"
      BY <1>2, <1>3, <1>9, <3>2, AddSteps DEF Genl!SetPrev, GenlTyped, Nodes, Genl!Adding
    <3>3. CASE family_at[f] = "add2"
      BY <1>2, <3>3, AddSteps DEF Genl!SetNext, GenlTyped
    <3>4. CASE family_at[f] = "add3"
      BY <1>2, <3>4, AddSteps DEF Genl!SetPrev, GenlTyped
    <3>. QED
      BY <1>10, <3>1, <3>2, <3>3, <3>4, AddSteps
  <2>4. \A y \in Nodes : Torn(y)' \/ (~Torn(y) /\ fam_prev'[y] = fam_prev[y])
    <3>1. \A y : Torn(y)' <=> family_at'[f] \in {"add2", "add3", "add4"} /\ y = saved'[f].next
      BY <1>5, <2>1 DEF Torn, Changing, Genl!Adding, Genl!Removing
    <3>2. saved'[f].next = n
      BY <2>1
    <3>. QED
      BY <1>2, <1>8, <1>9, <1>10, <2>3, <3>1, <3>2, AddSteps DEF Nodes, Genl!Adding
  <2>5. LinksOf(rank, top)'
    BY <1>1, <1>2, <2>2, <2>3, <2>4, LinksRest DEF Nodes
  <2>6. WalkOf(rank)'
    BY <1>1, <1>4, <1>6, <1>7, <2>2, WalkRests
  <2>7. PhaseOf(rank, top, f)'
    <3>1. saved'[f].next = n /\ saved'[f].prev = ListHead /\ n # f /\ fam_next'[ListHead] = n
      BY <1>2, <1>3, <2>1, <2>3 DEF Nodes
    <3>2. family_at'[f] \in {"add2", "add3", "add4"} => fam_prev'[n] = f
      <4>1. CASE family_at[f] = "add1"
        BY <1>2, <1>3, <1>9, <4>1, AddSteps DEF Genl!SetPrev, GenlTyped, Nodes, Genl!Adding
      <4>2. CASE family_at[f] \in {"add2", "add3"}
        <5>1. PhaseOf(rank, top, f) /\ saved[f].next = n
          BY <1>1, <1>9, <4>2 DEF Genl!Adding
        <5>2. fam_prev[n] = f
          BY <4>2, <5>1 DEF PhaseOf
        <5>3. n \in Families \cup {ListHead}
          BY <1>2, <1>3 DEF Nodes
        <5>. QED
          BY <2>3, <3>1, <4>2, <5>2, <5>3
      <4>. QED
        BY <1>10, <4>1, <4>2, AddSteps
    <3>3. family_at'[f] \in {"add3", "add4"} => fam_next'[f] = n
      <4>1. CASE family_at[f] = "add2"
        BY <1>2, <1>9, <4>1, AddSteps DEF Genl!SetNext, GenlTyped, Genl!Adding
      <4>2. CASE family_at[f] = "add3"
        BY <1>1, <1>2, <1>9, <4>2, AddSteps DEF PhaseOf, Genl!SetPrev, GenlTyped, Genl!Adding
      <4>. QED
        BY <1>10, <4>1, <4>2, AddSteps
    <3>4. family_at'[f] = "add4" => fam_prev'[f] = ListHead
      BY <1>2, <1>9, <1>10, AddSteps DEF Genl!SetPrev, GenlTyped, Genl!Adding
    <3>. QED
      BY <1>2, <1>4, <2>1, <3>1, <3>2, <3>3, <3>4 DEF PhaseOf, Genl!Adding
  <2>8. \A g \in Families : PhaseOf(rank, top, g)'
    <3>1. ASSUME NEW g \in Families \ {f}
          PROVE  PhaseOf(rank, top, g)'
      <4>1. g \notin OnList => fam_next'[g] = fam_next[g] /\ fam_prev'[g] = fam_prev[g]
        <5>1. g \notin OnList => g # n /\ g # f
          BY <1>3, HelpersAssumption DEF Nodes
        <5>. QED
          BY <2>3, <5>1
      <4>. QED
        BY <1>1, <1>4, <1>5, <4>1, OtherRests
    <3>. QED
      BY <2>7, <3>1
  <2>. QED
    BY <2>3, <2>5, <2>6, <2>8 DEF ListOf
<1>11. CASE family_at[f] = "add4"
  <2>. DEFINE later == [rank EXCEPT ![f] = top]
  <2>1. /\ family_at'[f] = "live" /\ oops' = FALSE /\ UNCHANGED fam_prev
        /\ fam_next' = [fam_next EXCEPT ![ListHead] = f]
    BY <1>2, <1>9, <1>11, AddSteps DEF Genl!SetNext, Genl!Adding
  <2>2. fam_next[f] = n /\ fam_prev[f] = ListHead /\ fam_prev[n] = f
    BY <1>1, <1>9, <1>11 DEF PhaseOf, Genl!Adding
  <2>3. OnList' = OnList \cup {f} /\ Nodes' = Nodes \cup {f}
    BY <1>2, <1>4, <1>5, <2>1 DEF OnList, Nodes
  <2>4. fam_next'[ListHead] = f /\ \A x \in Families : fam_next'[x] = fam_next[x]
    <3>1. fam_next \in [Families \cup {ListHead} -> Families \cup {ListHead, None}]
      BY DEF GenlTyped
    <3>. QED
      BY <2>1, <3>1, HelpersAssumption
  <2>5. /\ Ranks(OnList', later, top + 1)
        /\ Leads(OnList', later, top + 1, ListHead, f)
        /\ \A y \in Families \cup {ListHead} :
             Leads(OnList, rank, top, ListHead, y) => Leads(OnList', later, top + 1, f, y)
        /\ \A x \in OnList, y \in Families \cup {ListHead} :
             Leads(OnList, rank, top, x, y) => Leads(OnList', later, top + 1, x, y)
    BY <1>2, <1>3, <2>3, LeadsFirst
  <2>6. \A x \in Nodes' : Leads(OnList', later, top + 1, x, fam_next'[x])
    <3>1. \A x \in OnList : fam_next[x] \in Families \cup {ListHead} /\ Leads(OnList, rank, top, x, fam_next[x])
      BY <1>1, <1>2 DEF LinksOf, Nodes, Leads
    <3>2. n \in Families \cup {ListHead} /\ f \in Families
      BY <1>2, <1>3 DEF Nodes
    <3>3. Leads(OnList', later, top + 1, f, fam_next'[f])
      BY <1>3, <2>2, <2>4, <2>5, <3>2
    <3>4. \A x \in OnList : Leads(OnList', later, top + 1, x, fam_next'[x])
      BY <1>2, <2>4, <2>5, <3>1
    <3>. QED
      BY <2>3, <2>4, <2>5, <3>3, <3>4 DEF Nodes
  <2>7. \A y \in Nodes' : fam_prev'[y] \in Nodes' /\ Leads(OnList', later, top + 1, fam_prev'[y], y)
    <3>1. ASSUME NEW y \in Nodes, y # n
          PROVE  fam_prev[y] \in OnList /\ Leads(OnList, rank, top, fam_prev[y], y)
      <4>1. fam_prev[y] \in Nodes /\ Leads(OnList, rank, top, fam_prev[y], y)
        BY <1>1, <1>8, <1>9, <1>11, <3>1 DEF LinksOf, Genl!Adding
      <4>2. fam_prev[y] # ListHead
        <5>1. ListHead \in OnList \cup {ListHead}
          OBVIOUS
        <5>2. Leads(OnList, rank, top, ListHead, y) => y = n
          BY <1>3, <5>1, LeadsOnce
        <5>. QED
          BY <3>1, <4>1, <5>2
      <4>. QED
        BY <4>1, <4>2 DEF Nodes
    <3>2. \A y \in Nodes' : y = f \/ y = n \/ (y \in Nodes /\ y # n)
      BY <2>3
    <3>3. Leads(OnList', later, top + 1, f, n)
      BY <1>2, <1>3, <2>5 DEF Nodes
    <3>4. \A y \in Nodes : y # n => fam_prev[y] \in OnList /\ Leads(OnList', later, top + 1, fam_prev[y], y)
      BY <1>2, <2>5, <3>1 DEF Nodes
    <3>5. ListHead \in Nodes' /\ f \in Nodes' /\ OnList \subseteq Nodes' /\ fam_prev' = fam_prev
      BY <2>1, <2>3 DEF Nodes
    <3>. QED
      BY <2>2, <2>5, <3>2, <3>3, <3>4, <3>5
  <2>8. later \in [Families -> Nat] /\ top + 1 \in Nat
    OBVIOUS
  <2>9. LinksOf(later, top + 1)'
    BY <2>5, <2>6, <2>7 DEF LinksOf
  <2>10. WalkOf(later)'
    <3>1. WalkOf(later)
      <4>1. \A g \in Families \ {f} : later[g] = rank[g]
        OBVIOUS
      <4>2. ~request.answered /\ request # Genl!NoRequest => request.pos # f
        BY <1>1, <1>2, <1>7 DEF WalkOf, Nodes
      <4>3. family_at[f] # "live"
        BY <1>11
      <4>4. ASSUME request # Genl!NoRequest, ~request.answered, request.during = "live"
            PROVE  /\ request.pos # ListHead
                   /\ request.pos # request.family => later[request.pos] > later[request.family]
        <5>1. /\ request.family \in Families \ {f}
              /\ request.pos # ListHead
              /\ request.pos # request.family => rank[request.pos] > rank[request.family]
          BY <1>1, <4>3, <4>4 DEF WalkOf, Coming, Genl!Adding
        <5>2. request.pos \in Families \ {f}
          BY <1>1, <1>2, <4>2, <4>4, <5>1 DEF WalkOf, Nodes
        <5>. QED
          BY <4>1, <5>1, <5>2
      <4>. QED
        BY <1>1, <4>4 DEF WalkOf
    <3>. QED
      BY <1>4, <1>6, <1>7, <2>3, <3>1, WalkRests
  <2>11. \A g \in Families : PhaseOf(later, top + 1, g)'
    <3>1. PhaseOf(later, top + 1, f)'
      BY <1>2, <1>4, <2>1 DEF PhaseOf, Genl!Adding
    <3>2. ASSUME NEW g \in Families \ {f}
          PROVE  PhaseOf(later, top + 1, g)'
      BY <1>1, <1>4, <1>5, <2>1, <2>4, OtherRests
    <3>. QED
      BY <3>1, <3>2
  <2>. QED
    BY <2>1, <2>8, <2>9, <2>10, <2>11 DEF ListOf
<1>. QED
  BY <1>10, <1>11

LEMMA DelKeeps ==
  ASSUME GenlTyped, oops = FALSE, NEW rank \in [Families -> Nat], NEW top \in Nat, ListOf(rank, top),
         NEW f \in Families, Genl!ListDel(f), ListAlone(f)
  PROVE  \/ oops' = TRUE /\ failed' # {}
         \/ oops' = FALSE /\ \E later \in [Families -> Nat], above \in Nat : ListOf(later, above)'
<1>. DEFINE n == fam_next[f]
            p == fam_prev[f]
<1>1. LinksOf(rank, top) /\ WalkOf(rank) /\ \A g \in Families : PhaseOf(rank, top, g)
  BY DEF ListOf
<1>2. /\ f # ListHead /\ ListHead \notin OnList /\ ListHead \notin Families
      /\ None \notin Families \cup {ListHead} /\ OnList \subseteq Families
  BY HelpersAssumption DEF OnList
<1>3. Ranks(OnList, rank, top) /\ PhaseOf(rank, top, f)
  BY <1>1 DEF LinksOf
<1>4. failed' = failed /\ kernel' = kernel /\ request' = request
  BY DEF ListAlone
<1>5. \A g \in Families \ {f} : /\ ~Changing(g) /\ family_at'[g] = family_at[g]
                               /\ saved'[g] = saved[g]
  BY DEF ListAlone
<1>6. \A g \in Families : family_at[g] = "live" => family_at'[g] = "live"
  BY <1>5, DelSteps
<1>7. /\ request.pos \in Families /\ family_at[request.pos] = "del3" => family_at'[request.pos] = "del3"
      /\ family_at[f] = "del3" => request.pos # f
  BY <1>5 DEF ListAlone
<1>8. \A y : (Torn(y) <=> family_at[f] = "del2" /\ y = saved[f].next)
  BY <1>5, DelSteps DEF Torn, Changing, Genl!Adding, Genl!Removing
<1>9. \A y : (Torn(y)' <=> family_at'[f] = "del2" /\ y = saved'[f].next)
  BY <1>5, DelSteps DEF Torn, Changing, Genl!Adding, Genl!Removing
<1>10. f \in failed => family_at[f] \in {"leaving", "del1"} /\ fam_next[f] = None
                       /\ (family_at[f] = "del1" => saved[f].next = None)
  BY <1>3 DEF PhaseOf
<1>11. /\ fam_next \in [Families \cup {ListHead} -> Families \cup {ListHead, None}]
       /\ fam_prev \in [Families \cup {ListHead} -> Families \cup {ListHead, None}]
  BY DEF GenlTyped
\* Of a family that is on the list.
<1>12. ASSUME f \in OnList
       PROVE  /\ n \in Nodes /\ Leads(OnList, rank, top, f, n) /\ n # f
              /\ p \in Nodes /\ Leads(OnList, rank, top, p, f) /\ p # f
              /\ family_at[f] \in {"del1", "del2"} => saved[f].next = n /\ saved[f].prev = p
              /\ family_at[f] = "del2" => fam_prev[n] = p
              /\ f \notin failed /\ family_at[f] \in {"leaving", "del1", "del2"}
  <2>1. f \notin failed /\ family_at[f] \in {"leaving", "del1", "del2"}
    BY <1>12, DelSteps DEF OnList
  <2>2. Leads(OnList, rank, top, f, n)
    BY <1>1, <1>12 DEF LinksOf, Nodes
  <2>3. n \in Nodes /\ n # f
    <3>1. n # f
      BY <1>3, <1>12, <2>2, LeadsAway
    <3>. QED
      BY <2>2, <3>1 DEF Leads, Nodes
  <2>4. family_at[f] \in {"del1", "del2"} => saved[f] = [next |-> n, prev |-> p]
    BY <1>3, <2>1 DEF PhaseOf
  <2>5. family_at[f] \in {"del1", "del2"} => saved[f].next = n /\ saved[f].prev = p
    BY ONLY <2>4
  <2>6. p \in Nodes /\ Leads(OnList, rank, top, p, f)
    <3>1. CASE family_at[f] \in {"del1", "del2"}
      BY <1>3, <2>1, <3>1 DEF PhaseOf
    <3>2. CASE family_at[f] = "leaving"
      BY <1>1, <1>8, <1>12, <3>2 DEF LinksOf, Nodes
    <3>. QED
      BY <2>1, <3>1, <3>2
  <2>7. p # f
    BY <1>3, <1>12, <2>6, LeadsAway
  <2>8. family_at[f] = "del2" => fam_prev[n] = p
    BY <1>3, <2>5 DEF PhaseOf
  <2>. QED
    BY <2>1, <2>2, <2>3, <2>5, <2>6, <2>7, <2>8
<1>13. \A g \in Families \ {f} : PhaseOf(rank, top, g)
  BY <1>1
\* The first links are read; nothing of a family that failed.
<1>14. CASE family_at[f] = "leaving"
  <2>1. /\ family_at'[f] = "del1" /\ saved'[f] = [next |-> n, prev |-> p]
        /\ fam_next' = fam_next /\ fam_prev' = fam_prev /\ oops' = oops
    BY <1>14, DelSteps
  <2>2. OnList' = OnList /\ Nodes' = Nodes
    BY <1>4, <1>5, <1>14, <2>1 DEF OnList, Nodes
  <2>3. LinksOf(rank, top)'
    <3>1. \A x \in Nodes : fam_next'[x] = fam_next[x]
      BY <2>1
    <3>2. \A y \in Nodes : Torn(y)' \/ (~Torn(y) /\ fam_prev'[y] = fam_prev[y])
      BY <1>8, <1>14, <2>1
    <3>. QED
      BY <1>1, <2>2, <3>1, <3>2, LinksRest
  <2>4. WalkOf(rank)'
    BY <1>1, <1>4, <1>6, <1>7, <2>2, WalkRests
  <2>5. PhaseOf(rank, top, f)'
    <3>1. saved'[f].next = n
      BY <2>1
    <3>2. f \notin failed => f \in OnList
      BY <1>14 DEF OnList
    <3>. QED
      BY <1>4, <1>10, <1>12, <2>1, <2>2, <3>1, <3>2 DEF PhaseOf, Genl!Adding
  <2>6. \A g \in Families \ {f} : PhaseOf(rank, top, g)'
    BY <1>4, <1>5, <1>13, <2>1, OtherRests
  <2>. QED
    BY <2>1, <2>3, <2>4, <2>5, <2>6 DEF ListOf
<1>15. CASE family_at[f] = "del1" /\ f \in failed
  <2>1. Genl!SetPrev(None, saved[f].prev)
    BY <1>10, <1>15, DelSteps
  <2>2. oops' = TRUE
    BY <2>1 DEF Genl!SetPrev
  <2>. QED
    BY <1>4, <1>15, <2>2
<1>16. CASE family_at[f] = "del1" /\ f \notin failed
  <2>1. f \in OnList
    BY <1>16 DEF OnList
  <2>2. /\ n \in Nodes /\ Leads(OnList, rank, top, f, n) /\ n # f
        /\ p \in Nodes /\ Leads(OnList, rank, top, p, f) /\ p # f
        /\ saved[f].next = n /\ saved[f].prev = p
    BY <1>12, <1>16, <2>1
  <2>3. n \in Families \cup {ListHead} /\ n # None
    BY <1>2, <2>2 DEF Nodes
  <2>4. /\ family_at'[f] = "del2" /\ saved'[f] = saved[f] /\ Genl!SetPrev(n, p)
    BY <1>16, <2>2, DelSteps
  <2>5. /\ fam_next' = fam_next /\ oops' = FALSE /\ fam_prev' = [fam_prev EXCEPT ![n] = p]
    BY <2>3, <2>4 DEF Genl!SetPrev
  <2>6. fam_prev'[n] = p /\ \A x \in Families \cup {ListHead} : x # n => fam_prev'[x] = fam_prev[x]
    BY <1>11, <2>3, <2>5
  <2>7. OnList' = OnList /\ Nodes' = Nodes
    BY <1>4, <1>5, <1>16, <2>4 DEF OnList, Nodes
  <2>8. LinksOf(rank, top)'
    <3>1. \A x \in Nodes : fam_next'[x] = fam_next[x]
      BY <2>5
    <3>2. \A y \in Nodes : Torn(y)' \/ (~Torn(y) /\ fam_prev'[y] = fam_prev[y])
      BY <1>2, <1>8, <1>9, <1>16, <2>2, <2>4, <2>6 DEF Nodes
    <3>. QED
      BY <1>1, <2>7, <3>1, <3>2, LinksRest
  <2>9. WalkOf(rank)'
    BY <1>1, <1>4, <1>6, <1>7, <2>7, WalkRests
  <2>10. PhaseOf(rank, top, f)'
    <3>1. saved[f] = [next |-> n, prev |-> p]
      BY <1>3, <1>16 DEF PhaseOf
    <3>2. fam_prev'[f] = p
      BY <2>2, <2>6
    <3>. QED
      BY <1>4, <1>16, <2>2, <2>4, <2>5, <2>6, <2>7, <3>1, <3>2 DEF PhaseOf, Genl!Adding
  <2>11. \A g \in Families \ {f} : PhaseOf(rank, top, g)'
    <3>1. ASSUME NEW g \in Families \ {f}, g \notin OnList
          PROVE  fam_prev'[g] = fam_prev[g]
      BY <1>2, <2>2, <2>6, <3>1 DEF Nodes
    <3>. QED
      BY <1>4, <1>5, <1>13, <2>5, <3>1, OtherRests
  <2>. QED
    BY <2>5, <2>8, <2>9, <2>10, <2>11 DEF ListOf
\* The family leaves the list.
<1>17. CASE family_at[f] = "del2"
  <2>1. f \in OnList
    BY <1>10, <1>17 DEF OnList
  <2>2. /\ n \in Nodes /\ Leads(OnList, rank, top, f, n) /\ n # f
        /\ p \in Nodes /\ Leads(OnList, rank, top, p, f) /\ p # f
        /\ saved[f].next = n /\ saved[f].prev = p /\ fam_prev[n] = p /\ f \notin failed
    BY <1>12, <1>17, <2>1
  <2>3. p \in Families \cup {ListHead} /\ p # None /\ n \in Families \cup {ListHead}
    BY <1>2, <2>2 DEF Nodes
  <2>4. family_at'[f] = "del3" /\ saved'[f] = saved[f] /\ Genl!SetNext(p, n)
    BY <1>17, <2>2, DelSteps
  <2>5. fam_prev' = fam_prev /\ oops' = FALSE /\ fam_next' = [fam_next EXCEPT ![p] = n]
    BY <2>3, <2>4 DEF Genl!SetNext
  <2>6. fam_next'[p] = n /\ \A x \in Families \cup {ListHead} : x # p => fam_next'[x] = fam_next[x]
    BY <1>11, <2>3, <2>5
  <2>7. OnList' = OnList \ {f} /\ Nodes' = Nodes \ {f}
    BY <1>2, <1>4, <1>5, <1>17, <2>4 DEF OnList, Nodes
  <2>8. /\ Ranks(OnList', rank, top)
        /\ Leads(OnList', rank, top, p, n) /\ Leads(OnList', rank, top, f, n)
        /\ \A x \in Families \cup {ListHead}, y \in Families \cup {ListHead} :
             Leads(OnList, rank, top, x, y) /\ y # f => Leads(OnList', rank, top, x, y)
    <3>1. p \in OnList \cup {ListHead}
      BY <2>2 DEF Nodes
    <3>. QED
      BY <1>3, <2>1, <2>2, <2>7, <3>1, LeadsPast
  <2>9. \A x \in Nodes' : Leads(OnList', rank, top, x, fam_next'[x])
    <3>1. ASSUME NEW x \in Nodes \ {f}, x # p
          PROVE  Leads(OnList', rank, top, x, fam_next[x])
      <4>1. Leads(OnList, rank, top, x, fam_next[x])
        BY <1>1 DEF LinksOf
      <4>2. fam_next[x] # f
        <5>1. x \in OnList \cup {ListHead} /\ p \in OnList \cup {ListHead}
          BY <2>2 DEF Nodes
        <5>2. Leads(OnList, rank, top, x, f) => x = p
          BY <1>3, <2>2, <5>1, LeadsOnce
        <5>. QED
          BY <3>1, <4>1, <5>2
      <4>3. x \in Families \cup {ListHead} /\ fam_next[x] \in Families \cup {ListHead}
        BY <1>2, <4>1 DEF Leads, Nodes
      <4>. QED
        BY <2>8, <4>1, <4>2, <4>3
    <3>. QED
      BY <1>2, <2>6, <2>7, <2>8, <3>1 DEF Nodes
  <2>10. \A y \in Nodes' : fam_prev'[y] \in Nodes' /\ Leads(OnList', rank, top, fam_prev'[y], y)
    <3>1. ASSUME NEW y \in Nodes \ {f}, y # n
          PROVE  fam_prev[y] \in Nodes' /\ Leads(OnList', rank, top, fam_prev[y], y)
      <4>1. fam_prev[y] \in Nodes /\ Leads(OnList, rank, top, fam_prev[y], y)
        BY <1>1, <1>8, <2>2, <3>1 DEF LinksOf
      <4>2. fam_prev[y] # f
        <5>1. f \in OnList \cup {ListHead}
          BY <2>1
        <5>2. Leads(OnList, rank, top, f, y) => y = n
          BY <1>3, <2>2, <5>1, LeadsOnce
        <5>. QED
          BY <3>1, <4>1, <5>2
      <4>3. y \in Families \cup {ListHead} /\ fam_prev[y] \in Families \cup {ListHead}
        BY <1>2, <4>1 DEF Nodes
      <4>. QED
        BY <2>7, <2>8, <4>1, <4>2, <4>3
    <3>2. p \in Nodes'
      BY <2>2, <2>7
    <3>. QED
      BY <2>2, <2>5, <2>7, <2>8, <3>1, <3>2
  <2>11. LinksOf(rank, top)'
    BY <2>8, <2>9, <2>10 DEF LinksOf
  <2>12. WalkOf(rank)'
    <3>1. request.pos \in Nodes => request.pos \in Nodes' \/ (request.pos \in Families /\ family_at'[request.pos] = "del3")
      BY <2>4, <2>7
    <3>. QED
      BY <1>1, <1>4, <1>6, <1>7, <3>1, WalkRests
  <2>13. PhaseOf(rank, top, f)'
    <3>1. fam_next'[f] = n
      BY <2>2, <2>6
    <3>. QED
      BY <1>4, <2>2, <2>4, <2>8, <3>1 DEF PhaseOf, Genl!Adding
  <2>14. \A g \in Families \ {f} : PhaseOf(rank, top, g)'
    <3>1. ASSUME NEW g \in Families \ {f}, g \notin OnList
          PROVE  fam_next'[g] = fam_next[g]
      BY <1>2, <2>2, <2>6, <3>1 DEF Nodes
    <3>. QED
      BY <1>4, <1>5, <1>13, <2>5, <3>1, OtherRests
  <2>. QED
    BY <2>5, <2>11, <2>12, <2>13, <2>14 DEF ListOf
\* Its links are cleared.
<1>18. CASE family_at[f] \in {"del3", "del4"}
  <2>1. f \notin OnList /\ f \notin failed
    BY <1>10, <1>18 DEF OnList
  <2>2. /\ family_at[f] = "del3" => family_at'[f] = "del4" /\ Genl!SetNext(f, None)
        /\ family_at[f] = "del4" => family_at'[f] = "none" /\ Genl!SetPrev(f, None)
    BY DelSteps
  <2>3. /\ family_at[f] = "del3" =>
             oops' = FALSE /\ fam_prev' = fam_prev /\ fam_next' = [fam_next EXCEPT ![f] = None]
        /\ family_at[f] = "del4" =>
             oops' = FALSE /\ fam_next' = fam_next /\ fam_prev' = [fam_prev EXCEPT ![f] = None]
    BY <1>2, <2>2 DEF Genl!SetNext, Genl!SetPrev
  <2>4. /\ oops' = FALSE
        /\ \A x \in Families \cup {ListHead} : x # f => fam_next'[x] = fam_next[x] /\ fam_prev'[x] = fam_prev[x]
        /\ family_at[f] = "del3" => fam_next'[f] = None
        /\ family_at[f] = "del4" => fam_next'[f] = fam_next[f] /\ fam_prev'[f] = None
    BY <1>11, <1>18, <2>3
  <2>5. OnList' = OnList /\ Nodes' = Nodes
    BY <1>4, <1>5, <1>18, <2>1, <2>2 DEF OnList, Nodes
  <2>6. LinksOf(rank, top)'
    <3>1. \A x \in Nodes : fam_next'[x] = fam_next[x] /\ fam_prev'[x] = fam_prev[x]
      BY <1>2, <2>1, <2>4 DEF Nodes
    <3>2. \A y : ~Torn(y)
      BY <1>8, <1>18
    <3>. QED
      BY <1>1, <2>5, <3>1, <3>2, LinksRest
  <2>7. WalkOf(rank)'
    BY <1>1, <1>4, <1>6, <1>7, <2>5, WalkRests
  <2>8. PhaseOf(rank, top, f)'
    <3>1. family_at[f] = "del4" => fam_next[f] = None
      BY <1>3 DEF PhaseOf
    <3>. QED
      BY <1>4, <1>18, <2>1, <2>2, <2>4, <3>1 DEF PhaseOf, Genl!Adding
  <2>9. \A g \in Families \ {f} : PhaseOf(rank, top, g)'
    BY <1>4, <1>5, <1>13, <2>4, OtherRests
  <2>. QED
    BY <2>4, <2>6, <2>7, <2>8, <2>9 DEF ListOf
<1>. QED
  BY <1>14, <1>15, <1>16, <1>17, <1>18, DelSteps

\* The kernel changes a family only while no request is handled.
LEMMA KernelKeeps ==
  ASSUME GenlTyped, NEW rank, NEW top, ListOf(rank, top), NEW f \in Families, GenlKernelStep(f),
         \A g, h \in Families : Changing(g) /\ Changing(h) => g = h
  PROVE  /\ ListOf(rank, top)'
         /\ \A g, h \in Families : Changing(g)' /\ Changing(h)' => g = h
<1>1. /\ LinksOf(rank, top) /\ \A g \in Families : PhaseOf(rank, top, g)
      /\ request = Genl!NoRequest /\ request' = request
      /\ fam_next' = fam_next /\ fam_prev' = fam_prev /\ saved' = saved
  BY DEF ListOf, GenlKernelStep, Genl!RegisterFamily, Genl!RegisterOpsFails,
         Genl!genl_unregister_family, Genl!RegisterOps
<1>2. /\ \A g \in Families \ {f} : family_at'[g] = family_at[g] /\ (g \in failed' <=> g \in failed)
      /\ \/ family_at[f] \in {"none", "ops"} /\ family_at'[f] \in {"ops", "listing"} /\ failed' = failed
         \/ family_at[f] = "ops" /\ family_at'[f] = "leaving" /\ f \in failed'
         \/ family_at[f] = "live" /\ family_at'[f] = "leaving" /\ failed' = failed
  BY DEF GenlTyped, GenlKernelStep, Genl!RegisterFamily, Genl!RegisterOpsFails,
         Genl!genl_unregister_family, Genl!RegisterOps, Genl!Goto
<1>3. PhaseOf(rank, top, f) /\ (f \in failed => family_at[f] \in {"leaving", "del1"})
  BY <1>1 DEF PhaseOf
<1>4. OnList' = OnList /\ Nodes' = Nodes
  BY <1>2, <1>3 DEF OnList, Nodes
<1>5. \A y : Torn(y)' <=> Torn(y)
  BY <1>1, <1>2 DEF Torn
<1>6. LinksOf(rank, top)'
  BY <1>1, <1>4, <1>5, LinksRest
<1>7. PhaseOf(rank, top, f)'
  BY <1>1, <1>2, <1>3 DEF PhaseOf, Genl!Adding
<1>8. \A g \in Families \ {f} : PhaseOf(rank, top, g)'
  BY <1>1, <1>2, <1>4 DEF PhaseOf
<1>9. WalkOf(rank)'
  BY <1>1 DEF WalkOf, Genl!NoRequest
<1>10. \A g \in Families : Changing(g)' => Changing(g)
  BY <1>2 DEF Changing, Genl!Adding, Genl!Removing
<1>. QED
  BY <1>6, <1>7, <1>8, <1>9, <1>10 DEF ListOf

\* A request starts with the first family and goes on to the next.
LEMMA RequestKeeps ==
  ASSUME GenlTyped, oops = FALSE, NEW rank \in [Families -> Nat], NEW top \in Nat, ListOf(rank, top),
         GenlRequestStep, \A g, h \in Families : Changing(g) /\ Changing(h) => g = h
  PROVE  /\ ListOf(rank, top)' /\ oops' = FALSE
         /\ \A g, h \in Families : Changing(g)' /\ Changing(h)' => g = h
<1>1. /\ LinksOf(rank, top) /\ WalkOf(rank) /\ \A g \in Families : PhaseOf(rank, top, g)
      /\ Ranks(OnList, rank, top)
  BY DEF ListOf, LinksOf
<1>2. /\ family_at' = family_at /\ kernel' = kernel /\ fam_next' = fam_next /\ fam_prev' = fam_prev
      /\ saved' = saved /\ failed' = failed
  BY DEF GenlRequestStep, Genl!nl_doit_wrapper, Genl!Walks, Genl!Returns
<1>3. OnList' = OnList /\ Nodes' = Nodes
  BY <1>2 DEF OnList, Nodes
<1>4. \A y : Torn(y)' <=> Torn(y)
  BY <1>2 DEF Torn
<1>5. LinksOf(rank, top)'
  BY <1>1, <1>2, <1>3, <1>4, LinksRest
<1>6. \A g \in Families : PhaseOf(rank, top, g)'
  BY <1>1, <1>2, <1>3 DEF PhaseOf
<1>7. \A g \in Families : Changing(g)' <=> Changing(g)
  BY <1>2 DEF Changing
<1>8. ListHead \notin Families /\ None \notin Families \cup {ListHead}
  BY HelpersAssumption
<1>9. ASSUME NEW f \in Families, NEW cmd \in Cmds, Genl!nl_doit_wrapper(f, cmd)
      PROVE  WalkOf(rank)' /\ oops' = FALSE
  <2>. DEFINE n == fam_next[ListHead]
  <2>1. /\ request' = Genl!Asks(f, cmd, family_at[f], n) /\ cmd \in kernel[f]
        /\ oops' = oops
    BY <1>9 DEF Genl!nl_doit_wrapper
  <2>2. /\ request'.family = f /\ request'.cmd = cmd /\ request'.during = family_at[f]
        /\ request'.pos = n /\ request'.answered = FALSE
    BY ONLY <2>1 DEF Genl!Asks
  <2>3. family_at[f] \in Coming \cup {"live"}
    BY <2>1 DEF GenlTyped
  <2>4. n \in Nodes /\ Leads(OnList, rank, top, ListHead, n)
    BY <1>1 DEF LinksOf, Nodes, Leads
  <2>5. ASSUME family_at[f] = "live"
        PROVE  n # ListHead /\ (n # f => rank[n] > rank[f])
    <3>1. f \in OnList
      BY <1>1, <2>5 DEF OnList, PhaseOf
    <3>. QED
      BY <1>1, <2>4, <3>1, <1>8 DEF Leads, KeyFrom, KeyTo, Ranks, Nodes
  <2>. QED
    BY <1>2, <1>3, <2>1, <2>2, <2>3, <2>4, <2>5 DEF WalkOf
<1>10. ASSUME Genl!Walks
       PROVE  WalkOf(rank)' /\ oops' = FALSE
  <2>1. /\ request # Genl!NoRequest /\ ~request.answered /\ request.family \in Families
        /\ request.cmd \in kernel[request.family]
        /\ request.during \in Coming \/ (request.during = "live" /\ family_at[request.family] = "live")
        /\ request.pos \in Nodes \/ (request.pos \in Families /\ family_at[request.pos] = "del3")
        /\ request.during = "live" =>
             /\ request.pos # ListHead
             /\ request.pos # request.family => rank[request.pos] > rank[request.family]
    BY <1>1, <1>10, WalkSteps DEF WalkOf
  <2>2. request.pos # None /\ request.pos \in Families \cup {ListHead}
    BY <1>8, <2>1 DEF Nodes, OnList
  <2>3. ASSUME NEW g, NEW op, Genl!Answer(g, op), g = None => request.during \in Coming
        PROVE  WalkOf(rank)' /\ oops' = FALSE
    <3>1. /\ request'.family = request.family /\ request'.cmd = request.cmd
          /\ request'.during = request.during /\ request'.answered = TRUE /\ request'.by = g
          /\ oops' = oops
      BY ONLY <2>3, AnswerFields
    <3>. QED
      BY <1>2, <2>1, <2>3, <3>1 DEF WalkOf
  <2>4. ASSUME request.pos \in Families, request.pos # request.family, oops' = oops,
               request' = Genl!Asks(request.family, request.cmd, request.during, fam_next[request.pos])
        PROVE  WalkOf(rank)' /\ oops' = FALSE
    <3>. DEFINE x == request.pos
                n == fam_next[x]
    <3>1. /\ request'.family = request.family /\ request'.cmd = request.cmd
          /\ request'.during = request.during /\ request'.answered = FALSE /\ request'.pos = n
      BY ONLY <2>4 DEF Genl!Asks
    <3>2. Leads(OnList, rank, top, x, n) /\ n \in Nodes
      <4>1. Leads(OnList, rank, top, x, n)
        BY <1>1, <2>1, <2>4 DEF LinksOf, PhaseOf
      <4>. QED
        BY <4>1 DEF Leads, Nodes
    <3>3. ASSUME request.during = "live"
          PROVE  n # ListHead /\ (n # request.family => rank[n] > rank[request.family])
      <4>1. rank[x] > rank[request.family] /\ x # ListHead
        BY <2>1, <2>4, <3>3
      <4>2. request.family \in OnList
        BY <1>1, <2>1, <3>3 DEF OnList, PhaseOf, Coming, Genl!Adding
      <4>3. rank[request.family] <= KeyTo(rank, n)
        <5>1. rank[request.family] \in Nat /\ rank[x] \in Nat
          BY <2>1, <2>4
        <5>2. rank[request.family] <= KeyTo(rank, n) \/ rank[request.family] >= rank[x]
          BY <3>2, <4>1, <4>2 DEF Leads, KeyFrom
        <5>. QED
          BY <4>1, <5>1, <5>2
      <4>. QED
        BY <1>1, <3>2, <4>2, <4>3 DEF KeyTo, Ranks, Nodes
    <3>. QED
      BY <1>2, <1>3, <2>1, <2>4, <3>1, <3>2, <3>3 DEF WalkOf
  <2>5. CASE request.pos = ListHead
    <3>1. Genl!Answer(None, None)
      BY <1>8, <1>10, <2>5, WalkSteps
    <3>2. request.during \in Coming
      BY <2>1, <2>5
    <3>. QED
      BY <2>3, <3>1, <3>2
  <2>6. CASE request.pos = request.family
    <3>1. PICK op : Genl!Answer(request.family, op)
      BY <1>8, <1>10, <2>1, <2>2, <2>6, WalkSteps
    <3>2. request.family # None
      BY <1>8, <2>1
    <3>. QED
      BY <2>3, <3>1, <3>2
  <2>7. CASE request.pos \in Families /\ request.pos # request.family
    <3>1. oops' = oops /\ request' = Genl!Asks(request.family, request.cmd, request.during, fam_next[request.pos])
      BY <1>8, <1>10, <2>7, WalkSteps
    <3>. QED
      BY <2>4, <2>7, <3>1
  <2>. QED
    BY <2>2, <2>5, <2>6, <2>7
<1>11. ASSUME Genl!Returns
       PROVE  WalkOf(rank)' /\ oops' = FALSE
  BY <1>11 DEF Genl!Returns, WalkOf, Genl!NoRequest, Genl!Asks
<1>. QED
  BY <1>5, <1>6, <1>7, <1>9, <1>10, <1>11 DEF GenlRequestStep, ListOf

LEMMA GenlStep ==
  ASSUME GenlInv, Genl!GenlNext
  PROVE  GenlInv'
<1>1. GenlTyped' /\ Genl!OwnFamilyAnswers'
  BY GenlTypedStep, OwnStep DEF GenlInv
<1>2. oops = FALSE /\ GenlTyped
  BY GenlSteps DEF GenlInv, GenlTyped
<1>3. ASSUME ~raced'
      PROVE  /\ ~oops' => /\ \A g, h \in Families : Changing(g)' /\ Changing(h)' => g = h
                          /\ \E rank \in [Families -> Nat], top \in Nat : ListOf(rank, top)'
             /\ oops' => failed' # {}
             /\ request'.answered /\ request'.by = None => request'.during \in Coming
  <2>1. ~raced
    <3>1. ASSUME NEW f \in Families, Genl!ListAdd(f) \/ Genl!ListDel(f)
          PROVE  ~raced
      BY <1>2, <1>3, <3>1, ChangesAlone
    <3>2. CASE \E f \in Families : GenlKernelStep(f)
      BY <1>3, <3>2 DEF GenlKernelStep, Genl!RegisterFamily, Genl!RegisterOpsFails,
         Genl!genl_unregister_family, Genl!RegisterOps
    <3>3. CASE GenlRequestStep
      BY <1>3, <3>3 DEF GenlRequestStep, Genl!nl_doit_wrapper, Genl!Walks, Genl!Returns
    <3>. QED
      BY <3>1, <3>2, <3>3, GenlSteps
  <2>2. \A g, h \in Families : Changing(g) /\ Changing(h) => g = h
    BY <1>2, <2>1 DEF GenlInv, GenlList
  <2>3. PICK rank \in [Families -> Nat], top \in Nat : ListOf(rank, top)
    BY <1>2, <2>1 DEF GenlInv, GenlList
  <2>4. request.answered /\ request.by = None => request.during \in Coming
    BY <2>1 DEF GenlInv
  <2>5. ASSUME NEW f \in Families, Genl!ListAdd(f) \/ Genl!ListDel(f)
        PROVE  /\ ~oops' => /\ \A g, h \in Families : Changing(g)' /\ Changing(h)' => g = h
                            /\ \E later \in [Families -> Nat], above \in Nat : ListOf(later, above)'
               /\ oops' => failed' # {}
               /\ request' = request
    <3>1. ListAlone(f)
      BY <1>2, <1>3, <2>5, ChangesAlone
    <3>2. \A g \in Families : Changing(g)' => g = f
      BY <3>1 DEF ListAlone, Changing
    <3>3. CASE Genl!ListAdd(f)
      BY <1>2, <2>3, <3>1, <3>2, <3>3, AddKeeps DEF ListAlone
    <3>4. CASE Genl!ListDel(f)
      BY <1>2, <2>3, <3>1, <3>2, <3>4, DelKeeps DEF ListAlone
    <3>. QED
      BY <2>5, <3>3, <3>4
  <2>6. ASSUME NEW f \in Families, GenlKernelStep(f)
        PROVE  /\ \A g, h \in Families : Changing(g)' /\ Changing(h)' => g = h
               /\ ListOf(rank, top)' /\ oops' = oops /\ request' = request
    <3>1. oops' = oops /\ request' = request
      BY <2>6 DEF GenlKernelStep, Genl!RegisterFamily, Genl!RegisterOpsFails,
         Genl!genl_unregister_family, Genl!RegisterOps
    <3>. QED
      BY <1>2, <2>2, <2>3, <2>6, <3>1, KernelKeeps
  <2>7. ASSUME GenlRequestStep
        PROVE  /\ \A g, h \in Families : Changing(g)' /\ Changing(h)' => g = h
               /\ ListOf(rank, top)' /\ oops' = FALSE
               /\ request'.answered /\ request'.by = None => request'.during \in Coming
    <3>1. /\ \A g, h \in Families : Changing(g)' /\ Changing(h)' => g = h
          /\ ListOf(rank, top)' /\ oops' = FALSE
      BY <1>2, <2>2, <2>3, <2>7, RequestKeeps
    <3>2. request'.answered => request' # Genl!NoRequest
      BY DEF Genl!NoRequest, Genl!Asks
    <3>3. WalkOf(rank)'
      BY <3>1 DEF ListOf
    <3>. QED
      BY <3>1, <3>2, <3>3 DEF WalkOf
  <2>. QED
    BY <1>2, <2>4, <2>5, <2>6, <2>7, GenlSteps
<1>4. GenlList'
  BY <1>3 DEF GenlList
<1>. QED
  BY <1>1, <1>3, <1>4 DEF GenlInv

LEMMA FamiliesAnswered ==
  ASSUME GenlInv
  PROVE  FamiliesAnswer
<1>1. ASSUME ~raced, ~oops, \A f \in Families : family_at[f] \notin Genl!Adding \cup Genl!Removing,
             NEW f \in Families, family_at[f] \in {"live", "leaving"}, f \notin failed
      PROVE  fam_next[f] # None /\ fam_prev[f] # None /\ fam_prev[fam_next[f]] = f /\ fam_next[fam_prev[f]] = f
  <2>1. PICK rank \in [Families -> Nat], top \in Nat : ListOf(rank, top)
    BY <1>1 DEF GenlInv, GenlList
  <2>2. /\ Ranks(OnList, rank, top) /\ Nodes = OnList \cup {ListHead}
        /\ \A x \in Nodes : Leads(OnList, rank, top, x, fam_next[x])
    BY <2>1 DEF ListOf, LinksOf, Nodes
  <2>3. \A y \in Nodes : fam_prev[y] \in Nodes /\ Leads(OnList, rank, top, fam_prev[y], y)
    BY <1>1, <2>1 DEF ListOf, LinksOf, Torn, Genl!Adding, Genl!Removing
  <2>4. f \in OnList /\ None \notin Nodes
    BY <1>1, HelpersAssumption DEF OnList, Nodes
  <2>5. fam_next[f] \in Nodes
    BY <2>2, <2>4 DEF Leads
  <2>6. fam_prev[fam_next[f]] = f
    BY <2>2, <2>3, <2>4, <2>5, LeadsOnce
  <2>7. fam_next[fam_prev[f]] = f
    BY <2>2, <2>3, <2>4, LeadsOnce
  <2>. QED
    BY <2>3, <2>4, <2>5, <2>6, <2>7
<1>. QED
  BY <1>1 DEF GenlInv, FamiliesAnswer, Genl!FamiliesAnswer, Genl!ListHolds, Coming

-----------------------------------------------------------------------------
(***************************************************************************)
(* Flow control: who holds the write lock is in its section, a stop that   *)
(* was asked for is there or will be restored, and a caller whose look is  *)
(* not out of date acts on what the terminal is.                           *)
(***************************************************************************)
TtyTyped ==
  /\ stopped \in BOOLEAN /\ flow_stopped \in BOOLEAN /\ asked \in BOOLEAN
  /\ undone \in BOOLEAN /\ tty_held \subseteq BOOLEAN
  /\ atomic_write_lock \in Callers \cup {None}
  /\ call_at \in [Callers -> {"idle", "stop", "start", "lock", "run", "write",
                              "restore", "unlock"}]
  /\ was_stopped \in [Callers -> BOOLEAN]

LockHeld ==
  \A c \in Callers : call_at[c] \in {"run", "write", "restore", "unlock"} <=>
                     atomic_write_lock = c

StopKept ==
  asked => \/ stopped
           \/ \E c \in Callers : call_at[c] \in {"write", "restore"} /\ was_stopped[c]

OffKept == flow_stopped => stopped \/ \E c \in Callers : call_at[c] = "stop"

LooksRight ==
  /\ stopped => asked \/ undone
  /\ \A c \in Callers \ overtaken :
       /\ Tty!Looked(c) /\ was_stopped[c] => asked \/ undone
       /\ call_at[c] \in {"lock", "run"} /\ ~was_stopped[c] => ~stopped
  /\ FALSE \notin tty_held

TtyInv == TtyTyped /\ LockHeld /\ StopKept /\ OffKept /\ LooksRight

LEMMA TtyStarts ==
  ASSUME MachinesInit
  PROVE  TtyInv
<1>1. Tty!FlowInit
  BY DEF MachinesInit
<1>2. TtyTyped
  BY <1>1 DEF Tty!FlowInit, TtyTyped
<1>3. LockHeld
  BY <1>1, HelpersAssumption DEF Tty!FlowInit, LockHeld
<1>4. StopKept /\ OffKept /\ LooksRight
  BY <1>1 DEF Tty!FlowInit, StopKept, OffKept, LooksRight, Tty!Looked
<1>. QED
  BY <1>2, <1>3, <1>4 DEF TtyInv

LEMMA TtyStep ==
  ASSUME TtyInv, Tty!FlowNext
  PROVE  TtyInv'
<1>0. TtyTyped /\ LockHeld /\ StopKept /\ OffKept /\ LooksRight
  BY DEF TtyInv
<1>n. None \notin Callers
  BY HelpersAssumption
<1>1. ASSUME Tty!LineStops
      PROVE  TtyInv'
  <2>1. TtyTyped'
    BY <1>0, <1>1 DEF Tty!LineStops, Tty!stop_tty, Tty!Requests, Tty!Overtakes, TtyTyped
  <2>2. LockHeld'
    BY <1>0, <1>1, <1>n DEF Tty!LineStops, Tty!stop_tty, Tty!Requests, Tty!Overtakes, TtyTyped, LockHeld
  <2>3. StopKept'
    BY <1>0, <1>1 DEF Tty!LineStops, Tty!stop_tty, Tty!Requests, Tty!Overtakes, TtyTyped, StopKept
  <2>4. OffKept'
    BY <1>0, <1>1 DEF Tty!LineStops, Tty!stop_tty, Tty!Requests, Tty!Overtakes, TtyTyped, OffKept
  <2>5. LooksRight'
    BY <1>0, <1>1, <1>n DEF Tty!LineStops, Tty!stop_tty, Tty!Requests, Tty!Overtakes, TtyTyped, LooksRight, Tty!Looked
  <2>. QED
    BY <2>1, <2>2, <2>3, <2>4, <2>5 DEF TtyInv
<1>2. ASSUME Tty!LineStarts
      PROVE  TtyInv'
  <2>1. TtyTyped'
    BY <1>0, <1>2 DEF Tty!LineStarts, Tty!start_tty, Tty!Requests, Tty!Overtakes, TtyTyped
  <2>2. LockHeld'
    BY <1>0, <1>2, <1>n DEF Tty!LineStarts, Tty!start_tty, Tty!Requests, Tty!Overtakes, TtyTyped, LockHeld
  <2>3. StopKept'
    BY <1>0, <1>2 DEF Tty!LineStarts, Tty!start_tty, Tty!Requests, Tty!Overtakes, TtyTyped, StopKept
  <2>4. OffKept'
    BY <1>0, <1>2 DEF Tty!LineStarts, Tty!start_tty, Tty!Requests, Tty!Overtakes, TtyTyped, OffKept
  <2>5. LooksRight'
    BY <1>0, <1>2, <1>n DEF Tty!LineStarts, Tty!start_tty, Tty!Requests, Tty!Overtakes, TtyTyped, LooksRight, Tty!Looked
  <2>. QED
    BY <2>1, <2>2, <2>3, <2>4, <2>5 DEF TtyInv
<1>3. ASSUME NEW c \in Callers, Tty!TCOOFF(c)
      PROVE  TtyInv'
  <2>1. TtyTyped'
    BY <1>0, <1>3 DEF Tty!TCOOFF, Tty!Goto, TtyTyped
  <2>2. LockHeld'
    BY <1>0, <1>3, <1>n DEF Tty!TCOOFF, Tty!Goto, TtyTyped, LockHeld
  <2>3. StopKept'
    BY <1>0, <1>3 DEF Tty!TCOOFF, Tty!Goto, TtyTyped, StopKept
  <2>4. OffKept'
    BY <1>0, <1>3 DEF Tty!TCOOFF, Tty!Goto, TtyTyped, OffKept
  <2>5. LooksRight'
    BY <1>0, <1>3, <1>n DEF Tty!TCOOFF, Tty!Goto, TtyTyped, LooksRight, Tty!Looked
  <2>. QED
    BY <2>1, <2>2, <2>3, <2>4, <2>5 DEF TtyInv
<1>4. ASSUME NEW c \in Callers, Tty!TCOON(c)
      PROVE  TtyInv'
  <2>1. TtyTyped'
    BY <1>0, <1>4 DEF Tty!TCOON, Tty!Goto, TtyTyped
  <2>2. LockHeld'
    BY <1>0, <1>4, <1>n DEF Tty!TCOON, Tty!Goto, TtyTyped, LockHeld
  <2>3. StopKept'
    BY <1>0, <1>4 DEF Tty!TCOON, Tty!Goto, TtyTyped, StopKept
  <2>4. OffKept'
    BY <1>0, <1>4 DEF Tty!TCOON, Tty!Goto, TtyTyped, OffKept
  <2>5. LooksRight'
    BY <1>0, <1>4, <1>n DEF Tty!TCOON, Tty!Goto, TtyTyped, LooksRight, Tty!Looked
  <2>. QED
    BY <2>1, <2>2, <2>3, <2>4, <2>5 DEF TtyInv
<1>5. ASSUME NEW c \in Callers, Tty!Switch(c)
      PROVE  TtyInv'
  <2>1. TtyTyped'
    BY <1>0, <1>5 DEF Tty!Switch, Tty!stop_tty, Tty!start_tty, Tty!Requests, Tty!Overtakes, Tty!Goto, TtyTyped
  <2>2. LockHeld'
    BY <1>0, <1>5, <1>n DEF Tty!Switch, Tty!stop_tty, Tty!start_tty, Tty!Requests, Tty!Overtakes, Tty!Goto, TtyTyped, LockHeld
  <2>3. StopKept'
    BY <1>0, <1>5 DEF Tty!Switch, Tty!stop_tty, Tty!start_tty, Tty!Requests, Tty!Overtakes, Tty!Goto, TtyTyped, StopKept
  <2>4. OffKept'
    BY <1>0, <1>5 DEF Tty!Switch, Tty!stop_tty, Tty!start_tty, Tty!Requests, Tty!Overtakes, Tty!Goto, TtyTyped, OffKept
  <2>5. LooksRight'
    BY <1>0, <1>5, <1>n DEF Tty!Switch, Tty!stop_tty, Tty!start_tty, Tty!Requests, Tty!Overtakes, Tty!Goto, TtyTyped, LooksRight, Tty!Looked
  <2>. QED
    BY <2>1, <2>2, <2>3, <2>4, <2>5 DEF TtyInv
<1>6. ASSUME NEW c \in Callers, Tty!send_prio_char(c)
      PROVE  TtyInv'
  <2>1. TtyTyped'
    BY <1>0, <1>6 DEF Tty!send_prio_char, Tty!Goto, TtyTyped
  <2>2. LockHeld'
    BY <1>0, <1>6, <1>n DEF Tty!send_prio_char, Tty!Goto, TtyTyped, LockHeld
  <2>3. StopKept'
    BY <1>0, <1>6 DEF Tty!send_prio_char, Tty!Goto, TtyTyped, StopKept
  <2>4. OffKept'
    BY <1>0, <1>6 DEF Tty!send_prio_char, Tty!Goto, TtyTyped, OffKept
  <2>5. LooksRight'
    BY <1>0, <1>6, <1>n DEF Tty!send_prio_char, Tty!Goto, TtyTyped, LooksRight, Tty!Looked
  <2>. QED
    BY <2>1, <2>2, <2>3, <2>4, <2>5 DEF TtyInv
<1>7. ASSUME NEW c \in Callers, Tty!tty_write_lock(c)
      PROVE  TtyInv'
  <2>1. TtyTyped'
    BY <1>0, <1>7 DEF Tty!tty_write_lock, Tty!Goto, TtyTyped
  <2>2. LockHeld'
    BY <1>0, <1>7, <1>n DEF Tty!tty_write_lock, Tty!Goto, TtyTyped, LockHeld
  <2>3. StopKept'
    BY <1>0, <1>7 DEF Tty!tty_write_lock, Tty!Goto, TtyTyped, StopKept
  <2>4. OffKept'
    BY <1>0, <1>7 DEF Tty!tty_write_lock, Tty!Goto, TtyTyped, OffKept
  <2>5. LooksRight'
    BY <1>0, <1>7, <1>n DEF Tty!tty_write_lock, Tty!Goto, TtyTyped, LooksRight, Tty!Looked
  <2>. QED
    BY <2>1, <2>2, <2>3, <2>4, <2>5 DEF TtyInv
<1>8. ASSUME NEW c \in Callers, Tty!StartsForIt(c)
      PROVE  TtyInv'
  <2>1. TtyTyped'
    BY <1>0, <1>8 DEF Tty!StartsForIt, Tty!start_tty, Tty!Goto, TtyTyped
  <2>2. LockHeld'
    BY <1>0, <1>8, <1>n DEF Tty!StartsForIt, Tty!start_tty, Tty!Goto, TtyTyped, LockHeld
  <2>3. StopKept'
    BY <1>0, <1>8 DEF Tty!StartsForIt, Tty!start_tty, Tty!Goto, TtyTyped, StopKept
  <2>4. OffKept'
    BY <1>0, <1>8 DEF Tty!StartsForIt, Tty!start_tty, Tty!Goto, TtyTyped, OffKept
  <2>5. LooksRight'
    BY <1>0, <1>8, <1>n DEF Tty!StartsForIt, Tty!start_tty, Tty!Goto, TtyTyped, LooksRight, Tty!Looked
  <2>. QED
    BY <2>1, <2>2, <2>3, <2>4, <2>5 DEF TtyInv
<1>9. ASSUME NEW c \in Callers, Tty!Writes(c)
      PROVE  TtyInv'
  <2>1. TtyTyped'
    BY <1>0, <1>9 DEF Tty!Writes, Tty!Goto, TtyTyped
  <2>2. LockHeld'
    BY <1>0, <1>9, <1>n DEF Tty!Writes, Tty!Goto, TtyTyped, LockHeld
  <2>3. StopKept'
    BY <1>0, <1>9 DEF Tty!Writes, Tty!Goto, TtyTyped, StopKept
  <2>4. OffKept'
    BY <1>0, <1>9 DEF Tty!Writes, Tty!Goto, TtyTyped, OffKept
  <2>5. LooksRight'
    BY <1>0, <1>9, <1>n DEF Tty!Writes, Tty!Goto, TtyTyped, LooksRight, Tty!Looked
  <2>. QED
    BY <2>1, <2>2, <2>3, <2>4, <2>5 DEF TtyInv
<1>10. ASSUME NEW c \in Callers, Tty!Restores(c)
      PROVE  TtyInv'
  <2>1. TtyTyped'
    BY <1>0, <1>10 DEF Tty!Restores, Tty!stop_tty, Tty!Overtakes, Tty!Goto, TtyTyped
  <2>2. LockHeld'
    BY <1>0, <1>10, <1>n DEF Tty!Restores, Tty!stop_tty, Tty!Overtakes, Tty!Goto, TtyTyped, LockHeld
  <2>3. StopKept'
    BY <1>0, <1>10 DEF Tty!Restores, Tty!stop_tty, Tty!Overtakes, Tty!Goto, TtyTyped, StopKept
  <2>4. OffKept'
    BY <1>0, <1>10 DEF Tty!Restores, Tty!stop_tty, Tty!Overtakes, Tty!Goto, TtyTyped, OffKept
  <2>5. LooksRight'
    BY <1>0, <1>10, <1>n DEF Tty!Restores, Tty!stop_tty, Tty!Overtakes, Tty!Goto, TtyTyped, LooksRight, Tty!Looked
  <2>. QED
    BY <2>1, <2>2, <2>3, <2>4, <2>5 DEF TtyInv
<1>11. ASSUME NEW c \in Callers, Tty!tty_write_unlock(c)
      PROVE  TtyInv'
  <2>1. TtyTyped'
    BY <1>0, <1>11 DEF Tty!tty_write_unlock, Tty!Goto, TtyTyped
  <2>2. LockHeld'
    BY <1>0, <1>11, <1>n DEF Tty!tty_write_unlock, Tty!Goto, TtyTyped, LockHeld
  <2>3. StopKept'
    BY <1>0, <1>11 DEF Tty!tty_write_unlock, Tty!Goto, TtyTyped, StopKept
  <2>4. OffKept'
    BY <1>0, <1>11 DEF Tty!tty_write_unlock, Tty!Goto, TtyTyped, OffKept
  <2>5. LooksRight'
    BY <1>0, <1>11, <1>n DEF Tty!tty_write_unlock, Tty!Goto, TtyTyped, LooksRight, Tty!Looked
  <2>. QED
    BY <2>1, <2>2, <2>3, <2>4, <2>5 DEF TtyInv
<1>. QED
  BY <1>1, <1>2, <1>3, <1>4, <1>5, <1>6, <1>7, <1>8, <1>9, <1>10, <1>11 DEF Tty!FlowNext

LEMMA TtyAgreed ==
  ASSUME TtyInv
  PROVE  Tty!FlowKept
BY DEF TtyInv, LockHeld, StopKept, OffKept, LooksRight, Tty!FlowKept, Tty!Quiet

-----------------------------------------------------------------------------
(***************************************************************************)
(* Packet mode: what the reader believes at each place of a change, unless *)
(* the status that TIOCPKT cleared came back.                              *)
(***************************************************************************)
StatusBits == {"DOSTOP", "NOSTOP", "IOCTL"}
SetterPlaces == {"idle", "look", "drop", "dropping", "raise", "raising", "ioctl", "adding",
                 "drivers"}

PktTyped ==
  /\ packet \in BOOLEAN /\ seen \in BOOLEAN /\ revived \in BOOLEAN
  /\ master_at \in {"idle", "clear"}
  /\ termios_mutex \in Setters \cup {None}
  /\ setter_at \in [Setters -> SetterPlaces]
  /\ termios \subseteq Tty!Settings /\ old_termios \in [Setters -> SUBSET Tty!Settings]
  /\ ctrl_status \subseteq StatusBits /\ loaded \subseteq StatusBits

MutexHeld == \A s \in Setters : setter_at[s] # "idle" <=> termios_mutex = s

NoFlow(status) == "DOSTOP" \notin status /\ "NOSTOP" \notin status
NotBoth(status) == "DOSTOP" \notin status \/ "NOSTOP" \notin status

\* What the setter has of the status; TIOCPKT may clear it meanwhile.
StatusAt(s) ==
  /\ setter_at[s] = "raise" => NoFlow(ctrl_status)
  /\ setter_at[s] = "raising" => NoFlow(loaded)
  /\ setter_at[s] = "adding" => ctrl_status \in {loaded, {}}

Right == Tty!Believed = Tty!Flow(termios) \/ revived
RightOnce(s) == Tty!Believed = Tty!Flow(old_termios[s]) \/ Right

BelievedAt(s) ==
  /\ setter_at[s] = "look" => RightOnce(s)
  /\ setter_at[s] \in {"ioctl", "adding", "drivers"} => Right

Believes ==
  packet /\ master_at = "idle" =>
    (termios_mutex = None => Right) /\ \A s \in Setters : BelievedAt(s)

PktInv ==
  /\ PktTyped /\ MutexHeld /\ NotBoth(ctrl_status) /\ NotBoth(loaded)
  /\ \A s \in Setters : StatusAt(s)
  /\ Believes

\* What the reader believes and the flow control there is are Booleans.
LEMMA BelievedOrNot ==
  ASSUME PktTyped
  PROVE  /\ Tty!Believed \in BOOLEAN /\ Tty!Flow(termios) \in BOOLEAN
         /\ \A s \in Setters : Tty!Flow(old_termios[s]) \in BOOLEAN
BY DEF PktTyped, Tty!Believed, Tty!Flow

LEMMA PktStarts ==
  ASSUME MachinesInit
  PROVE  PktInv
<1>1. Tty!PacketInit
  BY DEF MachinesInit
<1>2. PktTyped /\ MutexHeld
  BY <1>1, HelpersAssumption DEF Tty!PacketInit, PktTyped, MutexHeld, Tty!Settings, SetterPlaces
<1>. QED
  BY <1>1, <1>2 DEF PktInv, Tty!PacketInit, NotBoth, StatusAt, Believes

LEMMA PktStep ==
  ASSUME PktInv, Tty!PacketNext
  PROVE  PktInv'
<1>0. /\ PktTyped /\ MutexHeld /\ NotBoth(ctrl_status) /\ NotBoth(loaded)
      /\ \A s \in Setters : StatusAt(s)
      /\ Believes
  BY DEF PktInv
<1>n. None \notin Setters
  BY HelpersAssumption
<1>1. ASSUME NEW on \in BOOLEAN, Tty!TIOCPKT(on)
      PROVE  PktInv'
  <2>1. PktTyped'
    BY <1>0, <1>1 DEF Tty!TIOCPKT, PktTyped, StatusBits, SetterPlaces, Tty!Believed, Tty!Flow
  <2>2. MutexHeld'
    BY <1>0, <1>1, <1>n DEF Tty!TIOCPKT, PktTyped, MutexHeld
  <2>3. NotBoth(ctrl_status)' /\ NotBoth(loaded)'
    BY <1>0, <1>1 DEF Tty!TIOCPKT, NotBoth, NoFlow, StatusAt
  <2>4. ASSUME NEW u \in Setters PROVE StatusAt(u)'
    BY <1>0, <1>1 DEF Tty!TIOCPKT, PktTyped, MutexHeld, StatusAt, NoFlow
  <2>5. Believes'
    BY <1>0, <1>1, <1>n, <2>1, BelievedOrNot DEF Tty!TIOCPKT, PktTyped, MutexHeld, Believes, BelievedAt, StatusAt, NoFlow, Right, RightOnce, Tty!Believed
  <2>. QED
    BY <2>1, <2>2, <2>3, <2>4, <2>5 DEF PktInv
<1>2. ASSUME Tty!ClearStatus
      PROVE  PktInv'
  <2>1. PktTyped'
    BY <1>0, <1>2 DEF Tty!ClearStatus, PktTyped, StatusBits, SetterPlaces, Tty!Believed, Tty!Flow
  <2>2. MutexHeld'
    BY <1>0, <1>2, <1>n DEF Tty!ClearStatus, PktTyped, MutexHeld
  <2>3. NotBoth(ctrl_status)' /\ NotBoth(loaded)'
    BY <1>0, <1>2 DEF Tty!ClearStatus, NotBoth, NoFlow, StatusAt
  <2>4. ASSUME NEW u \in Setters PROVE StatusAt(u)'
    BY <1>0, <1>2 DEF Tty!ClearStatus, PktTyped, MutexHeld, StatusAt, NoFlow
  <2>5. Believes'
    BY <1>0, <1>2, <1>n, <2>1, BelievedOrNot DEF Tty!ClearStatus, PktTyped, MutexHeld, Believes, BelievedAt, StatusAt, NoFlow, Right, RightOnce, Tty!Believed
  <2>. QED
    BY <2>1, <2>2, <2>3, <2>4, <2>5 DEF PktInv
<1>3. ASSUME NEW s \in Setters, NEW new \in SUBSET Tty!Settings, Tty!SetTermios(s, new)
      PROVE  PktInv'
  <2>1. PktTyped'
    BY <1>0, <1>3 DEF Tty!SetTermios, Tty!unset_locked_termios, PktTyped, StatusBits, SetterPlaces, Tty!Believed, Tty!Flow
  <2>2. MutexHeld'
    BY <1>0, <1>3, <1>n DEF Tty!SetTermios, Tty!unset_locked_termios, PktTyped, MutexHeld
  <2>3. NotBoth(ctrl_status)' /\ NotBoth(loaded)'
    BY <1>0, <1>3 DEF Tty!SetTermios, Tty!unset_locked_termios, NotBoth, NoFlow, StatusAt
  <2>4. ASSUME NEW u \in Setters PROVE StatusAt(u)'
    BY <1>0, <1>3 DEF Tty!SetTermios, Tty!unset_locked_termios, PktTyped, MutexHeld, StatusAt, NoFlow
  <2>5. Believes'
    BY <1>0, <1>3, <1>n, <2>1, BelievedOrNot DEF Tty!SetTermios, Tty!unset_locked_termios, PktTyped, MutexHeld, Believes, BelievedAt, StatusAt, NoFlow, Right, RightOnce, Tty!Believed
  <2>. QED
    BY <2>1, <2>2, <2>3, <2>4, <2>5 DEF PktInv
<1>4. ASSUME NEW s \in Setters, Tty!Looks(s)
      PROVE  PktInv'
  <2>1. PktTyped'
    BY <1>0, <1>4 DEF Tty!Looks, Tty!FlowChanged, PktTyped, StatusBits, SetterPlaces, Tty!Believed, Tty!Flow
  <2>2. MutexHeld'
    BY <1>0, <1>4, <1>n DEF Tty!Looks, Tty!FlowChanged, PktTyped, MutexHeld
  <2>3. NotBoth(ctrl_status)' /\ NotBoth(loaded)'
    BY <1>0, <1>4 DEF Tty!Looks, Tty!FlowChanged, NotBoth, NoFlow, StatusAt
  <2>4. ASSUME NEW u \in Setters PROVE StatusAt(u)'
    BY <1>0, <1>4 DEF Tty!Looks, Tty!FlowChanged, PktTyped, MutexHeld, StatusAt, NoFlow
  <2>5. Believes'
    BY <1>0, <1>4, <1>n, <2>1, BelievedOrNot DEF Tty!Looks, Tty!FlowChanged, PktTyped, MutexHeld, Believes, BelievedAt, StatusAt, NoFlow, Right, RightOnce, Tty!Believed
  <2>. QED
    BY <2>1, <2>2, <2>3, <2>4, <2>5 DEF PktInv
<1>5. ASSUME NEW s \in Setters, Tty!Loads(s)
      PROVE  PktInv'
  <2>1. PktTyped'
    BY <1>0, <1>5 DEF Tty!Loads, PktTyped, StatusBits, SetterPlaces, Tty!Believed, Tty!Flow
  <2>2. MutexHeld'
    BY <1>0, <1>5, <1>n DEF Tty!Loads, PktTyped, MutexHeld
  <2>3. NotBoth(ctrl_status)' /\ NotBoth(loaded)'
    BY <1>0, <1>5 DEF Tty!Loads, NotBoth, NoFlow, StatusAt
  <2>4. ASSUME NEW u \in Setters PROVE StatusAt(u)'
    BY <1>0, <1>5 DEF Tty!Loads, PktTyped, MutexHeld, StatusAt, NoFlow
  <2>5. Believes'
    BY <1>0, <1>5, <1>n, <2>1, BelievedOrNot DEF Tty!Loads, PktTyped, MutexHeld, Believes, BelievedAt, StatusAt, NoFlow, Right, RightOnce, Tty!Believed
  <2>. QED
    BY <2>1, <2>2, <2>3, <2>4, <2>5 DEF PktInv
<1>6. ASSUME NEW s \in Setters, Tty!Drops(s)
      PROVE  PktInv'
  <2>1. PktTyped'
    BY <1>0, <1>6 DEF Tty!Drops, Tty!Stores, Tty!FlowBits, PktTyped, StatusBits, SetterPlaces, Tty!Believed, Tty!Flow
  <2>2. MutexHeld'
    BY <1>0, <1>6, <1>n DEF Tty!Drops, Tty!Stores, Tty!FlowBits, PktTyped, MutexHeld
  <2>3. NotBoth(ctrl_status)' /\ NotBoth(loaded)'
    BY <1>0, <1>6 DEF Tty!Drops, Tty!Stores, Tty!FlowBits, NotBoth, NoFlow, StatusAt
  <2>4. ASSUME NEW u \in Setters PROVE StatusAt(u)'
    BY <1>0, <1>6 DEF Tty!Drops, Tty!Stores, Tty!FlowBits, PktTyped, MutexHeld, StatusAt, NoFlow
  <2>5. Believes'
    BY <1>0, <1>6, <1>n, <2>1, BelievedOrNot DEF Tty!Drops, Tty!Stores, Tty!FlowBits, PktTyped, MutexHeld, Believes, BelievedAt, StatusAt, NoFlow, Right, RightOnce, Tty!Believed
  <2>. QED
    BY <2>1, <2>2, <2>3, <2>4, <2>5 DEF PktInv
<1>7. ASSUME NEW s \in Setters, Tty!Raises(s)
      PROVE  PktInv'
  <2>1. PktTyped'
    BY <1>0, <1>7 DEF Tty!Raises, Tty!Stores, PktTyped, StatusBits, SetterPlaces, Tty!Believed, Tty!Flow
  <2>2. MutexHeld'
    BY <1>0, <1>7, <1>n DEF Tty!Raises, Tty!Stores, PktTyped, MutexHeld
  <2>3. NotBoth(ctrl_status)' /\ NotBoth(loaded)'
    BY <1>0, <1>7 DEF Tty!Raises, Tty!Stores, NotBoth, NoFlow, StatusAt
  <2>4. ASSUME NEW u \in Setters PROVE StatusAt(u)'
    BY <1>0, <1>7 DEF Tty!Raises, Tty!Stores, PktTyped, MutexHeld, StatusAt, NoFlow
  <2>5. Believes'
    BY <1>0, <1>7, <1>n, <2>1, BelievedOrNot DEF Tty!Raises, Tty!Stores, PktTyped, MutexHeld, Believes, BelievedAt, StatusAt, NoFlow, Right, RightOnce, Tty!Believed
  <2>. QED
    BY <2>1, <2>2, <2>3, <2>4, <2>5 DEF PktInv
<1>8. ASSUME NEW s \in Setters, Tty!Adds(s)
      PROVE  PktInv'
  <2>1. PktTyped'
    BY <1>0, <1>8 DEF Tty!Adds, Tty!Stores, Tty!FlowBits, PktTyped, StatusBits, SetterPlaces, Tty!Believed, Tty!Flow
  <2>2. MutexHeld'
    BY <1>0, <1>8, <1>n DEF Tty!Adds, Tty!Stores, Tty!FlowBits, PktTyped, MutexHeld
  <2>3. NotBoth(ctrl_status)' /\ NotBoth(loaded)'
    BY <1>0, <1>8 DEF Tty!Adds, Tty!Stores, Tty!FlowBits, NotBoth, NoFlow, StatusAt
  <2>4. ASSUME NEW u \in Setters PROVE StatusAt(u)'
    BY <1>0, <1>8 DEF Tty!Adds, Tty!Stores, Tty!FlowBits, PktTyped, MutexHeld, StatusAt, NoFlow
  <2>5. Believes'
    BY <1>0, <1>8, <1>n, <2>1, BelievedOrNot DEF Tty!Adds, Tty!Stores, Tty!FlowBits, PktTyped, MutexHeld, Believes, BelievedAt, StatusAt, NoFlow, Right, RightOnce, Tty!Believed
  <2>. QED
    BY <2>1, <2>2, <2>3, <2>4, <2>5 DEF PktInv
<1>9. ASSUME NEW s \in Setters, Tty!SetTermiosEnds(s)
      PROVE  PktInv'
  <2>1. PktTyped'
    BY <1>0, <1>9 DEF Tty!SetTermiosEnds, PktTyped, StatusBits, SetterPlaces, Tty!Believed, Tty!Flow
  <2>2. MutexHeld'
    BY <1>0, <1>9, <1>n DEF Tty!SetTermiosEnds, PktTyped, MutexHeld
  <2>3. NotBoth(ctrl_status)' /\ NotBoth(loaded)'
    BY <1>0, <1>9 DEF Tty!SetTermiosEnds, NotBoth, NoFlow, StatusAt
  <2>4. ASSUME NEW u \in Setters PROVE StatusAt(u)'
    BY <1>0, <1>9 DEF Tty!SetTermiosEnds, PktTyped, MutexHeld, StatusAt, NoFlow
  <2>5. Believes'
    BY <1>0, <1>9, <1>n, <2>1, BelievedOrNot DEF Tty!SetTermiosEnds, PktTyped, MutexHeld, Believes, BelievedAt, StatusAt, NoFlow, Right, RightOnce, Tty!Believed
  <2>. QED
    BY <2>1, <2>2, <2>3, <2>4, <2>5 DEF PktInv
<1>10. ASSUME Tty!ReadStatus
      PROVE  PktInv'
  <2>1. PktTyped'
    BY <1>0, <1>10 DEF Tty!ReadStatus, PktTyped, StatusBits, SetterPlaces, Tty!Believed, Tty!Flow
  <2>2. MutexHeld'
    BY <1>0, <1>10, <1>n DEF Tty!ReadStatus, PktTyped, MutexHeld
  <2>3. NotBoth(ctrl_status)' /\ NotBoth(loaded)'
    BY <1>0, <1>10 DEF Tty!ReadStatus, NotBoth, NoFlow, StatusAt
  <2>4. ASSUME NEW u \in Setters PROVE StatusAt(u)'
    BY <1>0, <1>10 DEF Tty!ReadStatus, PktTyped, MutexHeld, StatusAt, NoFlow
  <2>5. Believes'
    BY <1>0, <1>10, <1>n, <2>1, BelievedOrNot DEF Tty!ReadStatus, PktTyped, MutexHeld, Believes, BelievedAt, StatusAt, NoFlow, Right, RightOnce, Tty!Believed
  <2>. QED
    BY <2>1, <2>2, <2>3, <2>4, <2>5 DEF PktInv
<1>. QED
  BY <1>1, <1>2, <1>3, <1>4, <1>5, <1>6, <1>7, <1>8, <1>9, <1>10 DEF Tty!PacketNext, Tty!SetterStep

LEMMA PktAgreed ==
  ASSUME PktInv
  PROVE  Tty!PacketAgrees
BY DEF PktInv, NotBoth, Believes, Right, Tty!PacketAgrees, Tty!FlowBits

-----------------------------------------------------------------------------
(***************************************************************************)
(* The shared buffer: who uses it holds a reference, and the pointer is    *)
(* set as long as mappings are counted.  That nothing is left of a buffer  *)
(* that was released follows from the counts.                              *)
(***************************************************************************)
Holding == {u \in Users : held[u] = 1}
Shown   == {a \in Areas : vma[a].vm_file = Buf}
Ranged  == [vm_file : {Buf, Other}, vm_pgoff : 0..PageMod - 1, pages : 0..PageMod - 1]

DmaTyped ==
  /\ f_count \in Int /\ own \in 0..1 /\ fds \in Nat
  /\ held \in [Users -> 0..1]
  /\ attachments \subseteq Users /\ mapped \subseteq Users /\ leaving \subseteq Users
  /\ vmapping_counter \in Int /\ vmap_ptr \in BOOLEAN /\ bug \in BOOLEAN
  /\ vma \in [Areas -> Ranged]

Counts ==
  /\ f_count = own + fds + Cardinality(Holding) + Cardinality(Shown)
  /\ vmapping_counter = Cardinality(mapped) + Cardinality(leaving)

Keepers ==
  /\ attachments \cup mapped \cup leaving \subseteq Holding
  /\ mapped \cap leaving = {}
  /\ vmap_ptr <=> vmapping_counter > 0

DmaInv == DmaTyped /\ Counts /\ Keepers /\ ~bug /\ AreasInBuffer

\* The number of elements is the same in the module of the buffer.
LEMMA DmaCardinality == \A S : Dma!Cardinality(S) = Cardinality(S)
BY DEF Dma!Cardinality, Cardinality

\* What is counted is finite.
LEMMA DmaFinite ==
  ASSUME DmaTyped
  PROVE  /\ IsFiniteSet(Holding) /\ Cardinality(Holding) \in Nat
         /\ IsFiniteSet(Shown) /\ Cardinality(Shown) \in Nat
         /\ IsFiniteSet(mapped) /\ Cardinality(mapped) \in Nat
         /\ IsFiniteSet(leaving) /\ Cardinality(leaving) \in Nat
<1>1. /\ Holding \in SUBSET Users /\ mapped \in SUBSET Users /\ leaving \in SUBSET Users
      /\ Shown \in SUBSET Areas /\ IsFiniteSet(Users) /\ IsFiniteSet(Areas)
  BY HelpersAssumption DEF DmaTyped, Holding, Shown
<1>2. /\ IsFiniteSet(Holding) /\ IsFiniteSet(mapped) /\ IsFiniteSet(leaving)
      /\ IsFiniteSet(Shown)
  BY <1>1, FS_Subset
<1>. QED
  BY <1>2, FS_CardinalityType

\* The counts tell when nobody holds the buffer.
LEMMA NobodyHolds ==
  ASSUME DmaTyped, Counts, Keepers,
         Cardinality(Holding) = 0 \/ \E u \in Users : Holding = {u} /\ u \notin mapped \cup leaving
  PROVE  vmapping_counter = 0
<1>1. mapped = {} /\ leaving = {}
  <2>1. CASE Cardinality(Holding) = 0
    <3>1. Holding = {}
      BY <2>1, DmaFinite, FS_EmptySet
    <3>. QED
      BY <3>1 DEF Keepers
  <2>2. ASSUME NEW u \in Users, Holding = {u}, u \notin mapped \cup leaving
        PROVE  mapped = {} /\ leaving = {}
    BY <2>2 DEF Keepers
  <2>. QED
    BY <2>1, <2>2
<1>2. Cardinality(mapped) = 0 /\ Cardinality(leaving) = 0
  BY <1>1, FS_EmptySet
<1>. QED
  BY <1>2 DEF Counts

LEMMA DmaAccounted ==
  ASSUME DmaInv
  PROVE  Dma!BufferAccounted
<1>1. DmaTyped /\ Counts /\ Keepers /\ ~bug
  BY DEF DmaInv
<1>2. /\ f_count = own + fds + Dma!Cardinality({u \in Users : held[u] = 1})
                   + Dma!Cardinality({a \in Areas : vma[a].vm_file = Buf})
      /\ vmapping_counter = Dma!Cardinality(mapped) + Dma!Cardinality(leaving)
  BY <1>1, DmaCardinality DEF Counts, Holding, Shown
<1>3. ASSUME f_count = 0 PROVE attachments = {} /\ ~vmap_ptr
  <2>1. Cardinality(Holding) = 0
    <3>1. PICK h \in Nat, s \in Nat : h = Cardinality(Holding) /\ s = Cardinality(Shown)
      BY <1>1, DmaFinite
    <3>2. own \in 0..1 /\ fds \in Nat /\ 0 = own + fds + h + s
      BY <1>1, <1>3, <3>1 DEF Counts, DmaTyped
    <3>. QED
      BY <3>1, <3>2
  <2>2. vmapping_counter = 0
    BY <1>1, <2>1, NobodyHolds
  <2>3. Holding = {}
    BY <1>1, <2>1, DmaFinite, FS_EmptySet
  <2>. QED
    BY <1>1, <2>2, <2>3 DEF Keepers
<1>. QED
  BY <1>1, <1>2, <1>3 DEF Dma!BufferAccounted

LEMMA DmaStarts ==
  ASSUME MachinesInit
  PROVE  DmaInv
<1>1. Dma!DmaBufInit
  BY DEF MachinesInit
<1>2. DmaTyped
  <2>1. Dma!NoArea \in Ranged
    BY HelpersAssumption DEF Dma!NoArea, Ranged
  <2>2. vma \in [Areas -> Ranged] /\ held \in [Users -> 0..1]
    BY <1>1, <2>1 DEF Dma!DmaBufInit
  <2>3. f_count \in Int /\ own \in 0..1 /\ fds \in Nat /\ vmapping_counter \in Int
    BY <1>1 DEF Dma!DmaBufInit
  <2>. QED
    BY <1>1, <2>2, <2>3 DEF Dma!DmaBufInit, DmaTyped
<1>3. Holding = {} /\ Shown = {} /\ mapped = {} /\ leaving = {}
  BY <1>1, HelpersAssumption DEF Dma!DmaBufInit, Dma!NoArea, Holding, Shown
<1>4. Counts
  <2>1. Cardinality({}) = 0
    BY FS_EmptySet
  <2>. QED
    BY <1>1, <1>3, <2>1 DEF Dma!DmaBufInit, Counts
<1>5. Keepers
  BY <1>1, <1>3 DEF Dma!DmaBufInit, Keepers
<1>6. AreasInBuffer
  BY <1>3 DEF AreasInBuffer, Dma!AreasInBuffer, Shown
<1>. QED
  BY <1>1, <1>2, <1>4, <1>5, <1>6 DEF Dma!DmaBufInit, DmaInv

\* A sum that wraps is smaller than the offset, as the buffer has fewer pages
\* than offsets are counted.
LEMMA NoWrap ==
  ASSUME NEW p \in 0..PageMod - 1, NEW n \in 0..PageMod - 1,
         ~Dma!Overflows(p, n), Dma!Fits(p, n)
  PROVE  p + n <= Size
<1>1. PICK M \in Nat \ {0} : M = PageMod /\ n < M /\ p < M
  BY HelpersAssumption
<1>2. PICK x \in Nat : x = p + n
  OBVIOUS
<1>3. PICK q \in Int, r \in 0..M - 1 : x = M * q + r /\ r = x % M
  <2>1. x = M * (x \div M) + (x % M) /\ x % M \in 0..(M - 1) /\ (x \div M) \in Int
    OBVIOUS
  <2>. QED
    BY <2>1
<1>4. r >= p /\ r <= Size
  BY <1>1, <1>2, <1>3, HelpersAssumption DEF Dma!Overflows, Dma!Fits
<1>5. q >= 1 => M * q >= M
  OBVIOUS
<1>6. q <= -1 => M * q <= -M
  OBVIOUS
<1>7. q = 0 => M * q = 0
  OBVIOUS
<1>. QED
  BY <1>1, <1>2, <1>3, <1>4, <1>5, <1>6, <1>7, HelpersAssumption

\* What the areas of memory do to the file: one area changes.
LEMMA AreaChanges ==
  ASSUME DmaTyped, AreasInBuffer, NEW a \in Areas, NEW r \in Ranged,
         vma' = [vma EXCEPT ![a] = r], r.vm_file = Buf => r.vm_pgoff + r.pages <= Size
  PROVE  /\ vma' \in [Areas -> Ranged] /\ AreasInBuffer'
         /\ r.vm_file = Buf => Shown' = Shown \cup {a}
         /\ r.vm_file # Buf => Shown' = Shown \ {a}
<1>1. vma' \in [Areas -> Ranged] /\ vma'[a] = r /\ \A x \in Areas : x # a => vma'[x] = vma[x]
  BY DEF DmaTyped
<1>2. AreasInBuffer'
  BY <1>1 DEF AreasInBuffer, Dma!AreasInBuffer
<1>3. Shown' = IF r.vm_file = Buf THEN Shown \cup {a} ELSE Shown \ {a}
  BY <1>1 DEF Shown
<1>. QED
  BY <1>1, <1>2, <1>3

\* A reference goes: the buffer that is released is not mapped.
LEMMA PutKeeps ==
  ASSUME DmaTyped, Counts, Keepers, ~bug, Dma!Fput,
         f_count = 1 => \/ Cardinality(Holding) = 0
                        \/ \E u \in Users : Holding = {u} /\ u \notin mapped \cup leaving
  PROVE  f_count' = f_count - 1 /\ f_count' \in Int /\ ~bug' /\ bug' \in BOOLEAN
<1>1. f_count' = f_count - 1 /\ f_count' \in Int
  BY DEF Dma!Fput, DmaTyped
<1>2. f_count = 1 => vmapping_counter = 0
  BY NobodyHolds
<1>3. bug' = (bug \/ (f_count = 1 /\ vmapping_counter # 0))
  BY DEF Dma!Fput
<1>4. ~bug' /\ bug' \in BOOLEAN
  BY <1>2, <1>3
<1>. QED
  BY <1>1, <1>4

LEMMA DmaHolderStep ==
  ASSUME DmaInv, \/ Dma!dma_buf_fd \/ Dma!Close
                 \/ \E u \in Users : Dma!dma_buf_get(u) \/ Dma!dma_buf_put(u)
  PROVE  DmaInv'
<1>0. DmaTyped /\ Counts /\ Keepers /\ ~bug /\ AreasInBuffer
  BY DEF DmaInv
<1>c. PICK h \in Nat, s \in Nat, m \in Nat, l \in Nat :
        /\ h = Cardinality(Holding) /\ s = Cardinality(Shown)
        /\ m = Cardinality(mapped) /\ l = Cardinality(leaving)
        /\ f_count = own + fds + h + s
  BY <1>0, DmaFinite DEF Counts
<1>1. CASE Dma!dma_buf_fd
  <2>1. DmaTyped'
    BY <1>0, <1>1 DEF Dma!dma_buf_fd, DmaTyped
  <2>2. Counts' /\ Keepers'
    BY <1>0, <1>1, <1>c DEF Dma!dma_buf_fd, DmaTyped, Counts, Keepers, Holding, Shown
  <2>3. AreasInBuffer' /\ ~bug'
    BY <1>0, <1>1 DEF Dma!dma_buf_fd, AreasInBuffer, Dma!AreasInBuffer
  <2>. QED
    BY <2>1, <2>2, <2>3 DEF DmaInv
<1>2. CASE Dma!Close
  <2>1. /\ UNCHANGED <<held, attachments, vmapping_counter, vmap_ptr, mapped, leaving, vma>>
        /\ own' \in 0..1 /\ fds' \in Nat /\ own' + fds' = own + fds - 1 /\ own + fds > 0
    BY <1>0, <1>2 DEF Dma!Close, DmaTyped
  <2>2. f_count = 1 => Cardinality(Holding) = 0
    BY <1>0, <1>c, <2>1 DEF DmaTyped
  <2>3. f_count' = f_count - 1 /\ f_count' \in Int /\ ~bug' /\ bug' \in BOOLEAN
    BY <1>0, <1>2, <2>2, PutKeeps DEF Dma!Close
  <2>4. DmaTyped'
    BY <1>0, <2>1, <2>3 DEF DmaTyped
  <2>5. UNCHANGED <<Holding, Shown>>
    BY <2>1 DEF Holding, Shown
  <2>6. f_count' = own' + fds' + h + s
    <3>1. PICK a \in Int, b \in Int, c \in Int, d \in Int :
            a = own /\ b = fds /\ c = own' /\ d = fds'
      <4>1. own \in Int /\ fds \in Int
        BY <1>0 DEF DmaTyped
      <4>2. own' \in Int /\ fds' \in Int
        BY <2>1
      <4>. QED
        BY <4>1, <4>2
    <3>2. c + d = a + b - 1
      BY <2>1, <3>1
    <3>3. f_count' = a + b + h + s - 1
      BY <1>c, <2>3, <3>1
    <3>4. f_count' = c + d + h + s
      BY <3>2, <3>3
    <3>. QED
      BY <3>1, <3>4
  <2>7. Counts' /\ Keepers'
    BY <1>0, <1>c, <2>1, <2>5, <2>6 DEF Counts, Keepers
  <2>8. AreasInBuffer'
    BY <1>0, <2>1 DEF AreasInBuffer, Dma!AreasInBuffer
  <2>. QED
    BY <2>3, <2>4, <2>7, <2>8 DEF DmaInv
<1>3. ASSUME NEW u \in Users, Dma!dma_buf_get(u)
      PROVE  DmaInv'
  <2>1. /\ held[u] = 0 /\ held' = [held EXCEPT ![u] = 1] /\ f_count' = f_count + 1
        /\ UNCHANGED <<own, fds, attachments, vmapping_counter, vmap_ptr, mapped, leaving,
                       vma, bug>>
    BY <1>3 DEF Dma!dma_buf_get
  <2>2. u \notin Holding /\ Holding' = Holding \cup {u} /\ Shown' = Shown
    BY <1>0, <2>1 DEF DmaTyped, Holding, Shown
  <2>3. Cardinality(Holding') = h + 1
    BY <1>0, <1>c, <2>2, DmaFinite, OneMore
  <2>4. DmaTyped'
    BY <1>0, <2>1 DEF DmaTyped
  <2>5. f_count' = own' + fds' + (h + 1) + s
    BY <1>0, <1>c, <2>1 DEF DmaTyped
  <2>6. Counts'
    BY <1>0, <1>c, <2>1, <2>2, <2>3, <2>5 DEF Counts
  <2>7. Keepers'
    BY <1>0, <2>1, <2>2 DEF Keepers
  <2>8. AreasInBuffer' /\ ~bug'
    BY <1>0, <2>1 DEF AreasInBuffer, Dma!AreasInBuffer
  <2>. QED
    BY <2>4, <2>6, <2>7, <2>8 DEF DmaInv
<1>4. ASSUME NEW u \in Users, Dma!dma_buf_put(u)
      PROVE  DmaInv'
  <2>1. /\ held[u] = 1 /\ held' = [held EXCEPT ![u] = 0] /\ Dma!Fput
        /\ u \notin attachments \cup mapped \cup leaving
        /\ UNCHANGED <<own, fds, attachments, vmapping_counter, vmap_ptr, mapped, leaving, vma>>
    BY <1>4 DEF Dma!dma_buf_put
  <2>2. u \in Holding /\ Holding' = Holding \ {u} /\ Shown' = Shown
    BY <1>0, <2>1 DEF DmaTyped, Holding, Shown
  <2>3. Cardinality(Holding') = h - 1 /\ h \in Nat \ {0} /\ IsFiniteSet(Holding')
    BY <1>0, <1>c, <2>2, DmaFinite, OneLess
  <2>4. f_count = 1 => Holding = {u}
    <3>1. ASSUME f_count = 1 PROVE Holding = {u}
      <4>1. h = 1
        BY <1>0, <1>c, <2>3, <3>1 DEF DmaTyped
      <4>2. Cardinality(Holding') = 0
        BY <2>3, <4>1
      <4>3. Holding' = {}
        BY <2>3, <4>2, FS_EmptySet
      <4>. QED
        BY <2>2, <4>3
    <3>. QED
      BY <3>1
  <2>5. f_count' = f_count - 1 /\ f_count' \in Int /\ ~bug' /\ bug' \in BOOLEAN
    BY <1>0, <2>1, <2>4, PutKeeps
  <2>6. DmaTyped'
    BY <1>0, <2>1, <2>5 DEF DmaTyped
  <2>7. f_count' = own' + fds' + (h - 1) + s
    BY <1>0, <1>c, <2>1, <2>5 DEF DmaTyped
  <2>8. Counts'
    BY <1>0, <1>c, <2>1, <2>2, <2>3, <2>7 DEF Counts
  <2>9. Keepers'
    BY <1>0, <2>1, <2>2 DEF Keepers
  <2>10. AreasInBuffer'
    BY <1>0, <2>1 DEF AreasInBuffer, Dma!AreasInBuffer
  <2>. QED
    BY <2>5, <2>6, <2>8, <2>9, <2>10 DEF DmaInv
<1>. QED
  BY <1>1, <1>2, <1>3, <1>4

LEMMA DmaUserStep ==
  ASSUME DmaInv, NEW u \in Users,
         \/ Dma!dma_buf_attach(u) \/ Dma!dma_buf_detach(u)
         \/ Dma!dma_buf_vmap(u) \/ Dma!VunmapChecks(u) \/ Dma!dma_buf_vunmap(u)
  PROVE  DmaInv'
<1>0. DmaTyped /\ Counts /\ Keepers /\ ~bug /\ AreasInBuffer
  BY DEF DmaInv
<1>c. PICK m \in Nat, l \in Nat : /\ m = Cardinality(mapped) /\ l = Cardinality(leaving)
                                  /\ vmapping_counter = m + l
  BY <1>0, DmaFinite DEF Counts
<1>u. UNCHANGED <<f_count, own, fds, held, vma>>
  BY DEF Dma!dma_buf_attach, Dma!dma_buf_detach, Dma!dma_buf_vmap, Dma!VunmapChecks,
         Dma!dma_buf_vunmap
<1>v. UNCHANGED <<Holding, Shown>> /\ AreasInBuffer'
  BY <1>0, <1>u DEF Holding, Shown, AreasInBuffer, Dma!AreasInBuffer
<1>1. CASE Dma!dma_buf_attach(u) \/ Dma!dma_buf_detach(u)
  <2>1. /\ UNCHANGED <<vmapping_counter, vmap_ptr, mapped, leaving, bug>>
        /\ attachments' \subseteq attachments \cup Holding
    BY <1>1 DEF Dma!dma_buf_attach, Dma!dma_buf_detach, Holding
  <2>2. DmaTyped'
    BY <1>0, <1>u, <2>1 DEF DmaTyped, Holding
  <2>3. Counts' /\ Keepers'
    BY <1>0, <1>u, <1>v, <2>1 DEF Counts, Keepers
  <2>. QED
    BY <1>0, <1>v, <2>1, <2>2, <2>3 DEF DmaInv
<1>2. CASE Dma!dma_buf_vmap(u)
  <2>1. /\ u \in Holding /\ u \notin mapped \cup leaving /\ mapped' = mapped \cup {u}
        /\ vmapping_counter' = vmapping_counter + 1 /\ vmap_ptr' = TRUE
        /\ UNCHANGED <<attachments, leaving>>
    BY <1>2 DEF Dma!dma_buf_vmap, Holding
  <2>2. bug' = (bug \/ (vmap_ptr # (vmapping_counter > 0)))
    BY <1>2 DEF Dma!dma_buf_vmap
  <2>3. ~bug' /\ bug' \in BOOLEAN
    <3>1. PICK more : more = (vmapping_counter > 0)
      OBVIOUS
    <3>2. vmap_ptr = more
      BY <1>0, <3>1 DEF Keepers, DmaTyped
    <3>. QED
      BY <1>0, <2>2, <3>1, <3>2
  <2>4. Cardinality(mapped') = m + 1
    BY <1>0, <1>c, <2>1, DmaFinite, OneMore
  <2>5. DmaTyped'
    BY <1>0, <1>u, <2>1, <2>3 DEF DmaTyped
  <2>6. vmapping_counter' = (m + 1) + l
    BY <1>c, <2>1
  <2>7. Counts'
    BY <1>0, <1>c, <1>u, <1>v, <2>1, <2>4, <2>6 DEF Counts
  <2>8. Keepers'
    BY <1>0, <1>v, <2>1, <2>6 DEF Keepers
  <2>. QED
    BY <1>v, <2>3, <2>5, <2>7, <2>8 DEF DmaInv
<1>3. CASE Dma!VunmapChecks(u)
  <2>1. /\ u \in mapped /\ mapped' = mapped \ {u} /\ leaving' = leaving \cup {u}
        /\ UNCHANGED <<attachments, vmapping_counter, vmap_ptr>>
    BY <1>3 DEF Dma!VunmapChecks
  <2>2. Cardinality(mapped') = m - 1 /\ m \in Nat \ {0}
    BY <1>0, <1>c, <2>1, DmaFinite, OneLess
  <2>3. Cardinality(leaving') = l + 1
    BY <1>0, <1>c, <2>1, DmaFinite, OneMore DEF Keepers
  <2>4. ~bug' /\ bug' \in BOOLEAN
    <3>1. vmapping_counter # 0
      BY <1>c, <2>2
    <3>2. vmap_ptr
      BY <1>0, <1>c, <2>2 DEF Keepers
    <3>3. bug' = (bug \/ ~vmap_ptr \/ vmapping_counter = 0)
      BY <1>3 DEF Dma!VunmapChecks
    <3>. QED
      BY <1>0, <3>1, <3>2, <3>3
  <2>5. DmaTyped'
    BY <1>0, <1>u, <2>1, <2>4 DEF DmaTyped
  <2>6. vmapping_counter' = (m - 1) + (l + 1)
    BY <1>c, <2>1
  <2>7. Counts'
    BY <1>0, <1>u, <1>v, <2>2, <2>3, <2>6 DEF Counts
  <2>8. Keepers'
    BY <1>0, <1>v, <2>1 DEF Keepers
  <2>. QED
    BY <1>v, <2>4, <2>5, <2>7, <2>8 DEF DmaInv
<1>4. CASE Dma!dma_buf_vunmap(u)
  <2>1. /\ u \in leaving /\ leaving' = leaving \ {u}
        /\ vmapping_counter' = vmapping_counter - 1
        /\ UNCHANGED <<attachments, mapped, bug>>
    BY <1>4 DEF Dma!dma_buf_vunmap
  <2>2. vmap_ptr' = (vmap_ptr /\ ~(vmapping_counter = 1))
    BY <1>4 DEF Dma!dma_buf_vunmap, Dma!LastMapping
  <2>3. Cardinality(leaving') = l - 1 /\ l \in Nat \ {0}
    BY <1>0, <1>c, <2>1, DmaFinite, OneLess
  <2>4. vmapping_counter' = m + (l - 1) /\ vmapping_counter > 0
    BY <1>c, <2>1, <2>3
  <2>5. vmap_ptr' \in BOOLEAN
    BY <2>2
  <2>6. DmaTyped'
    BY <1>0, <1>u, <2>1, <2>4, <2>5 DEF DmaTyped
  <2>7. Counts'
    BY <1>0, <1>c, <1>u, <1>v, <2>1, <2>3, <2>4 DEF Counts
  <2>8. vmap_ptr' <=> vmapping_counter' > 0
    <3>1. vmap_ptr
      BY <1>0, <2>4 DEF Keepers
    <3>2. vmapping_counter' > 0 <=> ~(vmapping_counter = 1)
      BY <1>c, <2>1, <2>4
    <3>. QED
      BY <2>2, <3>1, <3>2
  <2>9. Keepers'
    BY <1>0, <1>v, <2>1, <2>8 DEF Keepers
  <2>. QED
    BY <1>0, <1>v, <2>1, <2>6, <2>7, <2>9 DEF DmaInv
<1>. QED
  BY <1>1, <1>2, <1>3, <1>4

LEMMA DmaAreaStep ==
  ASSUME DmaInv, NEW a \in Areas, NEW p \in Dma!Offsets,
         \/ \E n \in Dma!Lengths : Dma!MmapFd(a, p, n) \/ Dma!AreaOpened(a, n)
         \/ \E u \in Users : Dma!dma_buf_mmap(u, a, p)
         \/ Dma!Munmap(a)
  PROVE  DmaInv'
<1>0. DmaTyped /\ Counts /\ Keepers /\ ~bug /\ AreasInBuffer
  BY DEF DmaInv
<1>c. PICK h \in Nat, s \in Nat : /\ h = Cardinality(Holding) /\ s = Cardinality(Shown)
                                  /\ f_count = own + fds + h + s
  BY <1>0, DmaFinite DEF Counts
<1>u. UNCHANGED <<own, fds, held, attachments, vmapping_counter, vmap_ptr, mapped, leaving>>
  BY DEF Dma!MmapFd, Dma!AreaOpened, Dma!dma_buf_mmap, Dma!Munmap
<1>v. UNCHANGED Holding
  BY <1>u DEF Holding
<1>p. p \in 0..PageMod - 1
  BY DEF Dma!Offsets
<1>n. Dma!NoArea \in Ranged /\ Dma!NoArea.vm_file = Other /\ Dma!NoArea.pages = 0
  BY HelpersAssumption DEF Dma!NoArea, Ranged
\* What is left to show of a step is how it changes the area and the count.
<1>1. ASSUME NEW r \in Ranged, vma' = [vma EXCEPT ![a] = r],
             r.vm_file = Buf => r.vm_pgoff + r.pages <= Size,
             f_count' = f_count + (IF r.vm_file = Buf /\ a \notin Shown THEN 1 ELSE 0)
                                - (IF r.vm_file # Buf /\ a \in Shown THEN 1 ELSE 0),
             ~bug' /\ bug' \in BOOLEAN
      PROVE  DmaInv'
  <2>1. /\ vma' \in [Areas -> Ranged] /\ AreasInBuffer'
        /\ r.vm_file = Buf => Shown' = Shown \cup {a}
        /\ r.vm_file # Buf => Shown' = Shown \ {a}
    BY <1>0, <1>1, AreaChanges
  <2>2. PICK up \in {0, 1}, down \in {0, 1} :
          /\ up = IF r.vm_file = Buf /\ a \notin Shown THEN 1 ELSE 0
          /\ down = IF r.vm_file # Buf /\ a \in Shown THEN 1 ELSE 0
          /\ f_count' = f_count + up - down
    BY <1>1
  <2>3. Cardinality(Shown') = s + up - down
    <3>1. IsFiniteSet(Shown) /\ s = Cardinality(Shown)
      BY <1>0, <1>c, DmaFinite
    <3>2. CASE r.vm_file = Buf /\ a \notin Shown
      <4>1. Cardinality(Shown') = s + 1
        BY <2>1, <3>1, <3>2, OneMore
      <4>. QED
        BY <2>2, <3>2, <4>1
    <3>3. CASE r.vm_file # Buf /\ a \in Shown
      <4>1. Cardinality(Shown') = s - 1
        BY <2>1, <3>1, <3>3, OneLess
      <4>. QED
        BY <2>2, <3>3, <4>1
    <3>4. CASE r.vm_file = Buf <=> a \in Shown
      <4>1. Shown' = Shown
        BY <2>1, <3>4
      <4>. QED
        BY <2>2, <3>1, <3>4, <4>1
    <3>. QED
      BY <3>2, <3>3, <3>4
  <2>4. f_count' = own' + fds' + h + (s + up - down) /\ f_count' \in Int
    BY <1>0, <1>c, <1>u, <2>2 DEF DmaTyped
  <2>5. DmaTyped'
    BY <1>0, <1>1, <1>u, <2>1, <2>4 DEF DmaTyped
  <2>6. Counts' /\ Keepers'
    BY <1>0, <1>c, <1>u, <1>v, <2>3, <2>4 DEF Counts, Keepers
  <2>. QED
    BY <1>1, <2>1, <2>5, <2>6 DEF DmaInv
<1>2. PICK old \in Ranged : old = vma[a] /\ (a \in Shown <=> old.vm_file = Buf)
  BY <1>0 DEF DmaTyped, Shown
<1>f. f_count \in Int
  BY <1>0 DEF DmaTyped
<1>3. ASSUME NEW n \in Dma!Lengths, Dma!MmapFd(a, p, n)
      PROVE  DmaInv'
  <2>1. PICK r : r = [vm_file |-> Buf, vm_pgoff |-> p, pages |-> n]
    OBVIOUS
  <2>2. r \in Ranged /\ r.vm_file = Buf /\ r.vm_pgoff = p /\ r.pages = n
    BY <1>p, <2>1, HelpersAssumption DEF Ranged, Dma!Lengths
  <2>3. vma' = [vma EXCEPT ![a] = r] /\ f_count' = f_count + 1 /\ bug' = bug
    BY <1>3, <2>1 DEF Dma!MmapFd
  <2>4. p + n <= Size
    BY <1>3, <1>p, NoWrap, HelpersAssumption DEF Dma!MmapFd, Dma!Lengths
  <2>5. a \notin Shown
    BY <1>2, <1>3, <1>n, HelpersAssumption DEF Dma!MmapFd
  <2>6. f_count' = f_count + (IF r.vm_file = Buf /\ a \notin Shown THEN 1 ELSE 0)
                           - (IF r.vm_file # Buf /\ a \in Shown THEN 1 ELSE 0)
    BY <1>f, <2>2, <2>3, <2>5
  <2>7. ~bug' /\ bug' \in BOOLEAN
    BY <1>0, <2>3 DEF DmaTyped
  <2>. QED
    BY <1>1, <2>2, <2>3, <2>4, <2>6, <2>7
<1>4. ASSUME NEW n \in Dma!Lengths, Dma!AreaOpened(a, n)
      PROVE  DmaInv'
  <2>1. PICK none \in Ranged : none = Dma!NoArea
    BY <1>n
  <2>2. PICK r : r = [none EXCEPT !.pages = n]
    OBVIOUS
  <2>3. r \in Ranged /\ r.vm_file = none.vm_file
    <3>1. n \in 0..PageMod - 1
      BY HelpersAssumption DEF Dma!Lengths
    <3>. QED
      BY <2>2, <3>1 DEF Ranged
  <2>4. vma' = [vma EXCEPT ![a] = r] /\ f_count' = f_count /\ bug' = bug
    BY <1>4, <2>1, <2>2 DEF Dma!AreaOpened
  <2>5. a \notin Shown /\ r.vm_file # Buf
    BY <1>2, <1>4, <1>n, <2>1, <2>3, HelpersAssumption DEF Dma!AreaOpened
  <2>6. f_count' = f_count + (IF r.vm_file = Buf /\ a \notin Shown THEN 1 ELSE 0)
                           - (IF r.vm_file # Buf /\ a \in Shown THEN 1 ELSE 0)
    BY <1>f, <2>4, <2>5
  <2>7. ~bug' /\ bug' \in BOOLEAN
    BY <1>0, <2>4 DEF DmaTyped
  <2>. QED
    BY <1>1, <2>3, <2>4, <2>5, <2>6, <2>7
<1>5. ASSUME NEW u \in Users, Dma!dma_buf_mmap(u, a, p)
      PROVE  DmaInv'
  <2>1. /\ old.vm_file = Other /\ bug' = bug
        /\ ~Dma!Overflows(p, old.pages) /\ Dma!Fits(p, old.pages)
    BY <1>2, <1>5 DEF Dma!dma_buf_mmap
  <2>2. old.pages \in 0..PageMod - 1
    BY DEF Ranged
  <2>3. p + old.pages <= Size
    BY <1>p, <2>1, <2>2, NoWrap
  <2>4. a \notin Shown
    BY <1>2, <2>1, HelpersAssumption
  <2>5. PICK fails \in BOOLEAN :
          /\ vma' = [vma EXCEPT ![a].vm_pgoff = p, ![a].vm_file = IF fails THEN @ ELSE Buf]
          /\ f_count' = IF fails THEN f_count ELSE f_count + 1
    BY <1>5 DEF Dma!dma_buf_mmap
  <2>6. PICK file \in {Buf, Other} : file = IF fails THEN old.vm_file ELSE Buf
    BY <2>1
  <2>7. PICK r : r = [old EXCEPT !.vm_pgoff = p, !.vm_file = file]
    OBVIOUS
  <2>8. r \in Ranged /\ r.vm_file = file /\ r.vm_pgoff = p /\ r.pages = old.pages
    BY <1>p, <2>7 DEF Ranged
  <2>9. vma' = [vma EXCEPT ![a] = r]
    BY <1>2, <2>5, <2>6, <2>7
  <2>10. file = Buf <=> ~fails
    BY <2>1, <2>6, HelpersAssumption
  <2>11. f_count' = f_count + (IF r.vm_file = Buf /\ a \notin Shown THEN 1 ELSE 0)
                            - (IF r.vm_file # Buf /\ a \in Shown THEN 1 ELSE 0)
    BY <1>f, <2>4, <2>5, <2>8, <2>10
  <2>12. ~bug' /\ bug' \in BOOLEAN
    BY <1>0, <2>1 DEF DmaTyped
  <2>. QED
    BY <1>1, <2>3, <2>8, <2>9, <2>11, <2>12
<1>6. CASE Dma!Munmap(a)
  <2>1. vma' = [vma EXCEPT ![a] = Dma!NoArea]
    BY <1>6 DEF Dma!Munmap
  <2>2. CASE a \in Shown
    <3>1. Dma!Fput
      BY <1>2, <1>6, <2>2 DEF Dma!Munmap
    <3>2. s \in Nat \ {0}
      BY <1>0, <1>c, <2>2, DmaFinite, OneLess
    <3>3. f_count = 1 => Cardinality(Holding) = 0
      BY <1>0, <1>c, <3>2 DEF DmaTyped
    <3>4. f_count' = f_count - 1 /\ ~bug' /\ bug' \in BOOLEAN
      BY <1>0, <3>1, <3>3, PutKeeps
    <3>5. f_count' = f_count + (IF Dma!NoArea.vm_file = Buf /\ a \notin Shown THEN 1 ELSE 0)
                             - (IF Dma!NoArea.vm_file # Buf /\ a \in Shown THEN 1 ELSE 0)
      BY <1>f, <1>n, <2>2, <3>4, HelpersAssumption
    <3>. QED
      BY <1>1, <1>n, <2>1, <3>4, <3>5, HelpersAssumption
  <2>3. CASE a \notin Shown
    <3>1. UNCHANGED <<f_count, bug>>
      BY <1>2, <1>6, <2>3 DEF Dma!Munmap
    <3>2. f_count' = f_count + (IF Dma!NoArea.vm_file = Buf /\ a \notin Shown THEN 1 ELSE 0)
                             - (IF Dma!NoArea.vm_file # Buf /\ a \in Shown THEN 1 ELSE 0)
      BY <1>f, <1>n, <2>3, <3>1, HelpersAssumption
    <3>3. ~bug' /\ bug' \in BOOLEAN
      BY <1>0, <3>1 DEF DmaTyped
    <3>. QED
      BY <1>1, <1>n, <2>1, <3>2, <3>3, HelpersAssumption
  <2>. QED
    BY <2>2, <2>3
<1>. QED
  BY <1>3, <1>4, <1>5, <1>6

LEMMA DmaStep ==
  ASSUME DmaInv, Dma!DmaBufNext
  PROVE  DmaInv'
BY DmaHolderStep, DmaUserStep, DmaAreaStep DEF Dma!DmaBufNext

-----------------------------------------------------------------------------
(***************************************************************************)
(* The blinking LED, as long as calls did not overlap: the one timer there *)
(* is, is the one on the list, a call has found it, and a call that stopped *)
(* it finds it at rest.                                                    *)
(***************************************************************************)
AtRest(t) == ~timer[t].armed /\ ~timer[t].running
Blank(t)  == timer[t] = Led!NewTimer
Found(t)  == IF listed = {} THEN t = None ELSE listed = {t}

Objects == [armed : BOOLEAN, running : BOOLEAN, on : Int, off : Int, bright : Int,
            freed : BOOLEAN]
Calls   == [at : {"idle", "found", "stop", "stopped"}, led : Timers \cup {None},
            on : Int, off : Int, op : {"none", "blink", "brightness"}]

LedTyped ==
  /\ listed \subseteq Timers /\ timer \in [Timers -> Objects] /\ caller \in [Callers -> Calls]
  /\ led_driver \in [at : {"bound", "got", "stopped", "freed", "gone"},
                     led : Timers \cup {None}]
  /\ brightness \in Int /\ overlapped \in BOOLEAN /\ fault \in BOOLEAN
  /\ \A c \in Callers : caller[c].at \in {"stop", "stopped"} => caller[c].led # None

OneTimer ==
  /\ listed = {} \/ \E t \in Timers : listed = {t}
  /\ \A t \in Timers : IF t \in listed THEN ~timer[t].freed
                       ELSE Blank(t) \/ (timer[t].freed /\ AtRest(t))

OneCall ==
  /\ \A c, d \in Callers : Led!Busy(c) /\ Led!Busy(d) => c = d
  /\ \A c \in Callers : Led!Busy(c) => led_driver.at = "bound"

CallFound(c) ==
  /\ Led!Busy(c) => Found(caller[c].led) /\ caller[c].op # "none"
  /\ caller[c].at = "stop" => caller[c].op = "blink"
  /\ caller[c].at = "stopped" => AtRest(caller[c].led)

DriverFound ==
  /\ led_driver.at \in {"got", "stopped"} => Found(led_driver.led)
  /\ led_driver.at = "stopped" => \A t \in Timers : AtRest(t)
  /\ led_driver.at \in {"freed", "gone"} => listed = {}

StaysStopped ==
  \A c \in Callers :
     /\ ~Led!Busy(c) /\ caller[c].op = "brightness"
     /\ \A d \in Callers \ {c} : caller[d] = Led!Resting
     => \A t \in Timers : AtRest(t)

LedInv ==
  /\ LedTyped
  /\ ~overlapped => /\ ~fault /\ OneTimer /\ OneCall /\ DriverFound /\ StaysStopped
                    /\ \A c \in Callers : CallFound(c)

\* What holds as long as calls did not overlap.
LedGood == /\ ~fault /\ OneTimer /\ OneCall /\ DriverFound /\ StaysStopped
           /\ \A c \in Callers : CallFound(c)

LEMMA LedInvIs == LedInv <=> LedTyped /\ (~overlapped => LedGood)
BY DEF LedInv, LedGood

LEMMA LedInvIsPrime == LedInv' <=> LedTyped' /\ (~overlapped' => LedGood')
BY LedInvIs, PTL

\* The timers of a LED: what is found is what is listed, and only that can run.
LEMMA TimersOf ==
  ASSUME LedTyped, LedGood
  PROVE  /\ listed \subseteq Timers /\ None \notin listed
         /\ \A t \in Timers : t \notin listed => AtRest(t)
         /\ \A t \in listed : ~timer[t].freed
BY HelpersAssumption DEF LedGood, OneTimer, Blank, AtRest, Led!NewTimer

\* While a call is under way no other is, and the driver is there.
LEMMA CallAlone ==
  ASSUME LedTyped, LedGood, NEW c \in Callers, Led!Busy(c)
  PROVE  /\ \A d \in Callers : Led!Busy(d) => d = c
         /\ led_driver.at = "bound" /\ Found(caller[c].led) /\ caller[c].op # "none"
         /\ caller[c].led # None => caller[c].led \in Timers /\ listed = {caller[c].led}
BY HelpersAssumption DEF LedGood, OneCall, CallFound, LedTyped, Calls, Found, OneTimer

LEMMA LedStarts ==
  ASSUME MachinesInit
  PROVE  LedInv
<1>1. Led!LedInit
  BY DEF MachinesInit
<1>2. LedTyped
  <2>1. Led!NewTimer \in Objects
    BY DEF Led!NewTimer, Objects
  <2>2. Led!Resting \in Calls
    BY DEF Led!Resting, Calls
  <2>3. listed = {} /\ timer \in [Timers -> Objects] /\ caller \in [Callers -> Calls]
    BY <1>1, <2>1, <2>2 DEF Led!LedInit
  <2>4. led_driver \in [at : {"bound", "got", "stopped", "freed", "gone"},
                        led : Timers \cup {None}]
    BY <1>1 DEF Led!LedInit
  <2>5. brightness \in Int
    BY <1>1 DEF Led!LedInit
  <2>6. overlapped \in BOOLEAN /\ fault \in BOOLEAN
    BY <1>1 DEF Led!LedInit
  <2>7. \A c \in Callers : caller[c].at = "idle"
    BY <1>1 DEF Led!LedInit, Led!Resting
  <2>8. \A c \in Callers : caller[c].at \in {"stop", "stopped"} => caller[c].led # None
    BY <2>7
  <2>. QED
    BY <2>3, <2>4, <2>5, <2>6, <2>8 DEF LedTyped
<1>3. OneTimer /\ OneCall /\ DriverFound
  BY <1>1 DEF Led!LedInit, OneTimer, OneCall, DriverFound, Blank, Led!Busy, Led!Resting
<1>4. StaysStopped
  BY <1>1 DEF Led!LedInit, StaysStopped, AtRest, Led!NewTimer
<1>5. ASSUME NEW c \in Callers PROVE CallFound(c)
  BY <1>1 DEF Led!LedInit, CallFound, Led!Busy, Led!Resting
<1>. QED
  BY <1>1, <1>2, <1>3, <1>4, <1>5, LedInvIs DEF LedGood, Led!LedInit

\* A step of the call that is under way: the timer it found may change, and a
\* call that set the brightness leaves none running.
LEMMA CallMoves ==
  ASSUME LedTyped, LedGood, NEW c \in Callers, Led!Busy(c),
         NEW r \in Calls, caller' = [caller EXCEPT ![c] = r], r.op = caller[c].op,
         r.at # "idle" =>
           /\ r.led = caller[c].led
           /\ r.at = "stop" => r.op = "blink"
           /\ r.at = "stopped" => AtRest(r.led)',
         r.at = "idle" /\ r.op = "brightness" => \A x \in listed : AtRest(x)',
         \A x \in Timers : x \notin listed => timer'[x] = timer[x],
         \A x \in Timers : timer'[x].freed = timer[x].freed,
         UNCHANGED <<listed, led_driver>>, ~fault'
  PROVE  LedGood'
<1>1. /\ \A d \in Callers : Led!Busy(d) => d = c
      /\ led_driver.at = "bound" /\ Found(caller[c].led) /\ caller[c].op # "none"
      /\ caller[c].led # None => caller[c].led \in Timers /\ listed = {caller[c].led}
  BY CallAlone
<1>2. /\ listed \subseteq Timers /\ None \notin listed
      /\ \A t \in Timers : t \notin listed => AtRest(t)
      /\ \A t \in listed : ~timer[t].freed
  BY TimersOf
<1>3. caller'[c] = r /\ \A d \in Callers : d # c => caller'[d] = caller[d]
  BY DEF LedTyped
<1>4. OneTimer'
  BY <1>2 DEF LedGood, OneTimer, Blank, AtRest, Led!NewTimer
<1>5. OneCall'
  BY <1>1, <1>3 DEF OneCall, Led!Busy
<1>6. DriverFound'
  BY <1>1 DEF DriverFound
<1>7. StaysStopped'
  <2>1. r # Led!Resting
    BY <1>1 DEF Led!Resting
  <2>2. SUFFICES ASSUME NEW d \in Callers, ~Led!Busy(d)', caller'[d].op = "brightness",
                        \A e \in Callers \ {d} : caller'[e] = Led!Resting
                 PROVE  \A t \in Timers : AtRest(t)'
    BY DEF StaysStopped, Led!Resting
  <2>3. d = c
    BY <1>3, <2>1, <2>2
  <2>4. \A t \in listed : AtRest(t)'
    BY <1>3, <2>2, <2>3 DEF Led!Busy
  <2>5. \A t \in Timers : t \notin listed => AtRest(t)'
    BY <1>2 DEF AtRest
  <2>. QED
    BY <2>4, <2>5
<1>8. ASSUME NEW d \in Callers PROVE CallFound(d)'
  <2>1. CASE d # c
    BY <1>1, <1>3, <2>1 DEF CallFound, Led!Busy, LedTyped, Calls
  <2>2. CASE d = c
    BY <1>1, <1>3, <2>2 DEF CallFound, Led!Busy, Found
  <2>. QED
    BY <2>1, <2>2
<1>. QED
  BY <1>4, <1>5, <1>6, <1>7, <1>8 DEF LedGood

\* A step of the timer or of its handler.
LEMMA TimerRuns ==
  ASSUME LedTyped, LedGood, NEW t \in Timers, ~AtRest(t),
         NEW r \in Objects, timer' = [timer EXCEPT ![t] = r], r.freed = timer[t].freed,
         UNCHANGED <<listed, led_driver, caller>>, ~fault'
  PROVE  LedGood'
<1>1. /\ listed \subseteq Timers /\ None \notin listed
      /\ \A x \in Timers : x \notin listed => AtRest(x)
      /\ \A x \in listed : ~timer[x].freed
  BY TimersOf
<1>2. t \in listed /\ \A x \in Timers : x # t => timer'[x] = timer[x]
  BY <1>1 DEF LedTyped
<1>3. OneTimer'
  BY <1>1, <1>2 DEF LedGood, OneTimer, Blank, AtRest, Led!NewTimer, LedTyped
<1>4. OneCall'
  BY DEF LedGood, OneCall, Led!Busy
<1>5. DriverFound'
  BY <1>1, <1>2 DEF LedGood, DriverFound, Found
<1>6. StaysStopped'
  BY DEF LedGood, StaysStopped, Led!Busy
<1>7. ASSUME NEW c \in Callers PROVE CallFound(c)'
  <2>1. CallFound(c)
    BY DEF LedGood
  <2>2. caller[c].at # "stopped"
    <3>1. SUFFICES ASSUME caller[c].at = "stopped" PROVE FALSE
      OBVIOUS
    <3>2. Led!Busy(c) /\ caller[c].led # None /\ AtRest(caller[c].led)
      BY <2>1, <3>1 DEF CallFound, Led!Busy, LedTyped
    <3>3. listed = {caller[c].led}
      BY <3>2, CallAlone
    <3>. QED
      BY <1>2, <3>2, <3>3
  <2>. QED
    BY <2>1, <2>2 DEF CallFound, Led!Busy, Found
<1>. QED
  BY <1>3, <1>4, <1>5, <1>6, <1>7 DEF LedGood

\* A call that ends rests but for what it asked.
LEMMA CallEnds ==
  ASSUME LedTyped, NEW c \in Callers, Led!Ends(c)
  PROVE  \E r \in Calls : /\ caller' = [caller EXCEPT ![c] = r]
                          /\ r.at = "idle" /\ r.op = caller[c].op
<1>1. PICK q \in Calls : q = Led!Resting
  <2>1. Led!Resting \in Calls
    BY DEF Led!Resting, Calls
  <2>. QED
    BY <2>1
<1>2. PICK w \in {"none", "blink", "brightness"} : w = caller[c].op
  BY DEF LedTyped, Calls
<1>3. PICK r : r = [q EXCEPT !.op = w]
  OBVIOUS
<1>4. r \in Calls /\ r.at = q.at /\ r.op = w
  BY <1>3 DEF Calls
<1>5. q.at = "idle"
  BY <1>1 DEF Led!Resting
<1>6. caller' = [caller EXCEPT ![c] = r]
  BY <1>1, <1>2, <1>3 DEF Led!Ends, Led!Step
<1>. QED
  BY <1>2, <1>4, <1>5, <1>6

LEMMA NewTimerKeeps ==
  ASSUME LedInv, NEW c \in Callers, Led!led_new_timer(c)
  PROVE  LedInv'
<1>0. LedTyped /\ (~overlapped => LedGood)
  BY LedInvIs
<1>1. /\ caller[c].at = "found" /\ caller[c].op = "blink" /\ caller[c].led = None
      /\ UNCHANGED <<brightness, led_driver, overlapped, fault>>
  BY DEF Led!led_new_timer
<1>2. CASE Led!Ends(c) /\ UNCHANGED <<listed, timer>>
  <2>1. PICK r \in Calls : /\ caller' = [caller EXCEPT ![c] = r]
                           /\ r.at = "idle" /\ r.op = caller[c].op
    BY <1>0, <1>2, CallEnds
  <2>2. LedTyped'
    BY <1>0, <1>1, <1>2, <2>1 DEF LedTyped
  <2>3. ASSUME ~overlapped' PROVE LedGood'
    <3>1. LedGood /\ Led!Busy(c) /\ ~fault' /\ r.op = "blink"
      BY <1>0, <1>1, <2>1, <2>3 DEF Led!Busy, LedGood
    <3>. QED
      BY <1>0, <1>1, <1>2, <2>1, <3>1, CallMoves
  <2>. QED
    BY <2>2, <2>3, LedInvIsPrime
<1>3. ASSUME NEW t \in Timers \ listed, timer[t] = Led!NewTimer, listed' = listed \cup {t},
             timer' = timer, Led!Step(c, [caller[c] EXCEPT !.led = t])
      PROVE  LedInv'
  <2>1. PICK q \in Calls : q = caller[c]
    BY <1>0 DEF LedTyped
  <2>2. PICK r : r = [q EXCEPT !.led = t]
    OBVIOUS
  <2>3. r \in Calls /\ r.at = q.at /\ r.op = q.op /\ r.led = t
    BY <2>2 DEF Calls
  <2>4. caller' = [caller EXCEPT ![c] = r]
    BY <1>3, <2>1, <2>2 DEF Led!Step
  <2>5. LedTyped'
    <3>1. caller' \in [Callers -> Calls]
      BY <1>0, <2>3, <2>4 DEF LedTyped
    <3>2. \A d \in Callers : caller'[d].at \in {"stop", "stopped"} => caller'[d].led # None
      BY <1>0, <1>1, <2>1, <2>3, <2>4 DEF LedTyped
    <3>. QED
      BY <1>0, <1>1, <1>3, <3>1, <3>2 DEF LedTyped
  <2>6. ASSUME ~overlapped' PROVE LedGood'
    <3>1. LedGood /\ Led!Busy(c) /\ ~fault'
      BY <1>0, <1>1, <2>6 DEF Led!Busy, LedGood
    <3>2. /\ \A d \in Callers : Led!Busy(d) => d = c
          /\ led_driver.at = "bound" /\ Found(caller[c].led)
      BY <1>0, <3>1, CallAlone
    <3>3. listed = {} /\ listed' = {t}
      BY <1>0, <1>1, <1>3, <3>1, <3>2, TimersOf DEF Found
    <3>4. caller'[c] = r /\ \A d \in Callers : d # c => caller'[d] = caller[d]
      BY <1>0, <2>4 DEF LedTyped
    <3>5. OneTimer'
      BY <1>3, <3>1, <3>3 DEF LedGood, OneTimer, Blank, AtRest, Led!NewTimer
    <3>6. OneCall'
      BY <1>1, <3>2, <3>4 DEF OneCall, Led!Busy
    <3>7. DriverFound'
      BY <1>1, <3>2 DEF DriverFound
    <3>8. StaysStopped'
      BY <1>1, <2>1, <2>3, <3>4 DEF StaysStopped, Led!Busy, Led!Resting
    <3>9. ASSUME NEW d \in Callers PROVE CallFound(d)'
      BY <1>1, <2>1, <2>3, <3>2, <3>3, <3>4 DEF CallFound, Led!Busy, Found
    <3>. QED
      BY <3>1, <3>5, <3>6, <3>7, <3>8, <3>9 DEF LedGood
  <2>. QED
    BY <2>5, <2>6, LedInvIsPrime
<1>. QED
  BY <1>2, <1>3 DEF Led!led_new_timer

LEMMA BlinkSetKeeps ==
  ASSUME LedInv, NEW c \in Callers, Led!led_blink_set(c)
  PROVE  LedInv'
<1>0. LedTyped /\ (~overlapped => LedGood)
  BY LedInvIs
<1>1. PICK t \in Timers : t = caller[c].led
  BY <1>0 DEF LedTyped, Calls, Led!led_blink_set
<1>2. PICK op \in {"blink"} : op = caller[c].op
  BY DEF Led!led_blink_set
<1>3. /\ caller[c].at = "found" /\ fault' = (fault \/ timer[t].freed)
      /\ UNCHANGED <<listed, brightness, led_driver, overlapped>>
  BY <1>1 DEF Led!led_blink_set, Led!Uses
<1>4. PICK on \in Int, off \in Int :
        IF timer[t].on = on /\ timer[t].off = off THEN Led!Ends(c) /\ UNCHANGED timer
        ELSE /\ Led!Step(c, [caller[c] EXCEPT !.at = "stop", !.on = on, !.off = off])
             /\ timer' = [timer EXCEPT ![t].bright =
                             IF brightness # 0 THEN brightness ELSE IF @ = 0 THEN 1 ELSE @]
  <2>1. caller[c].on \in Int /\ caller[c].off \in Int
    BY <1>0 DEF LedTyped, Calls
  <2>2. PICK both : both = (caller[c].on = 0 /\ caller[c].off = 0)
    OBVIOUS
  <2>3. PICK on \in Int : on = IF both THEN 2 ELSE caller[c].on
    BY <2>1
  <2>4. PICK off \in Int : off = IF both THEN 2 ELSE caller[c].off
    BY <2>1
  <2>5. IF timer[t].on = on /\ timer[t].off = off THEN Led!Ends(c) /\ UNCHANGED timer
        ELSE /\ Led!Step(c, [caller[c] EXCEPT !.at = "stop", !.on = on, !.off = off])
             /\ timer' = [timer EXCEPT ![t].bright =
                             IF brightness # 0 THEN brightness ELSE IF @ = 0 THEN 1 ELSE @]
    BY <1>1, <2>2, <2>3, <2>4 DEF Led!led_blink_set
  <2>. QED
    BY <2>3, <2>4, <2>5
<1>5. ~overlapped' => LedGood /\ Led!Busy(c) /\ ~fault'
  <2>1. ~overlapped => LedGood /\ Led!Busy(c)
    BY <1>0, <1>3 DEF Led!Busy
  <2>2. ~overlapped => ~fault /\ t \in listed
    BY <1>0, <1>1, <2>1, CallAlone, HelpersAssumption DEF LedGood
  <2>. QED
    BY <1>0, <1>3, <2>1, <2>2, TimersOf
<1>6. PICK r \in Calls, s \in Objects :
        /\ caller' = [caller EXCEPT ![c] = r] /\ timer' = [timer EXCEPT ![t] = s]
        /\ r.op = caller[c].op /\ s.freed = timer[t].freed
        /\ r.at # "idle" => r.at = "stop" /\ r.led = t
  <2>1. CASE Led!Ends(c) /\ UNCHANGED timer
    <3>1. timer[t] \in Objects /\ timer' = [timer EXCEPT ![t] = timer[t]]
      BY <1>0, <2>1 DEF LedTyped
    <3>. QED
      BY <1>0, <2>1, <3>1, CallEnds
  <2>2. CASE /\ Led!Step(c, [caller[c] EXCEPT !.at = "stop", !.on = on, !.off = off])
             /\ timer' = [timer EXCEPT ![t].bright =
                             IF brightness # 0 THEN brightness ELSE IF @ = 0 THEN 1 ELSE @]
    <3>1. PICK q \in Calls, p \in Objects : q = caller[c] /\ p = timer[t]
      BY <1>0 DEF LedTyped
    <3>2. PICK bright \in Int :
            bright = IF brightness # 0 THEN brightness ELSE IF p.bright = 0 THEN 1 ELSE p.bright
      <4>1. p.bright \in Int /\ brightness \in Int
        BY <1>0 DEF LedTyped, Objects
      <4>. QED
        BY <4>1
    <3>3. PICK r : r = [q EXCEPT !.at = "stop", !.on = on, !.off = off]
      OBVIOUS
    <3>4. r \in Calls /\ r.at = "stop" /\ r.op = q.op /\ r.led = q.led
      BY <3>3 DEF Calls
    <3>5. PICK s : s = [p EXCEPT !.bright = bright]
      OBVIOUS
    <3>6. s \in Objects /\ s.freed = p.freed
      BY <3>5 DEF Objects
    <3>7. caller' = [caller EXCEPT ![c] = r]
      BY <2>2, <3>1, <3>3 DEF Led!Step
    <3>8. timer' = [timer EXCEPT ![t] = s]
      BY <2>2, <3>1, <3>2, <3>5
    <3>. QED
      BY <1>1, <3>1, <3>4, <3>6, <3>7, <3>8
  <2>. QED
    BY <1>4, <2>1, <2>2
<1>7. LedTyped'
  <2>1. caller' \in [Callers -> Calls] /\ timer' \in [Timers -> Objects]
    BY <1>0, <1>6 DEF LedTyped
  <2>2. timer[t].freed \in BOOLEAN
    BY <1>0 DEF LedTyped, Objects
  <2>3. fault' \in BOOLEAN
    BY <1>0, <1>3, <2>2 DEF LedTyped
  <2>4. \A d \in Callers : caller'[d].at \in {"stop", "stopped"} => caller'[d].led # None
    BY <1>0, <1>6, HelpersAssumption DEF LedTyped
  <2>. QED
    BY <1>0, <1>3, <2>1, <2>3, <2>4 DEF LedTyped
<1>8. ASSUME ~overlapped' PROVE LedGood'
  <2>1. listed = {t}
    BY <1>0, <1>1, <1>5, <1>8, CallAlone, HelpersAssumption
  <2>2. /\ \A x \in Timers : x \notin listed => timer'[x] = timer[x]
        /\ \A x \in Timers : timer'[x].freed = timer[x].freed
    BY <1>0, <1>6, <2>1 DEF LedTyped
  <2>3. r.at # "idle" =>
           /\ r.led = caller[c].led
           /\ r.at = "stop" => r.op = "blink"
           /\ r.at = "stopped" => AtRest(r.led)'
    BY <1>1, <1>2, <1>6, HelpersAssumption
  <2>4. r.op # "brightness"
    BY <1>2, <1>6
  <2>. QED
    BY <1>0, <1>3, <1>5, <1>6, <1>8, <2>2, <2>3, <2>4, CallMoves
<1>. QED
  BY <1>7, <1>8, LedInvIsPrime

LEMMA StopKeeps ==
  ASSUME LedInv, NEW c \in Callers, Led!led_stop_software_blink(c)
  PROVE  LedInv'
<1>0. LedTyped /\ (~overlapped => LedGood)
  BY LedInvIs
<1>1. PICK t \in Timers : t = caller[c].led
  BY <1>0 DEF Led!led_stop_software_blink, LedTyped, Calls
<1>2. /\ Led!Busy(c) /\ fault' = (fault \/ timer[t].freed)
      /\ UNCHANGED <<listed, brightness, led_driver, overlapped>>
      /\ timer[t].running = FALSE
  BY <1>0, <1>1 DEF Led!led_stop_software_blink, Led!Busy, Led!Uses, Led!TimerStopped, LedTyped, Objects
<1>3. PICK q \in Calls, p \in Objects : q = caller[c] /\ p = timer[t]
  BY <1>0 DEF LedTyped
<1>4. PICK r : r = [q EXCEPT !.at = "stopped"]
  OBVIOUS
<1>5. r \in Calls /\ r.at = "stopped" /\ r.op = q.op /\ r.led = q.led
  BY <1>4 DEF Calls
<1>6. caller' = [caller EXCEPT ![c] = r]
  BY <1>3, <1>4 DEF Led!led_stop_software_blink, Led!Step
<1>7. PICK s : s = [p EXCEPT !.armed = FALSE, !.on = 0, !.off = 0]
  OBVIOUS
<1>8. s \in Objects
  <2>0. PICK no \in BOOLEAN : no = FALSE
    OBVIOUS
  <2>1. PICK zero \in Int : zero = 0
    OBVIOUS
  <2>2. [p EXCEPT !.armed = no, !.on = zero, !.off = zero] \in Objects
    BY DEF Objects
  <2>. QED
    BY <1>7, <2>0, <2>1, <2>2
<1>9. s.freed = p.freed /\ ~s.armed /\ s.running = p.running
  BY <1>7 DEF Objects
<1>10. timer' = [timer EXCEPT ![t] = s]
  BY <1>1, <1>3, <1>7 DEF Led!led_stop_software_blink
<1>11. LedTyped'
  <2>1. caller' \in [Callers -> Calls] /\ timer' \in [Timers -> Objects]
    BY <1>0, <1>5, <1>6, <1>8, <1>10 DEF LedTyped
  <2>2. fault' \in BOOLEAN
    BY <1>0, <1>2, <1>3 DEF LedTyped, Objects
  <2>3. \A d \in Callers : caller'[d].at \in {"stop", "stopped"} => caller'[d].led # None
    BY <1>0, <1>1, <1>3, <1>5, <1>6, HelpersAssumption DEF LedTyped
  <2>. QED
    BY <1>0, <1>2, <2>1, <2>2, <2>3 DEF LedTyped
<1>12. ASSUME ~overlapped' PROVE LedGood'
  <2>1. ~overlapped /\ LedGood
    BY <1>0, <1>2, <1>12
  <2>2. listed = {t}
    BY <1>0, <1>1, <1>2, <2>1, CallAlone, HelpersAssumption
  <2>3. ~fault'
    BY <1>0, <1>2, <2>1, <2>2, TimersOf DEF LedGood
  <2>4. /\ \A x \in Timers : x \notin listed => timer'[x] = timer[x]
        /\ \A x \in Timers : timer'[x].freed = timer[x].freed
    BY <1>0, <1>3, <1>9, <1>10, <2>2 DEF LedTyped
  <2>5. AtRest(r.led)'
    BY <1>0, <1>1, <1>2, <1>3, <1>5, <1>9, <1>10 DEF LedTyped, AtRest
  <2>. QED
    BY <1>0, <1>2, <1>3, <1>5, <1>6, <2>1, <2>3, <2>4, <2>5, CallMoves
<1>. QED
  BY <1>11, <1>12, LedInvIsPrime

LEMMA BlinkKeeps ==
  ASSUME LedInv, NEW c \in Callers, Led!Blink(c)
  PROVE  LedInv'
<1>0. LedTyped /\ (~overlapped => LedGood)
  BY LedInvIs
<1>1. PICK t \in Timers : t = caller[c].led
  BY <1>0 DEF Led!Blink, LedTyped, Calls
<1>2. PICK r \in Calls : /\ caller' = [caller EXCEPT ![c] = r]
                         /\ r.at = "idle" /\ r.op = caller[c].op
  <2>1. Led!Ends(c)
    BY DEF Led!Blink
  <2>. QED
    BY <1>0, <2>1, CallEnds
<1>3. /\ caller[c].op = "blink" /\ Led!Busy(c)
      /\ fault' = (fault \/ timer[t].freed)
      /\ UNCHANGED <<listed, led_driver, overlapped>>
  BY <1>1 DEF Led!Blink, Led!Busy, Led!Uses
<1>4. PICK p \in Objects : p = timer[t]
  BY <1>0 DEF LedTyped
<1>5. PICK q \in Calls : q = caller[c]
  BY <1>0 DEF LedTyped
<1>6. PICK arm \in BOOLEAN : arm = (p.armed \/ (q.on # 0 /\ q.off # 0))
  BY DEF Objects
<1>7. PICK s : s = [p EXCEPT !.on = q.on, !.off = q.off, !.armed = arm]
  OBVIOUS
<1>8. s \in Objects
  BY <1>7 DEF Objects, Calls
<1>9. s.freed = p.freed
  BY <1>7 DEF Objects
<1>10. timer' = [timer EXCEPT ![t] = s]
  BY <1>1, <1>4, <1>5, <1>6, <1>7 DEF Led!Blink
<1>11. LedTyped'
  <2>1. caller' \in [Callers -> Calls] /\ timer' \in [Timers -> Objects]
    BY <1>0, <1>2, <1>8, <1>10 DEF LedTyped
  <2>2. brightness' = IF q.on # 0 /\ q.off = 0 THEN p.bright ELSE brightness
    BY <1>1, <1>4, <1>5 DEF Led!Blink
  <2>3. brightness' \in Int
    BY <1>0, <2>2 DEF LedTyped, Objects
  <2>4. fault' \in BOOLEAN
    BY <1>0, <1>3, <1>4 DEF LedTyped, Objects
  <2>5. \A d \in Callers : caller'[d].at \in {"stop", "stopped"} => caller'[d].led # None
    BY <1>0, <1>2 DEF LedTyped
  <2>. QED
    BY <1>0, <1>3, <2>1, <2>3, <2>4, <2>5 DEF LedTyped
<1>12. ASSUME ~overlapped' PROVE LedGood'
  <2>1. ~overlapped /\ LedGood
    BY <1>0, <1>3, <1>12
  <2>2. listed = {t}
    BY <1>0, <1>1, <1>3, <2>1, CallAlone, HelpersAssumption
  <2>3. ~fault'
    BY <1>0, <1>3, <2>1, <2>2, TimersOf DEF LedGood
  <2>4. /\ \A x \in Timers : x \notin listed => timer'[x] = timer[x]
        /\ \A x \in Timers : timer'[x].freed = timer[x].freed
    BY <1>0, <1>4, <1>9, <1>10, <2>2 DEF LedTyped
  <2>. QED
    BY <1>0, <1>2, <1>3, <2>1, <2>3, <2>4, CallMoves
<1>. QED
  BY <1>11, <1>12, LedInvIsPrime

LEMMA BrightnessKeeps ==
  ASSUME LedInv, NEW c \in Callers, Led!compat_led_brightness_set(c)
  PROVE  LedInv'
<1>0. LedTyped /\ (~overlapped => LedGood)
  BY LedInvIs
<1>1. PICK r \in Calls : /\ caller' = [caller EXCEPT ![c] = r]
                         /\ r.at = "idle" /\ r.op = caller[c].op
  <2>1. Led!Ends(c)
    BY DEF Led!compat_led_brightness_set
  <2>. QED
    BY <1>0, <2>1, CallEnds
<1>2. /\ Led!Busy(c) /\ UNCHANGED <<listed, timer, brightness, led_driver, overlapped, fault>>
      /\ caller[c].at = "stopped" \/ caller[c].led = None
  BY DEF Led!compat_led_brightness_set, Led!Busy
<1>3. LedTyped'
  BY <1>0, <1>1, <1>2 DEF LedTyped
<1>4. ASSUME ~overlapped' PROVE LedGood'
  <2>1. ~overlapped /\ LedGood /\ CallFound(c) /\ ~fault'
    BY <1>0, <1>2, <1>4 DEF LedGood
  <2>2. \A x \in listed : AtRest(x)
    <3>1. CASE caller[c].at = "stopped"
      BY <1>0, <1>2, <2>1, <3>1, CallAlone DEF CallFound, LedTyped
    <3>2. CASE caller[c].led = None
      <4>1. Found(caller[c].led)
        BY <1>0, <1>2, <2>1, CallAlone
      <4>2. None \notin listed
        BY <1>0, <2>1, TimersOf
      <4>. QED
        BY <3>2, <4>1, <4>2 DEF Found
    <3>. QED
      BY <1>2, <3>1, <3>2
  <2>3. \A x \in listed : AtRest(x)'
    BY <1>2, <2>2 DEF AtRest
  <2>. QED
    BY <1>0, <1>1, <1>2, <2>1, <2>3, CallMoves
<1>. QED
  BY <1>3, <1>4, LedInvIsPrime

LEMMA CallKeeps ==
  ASSUME LedInv, NEW c \in Callers, Led!Call(c)
  PROVE  LedInv'
<1>0. LedTyped /\ (~overlapped => LedGood)
  BY LedInvIs
<1>1. PICK t : t \in (IF listed = {} THEN {None} ELSE listed) /\
        \E op \in {"blink", "brightness"}, on, off \in Led!Delays :
           Led!Step(c, [at |-> "found", led |-> t, on |-> on, off |-> off, op |-> op])
  BY DEF Led!Call
<1>2. PICK op \in {"blink", "brightness"}, on \in Led!Delays, off \in Led!Delays :
        Led!Step(c, [at |-> "found", led |-> t, on |-> on, off |-> off, op |-> op])
  BY <1>1
<1>3. /\ ~overlapped /\ LedGood /\ (overlapped' <=> Led!InCall) /\ overlapped' \in BOOLEAN
      /\ UNCHANGED <<listed, timer, brightness, led_driver, fault>>
  <2>1. ~overlapped /\ UNCHANGED <<listed, timer, brightness, led_driver, fault>>
    BY DEF Led!Call
  <2>2. overlapped' = (overlapped \/ Led!InCall)
    BY DEF Led!Call
  <2>. QED
    BY <1>0, <2>1, <2>2
<1>4. t \in Timers \cup {None} /\ Found(t)
  BY <1>0, <1>1, <1>3, TimersOf DEF LedGood, OneTimer, Found
<1>5. PICK r : r = [at |-> "found", led |-> t, on |-> on, off |-> off, op |-> op]
  OBVIOUS
<1>6. r \in Calls /\ r.at = "found" /\ r.led = t /\ r.op \in {"blink", "brightness"}
  BY <1>4, <1>5 DEF Calls, Led!Delays
<1>7. caller' = [caller EXCEPT ![c] = r]
  BY <1>2, <1>5 DEF Led!Step
<1>8. LedTyped'
  <2>1. caller' \in [Callers -> Calls]
    BY <1>0, <1>6, <1>7 DEF LedTyped
  <2>3. \A d \in Callers : caller'[d].at \in {"stop", "stopped"} => caller'[d].led # None
    BY <1>0, <1>6, <1>7 DEF LedTyped
  <2>. QED
    BY <1>0, <1>3, <2>1, <2>3 DEF LedTyped
<1>9. ASSUME ~overlapped' PROVE LedGood'
  <2>1. (\A d \in Callers : ~Led!Busy(d)) /\ led_driver.at \in {"bound", "gone"}
    BY <1>3, <1>9 DEF Led!InCall
  <2>2. led_driver.at = "bound"
    BY <2>1 DEF Led!Call
  <2>3. caller'[c] = r /\ \A d \in Callers : d # c => caller'[d] = caller[d]
    BY <1>0, <1>7 DEF LedTyped
  <2>4. OneTimer' /\ ~fault'
    BY <1>3 DEF LedGood, OneTimer, Blank, AtRest
  <2>5. OneCall'
    BY <1>3, <2>1, <2>2, <2>3 DEF OneCall, Led!Busy
  <2>6. DriverFound'
    BY <1>3, <2>2 DEF DriverFound
  <2>7. StaysStopped'
    BY <1>6, <2>3 DEF StaysStopped, Led!Busy, Led!Resting
  <2>8. ASSUME NEW d \in Callers PROVE CallFound(d)'
    <3>1. CASE d = c
      BY <1>3, <1>4, <1>6, <2>3, <3>1 DEF CallFound, Led!Busy, Found
    <3>2. CASE d # c
      BY <2>1, <2>3, <3>2 DEF CallFound, Led!Busy
    <3>. QED
      BY <3>1, <3>2
  <2>. QED
    BY <2>4, <2>5, <2>6, <2>7, <2>8 DEF LedGood
<1>. QED
  BY <1>8, <1>9, LedInvIsPrime

LEMMA FireKeeps ==
  ASSUME LedInv, NEW t \in Timers, Led!Fire(t)
  PROVE  LedInv'
<1>0. LedTyped /\ (~overlapped => LedGood)
  BY LedInvIs
<1>1. PICK p \in Objects : p = timer[t]
  BY <1>0 DEF LedTyped
<1>2. PICK r : r = [p EXCEPT !.armed = FALSE, !.running = TRUE]
  OBVIOUS
<1>3. r \in Objects
  BY <1>2 DEF Objects
<1>4. r.freed = p.freed
  BY <1>2 DEF Objects
<1>5. timer' = [timer EXCEPT ![t] = r]
  BY <1>1, <1>2 DEF Led!Fire
<1>6. ~AtRest(t) /\ UNCHANGED <<listed, brightness, led_driver, caller, overlapped, fault>>
  BY DEF Led!Fire, AtRest
<1>7. LedTyped'
  BY <1>0, <1>3, <1>5, <1>6 DEF LedTyped
<1>8. ASSUME ~overlapped' PROVE LedGood'
  <2>1. LedGood /\ ~fault'
    BY <1>0, <1>6, <1>8 DEF LedGood
  <2>. QED
    BY <1>0, <1>1, <1>3, <1>4, <1>5, <1>6, <2>1, TimerRuns
<1>. QED
  BY <1>7, <1>8, LedInvIsPrime

LEMMA HandlerKeeps ==
  ASSUME LedInv, NEW t \in Timers, Led!led_timer_function(t)
  PROVE  LedInv'
<1>0. LedTyped /\ (~overlapped => LedGood)
  BY LedInvIs
<1>1. PICK p \in Objects : p = timer[t]
  BY <1>0 DEF LedTyped
<1>2. PICK bright \in Int : bright = IF brightness = 0 THEN p.bright ELSE brightness
  <2>1. p.bright \in Int /\ brightness \in Int
    BY <1>0 DEF LedTyped, Objects
  <2>. QED
    BY <2>1
<1>3. /\ ~AtRest(t) /\ fault' = (fault \/ timer[t].freed \/ led_driver.at = "gone")
      /\ UNCHANGED <<listed, led_driver, caller, overlapped>>
  BY DEF Led!led_timer_function, AtRest
<1>4. PICK r \in Objects : timer' = [timer EXCEPT ![t] = r] /\ r.freed = p.freed
  <2>1. CASE p.on = 0 \/ p.off = 0
    <3>1. PICK r : r = [p EXCEPT !.running = FALSE]
      OBVIOUS
    <3>2. r \in Objects
      BY <3>1 DEF Objects
    <3>3. r.freed = p.freed
      BY <3>1 DEF Objects
    <3>4. timer' = [timer EXCEPT ![t] = r]
      BY <1>1, <2>1, <3>1 DEF Led!led_timer_function
    <3>. QED
      BY <3>2, <3>3, <3>4
  <2>2. CASE ~(p.on = 0 \/ p.off = 0)
    <3>1. PICK r : r = [p EXCEPT !.running = FALSE, !.armed = TRUE, !.bright = bright]
      OBVIOUS
    <3>2. r \in Objects
      BY <3>1 DEF Objects
    <3>3. r.freed = p.freed
      BY <3>1 DEF Objects
    <3>4. timer' = [timer EXCEPT ![t] = r]
      BY <1>1, <1>2, <2>2, <3>1 DEF Led!led_timer_function
    <3>. QED
      BY <3>2, <3>3, <3>4
  <2>. QED
    BY <2>1, <2>2
<1>5. LedTyped'
  <2>1. timer' \in [Timers -> Objects]
    BY <1>0, <1>4 DEF LedTyped
  <2>2. brightness' \in {brightness, p.bright, 0}
    BY <1>1 DEF Led!led_timer_function
  <2>3. brightness' \in Int
    BY <1>0, <2>2 DEF LedTyped, Objects
  <2>4. timer[t].freed \in BOOLEAN
    BY <1>1 DEF Objects
  <2>5. fault' \in BOOLEAN
    BY <1>0, <1>3, <2>4 DEF LedTyped
  <2>. QED
    BY <1>0, <1>3, <2>1, <2>3, <2>5 DEF LedTyped
<1>6. ASSUME ~overlapped' PROVE LedGood'
  <2>1. LedGood
    BY <1>0, <1>3, <1>6
  <2>2. t \in listed /\ ~timer[t].freed
    BY <1>0, <1>3, <2>1, TimersOf
  <2>3. led_driver.at # "gone" /\ ~fault
    BY <2>1, <2>2 DEF LedGood, DriverFound
  <2>4. ~fault'
    BY <1>3, <2>2, <2>3
  <2>. QED
    BY <1>0, <1>1, <1>3, <1>4, <2>1, <2>4, TimerRuns
<1>. QED
  BY <1>5, <1>6, LedInvIsPrime

LEMMA UnregisterGetsKeeps ==
  ASSUME LedInv, Led!UnregisterGets
  PROVE  LedInv'
<1>0. LedTyped /\ (~overlapped => LedGood)
  BY LedInvIs
<1>1. /\ led_driver.at = "bound" /\ UNCHANGED <<listed, timer, brightness, caller, fault>>
      /\ (overlapped' <=> overlapped \/ Led!InCall) /\ overlapped' \in BOOLEAN
  <2>1. led_driver.at = "bound" /\ UNCHANGED <<listed, timer, brightness, caller, fault>>
    BY DEF Led!UnregisterGets
  <2>2. overlapped' = (overlapped \/ Led!InCall)
    BY DEF Led!UnregisterGets
  <2>. QED
    BY <1>0, <2>1, <2>2
<1>2. PICK t : /\ t \in (IF listed = {} THEN {None} ELSE listed)
               /\ led_driver' = [at |-> "got", led |-> t]
  BY DEF Led!UnregisterGets
<1>3. t \in Timers \cup {None}
  BY <1>0, <1>2 DEF LedTyped
<1>4. /\ led_driver'.at = "got" /\ led_driver'.led = t
      /\ led_driver' \in [at : {"bound", "got", "stopped", "freed", "gone"},
                           led : Timers \cup {None}]
  BY <1>2, <1>3
<1>5. LedTyped'
  BY <1>0, <1>1, <1>4 DEF LedTyped
<1>6. ASSUME ~overlapped' PROVE LedGood'
  <2>1. LedGood /\ ~fault' /\ \A c \in Callers : ~Led!Busy(c)
    BY <1>0, <1>1, <1>6 DEF Led!InCall, LedGood
  <2>2. OneTimer' /\ StaysStopped'
    BY <1>1, <2>1 DEF LedGood, OneTimer, Blank, AtRest, StaysStopped, Led!Busy
  <2>3. Found(t)
    BY <1>2, <2>1 DEF LedGood, OneTimer, Found
  <2>4. OneCall'
    BY <1>1, <2>1 DEF OneCall, Led!Busy
  <2>5. DriverFound'
    BY <1>1, <1>4, <2>3 DEF DriverFound, Found
  <2>6. \A c \in Callers : CallFound(c)'
    BY <1>1, <2>1 DEF LedGood, CallFound, Led!Busy
  <2>. QED
    BY <2>1, <2>2, <2>4, <2>5, <2>6 DEF LedGood
<1>. QED
  BY <1>5, <1>6, LedInvIsPrime

\* While the driver unregisters the LED no call is under way.
LEMMA NoCall ==
  ASSUME LedTyped, LedGood, led_driver.at # "bound"
  PROVE  \A c \in Callers : caller[c].at = "idle"
BY DEF LedGood, OneCall, Led!Busy

LEMMA UnregisterStopsKeeps ==
  ASSUME LedInv, Led!UnregisterStops
  PROVE  LedInv'
<1>0. LedTyped /\ (~overlapped => LedGood)
  BY LedInvIs
<1>1. /\ led_driver.at = "got"
      /\ UNCHANGED <<listed, brightness, caller, overlapped, fault>>
  BY DEF Led!UnregisterStops
<1>2. PICK w : w = led_driver
  OBVIOUS
<1>3. PICK v : v = [w EXCEPT !.at = "stopped"]
  OBVIOUS
<1>4. led_driver' = v
  BY <1>2, <1>3 DEF Led!UnregisterStops
<1>5. /\ v.at = "stopped" /\ v.led = w.led /\ w.led \in Timers \cup {None}
      /\ v \in [at : {"bound", "got", "stopped", "freed", "gone"}, led : Timers \cup {None}]
  BY <1>0, <1>2, <1>3 DEF LedTyped
<1>6. CASE w.led = None
  <2>1. UNCHANGED timer
    BY <1>2, <1>6 DEF Led!UnregisterStops
  <2>2. LedTyped'
    BY <1>0, <1>1, <1>4, <1>5, <2>1 DEF LedTyped
  <2>3. ASSUME ~overlapped' PROVE LedGood'
    <3>1. LedGood /\ ~fault'
      BY <1>0, <1>1, <2>3 DEF LedGood
    <3>2. \A c \in Callers : caller[c].at = "idle"
      BY <1>0, <1>1, <3>1, NoCall
    <3>3. OneTimer' /\ StaysStopped'
      BY <1>1, <2>1, <3>1 DEF LedGood, OneTimer, Blank, AtRest, StaysStopped, Led!Busy
    <3>4. listed = {}
      BY <1>0, <1>1, <1>2, <1>6, <3>1, TimersOf DEF LedGood, DriverFound, Found
    <3>5. \A t \in Timers : AtRest(t)'
      BY <1>0, <2>1, <3>1, <3>4, TimersOf DEF AtRest
    <3>6. DriverFound'
      BY <1>1, <1>4, <1>5, <1>6, <3>4, <3>5 DEF DriverFound, Found
    <3>7. OneCall' /\ \A c \in Callers : CallFound(c)'
      BY <1>1, <3>2 DEF OneCall, CallFound, Led!Busy
    <3>. QED
      BY <3>1, <3>3, <3>6, <3>7 DEF LedGood
  <2>. QED
    BY <2>2, <2>3, LedInvIsPrime
<1>7. ASSUME NEW t \in Timers, w.led = t
      PROVE  LedInv'
  <2>1. PICK p \in Objects : p = timer[t]
    BY <1>0 DEF LedTyped
  <2>2. PICK r : r = [p EXCEPT !.armed = FALSE]
    OBVIOUS
  <2>3. r \in Objects
    BY <2>2 DEF Objects
  <2>4. r.freed = p.freed /\ ~r.armed /\ r.running = p.running
    BY <2>2 DEF Objects
  <2>5. timer' = [timer EXCEPT ![t] = r] /\ ~p.running
    BY <1>2, <1>7, <2>1, <2>2, HelpersAssumption DEF Led!UnregisterStops, Led!TimerStopped
  <2>6. LedTyped'
    BY <1>0, <1>1, <1>4, <1>5, <2>3, <2>5 DEF LedTyped
  <2>7. ASSUME ~overlapped' PROVE LedGood'
    <3>1. LedGood /\ ~fault'
      BY <1>0, <1>1, <2>7 DEF LedGood
    <3>2. \A c \in Callers : caller[c].at = "idle"
      BY <1>0, <1>1, <3>1, NoCall
    <3>3. listed = {t}
      BY <1>1, <1>2, <1>7, <3>1, HelpersAssumption DEF LedGood, DriverFound, Found
    <3>4. timer'[t] = r /\ \A x \in Timers : x # t => timer'[x] = timer[x]
      BY <1>0, <2>5 DEF LedTyped
    <3>5. \A x \in Timers : AtRest(x)'
      <4>1. AtRest(t)'
        BY <2>4, <2>5, <3>4 DEF AtRest
      <4>2. ASSUME NEW x \in Timers, x # t PROVE AtRest(x)'
        BY <1>0, <3>1, <3>3, <3>4, <4>2, TimersOf DEF AtRest
      <4>. QED
        BY <4>1, <4>2
    <3>6. OneTimer'
      BY <1>1, <2>1, <2>4, <3>1, <3>3, <3>4, <3>5 DEF LedGood, OneTimer, Blank
    <3>7. DriverFound'
      BY <1>1, <1>4, <1>5, <1>7, <3>3, <3>5 DEF DriverFound, Found
    <3>8. StaysStopped'
      BY <3>5 DEF StaysStopped
    <3>9. OneCall' /\ \A c \in Callers : CallFound(c)'
      BY <1>1, <3>2 DEF OneCall, CallFound, Led!Busy
    <3>. QED
      BY <3>1, <3>6, <3>7, <3>8, <3>9 DEF LedGood
  <2>. QED
    BY <2>6, <2>7, LedInvIsPrime
<1>. QED
  BY <1>5, <1>6, <1>7

LEMMA UnregisterFreesKeeps ==
  ASSUME LedInv, Led!UnregisterFrees
  PROVE  LedInv'
<1>0. LedTyped /\ (~overlapped => LedGood)
  BY LedInvIs
<1>1. /\ led_driver.at = "stopped" /\ listed' = listed \ {led_driver.led}
      /\ UNCHANGED <<brightness, caller, overlapped, fault>>
  BY DEF Led!UnregisterFrees
<1>2. PICK w : w = led_driver
  OBVIOUS
<1>3. PICK v : v = [w EXCEPT !.at = "freed"]
  OBVIOUS
<1>4. led_driver' = v
  BY <1>2, <1>3 DEF Led!UnregisterFrees
<1>5. /\ v.at = "freed" /\ v.led = w.led
      /\ v \in [at : {"bound", "got", "stopped", "freed", "gone"}, led : Timers \cup {None}]
  BY <1>0, <1>2, <1>3 DEF LedTyped
<1>6. \A p \in Objects : [p EXCEPT !.freed = TRUE] \in Objects
  BY DEF Objects
<1>7. timer' = [t \in Timers |-> IF t = w.led THEN [timer[t] EXCEPT !.freed = TRUE]
                                 ELSE timer[t]]
  BY <1>2 DEF Led!UnregisterFrees
<1>8. timer' \in [Timers -> Objects]
  BY <1>0, <1>6, <1>7 DEF LedTyped
<1>9. LedTyped'
  BY <1>0, <1>1, <1>4, <1>5, <1>8 DEF LedTyped
<1>10. ASSUME ~overlapped' PROVE LedGood'
  <2>1. LedGood /\ ~fault'
    BY <1>0, <1>1, <1>10 DEF LedGood
  <2>2. \A c \in Callers : caller[c].at = "idle"
    BY <1>0, <1>1, <2>1, NoCall
  <2>3. Found(w.led) /\ \A t \in Timers : AtRest(t)
    BY <1>1, <1>2, <2>1 DEF LedGood, DriverFound
  <2>4. listed' = {}
    BY <1>1, <1>2, <2>3 DEF Found
  <2>5. \A t \in Timers : t # w.led => timer'[t] = timer[t] /\ t \notin listed
    BY <1>7, <2>3 DEF Found
  <2>6. ASSUME NEW t \in Timers, t = w.led
        PROVE  timer'[t].freed /\ AtRest(t)'
    <3>1. PICK p \in Objects : p = timer[t]
      BY <1>0 DEF LedTyped
    <3>2. [p EXCEPT !.freed = TRUE].freed
      BY DEF Objects
    <3>3. /\ [p EXCEPT !.freed = TRUE].armed = p.armed
          /\ [p EXCEPT !.freed = TRUE].running = p.running
      BY DEF Objects
    <3>4. timer'[t] = [p EXCEPT !.freed = TRUE]
      BY <1>7, <2>6, <3>1
    <3>. QED
      BY <2>3, <3>1, <3>2, <3>3, <3>4 DEF AtRest
  <2>7. \A t \in Timers : AtRest(t)'
    BY <2>3, <2>5, <2>6 DEF AtRest
  <2>8. OneTimer'
    <3>1. ASSUME NEW t \in Timers PROVE (Blank(t) \/ (timer[t].freed /\ AtRest(t)))'
      <4>1. CASE t = w.led
        BY <2>6, <4>1
      <4>2. CASE t # w.led
        BY <2>1, <2>5, <2>7, <4>2 DEF LedGood, OneTimer, Blank
      <4>. QED
        BY <4>1, <4>2
    <3>. QED
      BY <2>4, <3>1 DEF OneTimer
  <2>9. DriverFound'
    BY <1>4, <1>5, <2>4 DEF DriverFound
  <2>10. StaysStopped'
    BY <2>7 DEF StaysStopped
  <2>11. OneCall' /\ \A c \in Callers : CallFound(c)'
    BY <1>1, <2>2 DEF OneCall, CallFound, Led!Busy
  <2>. QED
    BY <2>1, <2>8, <2>9, <2>10, <2>11 DEF LedGood
<1>. QED
  BY <1>9, <1>10, LedInvIsPrime

LEMMA UnregisteredKeeps ==
  ASSUME LedInv, Led!led_classdev_unregister
  PROVE  LedInv'
<1>0. LedTyped /\ (~overlapped => LedGood)
  BY LedInvIs
<1>1. /\ led_driver.at = "freed" /\ led_driver' = [at |-> "gone", led |-> None]
      /\ UNCHANGED <<listed, timer, brightness, caller, overlapped, fault>>
  BY DEF Led!led_classdev_unregister
<1>2. /\ led_driver'.at = "gone"
      /\ led_driver' \in [at : {"bound", "got", "stopped", "freed", "gone"},
                           led : Timers \cup {None}]
  BY <1>1
<1>3. LedTyped'
  BY <1>0, <1>1, <1>2 DEF LedTyped
<1>4. ASSUME ~overlapped' PROVE LedGood'
  <2>1. LedGood /\ ~fault'
    BY <1>0, <1>1, <1>4 DEF LedGood
  <2>2. \A c \in Callers : caller[c].at = "idle"
    BY <1>0, <1>1, <2>1, NoCall
  <2>3. OneTimer' /\ StaysStopped'
    BY <1>1, <2>1 DEF LedGood, OneTimer, Blank, AtRest, StaysStopped, Led!Busy
  <2>4. DriverFound'
    BY <1>1, <1>2, <2>1 DEF LedGood, DriverFound
  <2>5. OneCall' /\ \A c \in Callers : CallFound(c)'
    BY <1>1, <2>2 DEF OneCall, CallFound, Led!Busy
  <2>. QED
    BY <2>1, <2>3, <2>4, <2>5 DEF LedGood
<1>. QED
  BY <1>3, <1>4, LedInvIsPrime

LEMMA LedStep ==
  ASSUME LedInv, Led!LedNext
  PROVE  LedInv'
BY NewTimerKeeps, BlinkSetKeeps, StopKeeps, BlinkKeeps, BrightnessKeeps, CallKeeps, FireKeeps,
   HandlerKeeps, UnregisterGetsKeeps, UnregisterStopsKeeps, UnregisterFreesKeeps,
   UnregisteredKeeps DEF Led!LedNext

LEMMA LedStopped ==
  ASSUME LedInv
  PROVE  Led!BlinkStops
<1>1. SUFFICES ASSUME ~overlapped PROVE Led!BlinkStops
  BY DEF Led!BlinkStops
<1>2. LedTyped /\ LedGood
  BY <1>1, LedInvIs
<1>3. Led!Cardinality(listed) <= 1
  <2>1. \A S : Led!Cardinality(S) = Cardinality(S)
    BY DEF Led!Cardinality, Cardinality
  <2>2. CASE listed = {}
    BY <2>1, <2>2, FS_EmptySet
  <2>3. ASSUME NEW t \in Timers, listed = {t}
        PROVE  Led!Cardinality(listed) <= 1
    <3>1. Cardinality(listed) = 1
      BY <2>3, FS_Singleton
    <3>. QED
      BY <2>1, <3>1
  <2>. QED
    BY <1>2, <2>2, <2>3 DEF LedGood, OneTimer
<1>4. ASSUME NEW t \in Timers
      PROVE  /\ led_driver.at \in {"freed", "gone"} /\ ~timer[t].freed => timer[t] = Led!NewTimer
             /\ timer[t].freed => ~timer[t].armed /\ ~timer[t].running
  BY <1>2, TimersOf DEF LedGood, OneTimer, DriverFound, Blank, AtRest
<1>5. StaysStopped /\ ~fault
  BY <1>2 DEF LedGood
<1>. QED
  BY <1>3, <1>4, <1>5 DEF Led!BlinkStops, StaysStopped, AtRest

-----------------------------------------------------------------------------
(***************************************************************************)
(* The I2C master.  While a message is under way its bytes transferred and *)
(* its bytes left make its length, the messages before it are complete,    *)
(* and, unless the clock was held for too long, it is low between the bits *)
(* and the slave has seen START before an address.                         *)
(***************************************************************************)
Message   == [flags : SUBSET STRING, len : Nat]
Addresses == {"address", "second", "repstart", "again", "retry"}

BusTyped ==
  /\ msgs \in Seq(Message) /\ i \in Nat \ {0}
  /\ xfer_at \in Addresses \cup {"start", "message", "bytes", "stop", "done"}
  /\ tries \in Nat /\ stage \in {"address", "again"} /\ count \in Nat /\ ret \in Int
  /\ timedout \in BOOLEAN /\ stretched \in BOOLEAN /\ busy \in BOOLEAN /\ fresh \in BOOLEAN
  /\ sending \in BOOLEAN /\ broken \in BOOLEAN
  /\ bytes \in [DOMAIN msgs -> Nat]

\* A message is being addressed, also between two tries.
Addressing == xfer_at \in Addresses \/ (xfer_at = "start" /\ tries > 0)

Complete(k) == bytes[k] = msgs[k].len

Transferred ==
  /\ \A k \in DOMAIN msgs : k < i => Complete(k)
  /\ \A k \in DOMAIN msgs : k > i => bytes[k] = 0
  /\ Addressing => i \in DOMAIN msgs /\ count = msgs[i].len
  /\ Addressing \/ xfer_at \in {"start", "message"} => (i \in DOMAIN msgs => bytes[i] = 0)
  /\ xfer_at = "bytes" => i \in DOMAIN msgs /\ bytes[i] + count = msgs[i].len
  /\ xfer_at = "retry" => tries > 0
  /\ xfer_at \in {"stop", "done"} => ret < 0 \/ \A k \in DOMAIN msgs : Complete(k)

Levels ==
  /\ xfer_at = "start" => scl = 1 /\ sda = 1 /\ ~stretched
  /\ xfer_at \in {"address", "again"} => fresh
  /\ xfer_at \in Addresses \cup {"message", "bytes", "stop"} => scl = 0
  /\ xfer_at = "message" /\ i = 1 => fresh
  /\ sending => xfer_at = "bytes" /\ count > 0 /\ "RD" \in msgs[i].flags

BusInv ==
  /\ BusTyped /\ Transferred
  /\ xfer_at = "done" /\ busy => stretched
  /\ broken => timedout
  /\ stretched => timedout
  /\ timedout \/ Levels

LEMMA BusStarts ==
  ASSUME MachinesInit
  PROVE  BusInv
<1>1. I2c!I2cInit
  BY DEF MachinesInit
<1>2. msgs \in Seq(Message)
  BY <1>1, HelpersAssumption DEF I2c!I2cInit, Message
<1>3. BusTyped
  <2>1. bytes \in [DOMAIN msgs -> Nat]
    BY <1>1 DEF I2c!I2cInit
  <2>2. i \in Nat \ {0} /\ tries \in Nat /\ count \in Nat /\ ret \in Int
    BY <1>1 DEF I2c!I2cInit
  <2>3. /\ timedout \in BOOLEAN /\ stretched \in BOOLEAN /\ busy \in BOOLEAN
        /\ fresh \in BOOLEAN /\ sending \in BOOLEAN /\ broken \in BOOLEAN
    BY <1>1 DEF I2c!I2cInit
  <2>4. xfer_at = "start" /\ stage = "address"
    BY <1>1 DEF I2c!I2cInit
  <2>. QED
    BY <1>2, <2>1, <2>2, <2>3, <2>4 DEF BusTyped, Addresses
<1>4. Transferred
  BY <1>1, <1>2 DEF I2c!I2cInit, Transferred, Addresses, Addressing
<1>. QED
  BY <1>1, <1>3, <1>4 DEF I2c!I2cInit, BusInv, Levels, Addresses

\* The value of an error is negative.
LEMMA ErrorsAreNegative ==
  /\ I2c!Errno.EIO \in Int /\ I2c!Errno.EIO < 0
  /\ I2c!Errno.ENXIO \in Int /\ I2c!Errno.ENXIO < 0
  /\ I2c!Errno.EPROTO \in Int /\ I2c!Errno.EPROTO < 0
  /\ I2c!Errno.ETIMEDOUT \in Int /\ I2c!Errno.ETIMEDOUT < 0
BY DEF I2c!Errno

\* The steps that only move on: nothing is transferred.
LEMMA BusMovesOn ==
  ASSUME BusInv, I2c!i2c_start \/ I2c!MsgDone \/ I2c!Release
  PROVE  BusInv'
<1>. USE DEF BusInv, Addresses, I2c!Lines, I2c!Asserts, I2c!Flag
<1>1. CASE I2c!i2c_start
  <2>1. /\ xfer_at = "start" /\ xfer_at' = (IF tries = 0 THEN "message" ELSE stage)
        /\ scl' = 0 /\ stretched' = FALSE /\ fresh' = ~stretched
        /\ UNCHANGED <<msgs, i, tries, stage, count, ret, timedout, sending, bytes>>
    BY <1>1 DEF I2c!i2c_start
  <2>2. BusTyped'
    <3>1. busy' \in BOOLEAN /\ fresh' \in BOOLEAN /\ broken' \in BOOLEAN
      BY Zenon, <1>1 DEF I2c!i2c_start, BusTyped
    <3>. QED
      BY <2>1, <3>1 DEF BusTyped
  <2>3. Transferred'
    BY <2>1 DEF BusTyped, Transferred, Addressing, Complete
  <2>4. timedout \/ broken' = broken
    BY <1>1 DEF I2c!i2c_start, Levels, BusTyped
  <2>. QED
    BY <2>1, <2>2, <2>3, <2>4 DEF Levels, BusTyped
<1>2. CASE I2c!MsgDone
  <2>1. Complete(i)
    BY <1>2 DEF I2c!MsgDone, BusTyped, Transferred, Complete
  <2>2. BusTyped' /\ Transferred'
    BY <1>2, <2>1 DEF I2c!MsgDone, BusTyped, Transferred, Addressing, Complete
  <2>. QED
    BY <1>2, <2>2 DEF I2c!MsgDone, Levels, BusTyped
<1>3. CASE I2c!Release
  <2>1. /\ stretched' = FALSE
        /\ UNCHANGED <<msgs, i, xfer_at, tries, stage, count, scl, sda, ret, timedout, busy,
                       fresh, sending, bytes, broken>>
        /\ xfer_at # "done"
    BY <1>3 DEF I2c!Release
  <2>2. BusTyped'
    BY <2>1 DEF BusTyped
  <2>3. Transferred'
    BY <2>1 DEF Transferred, Addressing, Complete
  <2>. QED
    BY <2>1, <2>2, <2>3 DEF Levels
<1>. QED
  BY <1>1, <1>2, <1>3

\* The condition of a repeated start leaves everything else alone, and so does
\* a stop; both may time out.
LEMMA BusRepeats ==
  ASSUME BusInv, NEW rise \in I2c!Rises, I2c!Repeat(rise)
  PROVE  /\ scl' = 0 /\ stretched' = FALSE /\ timedout' \in BOOLEAN /\ busy' \in BOOLEAN
         /\ fresh' \in BOOLEAN /\ broken' \in BOOLEAN
         /\ timedout => timedout'
         /\ timedout' \/ fresh'
         /\ broken' = (broken \/ ~(scl = 0))
<1>1. timedout' \in BOOLEAN /\ busy' \in BOOLEAN /\ fresh' \in BOOLEAN /\ broken' \in BOOLEAN
  BY Zenon DEF I2c!Repeat, I2c!sclhi, I2c!Seen, I2c!Asserts, BusInv, BusTyped
<1>. QED
  BY <1>1 DEF I2c!Repeat, I2c!sclhi, I2c!Seen, I2c!Lines, I2c!Asserts, I2c!Rises

LEMMA BusStops ==
  ASSUME BusInv, NEW rise \in I2c!Rises, I2c!Stop(rise)
  PROVE  /\ scl' = 1 /\ sda' = 1 /\ timedout' \in BOOLEAN /\ stretched' \in BOOLEAN
         /\ busy' \in BOOLEAN /\ fresh' \in BOOLEAN /\ broken' \in BOOLEAN
         /\ timedout => timedout'
         /\ stretched' => timedout'
         /\ busy' => stretched'
         /\ broken' = (broken \/ ~(scl = 0))
<1>1. /\ timedout' \in BOOLEAN /\ stretched' \in BOOLEAN /\ busy' \in BOOLEAN
      /\ fresh' \in BOOLEAN /\ broken' \in BOOLEAN
  BY Zenon DEF I2c!Stop, I2c!sclhi, I2c!Seen, I2c!Asserts, BusInv, BusTyped
<1>. QED
  BY <1>1 DEF I2c!Stop, I2c!sclhi, I2c!Seen, I2c!Lines, I2c!Asserts, I2c!Rises

LEMMA BusConditions ==
  ASSUME BusInv, NEW rise \in I2c!Rises,
         I2c!NextMsg(rise) \/ I2c!RetryStop(rise) \/ I2c!i2c_repstart(rise) \/ I2c!i2c_stop(rise)
  PROVE  BusInv'
<1>. USE DEF Addresses
<1>1. CASE I2c!NextMsg(rise)
  <2>1. /\ xfer_at = "message" /\ tries' = 0 /\ stage' = "address"
        /\ UNCHANGED <<msgs, i, sending, bytes>>
    BY <1>1 DEF I2c!NextMsg
  <2>2. /\ timedout' \in BOOLEAN /\ stretched' \in BOOLEAN /\ busy' \in BOOLEAN
        /\ fresh' \in BOOLEAN /\ broken' \in BOOLEAN /\ (timedout => timedout')
        /\ (stretched' => timedout') /\ (broken' => timedout')
        /\ timedout' \/ scl' = 0
        /\ timedout' \/ fresh' \/ ~(xfer_at' = "address")
    <3>1. CASE i \in 2..Len(msgs) /\ ~I2c!Flag("NOSTART")
      <4>1. I2c!Repeat(rise)
        BY <1>1, <3>1 DEF I2c!NextMsg
      <4>2. timedout \/ scl = 0
        BY <2>1 DEF BusInv, Levels
      <4>. HIDE DEF I2c!Repeat
      <4>. QED
        BY <4>1, <4>2, BusRepeats DEF BusInv, BusTyped
    <3>2. CASE ~(i \in 2..Len(msgs) /\ ~I2c!Flag("NOSTART"))
      <4>1. UNCHANGED <<scl, sda, stretched, timedout, busy, fresh, broken>>
        BY <1>1, <3>2 DEF I2c!NextMsg
      <4>2. xfer_at' = "address" => i = 1
        BY <1>1, <3>2 DEF I2c!NextMsg, BusInv, BusTyped
      <4>. QED
        BY <2>1, <4>1, <4>2 DEF BusInv, BusTyped, Levels
    <3>. QED
      BY <3>1, <3>2
  <2>3. CASE i > Len(msgs)
    <3>1. ret' = i - 1 /\ xfer_at' = "stop" /\ count' = count
      BY <1>1, <2>3 DEF I2c!NextMsg
    <3>2. BusTyped' /\ Transferred'
      BY <2>1, <2>2, <2>3, <3>1 DEF BusInv, BusTyped, Transferred, Addressing, Complete
    <3>. QED
      BY <2>1, <2>2, <3>1, <3>2 DEF BusInv, BusTyped, Levels
  <2>4. CASE ~(i > Len(msgs))
    <3>1. i \in DOMAIN msgs /\ msgs[i] \in Message
      BY <2>4 DEF BusInv, BusTyped
    <3>2. msgs[i].len \in Nat
      BY <3>1 DEF Message
    <3>3. xfer_at' \in {"bytes", "address"} /\ count' = msgs[i].len /\ ret' = ret
      BY <1>1, <2>4 DEF I2c!NextMsg
    <3>4. BusTyped'
      BY <2>1, <2>2, <3>2, <3>3 DEF BusInv, BusTyped
    <3>5. Transferred'
      BY <2>1, <3>1, <3>2, <3>3 DEF BusInv, BusTyped, Transferred, Addressing, Complete
    <3>. QED
      BY <2>1, <2>2, <3>3, <3>4, <3>5 DEF BusInv, BusTyped, Levels
  <2>. QED
    BY <2>3, <2>4
<1>2. CASE I2c!RetryStop(rise)
  <2>1. /\ xfer_at = "retry" /\ I2c!Stop(rise) /\ xfer_at' = "start"
        /\ UNCHANGED <<msgs, i, tries, stage, count, ret, sending, bytes>>
    BY <1>2 DEF I2c!RetryStop
  <2>2. BusTyped'
    BY <2>1, BusStops DEF BusInv, BusTyped
  <2>3. Transferred'
    BY <2>1 DEF BusInv, BusTyped, Transferred, Addressing, Complete
  <2>. QED
    BY <2>1, <2>2, <2>3, BusStops DEF BusInv, Levels, BusTyped
<1>3. CASE I2c!i2c_repstart(rise)
  <2>1. /\ xfer_at = "repstart" /\ I2c!Repeat(rise) /\ xfer_at' = "again" /\ stage' = "again"
        /\ UNCHANGED <<msgs, i, tries, count, ret, sending, bytes>>
    BY <1>3 DEF I2c!i2c_repstart
  <2>2. BusTyped'
    BY <2>1, BusRepeats DEF BusInv, BusTyped
  <2>3. Transferred'
    BY <2>1 DEF BusInv, BusTyped, Transferred, Addressing, Complete
  <2>. QED
    BY <2>1, <2>2, <2>3, BusRepeats DEF BusInv, Levels, BusTyped
<1>4. CASE I2c!i2c_stop(rise)
  <2>1. /\ xfer_at = "stop" /\ I2c!Stop(rise) /\ xfer_at' = "done"
        /\ UNCHANGED <<msgs, i, tries, stage, count, ret, sending, bytes>>
    BY <1>4 DEF I2c!i2c_stop
  <2>2. BusTyped'
    BY <2>1, BusStops DEF BusInv, BusTyped
  <2>3. Transferred'
    BY <2>1 DEF BusInv, BusTyped, Transferred, Addressing, Complete
  <2>. QED
    BY <2>1, <2>2, <2>3, BusStops DEF BusInv, Levels, BusTyped
<1>. QED
  BY <1>1, <1>2, <1>3, <1>4

\* What the byte itself does to the bus.
LEMMA BusGlitches ==
  ASSUME BusInv, I2c!Glitch
  PROVE  busy' \in BOOLEAN
BY DEF I2c!Glitch, BusInv, BusTyped

\* An address that is sent leaves the message as it is.
LEMMA BusAddresses ==
  ASSUME BusInv, NEW ack \in I2c!Answers, I2c!Address(ack)
  PROVE  BusInv'
<1>. USE DEF Addresses
<1>1. /\ xfer_at \in {"address", "second", "again"}
      /\ UNCHANGED <<msgs, i, stage, count, bytes>>
      /\ broken' = (broken \/ ~(scl = 0 /\ (xfer_at # "second" => fresh)))
      /\ timedout' = (timedout \/ ack = "timeout")
      /\ stretched' = (ack = "timeout") /\ fresh' = FALSE
      /\ ack # "timeout" => scl' = 0
      /\ I2c!Glitch
  BY DEF I2c!Address, I2c!i2c_outb, I2c!Lines, I2c!Asserts
<1>2. \/ xfer_at' = "retry" /\ tries' = tries + 1 /\ UNCHANGED <<ret, sending>>
      \/ tries' = 0 /\ xfer_at' = "stop" /\ ret' < 0 /\ ret' \in Int /\ UNCHANGED sending
      \/ tries' = 0 /\ xfer_at' \in {"second", "repstart", "bytes"} /\ sending' = FALSE
         /\ UNCHANGED ret
  BY ErrorsAreNegative DEF I2c!Address, I2c!Retry, I2c!Bail
<1>3. Addressing /\ i \in DOMAIN msgs /\ count = msgs[i].len /\ bytes[i] = 0
  BY <1>1 DEF BusInv, Transferred, Addressing
<1>4. BusTyped'
  <2>1. bytes' \in [DOMAIN msgs' -> Nat] /\ msgs' \in Seq(Message)
    BY <1>1 DEF BusInv, BusTyped
  <2>2. tries' \in Nat /\ ret' \in Int
    BY <1>2 DEF BusInv, BusTyped
  <2>3. timedout' \in BOOLEAN /\ broken' \in BOOLEAN /\ stretched' \in BOOLEAN
        /\ fresh' \in BOOLEAN
    BY Zenon, <1>1 DEF BusInv, BusTyped
  <2>4. busy' \in BOOLEAN /\ sending' \in BOOLEAN
    BY Zenon, <1>1, <1>2, BusGlitches DEF BusInv, BusTyped
  <2>. QED
    BY <1>1, <1>2, <2>1, <2>2, <2>3, <2>4 DEF BusInv, BusTyped
<1>5. Transferred'
  BY <1>1, <1>2, <1>3 DEF BusInv, BusTyped, Transferred, Addressing, Complete
<1>6. timedout' \/ Levels'
  BY <1>1, <1>2 DEF BusInv, BusTyped, Levels
<1>7. broken' => timedout'
  BY <1>1 DEF BusInv, BusTyped, Levels
<1>. QED
  BY <1>1, <1>2, <1>4, <1>5, <1>6, <1>7 DEF BusInv

\* A byte that is sent is one less to send.
LEMMA BusSends ==
  ASSUME BusInv, NEW ack \in I2c!Answers, I2c!sendbytes(ack)
  PROVE  BusInv'
<1>. USE DEF Addresses
<1>1. /\ xfer_at = "bytes" /\ count > 0 /\ ~("RD" \in msgs[i].flags)
      /\ UNCHANGED <<msgs, i, tries, stage, sending>>
      /\ broken' = (broken \/ ~(scl = 0))
      /\ timedout' = (timedout \/ ack = "timeout")
      /\ stretched' = (ack = "timeout") /\ fresh' = FALSE /\ I2c!Glitch
      /\ ack # "timeout" => scl' = 0
  BY DEF I2c!sendbytes, I2c!i2c_outb, I2c!Lines, I2c!Asserts, I2c!Flag
<1>2. \/ /\ count' = count - 1 /\ bytes' = [bytes EXCEPT ![i] = @ + 1]
         /\ UNCHANGED <<xfer_at, ret>>
      \/ /\ xfer_at' = "stop" /\ ret' < 0 /\ ret' \in Int
         /\ UNCHANGED <<count, bytes>>
  BY ErrorsAreNegative DEF I2c!sendbytes, I2c!Bail, I2c!OneByte
<1>3. i \in DOMAIN msgs /\ bytes[i] + count = msgs[i].len
  BY <1>1 DEF BusInv, Transferred
<1>4. BusTyped'
  <2>1. busy' \in BOOLEAN
    BY <1>1, BusGlitches
  <2>2. /\ timedout' \in BOOLEAN /\ stretched' \in BOOLEAN /\ fresh' \in BOOLEAN
        /\ sending' \in BOOLEAN /\ broken' \in BOOLEAN
    BY Zenon, <1>1 DEF BusInv, BusTyped
  <2>3. msgs' \in Seq(Message) /\ i' \in Nat \ {0} /\ tries' \in Nat /\ stage' \in {"address", "again"}
    BY <1>1 DEF BusInv, BusTyped
  <2>4. bytes' \in [DOMAIN msgs' -> Nat] /\ count' \in Nat /\ ret' \in Int
    BY <1>1, <1>2, <1>3 DEF BusInv, BusTyped
  <2>. QED
    BY <1>1, <1>2, <2>1, <2>2, <2>3, <2>4 DEF BusTyped
<1>5. Transferred'
  BY <1>1, <1>2, <1>3 DEF BusInv, BusTyped, Transferred, Addressing, Complete
<1>6. timedout' \/ Levels'
  BY <1>1, <1>2 DEF BusInv, BusTyped, Levels
<1>7. broken' => timedout'
  BY <1>1 DEF BusInv, BusTyped, Levels
<1>. QED
  BY <1>1, <1>2, <1>4, <1>5, <1>6, <1>7 DEF BusInv

\* A byte that is read is one less to read; a length byte adds to both the
\* length of the message and what is left.  The last one is not acknowledged.
LEMMA BusReads ==
  ASSUME BusInv, NEW length \in 0..BlockMax + 1, NEW late \in BOOLEAN,
         I2c!readbytes(length, late)
  PROVE  BusInv'
<1>. USE DEF Addresses
<1>1. PICK more \in Nat :
        /\ xfer_at = "bytes" /\ count > 0 /\ "RD" \in msgs[i].flags
        /\ UNCHANGED <<i, tries, stage>>
        /\ broken' = (broken \/ ~(scl = 0)) /\ busy' \in BOOLEAN /\ fresh' = FALSE
        /\ stretched' \in BOOLEAN /\ (stretched' => timedout')
        /\ count' = count - 1 + more /\ bytes' = [bytes EXCEPT ![i] = @ + 1]
        /\ msgs' = [msgs EXCEPT ![i].len = @ + more]
        /\ sending' \in BOOLEAN /\ timedout' \in BOOLEAN /\ (timedout => timedout')
        /\ \/ /\ UNCHANGED <<xfer_at, ret>> /\ (sending' => count' # 0)
              /\ (scl' = 0 \/ timedout')
           \/ /\ xfer_at' = "stop" /\ ret' < 0 /\ ret' \in Int
              /\ (timedout' \/ (scl' = 0 /\ ~sending'))
  <2>. DEFINE first == count = msgs[i].len /\ "RECV_LEN" \in msgs[i].flags
              valid == length \in 1..BlockMax
              more  == IF first /\ valid THEN length ELSE 0
  <2>1. more \in Nat /\ length \in Nat
    BY HelpersAssumption
  <2>2. i \in DOMAIN msgs /\ msgs[i] \in Message
    BY DEF I2c!readbytes, BusInv, Transferred, BusTyped
  <2>3. msgs = [msgs EXCEPT ![i].len = @ + 0]
    BY <2>2 DEF Message, BusInv, BusTyped
  <2>4. msgs' = [msgs EXCEPT ![i].len = @ + more]
    BY <2>3 DEF I2c!readbytes, I2c!Flag
  <2>5. /\ xfer_at = "bytes" /\ count > 0 /\ "RD" \in msgs[i].flags
        /\ UNCHANGED <<i, tries, stage>>
        /\ broken' = (broken \/ ~(scl = 0)) /\ busy' \in BOOLEAN /\ fresh' = FALSE
        /\ stretched' \in BOOLEAN /\ (stretched' => timedout')
        /\ count' = count - 1 + more /\ bytes' = [bytes EXCEPT ![i] = @ + 1]
    <3>1. I2c!Glitch
      BY DEF I2c!readbytes
    <3>2. stretched' \in BOOLEAN /\ (stretched' => timedout')
      BY DEF I2c!readbytes, I2c!Flag
    <3>. QED
      BY <3>1, <3>2, BusGlitches DEF I2c!readbytes, I2c!Flag, I2c!Asserts, I2c!OneByte
  <2>6. /\ sending' \in BOOLEAN /\ timedout' \in BOOLEAN /\ (timedout => timedout')
    BY DEF I2c!readbytes, I2c!Flag, BusInv, BusTyped
  <2>7. \/ /\ UNCHANGED <<xfer_at, ret>> /\ (sending' => count' # 0)
           /\ (scl' = 0 \/ timedout')
        \/ /\ xfer_at' = "stop" /\ ret' < 0 /\ ret' \in Int
           /\ (timedout' \/ (scl' = 0 /\ ~sending'))
    BY ErrorsAreNegative DEF I2c!readbytes, I2c!Flag, I2c!Bail, I2c!LastByte, BusInv, BusTyped
  <2>. HIDE DEF more
  <2>. QED
    BY <2>1, <2>4, <2>5, <2>6, <2>7
<1>2. i \in DOMAIN msgs /\ msgs[i] \in Message /\ bytes[i] + count = msgs[i].len
  <2>1. i \in DOMAIN msgs /\ bytes[i] + count = msgs[i].len
    BY <1>1 DEF BusInv, Transferred
  <2>. QED
    BY <2>1 DEF BusInv, BusTyped
<1>3. msgs' \in Seq(Message) /\ DOMAIN msgs' = DOMAIN msgs
  <2>1. [msgs[i] EXCEPT !.len = @ + more] \in Message
    BY <1>2 DEF Message
  <2>2. msgs' = [msgs EXCEPT ![i] = [msgs[i] EXCEPT !.len = @ + more]]
    BY <1>1
  <2>. HIDE DEF Message
  <2>. QED
    BY <1>2, <2>1, <2>2 DEF BusInv, BusTyped
<1>4. /\ msgs'[i].flags = msgs[i].flags /\ msgs'[i].len = msgs[i].len + more
      /\ \A k \in DOMAIN msgs : k # i => msgs'[k] = msgs[k]
  BY <1>1, <1>2 DEF BusInv, BusTyped, Message
<1>5. BusTyped'
  <2>1. broken' \in BOOLEAN
    BY Zenon, <1>1 DEF BusInv, BusTyped
  <2>2. /\ i' \in Nat \ {0} /\ tries' \in Nat /\ stage' \in {"address", "again"}
        /\ count' \in Nat /\ ret' \in Int
        /\ xfer_at' \in {"bytes", "stop"}
    BY <1>1 DEF BusInv, BusTyped
  <2>3. bytes' \in [DOMAIN msgs' -> Nat]
    BY <1>1, <1>2, <1>3 DEF BusInv, BusTyped
  <2>. QED
    BY <1>1, <1>3, <2>1, <2>2, <2>3 DEF BusTyped
<1>6. Transferred'
  <2>1. /\ bytes'[i] = bytes[i] + 1
        /\ \A k \in DOMAIN msgs : k # i => bytes'[k] = bytes[k]
    BY <1>1, <1>2 DEF BusInv, BusTyped
  <2>2. bytes'[i] + count' = msgs'[i].len
    BY <1>1, <1>2, <1>4, <2>1 DEF BusInv, BusTyped, Message
  <2>3. \A k \in DOMAIN msgs : k < i => bytes'[k] = msgs'[k].len
    BY <1>2, <1>4, <2>1 DEF BusInv, BusTyped, Transferred, Complete
  <2>4. \A k \in DOMAIN msgs : k > i => bytes'[k] = 0
    BY <1>2, <2>1 DEF BusInv, BusTyped, Transferred
  <2>5. i' = i /\ xfer_at' \in {"bytes", "stop"} /\ (xfer_at' = "stop" => ret' < 0)
    BY <1>1
  <2>. QED
    BY <1>2, <1>3, <2>2, <2>3, <2>4, <2>5 DEF Transferred, Addressing, Complete
<1>7. timedout' \/ Levels'
  <2>1. i' = i /\ count' \in Nat /\ "RD" \in msgs'[i].flags
    BY <1>1, <1>4, <1>5 DEF BusTyped
  <2>2. count' # 0 => count' > 0
    BY <2>1
  <2>. QED
    BY <1>1, <2>1, <2>2 DEF Levels, BusInv, BusTyped
<1>8. broken' => timedout'
  BY <1>1 DEF BusInv, BusTyped, Levels
<1>. QED
  BY <1>1, <1>5, <1>6, <1>7, <1>8 DEF BusInv

LEMMA BusStep ==
  ASSUME BusInv, I2c!I2cNext
  PROVE  BusInv'
<1>1. CASE I2c!ReadTimesOut
  <2>1. /\ xfer_at' = "stop" /\ ret' < 0 /\ ret' \in Int /\ timedout' = TRUE
        /\ broken' \in BOOLEAN /\ xfer_at = "bytes" /\ stretched' = TRUE /\ fresh' = FALSE
        /\ busy' \in BOOLEAN
        /\ UNCHANGED <<msgs, i, tries, stage, count, sending, bytes>>
    BY <1>1, ErrorsAreNegative, BusGlitches DEF I2c!ReadTimesOut, I2c!Bail, I2c!Asserts, BusInv, BusTyped
  <2>2. BusTyped' /\ Transferred'
    BY <2>1 DEF BusInv, BusTyped, Transferred, Addressing, Complete, Addresses
  <2>. QED
    BY <2>1, <2>2 DEF BusInv
<1>. QED
  BY <1>1, BusMovesOn, BusConditions, BusAddresses, BusSends, BusReads DEF I2c!I2cNext

LEMMA BusRests ==
  ASSUME BusInv, UNCHANGED i2cvars
  PROVE  BusInv'
BY DEF BusInv, BusTyped, Transferred, Levels, Addressing, Complete, i2cvars

-----------------------------------------------------------------------------
(***************************************************************************)
(* The device addresses.  What a call does is seen one address at a time:  *)
(* the users of an address in a list, its global user and its mark.        *)
(***************************************************************************)
AddrRow == [addr : Addrs, users : Nat \ {0}, gusers : {0, 1}, synced : BOOLEAN]

\* A list has one entry for an address.
AddrList(list) ==
  /\ list \in Seq(AddrRow)
  /\ \A j, k \in DOMAIN list : list[j].addr = list[k].addr => j = k

Global(list, a) == \E k \in Addr!At(list, a) : list[k].gusers = 1
Mark(list, a)   == \E k \in Addr!At(list, a) : list[k].synced

SameRow(new, list, a) ==
  /\ Addr!UsersOf(new, a) = Addr!UsersOf(list, a)
  /\ Global(new, a) <=> Global(list, a)
  /\ Mark(new, a) <=> Mark(list, a)

LEMMA AddrRows ==
  ASSUME NEW list, AddrList(list), NEW k \in DOMAIN list
  PROVE  /\ list[k] \in AddrRow /\ DOMAIN list = 1..Len(list) /\ Len(list) \in Nat
         /\ list[k].addr \in Addrs /\ list[k].users \in Nat \ {0}
         /\ list[k].gusers \in {0, 1} /\ list[k].synced \in BOOLEAN
<1>1. list[k] \in AddrRow /\ DOMAIN list = 1..Len(list) /\ Len(list) \in Nat
  BY DEF AddrList
<1>. QED
  BY <1>1 DEF AddrRow

\* The row of an address is its only entry.
LEMMA RowAt ==
  ASSUME NEW list, AddrList(list), NEW k \in DOMAIN list
  PROVE  /\ Addr!At(list, list[k].addr) = {k}
         /\ Addr!Has(list, list[k].addr)
         /\ Addr!UsersOf(list, list[k].addr) = list[k].users
         /\ Global(list, list[k].addr) <=> list[k].gusers = 1
         /\ Mark(list, list[k].addr) <=> list[k].synced
<1>1. Addr!At(list, list[k].addr) = {k}
  BY AddrRows DEF Addr!At, AddrList
<1>. QED
  BY <1>1 DEF Addr!Has, Addr!UsersOf, Global, Mark

LEMMA RowOf ==
  ASSUME NEW list, AddrList(list), NEW a
  PROVE  /\ Addr!UsersOf(list, a) \in Nat
         /\ Addr!Has(list, a) <=> Addr!UsersOf(list, a) > 0
         /\ Addr!Has(list, a) <=> \E k \in DOMAIN list : list[k].addr = a
         /\ ~Addr!Has(list, a) => Addr!UsersOf(list, a) = 0 /\ ~Global(list, a) /\ ~Mark(list, a)
<1>1. Addr!Has(list, a) <=> \E k \in DOMAIN list : list[k].addr = a
  BY DEF Addr!Has, Addr!At, AddrList
<1>2. CASE Addr!Has(list, a)
  <2>1. PICK k \in DOMAIN list : list[k].addr = a
    BY <1>1, <1>2
  <2>2. Addr!UsersOf(list, a) \in Nat \ {0}
    BY <2>1, RowAt, AddrRows
  <2>. QED
    BY <1>1, <1>2, <2>2
<1>3. CASE ~Addr!Has(list, a)
  BY <1>1, <1>3 DEF Addr!Has, Addr!UsersOf, Global, Mark
<1>. QED
  BY <1>2, <1>3

\* Lists with the same entries have the same rows.
LEMMA SameEntries ==
  ASSUME NEW list, AddrList(list), NEW new, AddrList(new), NEW a,
         \A k \in DOMAIN list : list[k].addr = a => \E j \in DOMAIN new : new[j] = list[k],
         \A j \in DOMAIN new : new[j].addr = a => \E k \in DOMAIN list : new[j] = list[k]
  PROVE  SameRow(new, list, a)
<1>1. CASE Addr!Has(list, a)
  <2>1. PICK k \in DOMAIN list : list[k].addr = a
    BY <1>1, RowOf
  <2>2. PICK j \in DOMAIN new : new[j] = list[k]
    BY <2>1
  <2>. QED
    BY <2>1, <2>2, RowAt DEF SameRow
<1>2. CASE ~Addr!Has(list, a)
  <2>1. ~Addr!Has(new, a)
    BY <1>2, RowOf
  <2>. QED
    BY <1>2, <2>1, RowOf DEF SameRow
<1>. QED
  BY <1>1, <1>2

\* A list in which only the row at k differs, and is of the same address.
LEMMA RowChanged ==
  ASSUME NEW list, AddrList(list), NEW k \in DOMAIN list,
         NEW new \in Seq(AddrRow), DOMAIN new = DOMAIN list,
         new[k].addr = list[k].addr,
         \A j \in DOMAIN list : j # k => new[j] = list[j]
  PROVE  /\ AddrList(new)
         /\ \A b : b # list[k].addr => SameRow(new, list, b)
         /\ Addr!UsersOf(new, list[k].addr) = new[k].users
         /\ Global(new, list[k].addr) <=> new[k].gusers = 1
         /\ Mark(new, list[k].addr) <=> new[k].synced
<1>1. AddrList(new)
  <2>1. \A j \in DOMAIN list : new[j].addr = list[j].addr
    OBVIOUS
  <2>. QED
    BY <2>1 DEF AddrList
<1>2. ASSUME NEW b, b # list[k].addr PROVE SameRow(new, list, b)
  BY <1>1, <1>2, SameEntries
<1>3. k \in DOMAIN new
  OBVIOUS
<1>4. /\ Addr!UsersOf(new, new[k].addr) = new[k].users
      /\ Global(new, new[k].addr) <=> new[k].gusers = 1
      /\ Mark(new, new[k].addr) <=> new[k].synced
  BY <1>1, <1>3, RowAt
<1>. QED
  BY <1>1, <1>2, <1>4

\* A user is added.
LEMMA AddRow ==
  ASSUME NEW list, AddrList(list), NEW a \in Addrs, NEW glbl \in BOOLEAN,
         NEW new, new = Addr!__dev_addr_add(list, a, glbl)
  PROVE  /\ AddrList(new)
         /\ \A b : b # a => SameRow(new, list, b)
         /\ glbl /\ Global(list, a) => new = list
         /\ ~(glbl /\ Global(list, a)) =>
              Addr!UsersOf(new, a) = Addr!UsersOf(list, a) + 1
         /\ Global(new, a) <=> Global(list, a) \/ glbl
         /\ Mark(new, a) <=> Mark(list, a)
<1>1. CASE Addr!Has(list, a)
  <2>1. PICK k \in DOMAIN list : list[k].addr = a
    BY <1>1, RowOf
  <2>2. /\ Addr!At(list, a) = {k} /\ Addr!UsersOf(list, a) = list[k].users
        /\ Global(list, a) <=> list[k].gusers = 1
        /\ Mark(list, a) <=> list[k].synced
    BY <2>1, RowAt
  <2>3. (CHOOSE j \in Addr!At(list, a) : TRUE) = k
    BY <2>2
  <2>4. CASE glbl /\ list[k].gusers = 1
    BY <1>1, <2>2, <2>3, <2>4 DEF Addr!__dev_addr_add, SameRow
  <2>5. CASE ~(glbl /\ list[k].gusers = 1)
    <3>. DEFINE u == list[k].users + 1
                g == IF glbl THEN 1 ELSE list[k].gusers
                row == [list[k] EXCEPT !.users = u, !.gusers = g]
    <3>1. list[k] \in AddrRow /\ u \in Nat \ {0} /\ g \in {0, 1}
      BY AddrRows
    <3>2. new = [list EXCEPT ![k].users = @ + 1, ![k].gusers = IF glbl THEN 1 ELSE @]
      <4>1. new = Addr!__dev_addr_add(list, a, glbl)
        OBVIOUS
      <4>. QED
        BY <1>1, <2>2, <2>3, <2>5, <4>1 DEF Addr!__dev_addr_add
    <3>3. list \in Seq(AddrRow) /\ k \in 1..Len(list)
      BY DEF AddrList
    <3>4. new = [list EXCEPT ![k] = row]
      BY <3>1, <3>2, <3>3 DEF AddrRow
    <3>5. row \in AddrRow /\ row.addr = list[k].addr /\ row.users = u /\ row.gusers = g
          /\ row.synced = list[k].synced
      <4>. DEFINE one == [list[k] EXCEPT !.users = u]
      <4>1. row = [one EXCEPT !.gusers = g]
        OBVIOUS
      <4>. HIDE DEF u, g, row
      <4>2. /\ one \in AddrRow /\ one.addr = list[k].addr /\ one.users = u
            /\ one.gusers = list[k].gusers /\ one.synced = list[k].synced
        BY <3>1 DEF AddrRow
      <4>. HIDE DEF one
      <4>. QED
        BY <3>1, <4>1, <4>2 DEF AddrRow
    <3>6. row.users = list[k].users + 1 /\ row.synced = list[k].synced
          /\ row.gusers = IF glbl THEN 1 ELSE list[k].gusers
      BY <3>5
    <3>. HIDE DEF row
    <3>7. /\ new \in Seq(AddrRow) /\ DOMAIN new = DOMAIN list /\ new[k] = row
          /\ \A j \in DOMAIN list : j # k => new[j] = list[j]
      BY <3>3, <3>4, <3>5
    <3>8. /\ AddrList(new)
          /\ \A b : b # list[k].addr => SameRow(new, list, b)
          /\ Addr!UsersOf(new, list[k].addr) = row.users
          /\ Global(new, list[k].addr) <=> row.gusers = 1
          /\ Mark(new, list[k].addr) <=> row.synced
      BY <3>5, <3>7, RowChanged
    <3>. QED
      BY <2>1, <2>2, <2>5, <3>6, <3>8
  <2>. QED
    BY <2>4, <2>5
<1>2. CASE ~Addr!Has(list, a)
  <2>. DEFINE row == [addr |-> a, users |-> 1, gusers |-> IF glbl THEN 1 ELSE 0,
                      synced |-> FALSE]
  <2>1. row \in AddrRow /\ row.addr = a /\ row.users = 1 /\ ~row.synced
        /\ row.gusers = (IF glbl THEN 1 ELSE 0)
    BY DEF AddrRow
  <2>2. new = <<row>> \o list
    BY <1>2 DEF Addr!__dev_addr_add
  <2>. HIDE DEF row
  <2>3. /\ new \in Seq(AddrRow) /\ DOMAIN new = 1..Len(list) + 1 /\ new[1] = row
        /\ \A j \in 1..Len(list) : new[j + 1] = list[j]
        /\ \A j \in 1..Len(list) + 1 : j # 1 => j - 1 \in 1..Len(list) /\ new[j] = list[j - 1]
    BY <2>1, <2>2 DEF AddrList
  <2>4. \A j \in DOMAIN list : list[j].addr # a
    BY <1>2, RowOf
  <2>5. AddrList(new)
    <3>. SUFFICES ASSUME NEW j \in DOMAIN new, NEW k \in DOMAIN new, new[j].addr = new[k].addr
                  PROVE  j = k
      BY <2>3 DEF AddrList
    <3>1. \A m \in 1..Len(list) + 1 : m # 1 => m - 1 \in DOMAIN list /\ new[m].addr # a
      BY <2>3, <2>4 DEF AddrList
    <3>2. CASE j = 1 \/ k = 1
      BY <2>1, <2>3, <3>1, <3>2
    <3>3. CASE j # 1 /\ k # 1
      <4>1. list[j - 1].addr = list[k - 1].addr /\ j - 1 \in DOMAIN list /\ k - 1 \in DOMAIN list
        BY <2>3, <3>1, <3>3
      <4>2. j - 1 = k - 1
        BY <4>1 DEF AddrList
      <4>. QED
        BY <2>3, <4>2
    <3>. QED
      BY <3>2, <3>3
  <2>6. ASSUME NEW b, b # a PROVE SameRow(new, list, b)
    <3>1. \A k \in DOMAIN list : \E j \in DOMAIN new : new[j] = list[k]
      <4>. SUFFICES ASSUME NEW k \in DOMAIN list PROVE k + 1 \in DOMAIN new /\ new[k + 1] = list[k]
        OBVIOUS
      <4>. QED
        BY <2>3 DEF AddrList
    <3>2. \A j \in DOMAIN new : new[j].addr = b => \E k \in DOMAIN list : new[j] = list[k]
      BY <2>1, <2>3, <2>6 DEF AddrList
    <3>. QED
      BY <2>5, <3>1, <3>2, SameEntries
  <2>7. /\ Addr!UsersOf(new, a) = 1 /\ (Global(new, a) <=> glbl) /\ ~Mark(new, a)
    <3>1. 1 \in DOMAIN new /\ new[1] = row
      BY <2>3 DEF AddrList
    <3>. QED
      BY <2>1, <2>5, <3>1, RowAt
  <2>. QED
    BY <1>2, <2>5, <2>6, <2>7, RowOf
<1>. QED
  BY <1>1, <1>2

\* The row at k is removed.
LEMMA RowRemoved ==
  ASSUME NEW list, AddrList(list), NEW k \in DOMAIN list,
         NEW new, new = Addr!Removed(list, k)
  PROVE  /\ AddrList(new)
         /\ \A b : b # list[k].addr => SameRow(new, list, b)
         /\ ~Addr!Has(new, list[k].addr)
<1>1. list \in Seq(AddrRow) /\ k \in 1..Len(list) /\ Len(list) \in Nat
  BY DEF AddrList
<1>2. /\ new \in Seq(AddrRow) /\ DOMAIN new = 1..Len(list) - 1
      /\ \A j \in 1..Len(list) - 1 : new[j] = IF j < k THEN list[j] ELSE list[j + 1]
  <2>. DEFINE front == SubSeq(list, 1, k - 1)
              back  == SubSeq(list, k + 1, Len(list))
  <2>1. front \in Seq(AddrRow) /\ Len(front) = k - 1 /\ \A j \in 1..k - 1 : front[j] = list[j]
    BY <1>1
  <2>2. back \in Seq(AddrRow) /\ Len(back) = Len(list) - k
        /\ \A j \in 1..Len(list) - k : back[j] = list[k + j]
    BY <1>1
  <2>3. new = front \o back
    BY DEF Addr!Removed
  <2>. HIDE DEF front, back
  <2>4. new \in Seq(AddrRow) /\ Len(new) = Len(list) - 1
        /\ \A j \in 1..Len(list) - 1 : new[j] = IF j <= k - 1 THEN front[j] ELSE back[j - (k - 1)]
    <3>1. /\ new \in Seq(AddrRow) /\ Len(new) = Len(front) + Len(back)
          /\ \A j \in 1..Len(front) + Len(back) :
               new[j] = IF j <= Len(front) THEN front[j] ELSE back[j - Len(front)]
      BY <2>1, <2>2, <2>3, ConcatProperties
    <3>2. Len(front) + Len(back) = Len(list) - 1
      BY <1>1, <2>1, <2>2
    <3>. QED
      BY <2>1, <3>1, <3>2
  <2>5. \A j \in 1..Len(list) - 1 : new[j] = IF j < k THEN list[j] ELSE list[j + 1]
    <3>. SUFFICES ASSUME NEW j \in 1..Len(list) - 1
                  PROVE  new[j] = IF j < k THEN list[j] ELSE list[j + 1]
      OBVIOUS
    <3>1. CASE j < k
      BY <1>1, <2>1, <2>4, <3>1
    <3>2. CASE ~(j < k)
      <4>1. j - (k - 1) \in 1..Len(list) - k /\ k + (j - (k - 1)) = j + 1 /\ ~(j <= k - 1)
        BY <1>1, <3>2
      <4>. QED
        BY <2>2, <2>4, <3>2, <4>1
    <3>. QED
      BY <3>1, <3>2
  <2>. QED
    BY <2>4, <2>5
<1>3. \A j \in 1..Len(list) - 1 : \E m \in DOMAIN list :
        m = (IF j < k THEN j ELSE j + 1) /\ m # k /\ new[j] = list[m]
  BY <1>1, <1>2
<1>4. AddrList(new)
  <2>. SUFFICES ASSUME NEW j \in DOMAIN new, NEW m \in DOMAIN new, new[j].addr = new[m].addr
                PROVE  j = m
    BY <1>2 DEF AddrList
  <2>1. (IF j < k THEN j ELSE j + 1) = (IF m < k THEN m ELSE m + 1)
    BY <1>2, <1>3 DEF AddrList
  <2>. QED
    BY <1>1, <1>2, <2>1
<1>5. ASSUME NEW b, b # list[k].addr PROVE SameRow(new, list, b)
  <2>1. ASSUME NEW m \in DOMAIN list, m # k PROVE \E j \in DOMAIN new : new[j] = list[m]
    <3>1. CASE m < k
      BY <1>1, <1>2, <2>1, <3>1
    <3>2. CASE m > k
      <4>1. m - 1 \in DOMAIN new /\ new[m - 1] = list[m]
        BY <1>1, <1>2, <2>1, <3>2
      <4>. QED
        BY <4>1
    <3>. QED
      BY <1>1, <2>1, <3>1, <3>2
  <2>2. \A j \in DOMAIN new : \E m \in DOMAIN list : new[j] = list[m]
    BY <1>2, <1>3
  <2>. QED
    BY <1>4, <1>5, <2>1, <2>2, SameEntries
<1>6. ~Addr!Has(new, list[k].addr)
  <2>1. \A j \in DOMAIN new : new[j].addr # list[k].addr
    BY <1>2, <1>3 DEF AddrList
  <2>. QED
    BY <1>4, <2>1, RowOf
<1>. QED
  BY <1>4, <1>5, <1>6

\* A user leaves.
LEMMA DeleteRow ==
  ASSUME NEW list, AddrList(list), NEW a, NEW glbl \in BOOLEAN,
         Addr!Has(list, a), glbl => Global(list, a),
         NEW new, new = Addr!__dev_addr_delete(list, a, glbl)
  PROVE  /\ AddrList(new)
         /\ \A b : b # a => SameRow(new, list, b)
         /\ Addr!UsersOf(new, a) = Addr!UsersOf(list, a) - 1
         /\ Global(new, a) => Global(list, a) /\ ~glbl
         /\ Mark(new, a) <=> Mark(list, a) /\ Addr!UsersOf(list, a) # 1
<1>1. PICK k \in DOMAIN list : list[k].addr = a
  BY RowOf
<1>2. /\ Addr!At(list, a) = {k} /\ Addr!UsersOf(list, a) = list[k].users
      /\ Global(list, a) <=> list[k].gusers = 1
      /\ Mark(list, a) <=> list[k].synced
  BY <1>1, RowAt
<1>3. (CHOOSE j \in Addr!At(list, a) : TRUE) = k
  BY <1>2
<1>4. ~(glbl /\ list[k].gusers = 0)
  BY <1>2
<1>5. CASE list[k].users = 1
  <2>1. new = Addr!Removed(list, k)
    BY <1>3, <1>4, <1>5 DEF Addr!__dev_addr_delete
  <2>2. /\ AddrList(new) /\ ~Addr!Has(new, a)
        /\ \A b : b # a => SameRow(new, list, b)
    BY <1>1, <2>1, RowRemoved
  <2>. QED
    BY <1>2, <1>5, <2>2, RowOf
<1>6. CASE list[k].users # 1
  <2>. DEFINE u == list[k].users - 1
              g == IF glbl THEN 0 ELSE list[k].gusers
              row == [list[k] EXCEPT !.users = u, !.gusers = g]
  <2>1. list[k] \in AddrRow /\ u \in Nat \ {0} /\ g \in {0, 1}
    BY <1>6, AddrRows
  <2>2. new = [list EXCEPT ![k].users = @ - 1, ![k].gusers = IF glbl THEN 0 ELSE @]
    <3>1. new = Addr!__dev_addr_delete(list, a, glbl)
      OBVIOUS
    <3>. QED
      BY <1>2, <1>3, <1>4, <1>6, <3>1 DEF Addr!__dev_addr_delete
  <2>3. list \in Seq(AddrRow) /\ k \in 1..Len(list)
    BY DEF AddrList
  <2>4. new = [list EXCEPT ![k] = row]
    BY <2>1, <2>2, <2>3 DEF AddrRow
  <2>5. row \in AddrRow /\ row.addr = list[k].addr /\ row.users = u /\ row.gusers = g
        /\ row.synced = list[k].synced
    <3>. DEFINE one == [list[k] EXCEPT !.users = u]
    <3>1. row = [one EXCEPT !.gusers = g]
      OBVIOUS
    <3>. HIDE DEF u, g, row
    <3>2. /\ one \in AddrRow /\ one.addr = list[k].addr /\ one.users = u
          /\ one.gusers = list[k].gusers /\ one.synced = list[k].synced
      BY <2>1 DEF AddrRow
    <3>. HIDE DEF one
    <3>. QED
      BY <2>1, <3>1, <3>2 DEF AddrRow
  <2>6. row.users = list[k].users - 1 /\ row.synced = list[k].synced
        /\ row.gusers = IF glbl THEN 0 ELSE list[k].gusers
    BY <2>5
  <2>. HIDE DEF row
  <2>7. /\ new \in Seq(AddrRow) /\ DOMAIN new = DOMAIN list /\ new[k] = row
        /\ \A j \in DOMAIN list : j # k => new[j] = list[j]
    BY <2>3, <2>4, <2>5
  <2>8. /\ AddrList(new)
        /\ \A b : b # list[k].addr => SameRow(new, list, b)
        /\ Addr!UsersOf(new, list[k].addr) = row.users
        /\ Global(new, list[k].addr) <=> row.gusers = 1
        /\ Mark(new, list[k].addr) <=> row.synced
    BY <2>5, <2>7, RowChanged
  <2>. QED
    BY <1>1, <1>2, <1>6, <2>6, <2>8
<1>. QED
  BY <1>5, <1>6

\* An address is marked, or its mark is removed.
LEMMA MarkRow ==
  ASSUME NEW list, AddrList(list), NEW a, NEW mark \in BOOLEAN,
         NEW new, new = Addr!Marked(list, a, mark)
  PROVE  /\ AddrList(new)
         /\ \A b : b # a => SameRow(new, list, b)
         /\ Addr!UsersOf(new, a) = Addr!UsersOf(list, a)
         /\ Global(new, a) <=> Global(list, a)
         /\ Mark(new, a) <=> mark /\ Addr!Has(list, a)
<1>1. CASE Addr!Has(list, a)
  <2>1. PICK k \in DOMAIN list : list[k].addr = a
    BY <1>1, RowOf
  <2>. DEFINE row == [list[k] EXCEPT !.synced = mark]
  <2>2. list[k] \in AddrRow
    BY AddrRows
  <2>3. row \in AddrRow /\ row.addr = list[k].addr /\ row.users = list[k].users
        /\ row.gusers = list[k].gusers /\ row.synced = mark
    BY <2>1, <2>2 DEF AddrRow
  <2>4. new = [list EXCEPT ![k] = row]
    <3>1. \A j \in DOMAIN list : j # k => list[j].addr # a
      BY <2>1 DEF AddrList
    <3>2. DOMAIN new = DOMAIN list /\ new[k] = row
          /\ \A j \in DOMAIN list : j # k => new[j] = list[j]
      BY <2>1, <3>1 DEF Addr!Marked
    <3>3. new = [j \in DOMAIN list |-> IF j = k THEN row ELSE list[j]]
      BY <2>1, <3>1 DEF Addr!Marked
    <3>. QED
      BY <3>3 DEF AddrList
  <2>. HIDE DEF row
  <2>5. list \in Seq(AddrRow) /\ k \in 1..Len(list)
    BY DEF AddrList
  <2>6. /\ new \in Seq(AddrRow) /\ DOMAIN new = DOMAIN list /\ new[k] = row
        /\ \A j \in DOMAIN list : j # k => new[j] = list[j]
    BY <2>3, <2>4, <2>5
  <2>7. /\ AddrList(new)
        /\ \A b : b # list[k].addr => SameRow(new, list, b)
        /\ Addr!UsersOf(new, list[k].addr) = row.users
        /\ Global(new, list[k].addr) <=> row.gusers = 1
        /\ Mark(new, list[k].addr) <=> row.synced
    BY <2>3, <2>6, RowChanged
  <2>. QED
    BY <2>1, <2>3, <2>7, RowAt
<1>2. CASE ~Addr!Has(list, a)
  <2>1. \A k \in DOMAIN list : list[k].addr # a
    BY <1>2, RowOf
  <2>2. new = [k \in DOMAIN list |-> list[k]]
    BY <2>1 DEF Addr!Marked
  <2>3. new = list
    BY <2>2 DEF AddrList
  <2>. QED
    BY <1>2, <2>3, RowOf DEF SameRow
<1>. QED
  BY <1>1, <1>2

-----------------------------------------------------------------------------
(***************************************************************************)
(* One round of a walk changes the rows of its address only, and a sync    *)
(* has dealt with it then.                                                 *)
(***************************************************************************)
AddrTyped ==
  /\ version \in {"2.6.23", "2.6.32"}
  /\ mine \in [Addrs -> Nat] /\ below \in [Addrs -> Nat]
  /\ AddrList(from) /\ AddrList(to)

\* The two lists in the course of a walk.
Lists(s) == DOMAIN s = {"from", "to"} /\ AddrList(s.from) /\ AddrList(s.to)

\* What was pushed is in both lists; with marks just that is marked.
Balanced(s, a) ==
  /\ Addr!UsersOf(s.from, a) - mine[a] = Addr!UsersOf(s.to, a) - below[a]
  /\ Addr!UsersOf(s.to, a) >= below[a]
  /\ Global(s.from, a) => mine[a] > 0
  /\ version = "2.6.32" =>
       Addr!UsersOf(s.from, a) = mine[a] + (IF Mark(s.from, a) THEN 1 ELSE 0)

\* A round takes for pushed what nobody pushed.
Mistaken(s, a) == Addr!Synced(s, a) /\ Addr!UsersOf(s.to, a) <= below[a]

\* An address after its round of a sync.
Pushed(s, a) ==
  /\ mine[a] > 0 => Addr!Has(s.to, a)
  /\ version = "2.6.32" /\ Addr!Has(s.from, a) => Mark(s.from, a) /\ mine[a] > 0

LEMMA WhatIsSynced ==
  ASSUME AddrTyped, NEW s, Lists(s), NEW a \in Addrs, Balanced(s, a)
  PROVE  /\ Addr!Synced(s, a) => Addr!Has(s.to, a)
         /\ version = "2.6.32" => (Addr!Synced(s, a) <=> Mark(s.from, a))
<1>. mine[a] \in Nat /\ below[a] \in Nat
  BY DEF AddrTyped
<1>1. CASE version = "2.6.32"
  <2>1. Addr!Synced(s, a) <=> Mark(s.from, a)
    BY <1>1 DEF Addr!Synced, Mark
  <2>2. Mark(s.from, a) => Addr!UsersOf(s.to, a) > 0
    BY <1>1, RowOf DEF Balanced, Lists
  <2>. QED
    BY <2>1, <2>2, RowOf DEF Lists
<1>2. CASE version # "2.6.32"
  <2>1. SUFFICES ASSUME Addr!Synced(s, a) PROVE Addr!Has(s.to, a)
    BY <1>2
  <2>2. s.to # << >> /\ Head(s.to).addr = a
    BY <1>2, <2>1 DEF Addr!Synced
  <2>3. 1 \in DOMAIN s.to /\ s.to[1].addr = a
    BY <2>2 DEF Lists, AddrList
  <2>. QED
    BY <2>3, RowOf DEF Lists
<1>. QED
  BY <1>1, <1>2

\* What is marked was pushed.
LEMMA MarksAreRight ==
  ASSUME AddrTyped, NEW s, Lists(s), NEW a \in Addrs, Balanced(s, a), version = "2.6.32"
  PROVE  ~Mistaken(s, a)
<1>1. mine[a] \in Nat /\ below[a] \in Nat
  BY DEF AddrTyped
<1>2. Addr!UsersOf(s.from, a) \in Nat /\ Addr!UsersOf(s.to, a) \in Nat
  BY RowOf DEF Lists
<1>3. Addr!Synced(s, a) => Addr!UsersOf(s.from, a) = mine[a] + 1
  BY WhatIsSynced DEF Balanced
<1>4. Addr!UsersOf(s.from, a) - mine[a] = Addr!UsersOf(s.to, a) - below[a]
  BY DEF Balanced
<1>. QED
  BY <1>1, <1>2, <1>3, <1>4 DEF Mistaken

\* The address is deleted from both lists.
LEMMA BothDeleted ==
  ASSUME AddrTyped, NEW s, Lists(s), NEW a \in Addrs, Balanced(s, a),
         Addr!Has(s.from, a), Addr!Has(s.to, a),
         NEW new, new = Addr!DeletedFromBoth(s, a)
  PROVE  /\ Lists(new)
         /\ \A b : b # a => SameRow(new.from, s.from, b) /\ SameRow(new.to, s.to, b)
         /\ Addr!UsersOf(new.from, a) = Addr!UsersOf(s.from, a) - 1
         /\ Addr!UsersOf(new.to, a) = Addr!UsersOf(s.to, a) - 1
         /\ Global(new.from, a) => Global(s.from, a)
         /\ Mark(new.from, a) <=> Mark(s.from, a) /\ Addr!UsersOf(s.from, a) # 1
<1>1. /\ DOMAIN new = {"from", "to"}
      /\ new.from = Addr!__dev_addr_delete(s.from, a, FALSE)
      /\ new.to = Addr!__dev_addr_delete(s.to, a, FALSE)
  BY DEF Addr!DeletedFromBoth, Lists
<1>2. /\ AddrList(new.from)
      /\ \A b : b # a => SameRow(new.from, s.from, b)
      /\ Addr!UsersOf(new.from, a) = Addr!UsersOf(s.from, a) - 1
      /\ Global(new.from, a) => Global(s.from, a)
      /\ Mark(new.from, a) <=> Mark(s.from, a) /\ Addr!UsersOf(s.from, a) # 1
  BY <1>1, DeleteRow DEF Lists
<1>3. /\ AddrList(new.to)
      /\ \A b : b # a => SameRow(new.to, s.to, b)
      /\ Addr!UsersOf(new.to, a) = Addr!UsersOf(s.to, a) - 1
  BY <1>1, DeleteRow DEF Lists
<1>. QED
  BY <1>1, <1>2, <1>3 DEF Lists

\* A round that pushes the address.
LEMMA RoundPushes ==
  ASSUME AddrTyped, NEW s, Lists(s), NEW a \in Addrs, Balanced(s, a),
         Addr!Has(s.from, a), ~Addr!Synced(s, a),
         NEW new, new = Addr!SyncOne(s, a)
  PROVE  /\ Lists(new) /\ Balanced(new, a) /\ Pushed(new, a)
         /\ \A b : b # a => SameRow(new.from, s.from, b) /\ SameRow(new.to, s.to, b)
<1>. DEFINE marked == Addr!Marked(s.from, a, version = "2.6.32")
<1>. mine[a] \in Nat /\ below[a] \in Nat
  BY DEF AddrTyped
<1>1. /\ DOMAIN new = {"from", "to"}
      /\ new.from = Addr!__dev_addr_add(marked, a, FALSE)
      /\ new.to = Addr!__dev_addr_add(s.to, a, FALSE)
  BY DEF Addr!SyncOne, Lists
<1>2. /\ AddrList(marked)
      /\ \A b : b # a => SameRow(marked, s.from, b)
      /\ Addr!UsersOf(marked, a) = Addr!UsersOf(s.from, a)
      /\ Global(marked, a) <=> Global(s.from, a)
      /\ Mark(marked, a) <=> version = "2.6.32"
  <2>. DEFINE m == version = "2.6.32"
  <2>1. m \in BOOLEAN /\ marked = Addr!Marked(s.from, a, m) /\ AddrList(s.from)
    BY DEF Lists
  <2>. HIDE DEF marked
  <2>2. /\ AddrList(marked)
        /\ \A b : b # a => SameRow(marked, s.from, b)
        /\ Addr!UsersOf(marked, a) = Addr!UsersOf(s.from, a)
        /\ Global(marked, a) <=> Global(s.from, a)
        /\ Mark(marked, a) <=> m
    <3>. HIDE DEF m
    <3>. QED
      BY <2>1, MarkRow
  <2>. QED
    BY <2>2
<1>. HIDE DEF marked
<1>3. /\ AddrList(new.from)
      /\ \A b : b # a => SameRow(new.from, marked, b)
      /\ Addr!UsersOf(new.from, a) = Addr!UsersOf(marked, a) + 1
      /\ Global(new.from, a) <=> Global(marked, a)
      /\ Mark(new.from, a) <=> Mark(marked, a)
  BY ZenonT(40), <1>1, <1>2, AddRow
<1>4. /\ AddrList(new.to)
      /\ \A b : b # a => SameRow(new.to, s.to, b)
      /\ Addr!UsersOf(new.to, a) = Addr!UsersOf(s.to, a) + 1
  BY <1>1, AddRow DEF Lists
<1>5. /\ Addr!UsersOf(s.from, a) \in Nat /\ Addr!UsersOf(s.to, a) \in Nat
      /\ Addr!UsersOf(s.from, a) > 0 /\ Addr!Has(new.to, a)
  BY <1>4, RowOf DEF Lists
<1>6. version = "2.6.32" => ~Mark(s.from, a)
  BY WhatIsSynced
<1>7. Lists(new)
  BY <1>1, <1>3, <1>4 DEF Lists
<1>8. Balanced(new, a)
  BY <1>2, <1>3, <1>4, <1>5, <1>6 DEF Balanced
<1>9. Pushed(new, a)
  BY <1>2, <1>3, <1>5, <1>6 DEF Balanced, Pushed
<1>10. ASSUME NEW b, b # a PROVE SameRow(new.from, s.from, b) /\ SameRow(new.to, s.to, b)
  BY <1>2, <1>3, <1>4, <1>10 DEF SameRow
<1>. QED
  BY <1>7, <1>8, <1>9, <1>10

LEMMA RoundKeeps ==
  ASSUME AddrTyped, NEW push \in BOOLEAN, NEW s, Lists(s), NEW a \in Addrs, Balanced(s, a),
         Addr!Has(s.from, a), ~Mistaken(s, a), NEW new, new = Addr!Round(push, s, a)
  PROVE  /\ Lists(new) /\ Balanced(new, a) /\ (push => Pushed(new, a))
         /\ \A b : b # a => SameRow(new.from, s.from, b) /\ SameRow(new.to, s.to, b)
<1>. mine[a] \in Nat /\ below[a] \in Nat /\ version \in {"2.6.23", "2.6.32"}
  BY DEF AddrTyped
<1>1. /\ Addr!Synced(s, a) => Addr!Has(s.to, a)
      /\ version = "2.6.32" => (Addr!Synced(s, a) <=> Mark(s.from, a))
  BY WhatIsSynced
<1>2. /\ Addr!UsersOf(s.from, a) \in Nat /\ Addr!UsersOf(s.to, a) \in Nat
      /\ Addr!UsersOf(s.from, a) > 0
      /\ Addr!Has(s.to, a) => Addr!UsersOf(s.to, a) > 0
  BY RowOf DEF Lists
<1>3. \A b : SameRow(s.from, s.from, b) /\ SameRow(s.to, s.to, b)
  BY DEF SameRow
<1>4. CASE push /\ ~Addr!Synced(s, a)
  BY <1>4, RoundPushes DEF Addr!Round
<1>5. CASE push /\ Addr!Synced(s, a) /\ Addr!UsersOf(s.from, a) # 1
  <2>1. new = s
    BY <1>5 DEF Addr!Round, Addr!SyncOne
  <2>2. Pushed(s, a)
    BY <1>1, <1>2, <1>5 DEF Balanced, Pushed
  <2>. QED
    BY <1>3, <2>1, <2>2
<1>6. CASE push /\ Addr!Synced(s, a) /\ Addr!UsersOf(s.from, a) = 1
  <2>1. new = Addr!DeletedFromBoth(s, a)
    BY <1>6 DEF Addr!Round, Addr!SyncOne
  <2>2. /\ Lists(new)
        /\ \A b : b # a => SameRow(new.from, s.from, b) /\ SameRow(new.to, s.to, b)
        /\ Addr!UsersOf(new.from, a) = Addr!UsersOf(s.from, a) - 1
        /\ Addr!UsersOf(new.to, a) = Addr!UsersOf(s.to, a) - 1
        /\ Global(new.from, a) => Global(s.from, a)
        /\ Mark(new.from, a) <=> Mark(s.from, a) /\ Addr!UsersOf(s.from, a) # 1
    BY <1>1, <1>6, <2>1, BothDeleted
  <2>3. mine[a] = 0
    <3>1. Addr!UsersOf(s.to, a) > below[a]
      BY <1>2, <1>6 DEF Mistaken
    <3>. QED
      BY <1>2, <1>6, <3>1 DEF Balanced
  <2>4. Balanced(new, a)
    <3>. DEFINE F == Addr!UsersOf(s.from, a)
                T == Addr!UsersOf(s.to, a)
    <3>4. F \in Nat /\ T \in Nat /\ F = 1 /\ F - mine[a] = T - below[a] /\ T > below[a]
      BY <1>2, <1>6 DEF Balanced, Mistaken
    <3>5. Addr!UsersOf(new.from, a) = F - 1 /\ Addr!UsersOf(new.to, a) = T - 1
      BY <2>2
    <3>6. ~Mark(new.from, a)
      BY <1>6, <2>2
    <3>. HIDE DEF F, T
    <3>1. Addr!UsersOf(new.from, a) - mine[a] = Addr!UsersOf(new.to, a) - below[a]
      BY <3>4, <3>5
    <3>2. Global(new.from, a) => mine[a] > 0
      BY <1>1, <1>2, <1>6, <2>2, <2>3 DEF Balanced
    <3>3. version = "2.6.32" =>
            Addr!UsersOf(new.from, a) = mine[a] + (IF Mark(new.from, a) THEN 1 ELSE 0)
      BY <2>3, <3>4, <3>5, <3>6
    <3>7. Addr!UsersOf(new.to, a) >= below[a]
      BY <3>4, <3>5
    <3>. QED
      BY <3>1, <3>2, <3>3, <3>7 DEF Balanced
  <2>5. ~Addr!Has(new.from, a)
    <3>1. AddrList(new.from)
      BY <2>2 DEF Lists
    <3>2. Addr!UsersOf(new.from, a) = Addr!UsersOf(s.from, a) - 1
      BY <2>2
    <3>3. Addr!UsersOf(s.from, a) = 1
      BY <1>6
    <3>4. Addr!UsersOf(new.from, a) = 0
      BY <3>2, <3>3
    <3>. QED
      BY <3>1, <3>4, RowOf
  <2>. QED
    BY <2>2, <2>3, <2>4, <2>5 DEF Pushed
<1>7. CASE ~push /\ ~Addr!Synced(s, a)
  BY <1>3, <1>7 DEF Addr!Round, Addr!UnsyncOne
<1>8. CASE ~push /\ Addr!Synced(s, a)
  <2>. DEFINE both == Addr!DeletedFromBoth(s, a)
  <2>1. /\ Lists(both)
        /\ \A b : b # a => SameRow(both.from, s.from, b) /\ SameRow(both.to, s.to, b)
        /\ Addr!UsersOf(both.from, a) = Addr!UsersOf(s.from, a) - 1
        /\ Addr!UsersOf(both.to, a) = Addr!UsersOf(s.to, a) - 1
        /\ Global(both.from, a) => Global(s.from, a)
    BY <1>1, <1>8, BothDeleted
  <2>2. new = [both EXCEPT !.from = Addr!Marked(@, a, FALSE)]
    BY <1>8 DEF Addr!Round, Addr!UnsyncOne
  <2>. HIDE DEF both
  <2>3. /\ DOMAIN new = {"from", "to"} /\ new.to = both.to
        /\ new.from = Addr!Marked(both.from, a, FALSE)
    BY <2>1, <2>2 DEF Lists
  <2>4. /\ AddrList(new.from)
        /\ \A b : b # a => SameRow(new.from, both.from, b)
        /\ Addr!UsersOf(new.from, a) = Addr!UsersOf(both.from, a)
        /\ Global(new.from, a) <=> Global(both.from, a)
        /\ ~Mark(new.from, a)
    BY <2>1, <2>3, MarkRow DEF Lists
  <2>5. Lists(new)
    BY <2>1, <2>3, <2>4 DEF Lists
  <2>6. Balanced(new, a)
    <3>. DEFINE F == Addr!UsersOf(s.from, a)
                T == Addr!UsersOf(s.to, a)
    <3>4. F \in Nat /\ T \in Nat /\ F - mine[a] = T - below[a]
          /\ (version = "2.6.32" => F = mine[a] + 1) /\ T > below[a]
      BY <1>1, <1>2, <1>8 DEF Balanced, Mistaken
    <3>5. Addr!UsersOf(both.from, a) = F - 1 /\ Addr!UsersOf(both.to, a) = T - 1
      BY <2>1
    <3>6. Addr!UsersOf(new.from, a) = F - 1 /\ Addr!UsersOf(new.to, a) = T - 1
      BY <2>3, <2>4, <3>5
    <3>7. ~Mark(new.from, a)
      BY <2>4
    <3>. HIDE DEF F, T
    <3>1. Addr!UsersOf(new.from, a) - mine[a] = Addr!UsersOf(new.to, a) - below[a]
      BY <3>4, <3>6
    <3>2. Global(new.from, a) => mine[a] > 0
      BY <1>1, <1>2, <1>8, <2>1, <2>3, <2>4 DEF Balanced
    <3>3. version = "2.6.32" =>
            Addr!UsersOf(new.from, a) = mine[a] + (IF Mark(new.from, a) THEN 1 ELSE 0)
      BY <3>4, <3>6, <3>7
    <3>8. Addr!UsersOf(new.to, a) >= below[a]
      BY <3>4, <3>6
    <3>. QED
      BY <3>1, <3>2, <3>3, <3>8 DEF Balanced
  <2>7. ASSUME NEW b, b # a PROVE SameRow(new.from, s.from, b) /\ SameRow(new.to, s.to, b)
    BY <2>1, <2>3, <2>4, <2>7 DEF SameRow
  <2>. QED
    BY <1>8, <2>5, <2>6, <2>7
<1>. QED
  BY <1>4, <1>5, <1>6, <1>7, <1>8

-----------------------------------------------------------------------------
(***************************************************************************)
(* A walk.  Its rounds are the values of a recursive function; that it     *)
(* exists, and that each round finds its address as the walk found it, is  *)
(* shown by the least round at which it would not be so.                   *)
(***************************************************************************)
LEMMA WalkEquation ==
  ASSUME AddrList(from), NEW push \in BOOLEAN
  PROVE  Addr!Walked(push) =
           [k \in 0..Len(from) |->
              IF k = 0 THEN [from |-> from, to |-> to]
              ELSE Addr!Round(push, Addr!Walked(push)[k - 1], from[k].addr)]
<1>. DEFINE Solves(f, n) ==
              f = [k \in 0..n |-> IF k = 0 THEN [from |-> from, to |-> to]
                                  ELSE Addr!Round(push, f[k - 1], from[k].addr)]
            unsolved == {n \in 0..Len(from) : ~\E f : Solves(f, n)}
<1>1. Len(from) \in Nat
  BY DEF AddrList
<1>2. unsolved = {}
  <2>1. SUFFICES ASSUME unsolved # {} PROVE FALSE
    OBVIOUS
  <2>. unsolved \in SUBSET Nat
    BY <1>1
  <2>. HIDE DEF unsolved
  <2>2. PICK n \in unsolved : \A m \in unsolved : n <= m
    BY <2>1, LeastNat
  <2>. USE DEF unsolved
  <2>3. n \in 0..Len(from) /\ ~\E f : Solves(f, n)
    BY <2>2
  <2>4. CASE n = 0
    <3>1. Solves([k \in 0..0 |-> [from |-> from, to |-> to]], 0)
      OBVIOUS
    <3>. QED
      BY <2>3, <2>4, <3>1
  <2>5. CASE n # 0
    <3>1. n - 1 \in 0..Len(from) /\ ~(n <= n - 1)
      BY <1>1, <2>3, <2>5
    <3>2. n - 1 \notin unsolved
      <4>. HIDE DEF unsolved
      <4>. QED
        BY <2>2, <3>1
    <3>3. PICK g : Solves(g, n - 1)
      BY <3>1, <3>2
    <3>. DEFINE f == [k \in 0..n |-> IF k = n THEN Addr!Round(push, g[n - 1], from[n].addr)
                                     ELSE g[k]]
    <3>4. \A k \in 0..n : f[k] = IF k = 0 THEN [from |-> from, to |-> to]
                                 ELSE Addr!Round(push, f[k - 1], from[k].addr)
      BY <2>3, <2>5, <3>3
    <3>5. Solves(f, n)
      BY <3>4
    <3>. QED
      BY <2>3, <3>5
  <2>. QED
    BY <2>4, <2>5
<1>3. \E f : Solves(f, Len(from))
  BY <1>1, <1>2
<1>. QED
  BY <1>3 DEF Addr!Walked

LEMMA WalkKeeps ==
  ASSUME AddrTyped, \A a \in Addrs : Balanced([from |-> from, to |-> to], a),
         NEW push \in BOOLEAN, NEW n \in 0..Len(from),
         version = "2.6.32" \/ ~Addr!Mistakes(push, n),
         NEW s, s = Addr!Walked(push)[n]
  PROVE  /\ Lists(s) /\ \A a \in Addrs : Balanced(s, a)
         /\ push => \A k \in 1..n : Pushed(s, from[k].addr)
         /\ \A a : (\A k \in 1..n : from[k].addr # a) =>
                     SameRow(s.from, from, a) /\ SameRow(s.to, to, a)
<1>. DEFINE w == Addr!Walked(push)
            start == [from |-> from, to |-> to]
            Kept(m) == /\ Lists(w[m]) /\ \A a \in Addrs : Balanced(w[m], a)
                       /\ push => \A k \in 1..m : Pushed(w[m], from[k].addr)
                       /\ \A a : (\A k \in 1..m : from[k].addr # a) =>
                                   SameRow(w[m].from, from, a) /\ SameRow(w[m].to, to, a)
            wrong == {m \in 0..n : ~Kept(m)}
<1>1. AddrList(from) /\ AddrList(to) /\ Len(from) \in Nat /\ DOMAIN from = 1..Len(from)
  BY DEF AddrTyped, AddrList
<1>2. /\ w[0] = start
      /\ \A k \in 1..Len(from) : w[k] = Addr!Round(push, w[k - 1], from[k].addr)
  BY <1>1, WalkEquation
<1>3. /\ DOMAIN start = {"from", "to"} /\ start.from = from /\ start.to = to
      /\ \A a \in Addrs : Balanced(start, a)
  OBVIOUS
<1>. HIDE DEF w, start
<1>4. wrong = {}
  <2>1. SUFFICES ASSUME wrong # {} PROVE FALSE
    OBVIOUS
  <2>. wrong \in SUBSET Nat
    BY <1>1
  <2>. HIDE DEF wrong
  <2>2. PICK m \in wrong : \A j \in wrong : m <= j
    BY <2>1, LeastNat
  <2>3. m \in 0..n /\ ~Kept(m)
    BY <2>2 DEF wrong
  <2>4. CASE m = 0
    <3>1. Lists(w[0]) /\ \A a \in Addrs : Balanced(w[0], a)
      BY <1>1, <1>2, <1>3 DEF Lists
    <3>2. \A a : SameRow(w[0].from, from, a) /\ SameRow(w[0].to, to, a)
      BY <1>2, <1>3 DEF SameRow
    <3>3. 1..0 = {}
      OBVIOUS
    <3>4. Kept(0)
      BY <3>1, <3>2, <3>3
    <3>. QED
      BY <2>3, <2>4, <3>4
  <2>5. CASE m # 0
    <3>. DEFINE l == m - 1
                a == from[m].addr
    <3>1. /\ m \in 1..Len(from) /\ m \in 1..n /\ l \in 0..n /\ ~(m <= l)
          /\ \A k \in 1..m : k = m \/ k \in 1..l
          /\ \A k \in 1..l : k \in 1..m /\ k # m
      BY <1>1, <2>3, <2>5
    <3>2. Kept(l)
      <4>1. l \notin wrong
        BY <2>2, <3>1
      <4>. QED
        BY <3>1, <4>1 DEF wrong
    <3>3. a \in Addrs /\ Addr!Has(from, a) /\ \A k \in 1..l : from[k].addr # a
      <4>1. a \in Addrs /\ Addr!Has(from, a)
        BY <1>1, <3>1, AddrRows, RowAt
      <4>2. \A k \in 1..l : k \in DOMAIN from /\ m \in DOMAIN from /\ k # m
        BY <1>1, <3>1
      <4>. QED
        BY <1>1, <4>1, <4>2 DEF AddrList
    <3>4. Lists(w[l]) /\ Balanced(w[l], a)
      BY <3>2, <3>3
    <3>5. Addr!Has(w[l].from, a)
      <4>1. SameRow(w[l].from, from, a)
        BY <3>2, <3>3
      <4>. QED
        BY <1>1, <3>3, <3>4, <4>1, RowOf DEF SameRow, Lists
    <3>6. w[m] = Addr!Round(push, w[l], a)
      BY <1>2, <3>1
    <3>11. ~Mistaken(w[l], a)
      <4>1. CASE version = "2.6.32"
        BY <3>3, <3>4, <4>1, MarksAreRight
      <4>2. CASE ~Addr!Mistakes(push, n)
        BY <3>1, <4>2 DEF Addr!Mistakes, Mistaken, w
      <4>. QED
        BY <4>1, <4>2
    <3>. HIDE DEF a, l
    <3>7. /\ Lists(w[m]) /\ Balanced(w[m], a) /\ (push => Pushed(w[m], a))
          /\ \A b : b # a => SameRow(w[m].from, w[l].from, b) /\ SameRow(w[m].to, w[l].to, b)
      BY <3>3, <3>4, <3>5, <3>6, <3>11, RoundKeeps
    <3>8. ASSUME NEW b \in Addrs PROVE Balanced(w[m], b)
      <4>1. CASE b = a
        BY <3>7, <4>1
      <4>2. CASE b # a
        <5>1. Balanced(w[l], b)
          BY <3>2
        <5>2. SameRow(w[m].from, w[l].from, b) /\ SameRow(w[m].to, w[l].to, b)
          BY <3>7, <4>2
        <5>. QED
          BY <5>1, <5>2 DEF SameRow, Balanced
      <4>. QED
        BY <4>1, <4>2
    <3>9. ASSUME push, NEW k \in 1..m PROVE Pushed(w[m], from[k].addr)
      <4>1. CASE k = m
        BY <3>7, <3>9, <4>1 DEF a
      <4>2. CASE k # m
        <5>. DEFINE b == from[k].addr
        <5>1. k \in 1..l /\ b # a
          BY <3>1, <3>3, <4>2
        <5>2. Pushed(w[l], b)
          BY <3>2, <3>9, <5>1
        <5>. HIDE DEF b
        <5>3. SameRow(w[m].from, w[l].from, b) /\ SameRow(w[m].to, w[l].to, b)
          BY <3>7, <5>1
        <5>4. /\ Addr!Has(w[m].from, b) <=> Addr!Has(w[l].from, b)
              /\ Addr!Has(w[m].to, b) <=> Addr!Has(w[l].to, b)
          BY <3>4, <3>7, <5>3, RowOf DEF SameRow, Lists
        <5>5. Pushed(w[m], b)
          BY <5>2, <5>3, <5>4 DEF SameRow, Pushed
        <5>. QED
          BY <5>5 DEF b
      <4>. QED
        BY <4>1, <4>2
    <3>10. ASSUME NEW b, \A k \in 1..m : from[k].addr # b
           PROVE  SameRow(w[m].from, from, b) /\ SameRow(w[m].to, to, b)
      <4>1. b # a /\ \A k \in 1..l : from[k].addr # b
        BY <3>1, <3>10 DEF a
      <4>2. SameRow(w[m].from, w[l].from, b) /\ SameRow(w[m].to, w[l].to, b)
        BY <3>7, <4>1
      <4>3. SameRow(w[l].from, from, b) /\ SameRow(w[l].to, to, b)
        BY <3>2, <4>1
      <4>. QED
        BY <4>2, <4>3 DEF SameRow
    <3>. QED
      BY <2>3, <3>7, <3>8, <3>9, <3>10
  <2>. QED
    BY <2>4, <2>5
<1>5. Kept(n)
  BY <1>4
<1>6. s = w[n]
  BY DEF w
<1>. QED
  BY <1>5, <1>6

-----------------------------------------------------------------------------
(***************************************************************************)
(* The calls.                                                              *)
(***************************************************************************)
Now == [from |-> from, to |-> to]

\* As long as nothing was mistaken, which the marks make sure of.
Agreed == AddrTyped /\ (\A a \in Addrs : Balanced(Now, a)) /\ Addr!SyncMirrors

AddrInv == /\ mistaken \in BOOLEAN
           /\ IF mistaken THEN version = "2.6.23" ELSE Agreed

LEMMA NowIs ==
  ASSUME NEW a
  PROVE  Balanced(Now, a) <=>
           /\ Addr!UsersOf(from, a) - mine[a] = Addr!UsersOf(to, a) - below[a]
           /\ Addr!UsersOf(to, a) >= below[a]
           /\ Global(from, a) => mine[a] > 0
           /\ version = "2.6.32" =>
                Addr!UsersOf(from, a) = mine[a] + (IF Mark(from, a) THEN 1 ELSE 0)
BY DEF Now, Balanced

LEMMA NowIsPrime ==
  ASSUME NEW a
  PROVE  Balanced(Now, a)' <=>
           /\ Addr!UsersOf(from', a) - mine'[a] = Addr!UsersOf(to', a) - below'[a]
           /\ Addr!UsersOf(to', a) >= below'[a]
           /\ Global(from', a) => mine'[a] > 0
           /\ version' = "2.6.32" =>
                Addr!UsersOf(from', a) = mine'[a] + (IF Mark(from', a) THEN 1 ELSE 0)
BY DEF Now, Balanced

LEMMA AddrStarts ==
  ASSUME MachinesInit
  PROVE  AddrInv
<1>1. Addr!DevAddrInit
  BY DEF MachinesInit
<1>2. AddrList(<< >>)
  BY DEF AddrList
<1>3. AddrTyped
  BY <1>1, <1>2 DEF Addr!DevAddrInit, AddrTyped
<1>4. \A a : Addr!UsersOf(<< >>, a) = 0 /\ ~Global(<< >>, a) /\ ~Mark(<< >>, a)
  BY <1>2, RowOf
<1>5. ASSUME NEW a \in Addrs PROVE Balanced(Now, a)
  BY <1>1, <1>4, NowIs DEF Addr!DevAddrInit
<1>. QED
  BY <1>1, <1>3, <1>5 DEF AddrInv, Agreed, Addr!DevAddrInit, Addr!SyncMirrors

LEMMA EitherIsBoolean ==
  ASSUME NEW a, NEW b, NEW c, a = (b \/ c)
  PROVE  a \in BOOLEAN
BY Zenon

\* With the marks no walk is mistaken.
LEMMA NoMistakes ==
  ASSUME Agreed, version = "2.6.32", NEW push \in BOOLEAN, NEW n \in 0..Len(from)
  PROVE  ~Addr!Mistakes(push, n)
<1>1. SUFFICES ASSUME NEW k \in 1..n, Mistaken(Addr!Walked(push)[k - 1], from[k].addr)
               PROVE  FALSE
  BY DEF Addr!Mistakes, Mistaken
<1>2. AddrTyped /\ (\A a \in Addrs : Balanced([from |-> from, to |-> to], a))
  BY DEF Agreed, Now
<1>3. Len(from) \in Nat /\ DOMAIN from = 1..Len(from) /\ AddrList(from)
  BY <1>2 DEF AddrTyped, AddrList
<1>4. k - 1 \in 0..Len(from) /\ k \in DOMAIN from
  BY <1>3
<1>5. from[k].addr \in Addrs
  BY <1>3, <1>4, AddrRows
<1>6. PICK s : s = Addr!Walked(push)[k - 1]
  OBVIOUS
<1>7. Lists(s) /\ \A a \in Addrs : Balanced(s, a)
  BY <1>2, <1>4, <1>6, WalkKeeps
<1>. QED
  BY <1>1, <1>2, <1>5, <1>6, <1>7, MarksAreRight

\* What a sync has walked is mirrored.
LEMMA SyncKeeps ==
  ASSUME Agreed, ~mistaken, Addr!dev_mc_sync
  PROVE  AddrInv'
<1>1. PICK n \in 0..Len(from) :
        LET s == Addr!Walked(TRUE)[n]
            fails == /\ n < Len(from)
                     /\ ~Addr!Synced(s, from[n + 1].addr)
                     /\ ~Addr!Has(s.to, from[n + 1].addr)
        IN /\ n = Len(from) \/ fails
           /\ from' = s.from /\ to' = s.to
           /\ mistaken' = (mistaken \/ Addr!Mistakes(TRUE, n))
           /\ called' = IF fails THEN "failed" ELSE "sync"
           /\ UNCHANGED <<version, mine, below>>
  BY DEF Addr!dev_mc_sync
<1>m. mistaken' = (mistaken \/ Addr!Mistakes(TRUE, n)) /\ version' = version
  BY <1>1
<1>7. version = "2.6.32" => ~Addr!Mistakes(TRUE, n)
  BY NoMistakes
<1>9. mistaken' \in BOOLEAN
  BY ONLY <1>m, EitherIsBoolean
<1>8. CASE mistaken'
  <2>1. version \in {"2.6.23", "2.6.32"} /\ version # "2.6.32"
    BY <1>m, <1>7, <1>8 DEF Agreed, AddrTyped
  <2>. QED
    BY <1>m, <1>8, <1>9, <2>1 DEF AddrInv
<1>. SUFFICES ASSUME ~mistaken' PROVE Agreed'
  BY <1>8, <1>9 DEF AddrInv
<1>. DEFINE s == Addr!Walked(TRUE)[n]
<1>2. /\ from' = s.from /\ to' = s.to
      /\ n # Len(from) => called' = "failed"
      /\ UNCHANGED <<version, mine, below>>
  BY <1>1
<1>3. /\ Lists(s) /\ \A a \in Addrs : Balanced(s, a)
      /\ \A k \in 1..n : Pushed(s, from[k].addr)
      /\ \A a : (\A k \in 1..n : from[k].addr # a) =>
                  SameRow(s.from, from, a) /\ SameRow(s.to, to, a)
  BY <1>m, WalkKeeps DEF Agreed, Now
<1>. HIDE DEF s
<1>4. AddrTyped'
  BY <1>2, <1>3 DEF Agreed, AddrTyped, Lists, AddrList
<1>5. ASSUME NEW a \in Addrs PROVE Balanced(Now, a)'
  BY <1>2, <1>3, NowIsPrime DEF Balanced
<1>6. Addr!SyncMirrors'
  <2>. SUFFICES ASSUME n = Len(from), NEW a \in Addrs
                PROVE  /\ mine[a] + below[a] > 0 => Addr!Has(s.to, a)
                       /\ version = "2.6.32" /\ Addr!Has(s.to, a) => mine[a] + below[a] > 0
    BY <1>2 DEF Addr!SyncMirrors
  <2>. DEFINE F == Addr!UsersOf(s.from, a)
              T == Addr!UsersOf(s.to, a)
  <2>1. /\ mine[a] \in Nat /\ below[a] \in Nat /\ version \in {"2.6.23", "2.6.32"}
        /\ AddrList(from) /\ AddrList(to) /\ AddrList(s.from) /\ AddrList(s.to)
        /\ DOMAIN from = 1..Len(from)
    BY <1>3 DEF Agreed, AddrTyped, Lists, AddrList
  <2>2. /\ F \in Nat /\ T \in Nat
        /\ Addr!Has(s.from, a) <=> F > 0
        /\ Addr!Has(s.to, a) <=> T > 0
        /\ Mark(s.from, a) => F > 0
    BY <2>1, RowOf
  <2>3. /\ F - mine[a] = T - below[a] /\ T >= below[a]
        /\ version = "2.6.32" => F = mine[a] + (IF Mark(s.from, a) THEN 1 ELSE 0)
    BY <1>3 DEF Balanced
  <2>4. F > 0 => Pushed(s, a)
    <3>1. CASE \E k \in 1..n : from[k].addr = a
      BY <1>3, <3>1
    <3>2. CASE \A k \in 1..n : from[k].addr # a
      <4>1. SameRow(s.from, from, a)
        BY <1>3, <3>2
      <4>2. ~Addr!Has(from, a)
        BY <2>1, <3>2, RowOf
      <4>3. F = 0
        BY <2>1, <4>1, <4>2, RowOf DEF SameRow
      <4>. QED
        BY <4>3
    <3>. QED
      BY <3>1, <3>2
  <2>. HIDE DEF F, T
  <2>5. below[a] > 0 => T > 0
    BY <2>1, <2>2, <2>3
  <2>6. mine[a] > 0 => F > 0
    BY <2>1, <2>2, <2>3
  <2>7. mine[a] > 0 => T > 0
    BY <2>2, <2>4, <2>6 DEF Pushed
  <2>8. version = "2.6.32" /\ T > 0 => mine[a] > 0 \/ below[a] > 0
    <3>1. F > 0 /\ version = "2.6.32" => mine[a] > 0
      BY <2>2, <2>4 DEF Pushed
    <3>2. T > 0 => F > 0 \/ below[a] > 0
      BY <2>1, <2>2, <2>3
    <3>. QED
      BY <3>1, <3>2
  <2>. QED
    BY <2>1, <2>2, <2>5, <2>7, <2>8
<1>. QED
  BY <1>4, <1>5, <1>6 DEF Agreed

LEMMA UnsyncKeeps ==
  ASSUME Agreed, ~mistaken, Addr!dev_mc_unsync
  PROVE  AddrInv'
<1>0. Len(from) \in 0..Len(from)
  BY DEF Agreed, AddrTyped, AddrList
<1>m. mistaken' = (mistaken \/ Addr!Mistakes(FALSE, Len(from))) /\ version' = version
  BY DEF Addr!dev_mc_unsync
<1>7. version = "2.6.32" => ~Addr!Mistakes(FALSE, Len(from))
  BY <1>0, NoMistakes
<1>9. mistaken' \in BOOLEAN
  BY ONLY <1>m, EitherIsBoolean
<1>8. CASE mistaken'
  <2>1. version \in {"2.6.23", "2.6.32"} /\ version # "2.6.32"
    BY <1>m, <1>7, <1>8 DEF Agreed, AddrTyped
  <2>. QED
    BY <1>m, <1>8, <1>9, <2>1 DEF AddrInv
<1>. SUFFICES ASSUME ~mistaken' PROVE Agreed'
  BY <1>8, <1>9 DEF AddrInv
<1>. DEFINE s == Addr!Walked(FALSE)[Len(from)]
<1>1. /\ from' = s.from /\ to' = s.to /\ called' = "unsync"
      /\ UNCHANGED <<version, mine, below>>
  BY DEF Addr!dev_mc_unsync
<1>2. Lists(s) /\ \A a \in Addrs : Balanced(s, a)
  BY <1>0, <1>m, WalkKeeps DEF Agreed, Now
<1>. HIDE DEF s
<1>3. AddrTyped'
  BY <1>1, <1>2 DEF Agreed, AddrTyped, Lists, AddrList
<1>4. ASSUME NEW a \in Addrs PROVE Balanced(Now, a)'
  BY <1>1, <1>2, NowIsPrime DEF Balanced
<1>. QED
  BY <1>1, <1>3, <1>4 DEF Agreed, Addr!SyncMirrors

LEMMA AddrStep ==
  ASSUME AddrInv, Addr!DevAddrNext
  PROVE  AddrInv'
<1>m. CASE mistaken
  <2>1. /\ version' = version
        /\ mistaken' = mistaken \/ \E push, n : mistaken' = (mistaken \/ Addr!Mistakes(push, n))
    BY DEF Addr!DevAddrNext, Addr!dev_mc_sync, Addr!dev_mc_unsync, Addr!Join, Addr!Leave,
           Addr!JoinBelow, Addr!LeaveBelow
  <2>2. mistaken' = TRUE
    BY Zenon, <1>m, <2>1 DEF AddrInv
  <2>. QED
    BY <1>m, <2>1, <2>2 DEF AddrInv
<1>. SUFFICES ASSUME ~mistaken PROVE AddrInv'
  BY <1>m
<1>. Agreed /\ AddrTyped /\ \A a \in Addrs : Balanced(Now, a)
  BY DEF AddrInv, Agreed
<1>0. /\ AddrList(from) /\ AddrList(to)
      /\ \A a \in Addrs : mine[a] \in Nat /\ below[a] \in Nat
  BY DEF AddrTyped
<1>. SUFFICES ASSUME ~Addr!dev_mc_sync, ~Addr!dev_mc_unsync,
                     NEW a \in Addrs, NEW glbl \in BOOLEAN,
                     Addr!Join(a, glbl) \/ Addr!Leave(a, glbl)
                     \/ Addr!JoinBelow(a) \/ Addr!LeaveBelow(a)
              PROVE  AddrInv'
  BY SyncKeeps, UnsyncKeeps DEF Addr!DevAddrNext
<1>1. CASE Addr!Join(a, glbl)
  <2>1. /\ from' = Addr!__dev_addr_add(from, a, glbl)
        /\ mine' = [mine EXCEPT ![a] = IF glbl /\ Global(from, a) THEN @ ELSE @ + 1]
        /\ called' = "join" /\ UNCHANGED <<version, to, below, mistaken>>
    BY <1>1 DEF Addr!Join, Global
  <2>2. /\ AddrList(from')
        /\ \A b : b # a => SameRow(from', from, b)
        /\ glbl /\ Global(from, a) => from' = from
        /\ ~(glbl /\ Global(from, a)) =>
             Addr!UsersOf(from', a) = Addr!UsersOf(from, a) + 1
        /\ Global(from', a) <=> Global(from, a) \/ glbl
        /\ Mark(from', a) <=> Mark(from, a)
    BY <1>0, <2>1, AddRow
  <2>3. AddrTyped'
    BY <2>1, <2>2 DEF AddrTyped, AddrList
  <2>4. ASSUME NEW b \in Addrs PROVE Balanced(Now, b)'
    <3>0. Balanced(Now, b) /\ Addr!UsersOf(from, b) \in Nat /\ Addr!UsersOf(to, b) \in Nat
      BY <1>0, RowOf
    <3>1. CASE b # a
      <4>1. SameRow(from', from, b) /\ mine'[b] = mine[b]
        BY <2>1, <2>2, <3>1 DEF AddrTyped
      <4>. QED
        BY <2>1, <3>0, <4>1, NowIs, NowIsPrime DEF SameRow
    <3>2. CASE b = a
      <4>1. mine'[a] = IF glbl /\ Global(from, a) THEN mine[a] ELSE mine[a] + 1
        BY <2>1 DEF AddrTyped
      <4>2. CASE glbl /\ Global(from, a)
        BY ZenonT(40), <2>1, <2>2, <3>0, <3>2, <4>1, <4>2, NowIs, NowIsPrime
      <4>3. CASE ~(glbl /\ Global(from, a))
        <5>1. /\ Addr!UsersOf(from', a) = Addr!UsersOf(from, a) + 1
              /\ mine'[a] = mine[a] + 1 /\ mine[a] \in Nat /\ below[a] \in Nat
              /\ Mark(from', a) <=> Mark(from, a)
          BY <1>0, <2>2, <4>1, <4>3
        <5>. QED
          BY <2>1, <3>0, <3>2, <5>1, NowIs, NowIsPrime
      <4>. QED
        BY <4>2, <4>3
    <3>. QED
      BY <3>1, <3>2
  <2>. QED
    BY <2>1, <2>3, <2>4 DEF AddrInv, Agreed, Addr!SyncMirrors
<1>2. CASE Addr!Leave(a, glbl)
  <2>1. /\ from' = Addr!__dev_addr_delete(from, a, glbl)
        /\ mine' = [mine EXCEPT ![a] = @ - 1]
        /\ called' = "leave" /\ UNCHANGED <<version, to, below, mistaken>>
    BY <1>2 DEF Addr!Leave
  <2>2. IF glbl THEN Global(from, a) ELSE mine[a] > IF Global(from, a) THEN 1 ELSE 0
    BY <1>2 DEF Addr!Leave, Addr!Globals, Global
  <2>3. mine[a] > 0 /\ (~glbl /\ Global(from, a) => mine[a] > 1)
    BY <1>0, <2>2, NowIs
  <2>4. /\ Addr!UsersOf(from, a) \in Nat /\ Addr!UsersOf(to, a) \in Nat
        /\ Addr!UsersOf(from, a) > 0
    <3>1. Addr!UsersOf(from, a) \in Nat /\ Addr!UsersOf(to, a) \in Nat
      BY <1>0, RowOf
    <3>2. Balanced(Now, a) /\ mine[a] \in Nat /\ below[a] \in Nat
      BY <1>0
    <3>. QED
      BY <2>3, <3>1, <3>2, NowIs DEF AddrTyped
  <2>5. Addr!Has(from, a) /\ (glbl => Global(from, a))
    BY <1>0, <2>2, <2>4, RowOf
  <2>6. /\ AddrList(from')
        /\ \A b : b # a => SameRow(from', from, b)
        /\ Addr!UsersOf(from', a) = Addr!UsersOf(from, a) - 1
        /\ Global(from', a) => Global(from, a) /\ ~glbl
        /\ Mark(from', a) <=> Mark(from, a) /\ Addr!UsersOf(from, a) # 1
    BY <1>0, <2>1, <2>5, DeleteRow
  <2>7. mine' \in [Addrs -> Nat] /\ mine'[a] = mine[a] - 1
    BY <1>0, <2>1, <2>3 DEF AddrTyped
  <2>8. AddrTyped'
    BY <2>1, <2>6, <2>7 DEF AddrTyped, AddrList
  <2>9. ASSUME NEW b \in Addrs PROVE Balanced(Now, b)'
    <3>0. Balanced(Now, b)
      OBVIOUS
    <3>1. CASE b # a
      <4>1. SameRow(from', from, b) /\ mine'[b] = mine[b]
        BY <2>1, <2>6, <3>1 DEF AddrTyped
      <4>. QED
        BY <2>1, <3>0, <4>1, NowIs, NowIsPrime DEF SameRow
    <3>2. CASE b = a
      <4>1. /\ Addr!UsersOf(from', a) = Addr!UsersOf(from, a) - 1
            /\ Global(from', a) => Global(from, a) /\ ~glbl
            /\ Mark(from', a) <=> Mark(from, a) /\ Addr!UsersOf(from, a) # 1
        BY <2>6
      <4>2. mine[a] \in Nat /\ below[a] \in Nat
        BY <1>0
      <4>3. Addr!UsersOf(from', a) - mine'[a] = Addr!UsersOf(to', a) - below'[a]
        BY <2>1, <2>4, <2>7, <3>0, <3>2, <4>1, <4>2, NowIs
      <4>4. Global(from', a) => mine'[a] > 0
        BY <2>3, <2>7, <4>1, <4>2
      <4>5. version = "2.6.32" =>
              Addr!UsersOf(from', a) = mine'[a] + (IF Mark(from', a) THEN 1 ELSE 0)
        BY <2>3, <2>4, <2>7, <3>0, <3>2, <4>1, <4>2, NowIs
      <4>. QED
        BY <2>1, <3>0, <3>2, <4>3, <4>4, <4>5, NowIs, NowIsPrime
    <3>. QED
      BY <3>1, <3>2
  <2>. QED
    BY <2>1, <2>8, <2>9 DEF AddrInv, Agreed, Addr!SyncMirrors
<1>3. CASE Addr!JoinBelow(a)
  <2>1. /\ to' = Addr!__dev_addr_add(to, a, FALSE)
        /\ below' = [below EXCEPT ![a] = @ + 1] /\ called' = "join"
        /\ UNCHANGED <<version, from, mine, mistaken>>
    BY <1>3 DEF Addr!JoinBelow
  <2>2. /\ AddrList(to')
        /\ \A b : b # a => SameRow(to', to, b)
        /\ Addr!UsersOf(to', a) = Addr!UsersOf(to, a) + 1
    BY <1>0, <2>1, AddRow
  <2>5. below' \in [Addrs -> Nat] /\ below'[a] = below[a] + 1
    BY <1>0, <2>1 DEF AddrTyped
  <2>3. AddrTyped'
    BY <2>1, <2>2, <2>5 DEF AddrTyped, AddrList
  <2>4. ASSUME NEW b \in Addrs PROVE Balanced(Now, b)'
    <3>0. /\ Balanced(Now, b) /\ Addr!UsersOf(from, b) \in Nat /\ Addr!UsersOf(to, b) \in Nat
          /\ mine[b] \in Nat /\ below[b] \in Nat
      BY <1>0, RowOf
    <3>1. CASE b # a
      <4>1. SameRow(to', to, b) /\ below'[b] = below[b]
        BY <2>1, <2>2, <3>1 DEF AddrTyped
      <4>. QED
        BY <2>1, <3>0, <4>1, NowIs, NowIsPrime DEF SameRow
    <3>2. CASE b = a
      <4>1. Addr!UsersOf(to', a) = Addr!UsersOf(to, a) + 1
        BY <2>2
      <4>2. /\ Addr!UsersOf(from, a) - mine[a] = Addr!UsersOf(to, a) - below[a]
            /\ Addr!UsersOf(to, a) >= below[a]
        BY <3>0, <3>2, NowIs
      <4>3. /\ Addr!UsersOf(from, a) - mine[a] = Addr!UsersOf(to', a) - below'[a]
            /\ Addr!UsersOf(to', a) >= below'[a]
        BY <2>5, <3>0, <3>2, <4>1, <4>2
      <4>. QED
        BY <2>1, <3>0, <3>2, <4>3, NowIs, NowIsPrime
    <3>. QED
      BY <3>1, <3>2
  <2>. QED
    BY <2>1, <2>3, <2>4 DEF AddrInv, Agreed, Addr!SyncMirrors
<1>4. CASE Addr!LeaveBelow(a)
  <2>1. /\ to' = Addr!__dev_addr_delete(to, a, FALSE) /\ below[a] > 0
        /\ below' = [below EXCEPT ![a] = @ - 1] /\ called' = "leave"
        /\ UNCHANGED <<version, from, mine, mistaken>>
    BY <1>4 DEF Addr!LeaveBelow
  <2>2. /\ Addr!UsersOf(from, a) \in Nat /\ Addr!UsersOf(to, a) \in Nat
        /\ Balanced(Now, a) /\ mine[a] \in Nat /\ below[a] \in Nat
    BY <1>0, RowOf
  <2>3. Addr!UsersOf(to, a) > 0
    BY <2>1, <2>2, NowIs DEF AddrTyped
  <2>4. Addr!Has(to, a)
    BY <1>0, <2>3, RowOf
  <2>5. /\ AddrList(to')
        /\ \A b : b # a => SameRow(to', to, b)
        /\ Addr!UsersOf(to', a) = Addr!UsersOf(to, a) - 1
    BY <1>0, <2>1, <2>4, DeleteRow
  <2>6. below' \in [Addrs -> Nat] /\ below'[a] = below[a] - 1
    BY <2>1, <2>2 DEF AddrTyped
  <2>7. AddrTyped'
    BY <2>1, <2>5, <2>6 DEF AddrTyped, AddrList
  <2>8. ASSUME NEW b \in Addrs PROVE Balanced(Now, b)'
    <3>0. Balanced(Now, b)
      OBVIOUS
    <3>1. CASE b # a
      <4>1. SameRow(to', to, b) /\ below'[b] = below[b]
        BY <2>1, <2>5, <3>1 DEF AddrTyped
      <4>. QED
        BY <2>1, <3>0, <4>1, NowIs, NowIsPrime DEF SameRow
    <3>2. CASE b = a
      <4>1. Addr!UsersOf(to', a) = Addr!UsersOf(to, a) - 1
        BY <2>5
      <4>2. /\ Addr!UsersOf(from, a) - mine[a] = Addr!UsersOf(to, a) - below[a]
            /\ Addr!UsersOf(to, a) >= below[a]
        BY <2>2, NowIs
      <4>3. /\ Addr!UsersOf(from, a) - mine[a] = Addr!UsersOf(to', a) - below'[a]
            /\ Addr!UsersOf(to', a) >= below'[a]
        BY <2>2, <2>6, <4>1, <4>2
      <4>. QED
        BY <2>1, <2>3, <3>0, <3>2, <4>3, NowIs, NowIsPrime
    <3>. QED
      BY <3>1, <3>2
  <2>. QED
    BY <2>1, <2>7, <2>8 DEF AddrInv, Agreed, Addr!SyncMirrors
<1>. QED
  BY <1>1, <1>2, <1>3, <1>4

-----------------------------------------------------------------------------
(***************************************************************************)
(* What the machines promise, of every behaviour of Helpers: each          *)
(* invariant holds at the start, its own machine keeps it, and the others  *)
(* leave its variables alone.                                              *)
(***************************************************************************)

LEMMA WqRests == ASSUME WqInv, UNCHANGED wqvars PROVE WqInv'
BY DEF wqvars, WqInv, WqTyped, Clearing

LEMMA AnchorRests == ASSUME AnchorInv, UNCHANGED anchorvars PROVE AnchorInv'
<1>1. AnchorTyped' /\ Once(urb_list)'
  BY DEF anchorvars, AnchorInv, AnchorTyped, Once
<1>2. AnchorsBalanced'
  BY DEF anchorvars, AnchorInv, AnchorsBalanced, Anchor!AnchorsBalanced, Anchor!Anchored,
         Anchor!ToSet, Anchor!usb_anchor_empty
<1>. QED
  BY <1>1, <1>2 DEF AnchorInv

LEMMA IdaRests == ASSUME IdaInv, UNCHANGED idavars PROVE IdaInv'
BY DEF idavars, IdaInv, IdaTyped, IdsUnique, Ida!IdsUnique, Ida!Ranges

LEMMA GenlRests == ASSUME GenlInv, UNCHANGED genlvars PROVE GenlInv'
<1>1. /\ family_at' = family_at /\ kernel' = kernel /\ fam_next' = fam_next /\ fam_prev' = fam_prev
      /\ saved' = saved /\ request' = request /\ oops' = oops /\ failed' = failed /\ raced' = raced
  BY DEF genlvars
<1>2. GenlTyped' /\ Genl!OwnFamilyAnswers'
  BY <1>1 DEF GenlInv, GenlTyped, Genl!OwnFamilyAnswers
<1>3. OnList' = OnList /\ Nodes' = Nodes /\ \A y : Torn(y)' <=> Torn(y)
  BY <1>1 DEF OnList, Nodes, Torn
<1>4. ASSUME NEW rank, NEW top, ListOf(rank, top)
      PROVE  ListOf(rank, top)'
  <2>1. LinksOf(rank, top)'
    BY <1>1, <1>3, <1>4, LinksRest DEF ListOf
  <2>2. WalkOf(rank)'
    BY <1>1, <1>3, <1>4 DEF ListOf, WalkOf, Genl!NoRequest, Genl!Asks
  <2>3. \A f \in Families : PhaseOf(rank, top, f)'
    BY <1>1, <1>3, <1>4 DEF ListOf, PhaseOf
  <2>. QED
    BY <2>1, <2>2, <2>3 DEF ListOf
<1>5. GenlList'
  BY <1>1, <1>4 DEF GenlInv, GenlList, Changing
<1>. QED
  BY <1>1, <1>2, <1>5 DEF GenlInv

LEMMA TtyRests == ASSUME TtyInv, UNCHANGED ttyvars PROVE TtyInv'
BY DEF ttyvars, TtyInv, TtyTyped, LockHeld, StopKept, OffKept, LooksRight, Tty!Looked

LEMMA PktRests == ASSUME PktInv, UNCHANGED pktvars PROVE PktInv'
BY DEF pktvars, PktInv, PktTyped, MutexHeld, NotBoth, StatusAt, NoFlow, Believes, BelievedAt,
       Right, RightOnce, Tty!Believed, Tty!Flow

LEMMA DmaRests == ASSUME DmaInv, UNCHANGED dmavars PROVE DmaInv'
BY DEF dmavars, DmaInv, DmaTyped, Counts, Keepers, Holding, Shown, AreasInBuffer,
       Dma!AreasInBuffer

LEMMA LedRests == ASSUME LedInv, UNCHANGED ledvars PROVE LedInv'
BY DEF ledvars, LedInv, LedTyped, OneTimer, OneCall, CallFound, DriverFound, StaysStopped,
       Found, Blank, AtRest, Led!Busy

LEMMA AddrRests == ASSUME AddrInv, UNCHANGED addrvars PROVE AddrInv'
<1>1. UNCHANGED <<version, from, to, mine, below, mistaken, called>>
  BY DEF addrvars
<1>2. CASE mistaken
  BY <1>1, <1>2 DEF AddrInv
<1>3. CASE ~mistaken
  <2>1. AddrTyped'
    BY <1>1, <1>3 DEF AddrInv, Agreed, AddrTyped, AddrList
  <2>2. ASSUME NEW a \in Addrs PROVE Balanced(Now, a)'
    BY <1>1, <1>3, NowIs, NowIsPrime DEF AddrInv, Agreed
  <2>. QED
    BY <1>1, <1>3, <2>1, <2>2 DEF AddrInv, Agreed, Addr!SyncMirrors
<1>. QED
  BY <1>2, <1>3

\* A work that was asked for and not taken away by a flush is on its timer, in
\* the queue, or in the hands of the driver that is about to queue it: the
\* cancel and the requeue of mod_delayed_work lose none (compat-2.6.36.c,
\* compat-2.6.32.h).
THEOREM WorkIsNotLost == HelpersSpec => []WorkNotLost
<1>1. MachinesInit => WqInv
  BY WqStarts
<1>2. WqInv /\ [MachinesNext]_helpervars => WqInv'
  BY StepsApart, WqStep, WqRests
<1>3. WqInv => WorkNotLost
  BY DEF WqInv, WqTyped, Clearing, WorkNotLost, Wq!WorkNotLost, Wq!work_busy
<1>. QED
  BY <1>1, <1>2, <1>3, PTL DEF HelpersSpec

\* Every reference to an URB is some holder's, for any URBs and any threads
\* that unlink them, and nobody sleeps on an empty anchor (compat-2.6.28.c,
\* compat-2.6.23.c).
THEOREM AnchorsBalance == HelpersSpec => []AnchorsBalanced
<1>1. MachinesInit => AnchorInv
  BY AnchorStarts
<1>2. AnchorInv /\ [MachinesNext]_helpervars => AnchorInv'
  BY StepsApart, AnchorStep, AnchorRests
<1>3. AnchorInv => AnchorsBalanced
  BY DEF AnchorInv
<1>. QED
  BY <1>1, <1>2, <1>3, PTL DEF HelpersSpec

\* Every id in use is one client's, and a range is refused only when it is
\* taken, whoever took the memory another had set aside (compat-3.1.c).
THEOREM IdsAreUnique == HelpersSpec => []IdsUnique
<1>1. MachinesInit => IdaInv
  BY IdaStarts
<1>2. IdaInv /\ [MachinesNext]_helpervars => IdaInv'
  BY StepsApart, IdaStep, IdaRests
<1>3. IdaInv => IdsUnique
  BY DEF IdaInv
<1>. QED
  BY <1>1, <1>2, <1>3, PTL DEF HelpersSpec

\* However the unlocked list is torn, a request is answered by the family and
\* the operation it names or by none; and while changes of the list do not race,
\* none answers only during a registration, no link but that of a family whose
\* registration failed leads nowhere, and the list holds (compat-2.6.37.c).
THEOREM RequestsReachFamilies == HelpersSpec => []FamiliesAnswer
<1>1. MachinesInit => GenlInv
  BY GenlStarts
<1>2. GenlInv /\ [MachinesNext]_helpervars => GenlInv'
  BY StepsApart, GenlStep, GenlRests
<1>3. GenlInv => FamiliesAnswer
  BY FamiliesAnswered
<1>. QED
  BY <1>1, <1>2, <1>3, PTL DEF HelpersSpec

\* For any number of callers, however their calls and the line overlap, no
\* request to stop a terminal is lost, TCOOFF holds until TCOON, and only a sender
\* with a look that is out of date undoes a start or leaves the terminal stopped
\* (compat-2.6.28.c).
THEOREM StopsAreKept == HelpersSpec => []StopsKept
<1>1. MachinesInit => TtyInv
  BY TtyStarts
<1>2. TtyInv /\ [MachinesNext]_helpervars => TtyInv'
  BY StepsApart, TtyStep, TtyRests
<1>3. TtyInv => StopsKept
  BY TtyAgreed DEF StopsKept
<1>. QED
  BY <1>1, <1>2, <1>3, PTL DEF HelpersSpec

\* For any number of setters the reader of a master in packet mode knows the flow
\* control of the slave, whatever the order of the steps that the two ends take
\* under their two locks, until a change of the status brings back what TIOCPKT
\* cleared (compat-2.6.28.c, compat-2.6.39.c).
THEOREM ReadersKnow == HelpersSpec => []ReaderKnows
<1>1. MachinesInit => PktInv
  BY PktStarts
<1>2. PktInv /\ [MachinesNext]_helpervars => PktInv'
  BY StepsApart, PktStep, PktRests
<1>3. PktInv => ReaderKnows
  BY PktAgreed DEF ReaderKnows
<1>. QED
  BY <1>1, <1>2, <1>3, PTL DEF HelpersSpec

\* Every reference to a shared buffer is some holder's, for any importers and
\* areas: what is released is neither attached nor mapped, and no BUG_ON fires,
\* though dma_buf_vunmap tests the counter without the lock (dma-buf.c).
THEOREM BuffersAreAccounted == HelpersSpec => []BufferAccounted
<1>1. MachinesInit => DmaInv
  BY DmaStarts
<1>2. DmaInv /\ [MachinesNext]_helpervars => DmaInv'
  BY StepsApart, DmaStep, DmaRests
<1>3. DmaInv => BufferAccounted
  BY DmaAccounted DEF BufferAccounted
<1>. QED
  BY <1>1, <1>2, <1>3, PTL DEF HelpersSpec

\* No area reaches behind the end of its buffer, for every size of a buffer
\* and every width of the page offset (dma-buf.c).
THEOREM AreasStayInBuffers == HelpersSpec => []AreasInBuffer
<1>1. MachinesInit => DmaInv
  BY DmaStarts
<1>2. DmaInv /\ [MachinesNext]_helpervars => DmaInv'
  BY StepsApart, DmaStep, DmaRests
<1>3. DmaInv => AreasInBuffer
  BY DEF DmaInv
<1>. QED
  BY <1>1, <1>2, <1>3, PTL DEF HelpersSpec

\* As long as calls do not overlap, a LED has one timer, nothing freed is used,
\* and a blink that was stopped stays stopped, whenever the timer fires
\* (compat-2.6.37.c).
THEOREM StoppedBlinksStay == HelpersSpec => []BlinkStops
<1>1. MachinesInit => LedInv
  BY LedStarts
<1>2. LedInv /\ [MachinesNext]_helpervars => LedInv'
  BY StepsApart, LedStep, LedRests
<1>3. LedInv => BlinkStops
  BY LedStopped DEF BlinkStops
<1>. QED
  BY <1>1, <1>2, <1>3, PTL DEF HelpersSpec

\* A transfer that succeeds has moved every byte of each of its messages, of
\* any number and length and for any answers of the slave; it leaves the bus
\* busy only if the clock of its stop condition timed out, and unless some clock
\* did every "assert:" comment is true and the slave has been told to stop
\* sending (compat-3.4.c).
THEOREM TransfersAreWhole == HelpersSpec => []BusTransfers
<1>1. MachinesInit => BusInv
  BY BusStarts
<1>2. BusInv /\ [MachinesNext]_helpervars => BusInv'
  BY StepsApart, BusStep, BusRests
<1>3. BusInv => BusTransfers
  <2>. SUFFICES ASSUME BusInv PROVE BusTransfers
    OBVIOUS
  <2>1. ret = Len(msgs) => ret >= 0
    BY DEF BusInv, BusTyped
  <2>2. xfer_at = "done" /\ ret = Len(msgs) => \A k \in DOMAIN msgs : bytes[k] = msgs[k].len
    BY <2>1 DEF BusInv, BusTyped, Transferred, Complete
  <2>3. xfer_at = "done" /\ ~timedout => ~sending
    BY DEF BusInv, Levels
  <2>. QED
    BY <2>2, <2>3 DEF BusTransfers, I2c!BusTransfers, BusInv
<1>. QED
  BY <1>1, <1>2, <1>3, PTL DEF HelpersSpec

\* For any addresses and any numbers of users of both devices, with the marks of
\* compat-2.6.32.c both lists agree on what was pushed whatever calls come in
\* which order, and a sync that does not fail leaves the destination with exactly
\* the addresses somebody uses.  With compat-2.6.23.c they agree, and the
\* destination has at least those, until an address of the destination's own is
\* taken for a pushed one.
THEOREM AddressesStaySynced == HelpersSpec => []AddressesSynced
<1>1. MachinesInit => AddrInv
  BY AddrStarts
<1>2. AddrInv /\ [MachinesNext]_helpervars => AddrInv'
  BY StepsApart, AddrStep, AddrRests
<1>3. AddrInv => AddressesSynced
  BY NowIs DEF AddrInv, Agreed, AddressesSynced, Addr!SyncBalanced, Addr!SyncMirrors
<1>. QED
  BY <1>1, <1>2, <1>3, PTL DEF HelpersSpec

=============================================================================
