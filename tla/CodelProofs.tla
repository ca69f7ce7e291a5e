---------------------------- MODULE CodelProofs -----------------------------
(***************************************************************************)
(* The packet schedulers, for any number of flows, any packets, limits and *)
(* parameters, and any clock: what codel_dequeue keeps of the counters     *)
(* (Follows), what a round of fq_codel_dequeue keeps (Kept), what it       *)
(* answers (Answers), what the loops over it keep (Drawn), and from there  *)
(* the inductive invariant IInv.                                           *)
(***************************************************************************)
EXTENDS PacketSchedulers, WellFoundedInduction, SequenceTheorems, TLAPS

-----------------------------------------------------------------------------
(***************************************************************************)
(* Induction over the naturals, by the least number at which a set of them *)
(* is not complete.                                                        *)
(***************************************************************************)
\* The order of the naturals is well founded, as a relation.
LEMMA LessThanWellFounded ==
  IsWellFoundedOn({p \in Nat \X Nat : p[1] < p[2]}, Nat)
BY NatLessThanWellFounded DEF OpToRel

\* A nonempty set of naturals has a least element.
LEMMA LeastNat ==
  ASSUME NEW S \in SUBSET Nat, S # {}
  PROVE  \E n \in S : \A m \in S : n <= m
<1>. DEFINE R == {p \in Nat \X Nat : p[1] < p[2]}
<1>1. IsWellFoundedOn(R, Nat)
  BY LessThanWellFounded
<1>. HIDE DEF R
<1>2. PICK n \in S : \A m \in S : ~(<<m, n>> \in R)
  BY <1>1, WFMin
<1>3. \A m \in S : ~(m < n)
  BY <1>2 DEF R
<1>. QED
  BY <1>2, <1>3

\* A set with 0, and with the successor of each of its numbers, has them all.
LEMMA SetInduction ==
  ASSUME NEW S, 0 \in S, \A n \in Nat : n \in S => n + 1 \in S
  PROVE  \A n \in Nat : n \in S
<1>. DEFINE R == {n \in Nat : n \notin S}
<1>1. SUFFICES ASSUME R # {} PROVE FALSE
  OBVIOUS
<1>. R \in SUBSET Nat
  OBVIOUS
<1>. HIDE DEF R
<1>2. PICK n \in R : \A m \in R : n <= m
  BY <1>1, LeastNat
<1>3. n \in Nat /\ n \notin S
  BY <1>2 DEF R
<1>4. n # 0
  BY <1>3
<1>5. n - 1 \in Nat /\ ~(n <= n - 1) /\ (n - 1) + 1 = n
  BY <1>3, <1>4
<1>6. n - 1 \notin R
  BY <1>2, <1>5
<1>7. n - 1 \in S
  BY <1>5, <1>6 DEF R
<1>. QED
  BY <1>3, <1>5, <1>7

-----------------------------------------------------------------------------
(***************************************************************************)
(* Sums.                                                                   *)
(***************************************************************************)
\* Sums(g, n) satisfies the recursion that defines it.
LEMMA SumsEquation ==
  ASSUME NEW g, NEW n \in Nat
  PROVE  Sums(g, n) =
           [k \in 0..n |-> IF k = 0 THEN 0 ELSE Sums(g, n)[k - 1] + g[k]]
<1>. DEFINE Solves(s, m) ==
              s = [k \in 0..m |-> IF k = 0 THEN 0 ELSE s[k - 1] + g[k]]
            S == {m \in Nat : \E s : Solves(s, m)}
<1>1. 0 \in S
  <2>1. Solves([k \in 0..0 |-> 0], 0)
    OBVIOUS
  <2>. QED
    BY <2>1
<1>2. ASSUME NEW m \in Nat, m \in S PROVE m + 1 \in S
  <2>1. PICK s : Solves(s, m)
    BY <1>2
  <2>. DEFINE t == [k \in 0..(m + 1) |-> IF k = m + 1 THEN s[m] + g[m + 1] ELSE s[k]]
  <2>2. \A k \in 0..(m + 1) : t[k] = IF k = 0 THEN 0 ELSE t[k - 1] + g[k]
    BY <2>1
  <2>3. Solves(t, m + 1)
    BY <2>2
  <2>4. \E u : Solves(u, m + 1)
    <3>. HIDE DEF Solves
    <3>. QED
      BY <2>3
  <2>. HIDE DEF Solves
  <2>. QED
    BY <2>4
<1>3. n \in S
  <2>. HIDE DEF S
  <2>. QED
    BY <1>1, <1>2, SetInduction
<1>4. \E s : Solves(s, n)
  BY <1>3
<1>. QED
  BY <1>4 DEF Sums

\* The steps of a sum.
LEMMA SumsStep ==
  ASSUME NEW g, NEW n \in Nat
  PROVE  /\ Sums(g, n)[0] = 0
         /\ \A k \in Nat : k + 1 <= n => Sums(g, n)[k + 1] = Sums(g, n)[k] + g[k + 1]
<1>. DEFINE s == Sums(g, n)
<1>1. s = [k \in 0..n |-> IF k = 0 THEN 0 ELSE s[k - 1] + g[k]]
  BY SumsEquation
<1>. HIDE DEF s
<1>2. s[0] = 0
  BY <1>1
<1>3. ASSUME NEW k \in Nat, k + 1 <= n PROVE s[k + 1] = s[k] + g[k + 1]
  <2>1. k + 1 \in 0..n /\ k + 1 # 0 /\ (k + 1) - 1 = k
    BY <1>3
  <2>. QED
    BY <1>1, <2>1
<1>. QED
  BY <1>2, <1>3 DEF s

\* A sum to k does not depend on where the table of sums ends.
LEMMA SumsIsSum ==
  ASSUME NEW g, NEW n \in Nat
  PROVE  \A k \in Nat : k <= n => Sums(g, n)[k] = Sum(g, k)
<1>. DEFINE Same(k) == \A m \in Nat : k <= m /\ k <= n => Sums(g, n)[k] = Sums(g, m)[k]
            S == {k \in Nat : Same(k)}
<1>1. 0 \in S
  BY SumsStep
<1>2. ASSUME NEW k \in Nat, k \in S PROVE k + 1 \in S
  <2>1. SUFFICES ASSUME NEW m \in Nat, k + 1 <= m, k + 1 <= n
                 PROVE  Sums(g, n)[k + 1] = Sums(g, m)[k + 1]
    OBVIOUS
  <2>2. Sums(g, n)[k] = Sums(g, m)[k]
    BY <1>2, <2>1
  <2>3. Sums(g, n)[k + 1] = Sums(g, n)[k] + g[k + 1]
    BY <2>1, SumsStep
  <2>4. Sums(g, m)[k + 1] = Sums(g, m)[k] + g[k + 1]
    BY <2>1, SumsStep
  <2>. QED
    BY <2>2, <2>3, <2>4
<1>3. \A k \in Nat : k \in S
  <2>. HIDE DEF S
  <2>. QED
    BY <1>1, <1>2, SetInduction
<1>4. ASSUME NEW k \in Nat, k <= n PROVE Sums(g, n)[k] = Sums(g, k)[k]
  BY <1>3, <1>4
<1>. QED
  BY <1>4 DEF Sum

\* The equations of a sum.
LEMMA SumStep ==
  ASSUME NEW g
  PROVE  /\ Sum(g, 0) = 0
         /\ \A n \in Nat : Sum(g, n + 1) = Sum(g, n) + g[n + 1]
<1>1. Sum(g, 0) = 0
  BY SumsStep DEF Sum
<1>2. ASSUME NEW n \in Nat PROVE Sum(g, n + 1) = Sum(g, n) + g[n + 1]
  <2>1. Sums(g, n + 1)[n + 1] = Sums(g, n + 1)[n] + g[n + 1]
    BY SumsStep
  <2>2. Sums(g, n + 1)[n] = Sum(g, n)
    BY SumsIsSum
  <2>. QED
    BY <2>1, <2>2 DEF Sum
<1>. QED
  BY <1>1, <1>2

\* A sum of integers is an integer, of the sign of its terms.
LEMMA SumSign ==
  ASSUME NEW g, NEW n \in Nat, \A k \in 1..n : g[k] \in Int
  PROVE  /\ Sum(g, n) \in Int
         /\ (\A k \in 1..n : g[k] >= 0) => Sum(g, n) >= 0
         /\ (\A k \in 1..n : g[k] <= 0) => Sum(g, n) <= 0
<1>. DEFINE P(m) == /\ Sum(g, m) \in Int
                    /\ (\A k \in 1..n : g[k] >= 0) => Sum(g, m) >= 0
                    /\ (\A k \in 1..n : g[k] <= 0) => Sum(g, m) <= 0
            S == {m \in Nat : m <= n => P(m)}
<1>1. 0 \in S
  BY SumStep
<1>2. ASSUME NEW m \in Nat, m \in S PROVE m + 1 \in S
  <2>1. SUFFICES ASSUME m + 1 <= n PROVE P(m + 1)
    OBVIOUS
  <2>2. P(m) /\ g[m + 1] \in Int /\ m + 1 \in 1..n
    BY <1>2, <2>1
  <2>3. Sum(g, m + 1) = Sum(g, m) + g[m + 1]
    BY SumStep
  <2>. QED
    BY <2>2, <2>3
<1>3. n \in S
  <2>. HIDE DEF S
  <2>. QED
    BY <1>1, <1>2, SetInduction
<1>. QED
  BY <1>3

\* Changing one term changes the sum by the difference.
LEMMA SumUpdate ==
  ASSUME NEW g, NEW h, NEW n \in Nat, NEW i \in 1..n,
         \A k \in 1..n : g[k] \in Int /\ h[k] \in Int,
         \A k \in 1..n : k # i => g[k] = h[k]
  PROVE  Sum(h, n) = (Sum(g, n) - g[i]) + h[i]
<1>. DEFINE S == {m \in Nat : m <= n => /\ Sum(g, m) \in Int
                                        /\ Sum(h, m) = IF m < i THEN Sum(g, m)
                                                       ELSE (Sum(g, m) - g[i]) + h[i]}
<1>1. 0 \in S
  BY SumStep
<1>2. ASSUME NEW m \in Nat, m \in S PROVE m + 1 \in S
  <2>1. SUFFICES ASSUME m + 1 <= n
                 PROVE  /\ Sum(g, m + 1) \in Int
                        /\ Sum(h, m + 1) = IF m + 1 < i THEN Sum(g, m + 1)
                                           ELSE (Sum(g, m + 1) - g[i]) + h[i]
    OBVIOUS
  <2>2. /\ Sum(g, m) \in Int
        /\ Sum(h, m) = IF m < i THEN Sum(g, m) ELSE (Sum(g, m) - g[i]) + h[i]
    BY <1>2, <2>1
  <2>3. m + 1 \in 1..n /\ g[m + 1] \in Int /\ h[m + 1] \in Int /\ g[i] \in Int /\ h[i] \in Int
    BY <2>1
  <2>4. Sum(g, m + 1) = Sum(g, m) + g[m + 1] /\ Sum(h, m + 1) = Sum(h, m) + h[m + 1]
    BY SumStep
  <2>5. m + 1 # i => g[m + 1] = h[m + 1]
    BY <2>3
  <2>6. CASE m + 1 = i
    BY <2>2, <2>3, <2>4, <2>6
  <2>7. CASE m + 1 # i
    BY <2>2, <2>3, <2>4, <2>5, <2>7
  <2>. QED
    BY <2>6, <2>7
<1>3. n \in S
  <2>. HIDE DEF S
  <2>. QED
    BY <1>1, <1>2, SetInduction
<1>. QED
  BY <1>3

\* A sum of m + n terms, split.
LEMMA SumSplit ==
  ASSUME NEW g, NEW h, NEW m \in Nat, NEW n \in Nat,
         \A k \in 1..(m + n) : g[k] \in Int,
         \A k \in 1..n : h[k] = g[m + k]
  PROVE  Sum(g, m + n) = Sum(g, m) + Sum(h, n)
<1>. DEFINE S == {k \in Nat : k <= n => /\ Sum(h, k) \in Int
                                        /\ Sum(g, m + k) = Sum(g, m) + Sum(h, k)}
<1>0. Sum(g, m) \in Int
  BY SumSign
<1>1. 0 \in S
  BY <1>0, SumStep
<1>2. ASSUME NEW k \in Nat, k \in S PROVE k + 1 \in S
  <2>1. SUFFICES ASSUME k + 1 <= n
                 PROVE  /\ Sum(h, k + 1) \in Int
                        /\ Sum(g, m + (k + 1)) = Sum(g, m) + Sum(h, k + 1)
    OBVIOUS
  <2>2. Sum(h, k) \in Int /\ Sum(g, m + k) = Sum(g, m) + Sum(h, k)
    BY <1>2, <2>1
  <2>3. k + 1 \in 1..n /\ m + (k + 1) \in 1..(m + n) /\ m + (k + 1) = (m + k) + 1
    BY <2>1
  <2>4. h[k + 1] = g[(m + k) + 1] /\ g[(m + k) + 1] \in Int
    BY <2>3
  <2>5. Sum(g, (m + k) + 1) = Sum(g, m + k) + g[(m + k) + 1]
    BY SumStep
  <2>6. Sum(h, k + 1) = Sum(h, k) + h[k + 1]
    BY SumStep
  <2>. QED
    BY <1>0, <2>2, <2>3, <2>4, <2>5, <2>6
<1>3. n \in S
  <2>. HIDE DEF S
  <2>. QED
    BY <1>1, <1>2, SetInduction
<1>. QED
  BY <1>3

\* The same, with the number of all terms.
LEMMA SumParts ==
  ASSUME NEW g, NEW h, NEW m \in Nat, NEW n \in Nat, NEW t \in Nat, t = m + n,
         \A k \in 1..t : g[k] \in Int,
         \A k \in 1..n : h[k] = g[m + k]
  PROVE  Sum(g, t) = Sum(g, m) + Sum(h, n)
BY SumSplit

\* Sums of the same terms are the same.
LEMMA SumSame ==
  ASSUME NEW g, NEW h, NEW n \in Nat, \A k \in 1..n : g[k] = h[k] /\ g[k] \in Int
  PROVE  Sum(g, n) = Sum(h, n)
<1>1. Sum(g, 0 + n) = Sum(g, 0) + Sum(h, n)
  <2>. DEFINE z == 0
  <2>1. z \in Nat /\ \A k \in 1..(z + n) : g[k] \in Int
    OBVIOUS
  <2>2. \A k \in 1..n : h[k] = g[z + k]
    OBVIOUS
  <2>. HIDE DEF z
  <2>3. Sum(g, z + n) = Sum(g, z) + Sum(h, n)
    BY <2>1, <2>2, SumSplit
  <2>. QED
    BY <2>3 DEF z
<1>2. Sum(h, n) \in Int
  BY SumSign
<1>. QED
  BY <1>1, <1>2, SumStep


-----------------------------------------------------------------------------
(***************************************************************************)
(* The bytes of a queue.                                                   *)
(***************************************************************************)
\* The terms of Bytes(q).
LEMMA BytesTerms ==
  ASSUME NEW q \in Seq(Packet)
  PROVE  /\ Len(q) \in Nat
         /\ \A k \in 1..Len(q) : q[k] \in Packet /\ q[k].len \in Nat \ {0}
<1>1. Len(q) \in Nat /\ \A k \in 1..Len(q) : q[k] \in Packet
  OBVIOUS
<1>2. \A p \in Packet : p.len \in Nat \ {0}
  BY DEF Packet
<1>. QED
  BY <1>1, <1>2

\* The bytes of a queue are a natural number, 0 for the empty queue only.
LEMMA BytesNat ==
  ASSUME NEW q \in Seq(Packet)
  PROVE  Bytes(q) \in Nat
<1>. DEFINE g == [k \in 1..Len(q) |-> q[k].len]
<1>1. Len(q) \in Nat /\ \A k \in 1..Len(q) : g[k] \in Int /\ g[k] >= 0
  BY BytesTerms
<1>. HIDE DEF g
<1>2. Sum(g, Len(q)) \in Int /\ Sum(g, Len(q)) >= 0
  BY <1>1, SumSign
<1>. QED
  BY <1>2 DEF Bytes, g

\* An empty queue has no bytes.
LEMMA BytesEmpty == Bytes(<< >>) = 0
<1>1. Len(<< >>) = 0
  OBVIOUS
<1>. QED
  BY <1>1, SumStep DEF Bytes

\* A packet at the end adds its length.
LEMMA BytesAppend ==
  ASSUME NEW q \in Seq(Packet), NEW p \in Packet
  PROVE  /\ Append(q, p) \in Seq(Packet)
         /\ Len(Append(q, p)) = Len(q) + 1
         /\ Bytes(Append(q, p)) = Bytes(q) + p.len
<1>. DEFINE r == Append(q, p)
            g == [k \in 1..Len(q) |-> q[k].len]
            h == [k \in 1..Len(r) |-> r[k].len]
<1>1. /\ r \in Seq(Packet) /\ Len(r) = Len(q) + 1 /\ Len(q) \in Nat
      /\ \A k \in 1..Len(q) : r[k] = q[k]
      /\ r[Len(q) + 1] = p
  OBVIOUS
<1>2. \A k \in 1..Len(q) : h[k] = g[k] /\ h[k] \in Int
  BY <1>1, BytesTerms
<1>3. h[Len(q) + 1] = p.len
  BY <1>1
<1>. HIDE DEF g, h
<1>4. Sum(h, Len(q)) = Sum(g, Len(q))
  BY <1>1, <1>2, SumSame
<1>5. Sum(h, Len(q) + 1) = Sum(h, Len(q)) + h[Len(q) + 1]
  BY <1>1, SumStep
<1>6. Bytes(r) = Sum(h, Len(q) + 1) /\ Bytes(q) = Sum(g, Len(q))
  BY <1>1 DEF Bytes, g, h
<1>. QED
  BY <1>1, <1>3, <1>4, <1>5, <1>6

\* The length of what is left after n of l.
LEMMA RestLength ==
  ASSUME NEW l \in Nat, NEW n \in Nat, n <= l
  PROVE  /\ (IF n + 1 <= l THEN (l - (n + 1)) + 1 ELSE 0) = l - n
         /\ \A k \in 1..(l - n) : n + k \in 1..l
OBVIOUS

\* The bytes of a queue are those of a prefix and those of the rest.
LEMMA BytesSplit ==
  ASSUME NEW q \in Seq(Packet), NEW n \in 0..Len(q)
  PROVE  /\ SubSeq(q, 1, n) \in Seq(Packet)
         /\ SubSeq(q, n + 1, Len(q)) \in Seq(Packet)
         /\ Len(SubSeq(q, n + 1, Len(q))) = Len(q) - n
         /\ Bytes(q) = Bytes(SubSeq(q, 1, n)) + Bytes(SubSeq(q, n + 1, Len(q)))
<1>. DEFINE a == SubSeq(q, 1, n)
            b == SubSeq(q, n + 1, Len(q))
            m == Len(q) - n
            g == [k \in 1..Len(q) |-> q[k].len]
            ga == [k \in 1..Len(a) |-> a[k].len]
            gb == [k \in 1..Len(b) |-> b[k].len]
<1>0. Len(q) \in Nat /\ n \in Nat /\ n <= Len(q)
  OBVIOUS
<1>1. Len(q) \in Nat /\ n \in Nat /\ m \in Nat /\ n + m = Len(q) /\ m = Len(q) - n
  BY <1>0
<1>. HIDE DEF m
<1>2. /\ a \in Seq(Packet) /\ Len(a) = n
      /\ \A k \in 1..n : a[k] = q[k]
  BY <1>1
<1>3. /\ b \in Seq(Packet) /\ Len(b) = m
      /\ \A k \in 1..m : b[k] = q[n + k]
  <2>1. /\ n + 1 \in Int /\ Len(q) \in Int
        /\ \A i \in (n + 1)..Len(q) : q[i] \in Packet
    BY <1>0
  <2>2. Len(b) = IF n + 1 <= Len(q) THEN (Len(q) - (n + 1)) + 1 ELSE 0
    BY ONLY <2>1, SubSeqProperties, SMTT(30)
  <2>3. /\ b \in Seq(Packet)
        /\ \A k \in 1..((Len(q) - (n + 1)) + 1) : b[k] = q[((n + 1) + k) - 1]
    BY ONLY <2>1, SubSeqProperties, SMTT(30)
  <2>. HIDE DEF b
  <2>4. Len(b) = m
    BY <1>0, <1>1, <2>2, RestLength
  <2>5. ASSUME NEW k \in 1..m PROVE b[k] = q[n + k]
    <3>1. k \in 1..((Len(q) - (n + 1)) + 1) /\ ((n + 1) + k) - 1 = n + k
      BY <1>1
    <3>2. b[k] = q[((n + 1) + k) - 1]
      BY ONLY <2>3, <3>1, SMTT(30)
    <3>. QED
      BY <3>1, <3>2
  <2>. QED
    BY <2>3, <2>4, <2>5
<1>4. \A k \in 1..Len(q) : g[k] \in Int
  BY <1>1, BytesTerms
<1>5. ASSUME NEW k \in 1..m PROVE gb[k] = g[n + k]
  <2>. HIDE DEF a, b
  <2>1. n + k \in 1..Len(q) /\ k \in 1..Len(b)
    <3>1. \A i \in 1..(Len(q) - n) : n + i \in 1..Len(q)
      BY <1>0, RestLength
    <3>. QED
      BY <1>1, <1>3, <3>1
  <2>2. b[k] = q[n + k]
    BY <1>3
  <2>. QED
    BY <2>1, <2>2
<1>6. \A k \in 1..n : ga[k] = g[k] /\ ga[k] \in Int
  BY <1>1, <1>2, <1>4
<1>7. Bytes(q) = Sum(g, Len(q)) /\ Bytes(a) = Sum(ga, n) /\ Bytes(b) = Sum(gb, m)
  BY <1>1, <1>2, <1>3 DEF Bytes
<1>. HIDE DEF a, b, m, g, ga, gb
<1>8. Sum(g, Len(q)) = Sum(g, n) + Sum(gb, m)
  <2>1. n \in Nat /\ m \in Nat /\ Len(q) \in Nat /\ Len(q) = n + m
    BY <1>1
  <2>. QED
    BY SMTT(30), <2>1, <1>4, <1>5, SumParts
<1>9. Sum(ga, n) = Sum(g, n)
  BY <1>1, <1>6, SumSame
<1>. QED
  BY <1>2, <1>3, <1>7, <1>8, <1>9 DEF a, b, m

\* The head of a queue leaves with its length.
LEMMA BytesTail ==
  ASSUME NEW q \in Seq(Packet), q # << >>
  PROVE  /\ Head(q) \in Packet /\ Head(q).len \in Nat /\ Head(q).len > 0
         /\ Tail(q) \in Seq(Packet) /\ Len(Tail(q)) = Len(q) - 1
         /\ Bytes(Tail(q)) = Bytes(q) - Head(q).len
<1>1. Head(q) \in Packet /\ Len(q) \in Nat /\ Len(q) >= 1 /\ Head(q) = q[1]
  OBVIOUS
<1>2. Tail(q) \in Seq(Packet) /\ Len(Tail(q)) = Len(q) - 1
  OBVIOUS
<1>3. Head(q).len \in Nat /\ Head(q).len > 0
  BY <1>1 DEF Packet
<1>. DEFINE t == Tail(q)
            m == Len(q) - 1
            g == [k \in 1..Len(q) |-> q[k].len]
            h == [k \in 1..Len(t) |-> t[k].len]
<1>4. m \in Nat /\ 1 + m = Len(q)
  BY <1>1
<1>5. \A k \in 1..m : t[k] = q[1 + k]
  BY <1>1, <1>2
<1>6. \A k \in 1..Len(q) : g[k] \in Int
  BY <1>4, BytesTerms
<1>7. \A k \in 1..m : h[k] = g[1 + k]
  BY <1>2, <1>4, <1>5
<1>8. Bytes(q) = Sum(g, Len(q)) /\ Bytes(t) = Sum(h, m)
  BY <1>2, <1>4 DEF Bytes
<1>9. g[1] = Head(q).len
  BY <1>1
<1>. HIDE DEF t, m, g, h
<1>10. Sum(g, Len(q)) = Sum(g, 1) + Sum(h, m)
  BY <1>1, <1>4, <1>6, <1>7, SumParts
<1>11. Sum(g, 0 + 1) = Sum(g, 0) + g[0 + 1] /\ Sum(g, 0) = 0
  BY SumStep
<1>12. Bytes(t) \in Nat
  BY <1>2, BytesNat DEF t
<1>13. Bytes(q) = Head(q).len + Bytes(t)
  BY <1>3, <1>8, <1>9, <1>10, <1>11
<1>. QED
  BY <1>1, <1>2, <1>3, <1>12, <1>13 DEF t

\* A queue with packets has bytes.
LEMMA BytesPositive ==
  ASSUME NEW q \in Seq(Packet)
  PROVE  q # << >> <=> Bytes(q) > 0
<1>1. ASSUME q # << >> PROVE Bytes(q) > 0
  <2>1. Tail(q) \in Seq(Packet) /\ Bytes(Tail(q)) = Bytes(q) - Head(q).len
        /\ Head(q).len \in Nat /\ Head(q).len > 0
    BY <1>1, BytesTail
  <2>2. Bytes(Tail(q)) \in Nat /\ Bytes(q) \in Nat
    BY <2>1, BytesNat
  <2>. QED
    BY <2>1, <2>2
<1>. QED
  BY <1>1, BytesEmpty


-----------------------------------------------------------------------------
(***************************************************************************)
(* CoDel.  What every step of codel_dequeue keeps, from a view a in which  *)
(* it started with no packet in hand: packets leave the queue one by one,  *)
(* from its head, and are counted; a drop leaves bytes in the scheduler.   *)
(***************************************************************************)
Counters == [qlen : Int, backlog : Int]
Stats    == [maxpacket : Nat, drop_count : Nat]

\* The packets in hand: one or none.
InHand(v) == IF v.skb = NoSkb THEN 0 ELSE 1

IsView(v) ==
  /\ DOMAIN v = {"queue", "bytes", "vars", "stats", "sch", "skb", "drop"}
  /\ v.queue \in Seq(Packet) /\ v.bytes \in Int
  /\ v.stats \in Stats /\ v.sch \in Counters
  /\ v.skb \in Packet \cup {NoSkb}

\* What w says of the queue, of the backlogs and of the packets gone agrees
\* with what a said.
Conserved(a, w) ==
  /\ w.sch.qlen - Len(w.queue) = a.sch.qlen - Len(a.queue)
  /\ w.bytes - Bytes(w.queue) = a.bytes - Bytes(a.queue)
  /\ w.sch.backlog - Bytes(w.queue) = a.sch.backlog - Bytes(a.queue)
  /\ w.stats.drop_count + w.sch.qlen + InHand(w) = a.stats.drop_count + a.sch.qlen
  /\ w.stats.drop_count >= a.stats.drop_count

\* A drop is decided with a packet in hand and bytes left in the scheduler.
DropAllowed(a, w) ==
  /\ w.drop => w.skb # NoSkb /\ w.sch.backlog > 0
  /\ w.skb = NoSkb => w.queue = << >> /\ (w.sch = a.sch \/ w.sch.backlog > 0)

Follows(a, w) == IsView(w) /\ Conserved(a, w) /\ DropAllowed(a, w)

\* The next packet is taken from the queue and looked at.
Taken(v, params, t) == codel_should_drop(dequeue(v), params, t)

\* From an empty queue nothing is taken.
LEMMA TakenNone ==
  ASSUME NEW v, IsView(v), v.queue = << >>, NEW params, NEW t
  PROVE  /\ IsView(Taken(v, params, t))
         /\ Taken(v, params, t).queue = << >>
         /\ Taken(v, params, t).bytes = v.bytes
         /\ Taken(v, params, t).sch = v.sch
         /\ Taken(v, params, t).stats = v.stats
         /\ Taken(v, params, t).skb = NoSkb
         /\ ~Taken(v, params, t).drop
<1>. DEFINE h == [v EXCEPT !.skb = NoSkb]
            w == [h EXCEPT !.vars.first_above_time = 0, !.drop = FALSE]
<1>1. dequeue(v) = h
  BY DEF dequeue
<1>2. /\ DOMAIN h = DOMAIN v /\ h.skb = NoSkb /\ h.queue = v.queue
      /\ h.bytes = v.bytes /\ h.sch = v.sch /\ h.stats = v.stats
  BY DEF IsView
<1>. HIDE DEF h
<1>3. codel_should_drop(h, params, t) = w
  BY <1>2 DEF codel_should_drop
<1>4. /\ DOMAIN w = DOMAIN h /\ w.skb = h.skb /\ w.queue = h.queue /\ w.drop = FALSE
      /\ w.bytes = h.bytes /\ w.sch = h.sch /\ w.stats = h.stats
  BY <1>2 DEF IsView
<1>. HIDE DEF w
<1>. QED
  BY <1>1, <1>2, <1>3, <1>4 DEF IsView, Taken

\* From a queue with packets the head is taken.
LEMMA TakenHead ==
  ASSUME NEW v, IsView(v), v.queue # << >>, NEW params, NEW t,
         NEW head, head = Head(v.queue)
  PROVE  /\ IsView(Taken(v, params, t))
         /\ Len(Taken(v, params, t).queue) = Len(v.queue) - 1
         /\ Bytes(Taken(v, params, t).queue) = Bytes(v.queue) - head.len
         /\ Taken(v, params, t).bytes = v.bytes - head.len
         /\ Taken(v, params, t).sch.qlen = v.sch.qlen - 1
         /\ Taken(v, params, t).sch.backlog = v.sch.backlog - head.len
         /\ Taken(v, params, t).stats.drop_count = v.stats.drop_count
         /\ Taken(v, params, t).skb = head
         /\ Taken(v, params, t).drop => Taken(v, params, t).sch.backlog > 0
<1>. DEFINE tl == Tail(v.queue)
<1>0. /\ Head(v.queue) \in Packet /\ Head(v.queue).len \in Nat
      /\ tl \in Seq(Packet) /\ Len(tl) = Len(v.queue) - 1
      /\ Bytes(tl) = Bytes(v.queue) - Head(v.queue).len
  BY BytesTail DEF IsView
<1>1. Head(v.queue) # NoSkb
  BY <1>0, NoSkbAssumption
<1>. DEFINE h == [v EXCEPT !.skb = Head(v.queue), !.queue = Tail(v.queue),
                           !.bytes = @ - Head(v.queue).len, !.sch.qlen = @ - 1]
<1>2. dequeue(v) = h
  BY DEF dequeue
<1>3. /\ DOMAIN h = DOMAIN v /\ h.skb = Head(v.queue) /\ h.queue = tl
      /\ h.bytes = v.bytes - Head(v.queue).len
      /\ h.sch = [v.sch EXCEPT !.qlen = @ - 1] /\ h.stats = v.stats
  BY DEF IsView
<1>. HIDE DEF h, tl
<1>4. h.sch \in Counters /\ h.sch.qlen = v.sch.qlen - 1 /\ h.sch.backlog = v.sch.backlog
  BY <1>3 DEF IsView, Counters
<1>. DEFINE backlog == h.sch.backlog - h.skb.len
            largest == IF h.skb.len > h.stats.maxpacket THEN h.skb.len ELSE h.stats.maxpacket
            above == h.vars.first_above_time
            below == \/ codel_time_before((t - h.skb.time) % TimeMod, params.target)
                     \/ LastPacket(backlog, largest)
            first == IF below THEN 0
                     ELSE IF above = 0 THEN (t + params.interval) % TimeMod
                     ELSE above
            drop == ~below /\ above # 0 /\ codel_time_after(t, above)
            w == [h EXCEPT !.sch.backlog = backlog, !.stats.maxpacket = largest,
                           !.vars.first_above_time = first, !.drop = drop]
<1>5. codel_should_drop(h, params, t) = w
  BY <1>1, <1>3 DEF codel_should_drop
<1>6. backlog \in Int /\ largest \in Nat
  BY SMTT(30), <1>0, <1>3, <1>4 DEF IsView, Counters, Stats
<1>7. drop => backlog > 0
  BY <1>6 DEF LastPacket
<1>8. backlog = v.sch.backlog - Head(v.queue).len
  BY <1>3, <1>4
<1>. HIDE DEF backlog, largest, first, drop
<1>9. /\ DOMAIN w = DOMAIN h /\ w.skb = h.skb /\ w.queue = h.queue /\ w.drop = drop
      /\ w.bytes = h.bytes
      /\ w.sch = [h.sch EXCEPT !.backlog = backlog]
      /\ w.stats = [h.stats EXCEPT !.maxpacket = largest]
  BY <1>3 DEF IsView
<1>. HIDE DEF w
<1>10. /\ w.sch \in Counters /\ w.sch.backlog = backlog /\ w.sch.qlen = h.sch.qlen
       /\ w.stats \in Stats /\ w.stats.drop_count = h.stats.drop_count
  BY ZenonT(40), <1>3, <1>4, <1>6, <1>9 DEF IsView, Counters, Stats
<1>11. IsView(w)
  BY <1>0, <1>3, <1>9, <1>10 DEF IsView
<1>. QED
  BY <1>0, <1>2, <1>3, <1>4, <1>5, <1>7, <1>8, <1>9, <1>10, <1>11 DEF Taken


\* The state of the law (vars) is not looked at by any of this, and a drop
\* that is called off leaves it true.
LEMMA VarsFree ==
  ASSUME NEW a, NEW v, Follows(a, v), NEW w, DOMAIN w = DOMAIN v,
         w.queue = v.queue, w.bytes = v.bytes, w.stats = v.stats, w.sch = v.sch,
         w.skb = v.skb, w.drop => v.drop
  PROVE  Follows(a, w)
<1>1. IsView(w)
  BY DEF Follows, IsView
<1>2. Conserved(a, w)
  BY DEF Follows, Conserved, InHand
<1>3. DropAllowed(a, w)
  BY DEF Follows, DropAllowed
<1>. QED
  BY <1>1, <1>2, <1>3 DEF Follows

\* Scheduling the next drop.
LEMMA ScheduleKeeps ==
  ASSUME NEW a, NEW v, Follows(a, v), NEW from, NEW params
  PROVE  /\ Follows(a, ScheduleDrop(v, from, params))
         /\ ScheduleDrop(v, from, params).queue = v.queue
         /\ ScheduleDrop(v, from, params).skb = v.skb
         /\ ScheduleDrop(v, from, params).drop <=> v.drop
<1>. DEFINE w == ScheduleDrop(v, from, params)
<1>1. /\ DOMAIN w = DOMAIN v /\ w.queue = v.queue /\ w.bytes = v.bytes
      /\ w.stats = v.stats /\ w.sch = v.sch /\ w.skb = v.skb /\ (w.drop <=> v.drop)
  BY DEF ScheduleDrop, Follows, IsView
<1>. HIDE DEF w
<1>2. Follows(a, w)
  BY <1>1, VarsFree
<1>. QED
  BY <1>1, <1>2 DEF w

\* A packet taken with none in hand, as at the start of codel_dequeue.
LEMMA FirstTaken ==
  ASSUME NEW a, IsView(a), a.skb = NoSkb, NEW params, NEW t
  PROVE  Follows(a, Taken(a, params, t))
<1>. DEFINE w == Taken(a, params, t)
<1>1. CASE a.queue = << >>
  <2>1. /\ IsView(w) /\ w.queue = << >> /\ w.bytes = a.bytes /\ w.sch = a.sch
        /\ w.stats = a.stats /\ w.skb = NoSkb /\ ~w.drop
    BY <1>1, TakenNone
  <2>. HIDE DEF w
  <2>2. Conserved(a, w)
    BY <1>1, <2>1 DEF Conserved, InHand, IsView, Counters, Stats
  <2>3. DropAllowed(a, w)
    BY <2>1 DEF DropAllowed
  <2>. QED
    BY <2>1, <2>2, <2>3 DEF Follows, w
<1>2. CASE a.queue # << >>
  <2>. DEFINE hd == Head(a.queue)
  <2>2. /\ hd \in Packet /\ hd.len \in Nat
        /\ Len(a.queue) \in Nat /\ Bytes(a.queue) \in Nat
    BY <1>2, BytesTail, BytesNat DEF IsView
  <2>0. hd = Head(a.queue)
    OBVIOUS
  <2>. HIDE DEF hd
  <2>1. /\ IsView(w) /\ Len(w.queue) = Len(a.queue) - 1
        /\ Bytes(w.queue) = Bytes(a.queue) - hd.len
        /\ w.bytes = a.bytes - hd.len
        /\ w.sch.qlen = a.sch.qlen - 1
        /\ w.sch.backlog = a.sch.backlog - hd.len
        /\ w.stats.drop_count = a.stats.drop_count
        /\ w.skb = hd
        /\ w.drop => w.sch.backlog > 0
    BY <1>2, <2>0, TakenHead
  <2>. HIDE DEF w
  <2>3. w.skb # NoSkb
    BY <2>1, <2>2, NoSkbAssumption
  <2>4. /\ a.sch.qlen \in Int /\ a.sch.backlog \in Int /\ a.stats.drop_count \in Nat
        /\ a.bytes \in Int
    BY DEF IsView, Counters, Stats
  <2>5. Conserved(a, w)
    <3>1. w.sch.qlen - Len(w.queue) = a.sch.qlen - Len(a.queue)
      <4>1. Len(w.queue) = Len(a.queue) - 1
        BY <2>1
      <4>2. Len(a.queue) \in Nat
        BY <2>2
      <4>3. w.sch.qlen = a.sch.qlen - 1
        BY <2>1
      <4>4. a.sch.qlen \in Int
        BY <2>4
      <4>. QED
        BY <4>1, <4>2, <4>3, <4>4
    <3>2. w.bytes - Bytes(w.queue) = a.bytes - Bytes(a.queue)
      BY <2>1, <2>2, <2>3, <2>4
    <3>3. w.sch.backlog - Bytes(w.queue) = a.sch.backlog - Bytes(a.queue)
      BY <2>1, <2>2, <2>3, <2>4
    <3>4. w.stats.drop_count + w.sch.qlen + InHand(w) = a.stats.drop_count + a.sch.qlen
      BY SMTT(30), <2>1, <2>2, <2>3, <2>4 DEF InHand
    <3>5. w.stats.drop_count >= a.stats.drop_count
      BY <2>1, <2>4
    <3>. QED
      BY <3>1, <3>2, <3>3, <3>4, <3>5 DEF Conserved
  <2>6. DropAllowed(a, w)
    BY <2>1, <2>3 DEF DropAllowed
  <2>. QED
    BY <2>1, <2>5, <2>6 DEF Follows, w
<1>. QED
  BY <1>1, <1>2

\* The packet in hand is dropped, and the next one taken.
LEMMA DropKeeps ==
  ASSUME NEW a, IsView(a), NEW v, Follows(a, v), v.drop, NEW params, NEW t
  PROVE  /\ Follows(a, DropAndNext(v, params, t))
         /\ DropAndNext(v, params, t).drop =>
              Len(DropAndNext(v, params, t).queue) = Len(v.queue) - 1
<1>. DEFINE c == [v EXCEPT !.stats.drop_count = @ + 1]
            w == Taken(c, params, t)
<1>1. DropAndNext(v, params, t) = w
  BY DEF DropAndNext, Taken
<1>2. IsView(v) /\ v.skb # NoSkb /\ v.sch.backlog > 0
  BY DEF Follows, DropAllowed
<1>3. /\ DOMAIN c = DOMAIN v /\ c.queue = v.queue /\ c.bytes = v.bytes /\ c.sch = v.sch
      /\ c.skb = v.skb /\ c.stats = [v.stats EXCEPT !.drop_count = @ + 1]
  BY <1>2 DEF IsView
<1>. HIDE DEF c
<1>4. c.stats \in Stats /\ c.stats.drop_count = v.stats.drop_count + 1
  BY <1>2, <1>3 DEF IsView, Stats
<1>5. IsView(c)
  BY <1>2, <1>3, <1>4 DEF IsView
<1>6. /\ a.sch.qlen \in Int /\ a.sch.backlog \in Int /\ a.stats.drop_count \in Nat
      /\ a.bytes \in Int /\ Len(a.queue) \in Nat /\ Bytes(a.queue) \in Nat
  BY BytesNat DEF IsView, Counters, Stats
<1>7. /\ v.sch.qlen \in Int /\ v.sch.backlog \in Int /\ v.stats.drop_count \in Nat
      /\ v.bytes \in Int /\ Len(v.queue) \in Nat /\ Bytes(v.queue) \in Nat
  BY <1>2, BytesNat DEF IsView, Counters, Stats
<1>8. Conserved(a, v)
  BY DEF Follows
<1>9. CASE v.queue = << >>
  <2>1. /\ IsView(w) /\ w.queue = << >> /\ w.bytes = v.bytes /\ w.sch = v.sch
        /\ w.stats = c.stats /\ w.skb = NoSkb /\ ~w.drop
    BY <1>3, <1>5, <1>9, TakenNone
  <2>. HIDE DEF w
  <2>2. Conserved(a, w)
    <3>1. w.sch.qlen - Len(w.queue) = a.sch.qlen - Len(a.queue)
      BY <1>2, <1>4, <1>6, <1>7, <1>8, <1>9, <2>1 DEF Conserved
    <3>2. w.bytes - Bytes(w.queue) = a.bytes - Bytes(a.queue)
      BY <1>2, <1>4, <1>6, <1>7, <1>8, <1>9, <2>1 DEF Conserved
    <3>3. w.sch.backlog - Bytes(w.queue) = a.sch.backlog - Bytes(a.queue)
      BY <1>2, <1>4, <1>6, <1>7, <1>8, <1>9, <2>1 DEF Conserved
    <3>4. w.stats.drop_count + w.sch.qlen + InHand(w) = a.stats.drop_count + a.sch.qlen
      <4>1. v.stats.drop_count + v.sch.qlen + InHand(v) = a.stats.drop_count + a.sch.qlen
        BY <1>8 DEF Conserved
      <4>2. w.stats.drop_count = v.stats.drop_count + 1 /\ w.sch.qlen = v.sch.qlen
        BY <1>4, <2>1
      <4>3. v.stats.drop_count \in Nat /\ v.sch.qlen \in Int
        BY <1>7
      <4>4. InHand(v) = 1 /\ InHand(w) = 0
        BY <1>2, <2>1 DEF InHand
      <4>. QED
        BY <4>1, <4>2, <4>3, <4>4
    <3>5. w.stats.drop_count >= a.stats.drop_count
      <4>1. v.stats.drop_count >= a.stats.drop_count
        BY <1>8 DEF Conserved
      <4>2. w.stats.drop_count = v.stats.drop_count + 1
        BY <1>4, <2>1
      <4>. QED
        BY SMTT(30), <1>6, <1>7, <4>1, <4>2
    <3>. QED
      BY <3>1, <3>2, <3>3, <3>4, <3>5 DEF Conserved
  <2>3. DropAllowed(a, w)
    BY <1>2, <2>1 DEF DropAllowed
  <2>. QED
    BY <1>1, <2>1, <2>2, <2>3 DEF Follows
<1>10. CASE v.queue # << >>
  <2>. DEFINE hd == Head(v.queue)
  <2>2. hd \in Packet /\ hd.len \in Nat
    BY <1>2, <1>10, BytesTail DEF IsView
  <2>0. hd = Head(c.queue)
    BY <1>3
  <2>. HIDE DEF hd
  <2>9. c.queue # << >>
    BY <1>3, <1>10
  <2>7. /\ IsView(w) /\ Len(w.queue) = Len(c.queue) - 1
        /\ Bytes(w.queue) = Bytes(c.queue) - hd.len
        /\ w.bytes = c.bytes - hd.len
        /\ w.sch.qlen = c.sch.qlen - 1
        /\ w.sch.backlog = c.sch.backlog - hd.len
        /\ w.stats.drop_count = c.stats.drop_count
        /\ w.skb = hd
        /\ w.drop => w.sch.backlog > 0
    BY <1>5, <2>0, <2>9, TakenHead
  <2>. HIDE DEF w
  <2>1. /\ IsView(w) /\ Len(w.queue) = Len(v.queue) - 1
        /\ Bytes(w.queue) = Bytes(v.queue) - hd.len
        /\ w.bytes = v.bytes - hd.len
        /\ w.sch.qlen = v.sch.qlen - 1
        /\ w.sch.backlog = v.sch.backlog - hd.len
        /\ w.stats.drop_count = v.stats.drop_count + 1
        /\ w.skb = hd
        /\ w.drop => w.sch.backlog > 0
    BY <1>3, <1>4, <2>7
  <2>3. w.skb # NoSkb
    BY <2>1, <2>2, NoSkbAssumption
  <2>4. InHand(w) = 1 /\ InHand(v) = 1
    BY <1>2, <2>3 DEF InHand
  <2>5. Conserved(a, w)
    <3>1. w.sch.qlen - Len(w.queue) = a.sch.qlen - Len(a.queue)
      <4>1. v.sch.qlen - Len(v.queue) = a.sch.qlen - Len(a.queue)
        BY <1>8 DEF Conserved
      <4>2. Len(w.queue) = Len(v.queue) - 1 /\ w.sch.qlen = v.sch.qlen - 1
        BY <2>1
      <4>3. v.sch.qlen \in Int /\ Len(v.queue) \in Nat
        BY <1>7
      <4>. QED
        BY SMTT(30), <4>1, <4>2, <4>3
    <3>2. w.bytes - Bytes(w.queue) = a.bytes - Bytes(a.queue)
      <4>1. v.bytes - Bytes(v.queue) = a.bytes - Bytes(a.queue)
        BY <1>8 DEF Conserved
      <4>2. Bytes(w.queue) = Bytes(v.queue) - hd.len /\ w.bytes = v.bytes - hd.len
        BY <2>1
      <4>3. v.bytes \in Int /\ Bytes(v.queue) \in Nat /\ hd.len \in Nat
        BY <1>7, <2>2
      <4>. QED
        BY <4>1, <4>2, <4>3
    <3>3. w.sch.backlog - Bytes(w.queue) = a.sch.backlog - Bytes(a.queue)
      <4>1. v.sch.backlog - Bytes(v.queue) = a.sch.backlog - Bytes(a.queue)
        BY <1>8 DEF Conserved
      <4>2. /\ Bytes(w.queue) = Bytes(v.queue) - hd.len
            /\ w.sch.backlog = v.sch.backlog - hd.len
        BY <2>1
      <4>3. v.sch.backlog \in Int /\ Bytes(v.queue) \in Nat /\ hd.len \in Nat
        BY <1>7, <2>2
      <4>. QED
        BY <4>1, <4>2, <4>3
    <3>4. w.stats.drop_count + w.sch.qlen + InHand(w) = a.stats.drop_count + a.sch.qlen
      <4>1. v.stats.drop_count + v.sch.qlen + InHand(v) = a.stats.drop_count + a.sch.qlen
        BY <1>8 DEF Conserved
      <4>2. w.stats.drop_count = v.stats.drop_count + 1 /\ w.sch.qlen = v.sch.qlen - 1
        BY <2>1
      <4>3. v.stats.drop_count \in Nat /\ v.sch.qlen \in Int
        BY <1>7
      <4>. QED
        BY <2>4, <4>1, <4>2, <4>3
    <3>5. w.stats.drop_count >= a.stats.drop_count
      <4>1. v.stats.drop_count >= a.stats.drop_count
        BY <1>8 DEF Conserved
      <4>2. w.stats.drop_count = v.stats.drop_count + 1
        BY <1>4, <2>1
      <4>. QED
        BY <1>6, <1>7, <4>1, <4>2
    <3>. QED
      BY <3>1, <3>2, <3>3, <3>4, <3>5 DEF Conserved
  <2>6. DropAllowed(a, w)
    BY <2>1, <2>3 DEF DropAllowed
  <2>. QED
    BY <1>1, <2>1, <2>2, <2>5, <2>6 DEF Follows
<1>. QED
  BY <1>9, <1>10

\* The loop is over: the packet in hand may go out, or is not due.
LoopEnded(v, t) == ~(v.drop /\ v.vars.dropping /\ codel_time_after_eq(t, v.vars.drop_next))

\* A round of the loop; while it goes on, the queue gets shorter.
LEMMA DropRoundKeeps ==
  ASSUME NEW a, IsView(a), NEW v, Follows(a, v), NEW params, NEW t
  PROVE  /\ Follows(a, DropRound(v, params, t))
         /\ \/ LoopEnded(v, t)
            \/ ~DropRound(v, params, t).drop
            \/ Len(DropRound(v, params, t).queue) = Len(v.queue) - 1
<1>. DEFINE c == [v EXCEPT !.vars = codel_Newton_step(
                         [v.vars EXCEPT !.count = (@ + 1) % TimeMod])]
            m == ScheduleDrop(c, c.vars.drop_next, params)
            n == DropAndNext(c, params, t)
            s == ScheduleDrop(n, n.vars.drop_next, params)
            w == DropRound(v, params, t)
<1>1. CASE ~(v.drop /\ v.vars.dropping /\ codel_time_after_eq(t, v.vars.drop_next))
  BY <1>1 DEF DropRound, LoopEnded
<1>2. CASE v.drop /\ v.vars.dropping /\ codel_time_after_eq(t, v.vars.drop_next)
  <2>1. w = IF Marked(c, params) THEN [m EXCEPT !.drop = FALSE]
            ELSE IF n.drop THEN s ELSE [n EXCEPT !.vars.dropping = FALSE]
    BY <1>2 DEF DropRound
  <2>2. /\ DOMAIN c = DOMAIN v /\ c.queue = v.queue /\ c.bytes = v.bytes
        /\ c.stats = v.stats /\ c.sch = v.sch /\ c.skb = v.skb /\ (c.drop <=> v.drop)
    BY DEF Follows, IsView
  <2>. HIDE DEF c, w
  <2>3. Follows(a, c) /\ c.drop
    BY <1>2, <2>2, VarsFree
  <2>4. CASE Marked(c, params)
    <3>1. Follows(a, m)
      BY <2>3, ScheduleKeeps
    <3>. HIDE DEF m
    <3>. DEFINE x == [m EXCEPT !.drop = FALSE]
    <3>2. /\ DOMAIN x = DOMAIN m /\ x.queue = m.queue /\ x.bytes = m.bytes
          /\ x.stats = m.stats /\ x.sch = m.sch /\ x.skb = m.skb /\ ~x.drop
      BY <3>1 DEF Follows, IsView
    <3>3. w = x
      BY <2>1, <2>4
    <3>. HIDE DEF x
    <3>4. Follows(a, x)
      BY <3>1, <3>2, VarsFree
    <3>. QED
      BY <3>2, <3>3, <3>4 DEF w
  <2>5. CASE ~Marked(c, params) /\ n.drop
    <3>1. Follows(a, n) /\ Len(n.queue) = Len(v.queue) - 1
      BY <2>2, <2>3, <2>5, DropKeeps
    <3>. HIDE DEF n
    <3>2. Follows(a, s) /\ s.queue = n.queue
      BY <3>1, ScheduleKeeps
    <3>. HIDE DEF s
    <3>3. w = s
      BY <2>1, <2>5
    <3>. QED
      BY <3>1, <3>2, <3>3 DEF w
  <2>6. CASE ~Marked(c, params) /\ ~n.drop
    <3>1. Follows(a, n)
      BY <2>3, DropKeeps
    <3>. HIDE DEF n
    <3>. DEFINE x == [n EXCEPT !.vars.dropping = FALSE]
    <3>2. /\ DOMAIN x = DOMAIN n /\ x.queue = n.queue /\ x.bytes = n.bytes
          /\ x.stats = n.stats /\ x.sch = n.sch /\ x.skb = n.skb /\ (x.drop <=> n.drop)
      BY <3>1 DEF Follows, IsView
    <3>3. w = x
      BY <2>1, <2>6
    <3>. HIDE DEF x
    <3>4. Follows(a, x)
      BY <3>1, <3>2, VarsFree
    <3>. QED
      BY <2>6, <3>2, <3>3, <3>4 DEF w
  <2>. QED
    BY <2>4, <2>5, <2>6
<1>. QED
  BY <1>1, <1>2


\* DropRounds(v, params, t, n) satisfies the recursion that defines it.
LEMMA DropRoundsEquation ==
  ASSUME NEW v, NEW params, NEW t, NEW n \in Nat
  PROVE  DropRounds(v, params, t, n) =
           [k \in 0..n |-> IF k = 0 THEN v
                           ELSE DropRound(DropRounds(v, params, t, n)[k - 1], params, t)]
<1>. DEFINE Solves(r, m) ==
              r = [k \in 0..m |-> IF k = 0 THEN v ELSE DropRound(r[k - 1], params, t)]
            S == {m \in Nat : \E r : Solves(r, m)}
<1>1. 0 \in S
  <2>1. Solves([k \in 0..0 |-> v], 0)
    OBVIOUS
  <2>. QED
    BY <2>1
<1>2. ASSUME NEW m \in Nat, m \in S PROVE m + 1 \in S
  <2>1. PICK r : Solves(r, m)
    BY <1>2
  <2>. DEFINE s == [k \in 0..(m + 1) |-> IF k = m + 1 THEN DropRound(r[m], params, t)
                                         ELSE r[k]]
  <2>2. \A k \in 0..(m + 1) : s[k] = IF k = 0 THEN v ELSE DropRound(s[k - 1], params, t)
    BY <2>1
  <2>3. Solves(s, m + 1)
    BY <2>2
  <2>4. \E u : Solves(u, m + 1)
    <3>. HIDE DEF Solves
    <3>. QED
      BY <2>3
  <2>. HIDE DEF Solves
  <2>. QED
    BY <2>4
<1>3. n \in S
  <2>. HIDE DEF S
  <2>. QED
    BY <1>1, <1>2, SetInduction
<1>4. \E r : Solves(r, n)
  BY <1>3
<1>. QED
  BY <1>4 DEF DropRounds

\* The steps of the loop.
LEMMA DropRoundsStep ==
  ASSUME NEW v, NEW params, NEW t, NEW n \in Nat
  PROVE  /\ DropRounds(v, params, t, n)[0] = v
         /\ \A k \in Nat : k + 1 <= n =>
              DropRounds(v, params, t, n)[k + 1] =
                DropRound(DropRounds(v, params, t, n)[k], params, t)
<1>. DEFINE r == DropRounds(v, params, t, n)
<1>1. r = [k \in 0..n |-> IF k = 0 THEN v ELSE DropRound(r[k - 1], params, t)]
  BY DropRoundsEquation
<1>. HIDE DEF r
<1>2. r[0] = v
  BY <1>1
<1>3. ASSUME NEW k \in Nat, k + 1 <= n PROVE r[k + 1] = DropRound(r[k], params, t)
  <2>1. k + 1 \in 0..n /\ k + 1 # 0 /\ (k + 1) - 1 = k
    BY <1>3
  <2>. QED
    BY <1>1, <2>1
<1>. QED
  BY <1>2, <1>3 DEF r

\* A round of a loop that is over changes nothing.
LEMMA DropRoundEnded ==
  ASSUME NEW v, NEW params, NEW t
  PROVE  /\ LoopEnded(v, t) => DropRound(v, params, t) = v
         /\ ~v.drop => LoopEnded(v, t)
BY DEF DropRound, LoopEnded

\* The loop keeps what a round keeps, and the rounds of DropLoop are enough
\* for it to end.
LEMMA DropLoopKeeps ==
  ASSUME NEW a, IsView(a), NEW v, Follows(a, v), NEW params, NEW t
  PROVE  /\ Follows(a, DropLoop(v, params, t))
         /\ LoopEnded(DropLoop(v, params, t), t)
<1>. DEFINE n == Len(v.queue) + 1
            r == DropRounds(v, params, t, n)
            P(k) == /\ Follows(a, r[k])
                    /\ LoopEnded(r[k], t) \/ Len(r[k].queue) <= Len(v.queue) - k
            S == {k \in Nat : k <= n => P(k)}
<1>0. n \in Nat /\ Len(v.queue) \in Nat
  BY DEF Follows, IsView
<1>. HIDE DEF n
<1>4. /\ r[0] = v
      /\ \A k \in Nat : k + 1 <= n => r[k + 1] = DropRound(r[k], params, t)
  BY <1>0, DropRoundsStep
<1>. HIDE DEF r
<1>1. 0 \in S
  BY <1>0, <1>4
<1>2. ASSUME NEW k \in Nat, k \in S PROVE k + 1 \in S
  <2>1. SUFFICES ASSUME k + 1 <= n PROVE P(k + 1)
    OBVIOUS
  <2>. DEFINE x == r[k]
              y == r[k + 1]
  <2>2. y = DropRound(x, params, t)
    BY <1>4, <2>1
  <2>3. /\ Follows(a, x)
        /\ LoopEnded(x, t) \/ Len(x.queue) <= Len(v.queue) - k
    BY <1>0, <1>2, <2>1
  <2>. HIDE DEF x, y
  <2>4. Follows(a, y) /\ (LoopEnded(x, t) \/ ~y.drop \/ Len(y.queue) = Len(x.queue) - 1)
    BY <2>2, <2>3, DropRoundKeeps
  <2>5. Len(x.queue) \in Nat /\ Len(y.queue) \in Nat
    BY <2>3, <2>4 DEF Follows, IsView
  <2>6. LoopEnded(y, t) \/ Len(y.queue) <= Len(v.queue) - (k + 1)
    <3>1. CASE LoopEnded(x, t)
      BY <2>2, <3>1, DropRoundEnded
    <3>2. CASE ~y.drop
      BY <3>2, DropRoundEnded
    <3>3. CASE ~LoopEnded(x, t) /\ Len(y.queue) = Len(x.queue) - 1
      <4>1. Len(x.queue) <= Len(v.queue) - k
        BY <2>3, <3>3
      <4>. QED
        BY <1>0, <2>5, <3>3, <4>1
    <3>. QED
      BY <2>4, <3>1, <3>2, <3>3
  <2>. QED
    BY <2>4, <2>6 DEF x, y
<1>3. n \in S
  <2>. HIDE DEF S
  <2>. QED
    BY <1>0, <1>1, <1>2, SetInduction
<1>5. Follows(a, r[n]) /\ LoopEnded(r[n], t)
  <2>1. P(n)
    BY <1>0, <1>3
  <2>2. Len(r[n].queue) \in Nat
    BY <2>1 DEF Follows, IsView
  <2>3. ~(Len(r[n].queue) <= Len(v.queue) - n)
    BY <1>0, <2>2 DEF n
  <2>. QED
    BY <2>1, <2>3
<1>6. DropLoop(v, params, t) = r[n]
  BY DEF DropLoop, r, n
<1>. QED
  BY <1>5, <1>6


\* Entering the dropping state.
LEMMA EnterDroppingKeeps ==
  ASSUME NEW a, IsView(a), NEW v, Follows(a, v), v.drop, NEW params, NEW t
  PROVE  Follows(a, EnterDropping(v, params, t))
<1>. DEFINE n == IF Marked(v, params) THEN v ELSE DropAndNext(v, params, t)
            near == codel_time_before(t - n.vars.drop_next, 16 * params.interval)
            count == (n.vars.count - n.vars.lastcount) % TimeMod
            odd == IF count % 2 = 0 THEN count + 1 ELSE count
            rate == IF near
                    THEN codel_Newton_step([n.vars EXCEPT !.count = odd])
                    ELSE [n.vars EXCEPT !.count = 1, !.rec_inv_sqrt = RecMod - 1]
            x == [rate EXCEPT !.dropping = TRUE, !.lastcount = rate.count]
            w == [n EXCEPT !.vars = x]
<1>1. Follows(a, n)
  <2>1. CASE Marked(v, params)
    BY <2>1
  <2>2. CASE ~Marked(v, params)
    BY <2>2, DropKeeps
  <2>. QED
    BY <2>1, <2>2
<1>2. EnterDropping(v, params, t) = ScheduleDrop(w, t, params)
  BY DEF EnterDropping
<1>. HIDE DEF n, x
<1>3. /\ DOMAIN w = DOMAIN n /\ w.queue = n.queue /\ w.bytes = n.bytes
      /\ w.stats = n.stats /\ w.sch = n.sch /\ w.skb = n.skb /\ (w.drop <=> n.drop)
  BY <1>1 DEF Follows, IsView
<1>. HIDE DEF w
<1>4. Follows(a, w)
  BY <1>1, <1>3, VarsFree
<1>5. Follows(a, ScheduleDrop(w, t, params))
  BY <1>4, ScheduleKeeps
<1>. QED
  BY <1>2, <1>5

\* codel_dequeue, called with no packet in hand: what it returns follows
\* from the view it was given.
LEMMA CodelDequeueKeeps ==
  ASSUME NEW a, IsView(a), a.skb = NoSkb, ~a.drop, NEW params, NEW t
  PROVE  Follows(a, codel_dequeue(a, params, t))
<1>. DEFINE h == dequeue(a)
            s == Taken(a, params, t)
            w == codel_dequeue(a, params, t)
<1>1. w = IF h.skb = NoSkb THEN [h EXCEPT !.vars.dropping = FALSE]
          ELSE IF s.vars.dropping
               THEN IF s.drop THEN DropLoop(s, params, t)
                    ELSE [s EXCEPT !.vars.dropping = FALSE]
          ELSE IF s.drop THEN EnterDropping(s, params, t)
          ELSE s
  BY DEF codel_dequeue, Taken
<1>2. Follows(a, s)
  BY FirstTaken
<1>. HIDE DEF w
<1>3. CASE h.skb = NoSkb
  <2>1. a.queue = << >>
    <3>1. SUFFICES ASSUME a.queue # << >> PROVE FALSE
      OBVIOUS
    <3>2. Head(a.queue) \in Packet
      BY <3>1, BytesTail DEF IsView
    <3>3. h.skb = Head(a.queue)
      BY <3>1 DEF dequeue, IsView
    <3>. QED
      BY <1>3, <3>2, <3>3, NoSkbAssumption
  <2>2. h = [a EXCEPT !.skb = NoSkb]
    BY <2>1 DEF dequeue
  <2>3. /\ DOMAIN h = DOMAIN a /\ h.queue = a.queue /\ h.bytes = a.bytes
        /\ h.stats = a.stats /\ h.sch = a.sch /\ h.skb = a.skb /\ (h.drop <=> a.drop)
    BY <2>2 DEF IsView
  <2>. HIDE DEF h
  <2>. DEFINE x == [h EXCEPT !.vars.dropping = FALSE]
  <2>4. /\ DOMAIN x = DOMAIN h /\ x.queue = h.queue /\ x.bytes = h.bytes
        /\ x.stats = h.stats /\ x.sch = h.sch /\ x.skb = h.skb /\ (x.drop <=> h.drop)
    BY <2>3 DEF IsView
  <2>5. w = x
    BY <1>1, <1>3
  <2>. HIDE DEF x
  <2>6. Conserved(a, a)
    BY BytesNat DEF Conserved, IsView, Counters, Stats, InHand
  <2>7. DropAllowed(a, a)
    BY <2>1 DEF DropAllowed
  <2>8. Follows(a, a)
    BY <2>6, <2>7 DEF Follows
  <2>9. Follows(a, x)
    BY <2>3, <2>4, <2>8, VarsFree
  <2>. QED
    BY <2>5, <2>9 DEF w
<1>4. CASE h.skb # NoSkb
  <2>. HIDE DEF h, s
  <2>1. CASE s.vars.dropping /\ s.drop
    <3>1. Follows(a, DropLoop(s, params, t))
      BY <1>2, DropLoopKeeps
    <3>. QED
      BY <1>1, <1>4, <2>1, <3>1 DEF w
  <2>2. CASE s.vars.dropping /\ ~s.drop
    <3>. DEFINE x == [s EXCEPT !.vars.dropping = FALSE]
    <3>1. /\ DOMAIN x = DOMAIN s /\ x.queue = s.queue /\ x.bytes = s.bytes
          /\ x.stats = s.stats /\ x.sch = s.sch /\ x.skb = s.skb /\ (x.drop <=> s.drop)
      BY <1>2 DEF Follows, IsView
    <3>2. w = x
      BY <1>1, <1>4, <2>2
    <3>. HIDE DEF x
    <3>3. Follows(a, x)
      BY <1>2, <3>1, VarsFree
    <3>. QED
      BY <3>2, <3>3 DEF w
  <2>3. CASE ~s.vars.dropping /\ s.drop
    <3>1. Follows(a, EnterDropping(s, params, t))
      BY <1>2, <2>3, EnterDroppingKeeps
    <3>. QED
      BY <1>1, <1>4, <2>3, <3>1 DEF w
  <2>4. CASE ~s.vars.dropping /\ ~s.drop
    BY <1>1, <1>2, <1>4, <2>4 DEF w
  <2>. QED
    BY <2>1, <2>2, <2>3, <2>4
<1>. QED
  BY <1>3, <1>4


-----------------------------------------------------------------------------
(***************************************************************************)
(* The table of fq_codel: totals over its flows, the fattest flow.         *)
(***************************************************************************)
\* A term of a sum without negative terms is at most the sum.
LEMMA SumAtLeast ==
  ASSUME NEW g, NEW n \in Nat, \A k \in 1..n : g[k] \in Nat, NEW i \in 1..n
  PROVE  g[i] <= Sum(g, n)
<1>. DEFINE h == [k \in 1..n |-> IF k = i THEN 0 ELSE g[k]]
<1>1. /\ \A k \in 1..n : g[k] \in Int /\ h[k] \in Int /\ h[k] >= 0
      /\ \A k \in 1..n : k # i => g[k] = h[k]
      /\ h[i] = 0 /\ g[i] \in Int
  OBVIOUS
<1>. HIDE DEF h
<1>2. Sum(h, n) = (Sum(g, n) - g[i]) + h[i]
  BY <1>1, SumUpdate
<1>3. Sum(h, n) \in Int /\ Sum(h, n) >= 0 /\ Sum(g, n) \in Int
  BY <1>1, SumSign
<1>. QED
  BY <1>1, <1>2, <1>3

IsFlow(f) ==
  /\ DOMAIN f = {"queue", "backlog", "deficit", "vars"}
  /\ f.queue \in Seq(Packet) /\ f.deficit \in Int
  /\ f.backlog = Bytes(f.queue)

IsTable(fl) == DOMAIN fl = Flows /\ \A i \in Flows : IsFlow(fl[i])

Lengths(fl)  == [i \in Flows |-> Len(fl[i].queue)]
Backlogs(fl) == [i \in Flows |-> Bytes(fl[i].queue)]

\* The terms of the totals.
LEMMA TableTerms ==
  ASSUME NEW fl, IsTable(fl)
  PROVE  /\ flows_cnt \in Nat /\ Flows = 1..flows_cnt /\ 1 \in Flows
         /\ \A i \in Flows : Lengths(fl)[i] = Len(fl[i].queue) /\ Lengths(fl)[i] \in Nat
         /\ \A i \in Flows : Backlogs(fl)[i] = Bytes(fl[i].queue) /\ Backlogs(fl)[i] \in Nat
<1>1. flows_cnt \in Nat /\ Flows = 1..flows_cnt /\ 1 \in Flows
  BY ChildAssumption DEF Flows
<1>2. ASSUME NEW i \in Flows
      PROVE  /\ Lengths(fl)[i] = Len(fl[i].queue) /\ Lengths(fl)[i] \in Nat
             /\ Backlogs(fl)[i] = Bytes(fl[i].queue) /\ Backlogs(fl)[i] \in Nat
  <2>1. fl[i].queue \in Seq(Packet)
    BY DEF IsTable, IsFlow
  <2>2. Len(fl[i].queue) \in Nat /\ Bytes(fl[i].queue) \in Nat
    BY <2>1, BytesNat
  <2>. QED
    BY <2>2 DEF Lengths, Backlogs
<1>. QED
  BY <1>1, <1>2

\* The totals are natural numbers, and not 0 if a flow has packets.
LEMMA TotalsNat ==
  ASSUME NEW fl, IsTable(fl)
  PROVE  /\ Total(Lengths(fl)) \in Nat /\ Total(Backlogs(fl)) \in Nat
         /\ \A i \in Flows : fl[i].queue # << >> =>
              Total(Lengths(fl)) > 0 /\ Total(Backlogs(fl)) > 0
<1>. DEFINE g == Lengths(fl)
            h == Backlogs(fl)
            n == flows_cnt
<1>1. /\ n \in Nat /\ Flows = 1..n
      /\ \A i \in 1..n : g[i] = Len(fl[i].queue) /\ g[i] \in Nat
      /\ \A i \in 1..n : h[i] = Bytes(fl[i].queue) /\ h[i] \in Nat
  BY TableTerms
<1>. HIDE DEF g, h, n
<1>2. Sum(g, n) \in Nat /\ Sum(h, n) \in Nat
  <2>1. \A i \in 1..n : g[i] \in Int /\ g[i] >= 0 /\ h[i] \in Int /\ h[i] >= 0
    BY <1>1
  <2>2. Sum(g, n) \in Int /\ Sum(g, n) >= 0
    BY <1>1, <2>1, SumSign
  <2>3. Sum(h, n) \in Int /\ Sum(h, n) >= 0
    BY <1>1, <2>1, SumSign
  <2>. QED
    BY <2>2, <2>3
<1>3. ASSUME NEW i \in Flows, fl[i].queue # << >> PROVE Sum(g, n) > 0 /\ Sum(h, n) > 0
  <2>1. fl[i].queue \in Seq(Packet)
    BY DEF IsTable, IsFlow
  <2>2. Len(fl[i].queue) > 0 /\ Bytes(fl[i].queue) > 0
    BY <1>3, <2>1, BytesPositive
  <2>3. g[i] > 0 /\ h[i] > 0 /\ g[i] \in Nat /\ h[i] \in Nat
    BY <1>1, <2>2
  <2>4. g[i] <= Sum(g, n)
    BY <1>1, SumAtLeast
  <2>5. h[i] <= Sum(h, n)
    BY <1>1, SumAtLeast
  <2>. QED
    BY <1>2, <2>3, <2>4, <2>5
<1>. QED
  BY <1>2, <1>3 DEF Total, g, h, n

\* The totals are 0 if no flow has packets.
LEMMA TotalsZero ==
  ASSUME NEW fl, IsTable(fl), \A i \in Flows : fl[i].queue = << >>
  PROVE  Total(Lengths(fl)) = 0 /\ Total(Backlogs(fl)) = 0
<1>. DEFINE g == Lengths(fl)
            h == Backlogs(fl)
            n == flows_cnt
<1>1. /\ n \in Nat /\ Flows = 1..n
      /\ \A i \in 1..n : g[i] = Len(fl[i].queue)
      /\ \A i \in 1..n : h[i] = Bytes(fl[i].queue)
  BY TableTerms
<1>. HIDE DEF g, h, n
<1>2. \A i \in 1..n : g[i] = 0 /\ h[i] = 0
  BY <1>1, BytesEmpty
<1>3. Sum(g, n) \in Int /\ Sum(g, n) >= 0 /\ Sum(g, n) <= 0
  BY <1>1, <1>2, SumSign
<1>4. Sum(h, n) \in Int /\ Sum(h, n) >= 0 /\ Sum(h, n) <= 0
  BY <1>1, <1>2, SumSign
<1>. QED
  BY <1>3, <1>4 DEF Total, g, h, n

\* A flow of the table changes, and with it the totals.
LEMMA TableUpdate ==
  ASSUME NEW fl, IsTable(fl), NEW i \in Flows, NEW f, IsFlow(f)
  PROVE  /\ IsTable([fl EXCEPT ![i] = f])
         /\ Total(Lengths([fl EXCEPT ![i] = f])) =
              (Total(Lengths(fl)) - Len(fl[i].queue)) + Len(f.queue)
         /\ Total(Backlogs([fl EXCEPT ![i] = f])) =
              (Total(Backlogs(fl)) - Bytes(fl[i].queue)) + Bytes(f.queue)
<1>. DEFINE new == [fl EXCEPT ![i] = f]
<1>1. DOMAIN new = Flows /\ new[i] = f /\ \A j \in Flows : j # i => new[j] = fl[j]
  BY DEF IsTable
<1>. HIDE DEF new
<1>2. IsTable(new)
  BY <1>1 DEF IsTable
<1>. DEFINE g == Lengths(fl)
            h == Backlogs(fl)
            x == Lengths(new)
            y == Backlogs(new)
            n == flows_cnt
<1>3. /\ n \in Nat /\ Flows = 1..n
      /\ \A j \in 1..n : g[j] = Len(fl[j].queue) /\ g[j] \in Int
      /\ \A j \in 1..n : h[j] = Bytes(fl[j].queue) /\ h[j] \in Int
  BY TableTerms
<1>4. /\ \A j \in 1..n : x[j] = Len(new[j].queue) /\ x[j] \in Int
      /\ \A j \in 1..n : y[j] = Bytes(new[j].queue) /\ y[j] \in Int
  BY <1>2, <1>3, TableTerms
<1>. HIDE DEF g, h, x, y, n
<1>5. i \in 1..n
  BY <1>3
<1>6. \A j \in 1..n : j # i => g[j] = x[j] /\ h[j] = y[j]
  BY <1>1, <1>3, <1>4
<1>7. Sum(x, n) = (Sum(g, n) - g[i]) + x[i]
  <2>1. \A k \in 1..n : g[k] \in Int /\ x[k] \in Int
    BY <1>3, <1>4
  <2>2. \A k \in 1..n : k # i => g[k] = x[k]
    BY <1>6
  <2>3. n \in Nat
    BY <1>3
  <2>. QED
    BY <1>5, <2>1, <2>2, <2>3, SumUpdate
<1>8. Sum(y, n) = (Sum(h, n) - h[i]) + y[i]
  <2>1. \A k \in 1..n : h[k] \in Int /\ y[k] \in Int
    BY <1>3, <1>4
  <2>2. \A k \in 1..n : k # i => h[k] = y[k]
    BY <1>6
  <2>3. n \in Nat
    BY <1>3
  <2>. QED
    BY <1>5, <2>1, <2>2, <2>3, SumUpdate
<1>9. /\ g[i] = Len(fl[i].queue) /\ h[i] = Bytes(fl[i].queue)
      /\ x[i] = Len(f.queue) /\ y[i] = Bytes(f.queue)
  BY <1>1, <1>3, <1>4, <1>5
<1>10. Sum(x, n) = (Sum(g, n) - Len(fl[i].queue)) + Len(f.queue)
  BY <1>7, <1>9
<1>11. Sum(y, n) = (Sum(h, n) - Bytes(fl[i].queue)) + Bytes(f.queue)
  BY <1>8, <1>9
<1>. QED
  BY <1>2, <1>10, <1>11 DEF Total, g, h, x, y, n, new

\* The fattest flow is a flow, and has packets when some flow has.
LEMMA FattestFlow ==
  ASSUME NEW fl, IsTable(fl)
  PROVE  /\ Fattest(fl) \in Flows
         /\ \A i \in Flows : fl[i].queue # << >> => fl[Fattest(fl)].queue # << >>
<1>. DEFINE top == Total(Backlogs(fl))
            Least(i) == /\ \A j \in Flows : fl[j].backlog <= fl[i].backlog
                        /\ \A j \in Flows : fl[j].backlog = fl[i].backlog => i <= j
            S == {top - fl[i].backlog : i \in Flows}
<1>1. /\ flows_cnt \in Nat /\ Flows = 1..flows_cnt /\ 1 \in Flows
      /\ \A i \in Flows : Backlogs(fl)[i] = Bytes(fl[i].queue) /\ Backlogs(fl)[i] \in Nat
  BY TableTerms
<1>2. \A i \in Flows : fl[i].backlog = Backlogs(fl)[i] /\ fl[i].queue \in Seq(Packet)
  BY <1>1 DEF IsTable, IsFlow
<1>3. top \in Nat
  BY TotalsNat
<1>4. \A i \in Flows : fl[i].backlog \in Nat /\ fl[i].backlog <= top
  <2>1. ASSUME NEW i \in Flows PROVE Backlogs(fl)[i] <= top
    <3>1. i \in 1..flows_cnt /\ \A k \in 1..flows_cnt : Backlogs(fl)[k] \in Nat
      BY <1>1
    <3>. QED
      BY <1>1, <3>1, SumAtLeast DEF Total
  <2>. QED
    BY <1>1, <1>2, <2>1
<1>. HIDE DEF top
<1>5. PICK i \in Flows : \A j \in Flows : fl[j].backlog <= fl[i].backlog
  <2>1. S \in SUBSET Nat /\ S # {}
    BY <1>1, <1>3, <1>4
  <2>. HIDE DEF S
  <2>2. PICK m \in S : \A k \in S : m <= k
    BY <2>1, LeastNat
  <2>. USE DEF S
  <2>3. PICK i \in Flows : m = top - fl[i].backlog
    BY <2>2
  <2>4. ASSUME NEW j \in Flows PROVE fl[j].backlog <= fl[i].backlog
    <3>1. top - fl[i].backlog <= top - fl[j].backlog
      BY <2>2, <2>3
    <3>. QED
      BY <1>3, <1>4, <3>1
  <2>. QED
    BY <2>4
<1>6. \E k \in Flows : Least(k)
  <2>. DEFINE F == {j \in Flows : fl[j].backlog = fl[i].backlog}
  <2>1. F \in SUBSET Nat /\ F # {}
    BY <1>1
  <2>. HIDE DEF F
  <2>2. PICK k \in F : \A m \in F : k <= m
    BY <2>1, LeastNat
  <2>3. k \in Flows /\ fl[k].backlog = fl[i].backlog
    BY <2>2 DEF F
  <2>4. \A j \in Flows : fl[j].backlog = fl[i].backlog => j \in F
    BY DEF F
  <2>5. Least(k)
    BY <1>5, <2>2, <2>3, <2>4
  <2>. QED
    BY <2>3, <2>5
<1>7. Fattest(fl) \in Flows /\ Least(Fattest(fl))
  <2>1. Fattest(fl) = CHOOSE k \in Flows : Least(k)
    BY DEF Fattest
  <2>. HIDE DEF Least
  <2>. QED
    BY <1>6, <2>1
<1>8. ASSUME NEW j \in Flows, fl[j].queue # << >> PROVE fl[Fattest(fl)].queue # << >>
  <2>1. fl[j].backlog > 0
    BY <1>1, <1>2, <1>8, BytesPositive
  <2>2. fl[j].backlog <= fl[Fattest(fl)].backlog
    BY <1>7
  <2>3. fl[Fattest(fl)].backlog > 0
    BY <1>4, <1>7, <2>1, <2>2
  <2>. QED
    BY <1>1, <1>2, <1>7, <2>3, BytesPositive
<1>. QED
  BY <1>7, <1>8


-----------------------------------------------------------------------------
(***************************************************************************)
(* The lists of fq_codel: each a sequence of slots without duplicates, and *)
(* no slot on both.                                                        *)
(***************************************************************************)
On(l, i) == \E k \in 1..Len(l) : l[k] = i

Distinct(l) == l \in Seq(Flows) /\ \A j, k \in 1..Len(l) : l[j] = l[k] => j = k

Lists(new, old) ==
  /\ Distinct(new) /\ Distinct(old)
  /\ \A i \in Flows : ~(On(new, i) /\ On(old, i))

\* The first slot of a list is taken off it.
LEMMA TailDistinct ==
  ASSUME NEW l, Distinct(l), l # << >>
  PROVE  /\ Head(l) \in Flows /\ On(l, Head(l))
         /\ Distinct(Tail(l)) /\ Len(Tail(l)) = Len(l) - 1 /\ Len(l) \in Nat
         /\ \A i \in Flows : On(Tail(l), i) <=> On(l, i) /\ i # Head(l)
<1>1. /\ l \in Seq(Flows) /\ Len(l) \in Nat /\ Len(l) >= 1
      /\ Head(l) = l[1] /\ l[1] \in Flows
      /\ \A j, k \in 1..Len(l) : l[j] = l[k] => j = k
  BY DEF Distinct
<1>2. /\ Tail(l) \in Seq(Flows) /\ Len(Tail(l)) = Len(l) - 1
      /\ \A k \in 1..(Len(l) - 1) : Tail(l)[k] = l[k + 1]
  BY <1>1
<1>. DEFINE t == Tail(l)
<1>. HIDE DEF t
<1>3. /\ t \in Seq(Flows) /\ Len(t) = Len(l) - 1
      /\ \A k \in 1..(Len(l) - 1) : t[k] = l[k + 1]
  BY <1>2 DEF t
<1>4. Distinct(t)
  <2>1. SUFFICES ASSUME NEW j \in 1..Len(t), NEW k \in 1..Len(t), t[j] = t[k] PROVE j = k
    BY <1>3 DEF Distinct
  <2>2. l[j + 1] = l[k + 1] /\ j + 1 \in 1..Len(l) /\ k + 1 \in 1..Len(l)
    BY <1>1, <1>3, <2>1
  <2>3. j + 1 = k + 1
    BY <1>1, <2>2
  <2>. QED
    BY <1>1, <1>3, <2>3
<1>5. ASSUME NEW i \in Flows PROVE On(t, i) <=> On(l, i) /\ i # Head(l)
  <2>1. ASSUME On(t, i) PROVE On(l, i) /\ i # Head(l)
    <3>1. PICK k \in 1..Len(t) : t[k] = i
      BY <2>1 DEF On
    <3>2. k + 1 \in 1..Len(l) /\ l[k + 1] = i /\ k + 1 # 1 /\ 1 \in 1..Len(l)
      BY <1>1, <1>3, <3>1
    <3>3. l[k + 1] # l[1]
      BY <1>1, <3>2
    <3>. QED
      BY <1>1, <3>2, <3>3 DEF On
  <2>2. ASSUME On(l, i), i # Head(l) PROVE On(t, i)
    <3>1. PICK k \in 1..Len(l) : l[k] = i
      BY <2>2 DEF On
    <3>2. k # 1
      BY <1>1, <2>2, <3>1
    <3>3. k - 1 \in 1..Len(t) /\ k - 1 \in 1..(Len(l) - 1) /\ (k - 1) + 1 = k
      BY <1>1, <1>3, <3>2
    <3>4. t[k - 1] = i
      BY <1>3, <3>1, <3>3
    <3>. QED
      BY <3>3, <3>4 DEF On
  <2>. QED
    BY <2>1, <2>2
<1>6. On(l, Head(l))
  <2>1. 1 \in 1..Len(l)
    BY <1>1
  <2>. QED
    BY <1>1, <2>1 DEF On
<1>. QED
  BY <1>1, <1>3, <1>4, <1>5, <1>6 DEF t

\* A slot that is not on a list is put at its end.
LEMMA AppendDistinct ==
  ASSUME NEW l, Distinct(l), NEW i \in Flows, ~On(l, i)
  PROVE  /\ Distinct(Append(l, i)) /\ Len(Append(l, i)) = Len(l) + 1 /\ Len(l) \in Nat
         /\ \A j \in Flows : On(Append(l, i), j) <=> On(l, j) \/ j = i
<1>. DEFINE s == Append(l, i)
<1>1. /\ l \in Seq(Flows) /\ Len(l) \in Nat
      /\ \A j, k \in 1..Len(l) : l[j] = l[k] => j = k
  BY DEF Distinct
<1>2. /\ s \in Seq(Flows) /\ Len(s) = Len(l) + 1 /\ s[Len(l) + 1] = i
      /\ \A k \in 1..Len(l) : s[k] = l[k]
  BY <1>1
<1>. HIDE DEF s
<1>3. \A k \in 1..Len(l) : l[k] # i
  BY DEF On
<1>4. Distinct(s)
  <2>1. SUFFICES ASSUME NEW j \in 1..Len(s), NEW k \in 1..Len(s), s[j] = s[k] PROVE j = k
    BY <1>2 DEF Distinct
  <2>2. /\ j \in 1..Len(l) \/ j = Len(l) + 1
        /\ k \in 1..Len(l) \/ k = Len(l) + 1
    BY <1>1, <1>2
  <2>. QED
    BY <1>1, <1>2, <1>3, <2>1, <2>2
<1>5. ASSUME NEW j \in Flows PROVE On(s, j) <=> On(l, j) \/ j = i
  <2>1. \A k : k \in 1..Len(s) <=> k \in 1..Len(l) \/ k = Len(l) + 1
    BY <1>1, <1>2
  <2>2. ASSUME On(s, j) PROVE On(l, j) \/ j = i
    BY <1>2, <2>1, <2>2 DEF On
  <2>3. ASSUME On(l, j) PROVE On(s, j)
    BY <1>2, <2>1, <2>3 DEF On
  <2>4. ASSUME j = i PROVE On(s, j)
    BY <1>2, <2>1, <2>4 DEF On
  <2>. QED
    BY <2>2, <2>3, <2>4
<1>. QED
  BY <1>1, <1>2, <1>4, <1>5 DEF s


-----------------------------------------------------------------------------
(***************************************************************************)
(* A round of fq_codel_dequeue.                                            *)
(***************************************************************************)
\* The counters agree with the queues.
Counted(q) ==
  /\ DOMAIN q = {"flows", "new", "old", "cparams", "quantum", "cstats", "sch",
                 "parent", "skb"}
  /\ IsTable(q.flows)
  /\ q.quantum \in Nat \ {0}
  /\ q.cstats \in Stats /\ q.sch \in Counters
  /\ q.sch.qlen = Total(Lengths(q.flows))
  /\ q.sch.backlog = Total(Backlogs(q.flows))
  /\ q.skb \in Packet \cup {NoSkb}

Listed(q, i) == On(q.new, i) \/ On(q.old, i)

\* The lists are in order, and every flow with packets is on one.
Linked(q) ==
  /\ Lists(q.new, q.old)
  /\ \A i \in Flows : q.flows[i].queue # << >> => Listed(q, i)

IsQ(q) == Counted(q) /\ Linked(q)

SameButLists(w, q) ==
  /\ DOMAIN w = DOMAIN q /\ w.flows = q.flows /\ w.cparams = q.cparams
  /\ w.quantum = q.quantum /\ w.cstats = q.cstats /\ w.sch = q.sch
  /\ w.parent = q.parent /\ w.skb = q.skb

\* The passes, from the lengths of the lists.
LEMMA PlacesAre ==
  ASSUME NEW q, NEW x \in Nat, NEW y \in Nat, Len(q.new) = x, Len(q.old) = y
  PROVE  Places(q) = (x + x) + y /\ Places(q) \in Nat
BY DEF Places

\* The flow to serve leaves its list.
LEMMA UnlinkedLists ==
  ASSUME NEW q, IsQ(q), ~NoneListed(q)
  PROVE  /\ First(q) \in Flows /\ Listed(q, First(q))
         /\ SameButLists(Unlinked(q), q)
         /\ Lists(Unlinked(q).new, Unlinked(q).old)
         /\ \A j \in Flows : Listed(Unlinked(q), j) <=> Listed(q, j) /\ j # First(q)
         /\ Places(q) \in Nat /\ Places(Unlinked(q)) \in Nat
         /\ Places(Unlinked(q)) <= Places(q) - 1
         /\ q.new # << >> => Places(Unlinked(q)) = Places(q) - 2
<1>. DEFINE w == Unlinked(q)
            i == First(q)
<1>1. /\ Distinct(q.new) /\ Distinct(q.old)
      /\ \A j \in Flows : ~(On(q.new, j) /\ On(q.old, j))
  BY DEF IsQ, Linked, Lists
<1>2. Len(q.new) \in Nat /\ Len(q.old) \in Nat
  BY <1>1 DEF Distinct
<1>3. CASE q.new # << >>
  <2>. DEFINE tl == Tail(q.new)
  <2>1. i = Head(q.new)
    BY <1>3 DEF First
  <2>2. /\ i \in Flows /\ On(q.new, i) /\ Distinct(tl) /\ Len(tl) = Len(q.new) - 1
        /\ \A j \in Flows : On(tl, j) <=> On(q.new, j) /\ j # i
    BY <1>1, <1>3, <2>1, TailDistinct
  <2>. HIDE DEF i
  <2>3. w = [q EXCEPT !.new = tl]
    BY <1>3 DEF Unlinked
  <2>. HIDE DEF tl, w
  <2>4. SameButLists(w, q) /\ w.new = tl /\ w.old = q.old
    BY <2>3 DEF IsQ, Counted, SameButLists
  <2>5. Lists(w.new, w.old)
    BY <1>1, <2>2, <2>4 DEF Lists
  <2>6. \A j \in Flows : Listed(w, j) <=> Listed(q, j) /\ j # i
    BY <1>1, <2>2, <2>4 DEF Listed
  <2>7. /\ Places(q) \in Nat /\ Places(w) \in Nat
        /\ Places(w) <= Places(q) - 1 /\ Places(w) = Places(q) - 2
    <3>1. PICK x \in Nat, y \in Nat : x = Len(q.new) /\ y = Len(q.old)
      BY <1>2
    <3>2. Len(w.new) = x - 1 /\ Len(w.old) = y
      BY <2>2, <2>4, <3>1
    <3>3. Len(w.new) \in Nat
      BY <2>2, <2>4 DEF Distinct
    <3>4. x - 1 \in Nat
      BY <3>2, <3>3
    <3>5. Places(q) = (x + x) + y
      BY <3>1, PlacesAre
    <3>6. Places(w) = ((x - 1) + (x - 1)) + y
      BY <3>2, <3>4, PlacesAre
    <3>7. x \in Nat /\ y \in Nat
      BY <3>1
    <3>. QED
      BY <3>4, <3>5, <3>6, <3>7
  <2>. QED
    BY <2>2, <2>4, <2>5, <2>6, <2>7 DEF w, i, Listed
<1>4. CASE q.new = << >>
  <2>. DEFINE tl == Tail(q.old)
  <2>0. q.old # << >>
    BY <1>4 DEF NoneListed
  <2>1. i = Head(q.old)
    BY <1>4 DEF First
  <2>2. /\ i \in Flows /\ On(q.old, i) /\ Distinct(tl) /\ Len(tl) = Len(q.old) - 1
        /\ \A j \in Flows : On(tl, j) <=> On(q.old, j) /\ j # i
    BY <1>1, <2>0, <2>1, TailDistinct
  <2>. HIDE DEF i
  <2>3. w = [q EXCEPT !.old = tl]
    BY <1>4 DEF Unlinked
  <2>. HIDE DEF tl, w
  <2>4. SameButLists(w, q) /\ w.new = q.new /\ w.old = tl
    BY <2>3 DEF IsQ, Counted, SameButLists
  <2>5. Lists(w.new, w.old)
    BY <1>1, <2>2, <2>4 DEF Lists
  <2>6. \A j \in Flows : Listed(w, j) <=> Listed(q, j) /\ j # i
    BY <1>1, <2>2, <2>4 DEF Listed
  <2>7. /\ Places(q) \in Nat /\ Places(w) \in Nat
        /\ Places(w) <= Places(q) - 1
    <3>1. PICK x \in Nat, y \in Nat : x = Len(q.new) /\ y = Len(q.old)
      BY <1>2
    <3>2. Len(w.old) = y - 1 /\ Len(w.new) = x
      BY <2>2, <2>4, <3>1
    <3>3. Len(w.old) \in Nat
      BY <2>2, <2>4 DEF Distinct
    <3>4. y - 1 \in Nat
      BY <3>2, <3>3
    <3>5. Places(q) = (x + x) + y
      BY <3>1, PlacesAre
    <3>6. Places(w) = (x + x) + (y - 1)
      BY <3>2, <3>4, PlacesAre
    <3>7. x \in Nat /\ y \in Nat
      BY <3>1
    <3>. QED
      BY <3>4, <3>5, <3>6, <3>7
  <2>. QED
    BY <1>4, <2>2, <2>4, <2>5, <2>6, <2>7 DEF w, i, Listed
<1>. QED
  BY <1>3, <1>4

\* The flow to serve goes to the end of the old flows.
LEMMA ToOldLists ==
  ASSUME NEW q, IsQ(q), ~NoneListed(q)
  PROVE  /\ SameButLists(ToOld(q), q)
         /\ Lists(ToOld(q).new, ToOld(q).old)
         /\ \A j \in Flows : Listed(ToOld(q), j) <=> Listed(q, j)
         /\ Places(ToOld(q)) \in Nat /\ Places(ToOld(q)) <= Places(q)
         /\ q.new # << >> => Places(ToOld(q)) <= Places(q) - 1
<1>. DEFINE u == Unlinked(q)
            w == ToOld(q)
            i == First(q)
<1>1. /\ i \in Flows /\ Listed(q, i) /\ SameButLists(u, q) /\ Lists(u.new, u.old)
      /\ \A j \in Flows : Listed(u, j) <=> Listed(q, j) /\ j # i
      /\ Places(q) \in Nat /\ Places(u) \in Nat /\ Places(u) <= Places(q) - 1
      /\ q.new # << >> => Places(u) = Places(q) - 2
  BY UnlinkedLists
<1>. HIDE DEF u, i
<1>. DEFINE l == Append(u.old, i)
<1>2. ~On(u.new, i) /\ ~On(u.old, i)
  BY <1>1 DEF Listed
<1>3. /\ Distinct(l) /\ Len(l) = Len(u.old) + 1 /\ Len(u.old) \in Nat
      /\ \A j \in Flows : On(l, j) <=> On(u.old, j) \/ j = i
  BY <1>1, <1>2, AppendDistinct DEF Lists
<1>4. w = [u EXCEPT !.old = l]
  BY DEF ToOld, u, i
<1>. HIDE DEF l, w
<1>5. SameButLists(w, u) /\ w.new = u.new /\ w.old = l
  BY <1>1, <1>4 DEF IsQ, Counted, SameButLists
<1>6. SameButLists(w, q)
  BY <1>1, <1>5 DEF SameButLists
<1>7. Lists(w.new, w.old)
  BY <1>1, <1>2, <1>3, <1>5 DEF Lists
<1>8. \A j \in Flows : Listed(w, j) <=> Listed(q, j)
  BY <1>1, <1>3, <1>5 DEF Listed
<1>9. Places(w) = Places(u) + 1
  <2>1. Len(u.new) \in Nat
    BY <1>1 DEF Lists, Distinct
  <2>2. PICK x \in Nat, y \in Nat : x = Len(u.new) /\ y = Len(u.old)
    BY <1>3, <2>1
  <2>3. Len(w.new) = x /\ Len(w.old) = y + 1
    BY <1>3, <1>5, <2>2
  <2>4. Places(u) = (x + x) + y
    BY <2>2, PlacesAre
  <2>5. y + 1 \in Nat
    BY <2>2
  <2>6. Places(w) = (x + x) + (y + 1)
    BY <2>2, <2>3, <2>5, PlacesAre
  <2>7. x \in Nat /\ y \in Nat
    BY <2>2
  <2>. QED
    BY <2>4, <2>6, <2>7
<1>10. /\ Places(w) \in Nat /\ Places(w) <= Places(q)
       /\ q.new # << >> => Places(w) <= Places(q) - 1
  BY <1>1, <1>9
<1>. QED
  BY <1>6, <1>7, <1>8, <1>10 DEF w


\* A total of bytes comes from a queue with packets.
LEMMA BacklogHasPackets ==
  ASSUME NEW q, Counted(q), q.sch.backlog > 0
  PROVE  q.sch.qlen > 0
<1>1. IsTable(q.flows) /\ q.sch.backlog = Total(Backlogs(q.flows))
      /\ q.sch.qlen = Total(Lengths(q.flows))
  BY DEF Counted
<1>2. \E i \in Flows : q.flows[i].queue # << >>
  BY <1>1, TotalsZero
<1>. QED
  BY <1>1, <1>2, TotalsNat

\* A scheduler with packets has a flow on a list.
LEMMA PacketsAreListed ==
  ASSUME NEW q, IsQ(q)
  PROVE  /\ q.sch.qlen \in Nat
         /\ NoneListed(q) => q.sch.qlen = 0
<1>1. IsTable(q.flows) /\ q.sch.qlen = Total(Lengths(q.flows))
  BY DEF IsQ, Counted
<1>2. q.sch.qlen \in Nat
  BY <1>1, TotalsNat
<1>3. ASSUME NoneListed(q) PROVE q.sch.qlen = 0
  <2>1. \A i \in Flows : ~On(q.new, i) /\ ~On(q.old, i)
    BY <1>3 DEF NoneListed, On
  <2>2. \A i \in Flows : q.flows[i].queue = << >>
    BY <2>1 DEF IsQ, Linked, Listed
  <2>. QED
    BY <1>1, <2>2, TotalsZero
<1>. QED
  BY <1>2, <1>3

\* The lists play no part in the counters.
LEMMA CountedSame ==
  ASSUME NEW q, Counted(q), NEW w, SameButLists(w, q)
  PROVE  Counted(w)
BY DEF Counted, SameButLists

\* What CoDel is given of a slot.
LEMMA FlowViewIsView ==
  ASSUME NEW q, Counted(q), NEW i \in Flows
  PROVE  /\ IsView(FlowView(q, i))
         /\ FlowView(q, i).queue = q.flows[i].queue
         /\ FlowView(q, i).bytes = Bytes(q.flows[i].queue)
         /\ FlowView(q, i).sch = q.sch /\ FlowView(q, i).stats = q.cstats
         /\ FlowView(q, i).skb = NoSkb /\ ~FlowView(q, i).drop
<1>1. IsFlow(q.flows[i])
  BY DEF Counted, IsTable
<1>2. /\ q.flows[i].queue \in Seq(Packet) /\ q.flows[i].backlog = Bytes(q.flows[i].queue)
  BY <1>1 DEF IsFlow
<1>3. Bytes(q.flows[i].queue) \in Int
  BY <1>2, BytesNat
<1>. QED
  BY <1>2, <1>3 DEF FlowView, IsView, Counted

\* The answer of CoDel is put into the slot.
LEMMA ServedKeeps ==
  ASSUME NEW q, Counted(q), NEW i \in Flows, NEW v, Follows(FlowView(q, i), v)
  PROVE  /\ Counted(Served(q, i, v))
         /\ Served(q, i, v).new = q.new /\ Served(q, i, v).old = q.old
         /\ Served(q, i, v).cparams = q.cparams
         /\ Served(q, i, v).quantum = q.quantum
         /\ Served(q, i, v).parent = q.parent
         /\ Served(q, i, v).skb = v.skb
         /\ \A j \in Flows : j # i => Served(q, i, v).flows[j] = q.flows[j]
         /\ Served(q, i, v).cstats.drop_count + Served(q, i, v).sch.qlen + InHand(v)
              = q.cstats.drop_count + q.sch.qlen
         /\ Served(q, i, v).cstats.drop_count >= q.cstats.drop_count
         /\ v.skb = NoSkb =>
              /\ Served(q, i, v).flows[i].queue = << >>
              /\ Served(q, i, v).flows[i].deficit = q.flows[i].deficit
              /\ q.sch.qlen > 0 => Served(q, i, v).sch.qlen > 0
<1>. DEFINE a == FlowView(q, i)
            f == [queue |-> v.queue, backlog |-> v.bytes,
                  deficit |-> IF v.skb = NoSkb THEN q.flows[i].deficit
                              ELSE q.flows[i].deficit - v.skb.len,
                  vars |-> v.vars]
            fl == [q.flows EXCEPT ![i] = f]
            w == Served(q, i, v)
<1>1. /\ IsView(a) /\ a.queue = q.flows[i].queue /\ a.bytes = Bytes(q.flows[i].queue)
      /\ a.sch = q.sch /\ a.stats = q.cstats /\ a.skb = NoSkb
  BY FlowViewIsView
<1>2. IsView(v) /\ Conserved(a, v) /\ DropAllowed(a, v)
  BY DEF Follows
<1>. HIDE DEF a
<1>3. IsTable(q.flows) /\ IsFlow(q.flows[i])
  BY DEF Counted, IsTable
<1>4. /\ v.queue \in Seq(Packet) /\ v.bytes \in Int /\ v.stats \in Stats
      /\ v.sch \in Counters /\ v.skb \in Packet \cup {NoSkb}
  BY <1>2 DEF IsView
<1>5. /\ Bytes(v.queue) \in Nat /\ Bytes(q.flows[i].queue) \in Nat
      /\ Len(v.queue) \in Nat /\ Len(q.flows[i].queue) \in Nat
      /\ q.flows[i].deficit \in Int
  BY <1>3, <1>4, BytesNat DEF IsFlow
<1>6. v.bytes = Bytes(v.queue)
  <2>1. v.bytes - Bytes(v.queue) = a.bytes - Bytes(a.queue)
    BY <1>2 DEF Conserved
  <2>2. a.bytes = Bytes(a.queue)
    BY <1>1
  <2>. QED
    BY <1>1, <1>4, <1>5, <2>1, <2>2
<1>7. IsFlow(f)
  <2>1. v.skb = NoSkb \/ v.skb.len \in Int
    BY <1>4 DEF Packet
  <2>2. (IF v.skb = NoSkb THEN q.flows[i].deficit
         ELSE q.flows[i].deficit - v.skb.len) \in Int
    BY <1>5, <2>1
  <2>. QED
    BY <1>4, <1>6, <2>2 DEF IsFlow
<1>8. /\ f.queue = v.queue
      /\ v.skb = NoSkb => f.deficit = q.flows[i].deficit
  OBVIOUS
<1>. HIDE DEF f
<1>9. /\ IsTable(fl)
      /\ Total(Lengths(fl)) = (Total(Lengths(q.flows)) - Len(q.flows[i].queue)) + Len(v.queue)
      /\ Total(Backlogs(fl)) =
           (Total(Backlogs(q.flows)) - Bytes(q.flows[i].queue)) + Bytes(v.queue)
  BY <1>3, <1>7, <1>8, TableUpdate
<1>10. fl[i] = f /\ \A j \in Flows : j # i => fl[j] = q.flows[j]
  BY <1>3 DEF IsTable
<1>. HIDE DEF fl
<1>11. /\ DOMAIN w = DOMAIN q /\ w.flows = fl /\ w.cstats = v.stats /\ w.sch = v.sch
       /\ w.skb = v.skb /\ w.new = q.new /\ w.old = q.old /\ w.cparams = q.cparams
       /\ w.quantum = q.quantum /\ w.parent = q.parent
  <2>1. w = [q EXCEPT !.flows = fl, !.cstats = v.stats, !.sch = v.sch, !.skb = v.skb]
    BY DEF Served, f, fl
  <2>. HIDE DEF w
  <2>. QED
    BY <2>1 DEF Counted
<1>. HIDE DEF w
<1>12. /\ v.sch.qlen \in Int /\ q.sch.qlen \in Int /\ v.sch.backlog \in Int
       /\ q.sch.backlog \in Int
  BY <1>4 DEF Counters, Counted
<1>13. v.sch.qlen = Total(Lengths(fl))
  <2>1. v.sch.qlen - Len(v.queue) = a.sch.qlen - Len(a.queue)
    BY <1>2 DEF Conserved
  <2>2. q.sch.qlen = Total(Lengths(q.flows))
    BY DEF Counted
  <2>3. a.sch.qlen = q.sch.qlen /\ Len(a.queue) = Len(q.flows[i].queue)
    BY <1>1
  <2>4. v.sch.qlen - Len(v.queue) = q.sch.qlen - Len(q.flows[i].queue)
    BY <2>1, <2>3
  <2>. QED
    BY <1>5, <1>9, <1>12, <2>2, <2>4
<1>14. v.sch.backlog = Total(Backlogs(fl))
  <2>1. v.sch.backlog - Bytes(v.queue) = a.sch.backlog - Bytes(a.queue)
    BY <1>2 DEF Conserved
  <2>2. q.sch.backlog = Total(Backlogs(q.flows))
    BY DEF Counted
  <2>3. a.sch.backlog = q.sch.backlog /\ Bytes(a.queue) = Bytes(q.flows[i].queue)
    BY <1>1
  <2>4. v.sch.backlog - Bytes(v.queue) = q.sch.backlog - Bytes(q.flows[i].queue)
    BY <2>1, <2>3
  <2>. QED
    BY <1>5, <1>9, <1>12, <2>2, <2>4
<1>15. Counted(w)
  BY <1>4, <1>9, <1>11, <1>13, <1>14 DEF Counted
<1>16. w.cstats.drop_count + w.sch.qlen + InHand(v) = q.cstats.drop_count + q.sch.qlen
  <2>1. v.stats.drop_count + v.sch.qlen + InHand(v) = a.stats.drop_count + a.sch.qlen
    BY <1>2 DEF Conserved
  <2>. QED
    BY <1>1, <1>11, <2>1
<1>19. w.cstats.drop_count >= q.cstats.drop_count
  BY <1>1, <1>2, <1>11 DEF Conserved
<1>17. ASSUME v.skb = NoSkb
       PROVE  /\ w.flows[i].queue = << >>
              /\ w.flows[i].deficit = q.flows[i].deficit
              /\ q.sch.qlen > 0 => w.sch.qlen > 0
  <2>1. v.queue = << >> /\ (v.sch = q.sch \/ v.sch.backlog > 0)
    BY <1>1, <1>2, <1>17 DEF DropAllowed
  <2>2. v.sch.backlog > 0 => w.sch.qlen > 0
    BY <1>11, <1>15, BacklogHasPackets
  <2>. QED
    BY <1>8, <1>10, <1>11, <1>17, <2>1, <2>2
<1>18. \A j \in Flows : j # i => w.flows[j] = q.flows[j]
  BY <1>10, <1>11
<1>. QED
  BY <1>11, <1>15, <1>16, <1>17, <1>18, <1>19 DEF w


\* What a flow owes is a natural number, and changes with its deficit only.
LEMMA DebtsChange ==
  ASSUME NEW q, IsTable(q.flows), NEW w, IsTable(w.flows), NEW i \in Flows,
         \A j \in Flows : j # i => w.flows[j] = q.flows[j]
  PROVE  /\ Total(Debts(q)) \in Nat /\ Total(Debts(w)) \in Nat
         /\ Debts(q)[i] = IF q.flows[i].deficit <= 0 THEN 1 - q.flows[i].deficit ELSE 0
         /\ Debts(w)[i] = IF w.flows[i].deficit <= 0 THEN 1 - w.flows[i].deficit ELSE 0
         /\ Debts(q)[i] \in Nat /\ Debts(w)[i] \in Nat
         /\ Total(Debts(w)) = (Total(Debts(q)) - Debts(q)[i]) + Debts(w)[i]
<1>. DEFINE g == Debts(q)
            h == Debts(w)
            n == flows_cnt
<1>1. \A j \in Flows : q.flows[j].deficit \in Int /\ w.flows[j].deficit \in Int
  BY DEF IsTable, IsFlow
<1>2. n \in Nat /\ Flows = 1..n
  BY ChildAssumption DEF Flows
<1>3. \A j \in Flows : g[j] \in Nat /\ h[j] \in Nat
  BY <1>1 DEF Debts
<1>4. \A j \in Flows : j # i => g[j] = h[j]
  BY DEF Debts
<1>5. /\ g[i] = IF q.flows[i].deficit <= 0 THEN 1 - q.flows[i].deficit ELSE 0
      /\ h[i] = IF w.flows[i].deficit <= 0 THEN 1 - w.flows[i].deficit ELSE 0
  BY DEF Debts
<1>. HIDE DEF g, h, n
<1>6. /\ \A k \in 1..n : g[k] \in Int /\ h[k] \in Int
      /\ \A k \in 1..n : k # i => g[k] = h[k]
      /\ i \in 1..n
  BY <1>2, <1>3, <1>4
<1>7. Sum(h, n) = (Sum(g, n) - g[i]) + h[i]
  BY <1>2, <1>6, SumUpdate
<1>8. Sum(g, n) \in Nat
  <2>1. \A k \in 1..n : g[k] \in Int /\ g[k] >= 0
    BY <1>2, <1>3
  <2>. QED
    BY <1>2, <2>1, SumSign
<1>9. Sum(h, n) \in Nat
  <2>1. \A k \in 1..n : h[k] \in Int /\ h[k] >= 0
    BY <1>2, <1>3
  <2>. QED
    BY <1>2, <2>1, SumSign
<1>. QED
  BY <1>3, <1>5, <1>7, <1>8, <1>9 DEF Total, g, h, n

-----------------------------------------------------------------------------
(***************************************************************************)
(* What every round keeps, from an a that fq_codel_dequeue starts with.    *)
(***************************************************************************)
Kept(a, q) ==
  /\ IsQ(q)
  /\ q.cparams = a.cparams /\ q.quantum = a.quantum /\ q.parent = a.parent
  /\ q.cstats.drop_count + q.sch.qlen + InHand(q) = a.cstats.drop_count + a.sch.qlen
  /\ q.cstats.drop_count >= a.cstats.drop_count /\ a.cstats.drop_count \in Nat
  /\ q.skb = NoSkb /\ a.sch.qlen > 0 => q.sch.qlen > 0

\* No round is left.
Over(q) == q.skb # NoSkb \/ NoneListed(q)

\* A flow that used up its deficit gets a quantum.
LEMMA QuantumGiven ==
  ASSUME NEW a, NEW q, Kept(a, q), ~Over(q), q.flows[First(q)].deficit <= 0
  PROVE  /\ Kept(a, Round(q))
         /\ Total(Debts(Round(q))) \in Nat /\ Total(Debts(q)) \in Nat
         /\ Total(Debts(Round(q))) <= Total(Debts(q)) - 1
         /\ Places(Round(q)) \in Nat /\ Places(q) \in Nat
         /\ Places(Round(q)) <= Places(q)
<1>. DEFINE i == First(q)
            u == ToOld(q)
            old == q.flows[i]
            f == [old EXCEPT !.deficit = @ + q.quantum]
            fl == [q.flows EXCEPT ![i] = f]
            w == Round(q)
<1>0. IsQ(q) /\ Counted(q) /\ Linked(q) /\ q.skb = NoSkb /\ ~NoneListed(q)
  BY DEF Kept, Over, IsQ
<1>1. i \in Flows /\ Places(q) \in Nat
  BY <1>0, UnlinkedLists
<1>2. /\ SameButLists(u, q) /\ Lists(u.new, u.old)
      /\ \A j \in Flows : Listed(u, j) <=> Listed(q, j)
      /\ Places(u) \in Nat /\ Places(u) <= Places(q)
  BY <1>0, ToOldLists
<1>. HIDE DEF i, u
<1>3. Counted(u) /\ u.flows = q.flows /\ u.skb = q.skb
  BY <1>0, <1>2, CountedSame DEF SameButLists
<1>4. /\ IsTable(q.flows) /\ IsFlow(old) /\ q.quantum \in Nat \ {0} /\ old.deficit \in Int
      /\ old.deficit <= 0
  BY <1>0, <1>1 DEF Counted, IsTable, IsFlow, i
<1>. HIDE DEF old
<1>5. IsFlow(f) /\ f.queue = old.queue /\ f.deficit = old.deficit + q.quantum
  BY <1>4 DEF IsFlow
<1>. HIDE DEF f
<1>6. /\ IsTable(fl)
      /\ Total(Lengths(fl)) = (Total(Lengths(q.flows)) - Len(q.flows[i].queue)) + Len(f.queue)
      /\ Total(Backlogs(fl)) =
           (Total(Backlogs(q.flows)) - Bytes(q.flows[i].queue)) + Bytes(f.queue)
  BY <1>1, <1>4, <1>5, TableUpdate
<1>7. fl[i] = f /\ \A j \in Flows : j # i => fl[j] = q.flows[j]
  BY <1>1, <1>4 DEF IsTable
<1>8. w = [u EXCEPT !.flows = fl]
  BY <1>0, <1>3, <1>4 DEF Round, i, u, old, f, fl
<1>. HIDE DEF fl, w
<1>9. /\ DOMAIN w = DOMAIN u /\ w.flows = fl /\ w.new = u.new /\ w.old = u.old
      /\ w.cparams = u.cparams /\ w.quantum = u.quantum /\ w.cstats = u.cstats
      /\ w.sch = u.sch /\ w.parent = u.parent /\ w.skb = u.skb
  BY <1>3, <1>8 DEF Counted
<1>10. Total(Lengths(fl)) = Total(Lengths(q.flows))
       /\ Total(Backlogs(fl)) = Total(Backlogs(q.flows))
  <2>1. old.queue \in Seq(Packet)
    BY <1>4 DEF IsFlow
  <2>2. Len(old.queue) \in Nat /\ Bytes(old.queue) \in Nat
    BY <2>1, BytesNat
  <2>3. f.queue = old.queue /\ q.flows[i].queue = old.queue
    BY <1>5 DEF old
  <2>4. Total(Lengths(q.flows)) \in Nat /\ Total(Backlogs(q.flows)) \in Nat
    BY <1>4, TotalsNat
  <2>5. Total(Lengths(fl)) = (Total(Lengths(q.flows)) - Len(old.queue)) + Len(old.queue)
    BY <1>6, <2>3
  <2>6. Total(Backlogs(fl)) = (Total(Backlogs(q.flows)) - Bytes(old.queue)) + Bytes(old.queue)
    BY <1>6, <2>3
  <2>. QED
    BY <2>2, <2>4, <2>5, <2>6
<1>11. Counted(w)
  BY <1>3, <1>6, <1>9, <1>10 DEF Counted
<1>12. Linked(w)
  <2>1. Lists(w.new, w.old)
    BY <1>2, <1>9
  <2>2. \A j \in Flows : w.flows[j].queue = q.flows[j].queue
    BY <1>5, <1>7, <1>9 DEF old
  <2>3. \A j \in Flows : Listed(w, j) <=> Listed(q, j)
    BY <1>2, <1>9 DEF Listed
  <2>. QED
    BY <1>0, <2>1, <2>2, <2>3 DEF Linked
<1>13. Kept(a, w)
  <2>1. /\ w.cparams = q.cparams /\ w.quantum = q.quantum /\ w.cstats = q.cstats
        /\ w.sch = q.sch /\ w.parent = q.parent /\ w.skb = q.skb
    BY <1>2, <1>9 DEF SameButLists
  <2>2. IsQ(w)
    BY <1>11, <1>12 DEF IsQ
  <2>. QED
    BY <2>1, <2>2 DEF Kept, InHand
<1>14. Places(w) = Places(u)
  BY <1>9 DEF Places
<1>15. /\ Total(Debts(w)) \in Nat /\ Total(Debts(q)) \in Nat
       /\ Total(Debts(w)) <= Total(Debts(q)) - 1
  <2>1. IsTable(w.flows) /\ \A j \in Flows : j # i => w.flows[j] = q.flows[j]
    BY <1>6, <1>7, <1>9
  <2>2. w.flows[i].deficit = old.deficit + q.quantum /\ q.flows[i].deficit = old.deficit
    BY <1>5, <1>7, <1>9 DEF old
  <2>3. /\ Total(Debts(q)) \in Nat /\ Total(Debts(w)) \in Nat
        /\ Debts(q)[i] = IF q.flows[i].deficit <= 0 THEN 1 - q.flows[i].deficit ELSE 0
        /\ Debts(w)[i] = IF w.flows[i].deficit <= 0 THEN 1 - w.flows[i].deficit ELSE 0
        /\ Total(Debts(w)) = (Total(Debts(q)) - Debts(q)[i]) + Debts(w)[i]
    BY <1>1, <1>4, <2>1, DebtsChange
  <2>4. Debts(q)[i] = 1 - old.deficit
    BY <1>4, <2>2, <2>3
  <2>5. Debts(w)[i] \in Int /\ Debts(w)[i] <= 0 - old.deficit
    <3>1. CASE old.deficit + q.quantum <= 0
      <4>1. Debts(w)[i] = 1 - (old.deficit + q.quantum)
        BY <2>2, <2>3, <3>1
      <4>. QED
        BY <1>4, <4>1
    <3>2. CASE ~(old.deficit + q.quantum <= 0)
      <4>1. Debts(w)[i] = 0
        BY <2>2, <2>3, <3>2
      <4>. QED
        BY <1>4, <4>1
    <3>. QED
      BY <3>1, <3>2
  <2>6. Total(Debts(w)) = (Total(Debts(q)) - Debts(q)[i]) + Debts(w)[i]
    BY <2>3
  <2>7. Total(Debts(w)) <= Total(Debts(q)) - 1
    BY <1>4, <2>3, <2>4, <2>5, <2>6
  <2>. QED
    BY <2>3, <2>7
<1>. QED
  BY <1>1, <1>2, <1>13, <1>14, <1>15 DEF w


\* CoDel is asked for a packet of the flow.
LEMMA FlowServed ==
  ASSUME NEW a, NEW q, Kept(a, q), ~Over(q), ~(q.flows[First(q)].deficit <= 0)
  PROVE  /\ Kept(a, Round(q))
         /\ Total(Debts(Round(q))) \in Nat /\ Places(Round(q)) \in Nat
         /\ Places(q) \in Nat /\ Total(Debts(q)) \in Nat
         /\ Round(q).skb = NoSkb =>
              /\ Total(Debts(Round(q))) = Total(Debts(q))
              /\ Places(Round(q)) <= Places(q) - 1
<1>. DEFINE i == First(q)
            v == codel_dequeue(FlowView(q, i), q.cparams, now)
            u == IF v.skb # NoSkb THEN q
                 ELSE IF PassesOld(q) THEN ToOld(q)
                 ELSE Unlinked(q)
            w == Round(q)
<1>0. IsQ(q) /\ Counted(q) /\ Linked(q) /\ q.skb = NoSkb /\ ~NoneListed(q)
  BY DEF Kept, Over, IsQ
<1>1. w = Served(u, i, v)
  BY <1>0 DEF Round
<1>2. /\ i \in Flows /\ Listed(q, i) /\ Places(q) \in Nat
      /\ SameButLists(Unlinked(q), q)
      /\ Lists(Unlinked(q).new, Unlinked(q).old)
      /\ \A j \in Flows : Listed(Unlinked(q), j) <=> Listed(q, j) /\ j # i
      /\ Places(Unlinked(q)) \in Nat
      /\ Places(Unlinked(q)) <= Places(q) - 1
  BY <1>0, UnlinkedLists
<1>3. /\ SameButLists(ToOld(q), q)
      /\ Lists(ToOld(q).new, ToOld(q).old)
      /\ \A j \in Flows : Listed(ToOld(q), j) <=> Listed(q, j)
      /\ Places(ToOld(q)) \in Nat
      /\ q.new # << >> => Places(ToOld(q)) <= Places(q) - 1
  BY <1>0, ToOldLists
<1>4. Follows(FlowView(q, i), v)
  <2>1. /\ IsView(FlowView(q, i)) /\ FlowView(q, i).skb = NoSkb /\ ~FlowView(q, i).drop
    BY <1>0, <1>2, FlowViewIsView
  <2>. QED
    BY <2>1, CodelDequeueKeeps
<1>. HIDE DEF i, v, w
<1>5. /\ SameButLists(u, q) /\ Lists(u.new, u.old)
      /\ \A j \in Flows : j # i => (Listed(u, j) <=> Listed(q, j))
      /\ v.skb # NoSkb => Listed(u, i)
      /\ Places(u) \in Nat
      /\ v.skb = NoSkb => Places(u) <= Places(q) - 1
  <2>1. CASE v.skb # NoSkb
    <3>1. u = q
      BY <2>1
    <3>2. SameButLists(q, q)
      BY DEF SameButLists
    <3>. QED
      BY <1>0, <1>2, <2>1, <3>1, <3>2 DEF Linked
  <2>2. CASE v.skb = NoSkb /\ PassesOld(q)
    <3>1. u = ToOld(q)
      BY <2>2
    <3>2. q.new # << >>
      BY <2>2 DEF PassesOld
    <3>. QED
      BY <1>3, <2>2, <3>1, <3>2
  <2>3. CASE v.skb = NoSkb /\ ~PassesOld(q)
    <3>1. u = Unlinked(q)
      BY <2>3
    <3>. QED
      BY <1>2, <2>3, <3>1
  <2>. QED
    BY <2>1, <2>2, <2>3
<1>. HIDE DEF u
<1>6. /\ Counted(u) /\ u.flows = q.flows /\ u.cstats = q.cstats /\ u.sch = q.sch
      /\ u.cparams = q.cparams /\ u.quantum = q.quantum /\ u.parent = q.parent
  BY <1>0, <1>5, CountedSame DEF SameButLists
<1>7. Follows(FlowView(u, i), v)
  <2>1. FlowView(u, i) = FlowView(q, i)
    BY <1>6 DEF FlowView
  <2>. QED
    BY <1>4, <2>1
<1>8. /\ Counted(w)
      /\ w.new = u.new /\ w.old = u.old /\ w.cparams = u.cparams
      /\ w.quantum = u.quantum /\ w.parent = u.parent /\ w.skb = v.skb
      /\ \A j \in Flows : j # i => w.flows[j] = u.flows[j]
      /\ w.cstats.drop_count + w.sch.qlen + InHand(v) = u.cstats.drop_count + u.sch.qlen
      /\ w.cstats.drop_count >= u.cstats.drop_count
      /\ v.skb = NoSkb => /\ w.flows[i].queue = << >>
                          /\ w.flows[i].deficit = u.flows[i].deficit
                          /\ u.sch.qlen > 0 => w.sch.qlen > 0
  BY <1>1, <1>2, <1>6, <1>7, ServedKeeps
<1>9. Linked(w)
  <2>1. Lists(w.new, w.old)
    BY <1>5, <1>8
  <2>2. \A j \in Flows : Listed(w, j) <=> Listed(u, j)
    BY <1>8 DEF Listed
  <2>3. ASSUME NEW j \in Flows, w.flows[j].queue # << >> PROVE Listed(w, j)
    <3>1. CASE j # i
      <4>1. Listed(q, j)
        BY <1>0, <1>6, <1>8, <2>3, <3>1 DEF Linked
      <4>. QED
        BY <1>5, <2>2, <3>1, <4>1
    <3>2. CASE j = i
      <4>1. v.skb # NoSkb
        BY <1>8, <2>3, <3>2
      <4>. QED
        BY <1>5, <2>2, <3>2, <4>1
    <3>. QED
      BY <3>1, <3>2
  <2>. QED
    BY <2>1, <2>3 DEF Linked
<1>10. Kept(a, w)
  <2>1. IsQ(w)
    BY <1>8, <1>9 DEF IsQ
  <2>2. /\ w.cparams = a.cparams /\ w.quantum = a.quantum /\ w.parent = a.parent
    BY <1>6, <1>8 DEF Kept
  <2>3. /\ q.cstats.drop_count \in Nat /\ q.sch.qlen \in Int
        /\ w.cstats.drop_count \in Nat /\ w.sch.qlen \in Int
    BY <1>0, <1>8 DEF Counted, Stats, Counters
  <2>4. w.cstats.drop_count + w.sch.qlen + InHand(w) = a.cstats.drop_count + a.sch.qlen
    <3>1. q.cstats.drop_count + q.sch.qlen + 0 = a.cstats.drop_count + a.sch.qlen
      BY <1>0 DEF Kept, InHand
    <3>2. InHand(w) = InHand(v)
      BY <1>8 DEF InHand
    <3>. QED
      BY <1>6, <1>8, <2>3, <3>1, <3>2
  <2>5. w.cstats.drop_count >= a.cstats.drop_count /\ a.cstats.drop_count \in Nat
    <3>1. q.cstats.drop_count >= a.cstats.drop_count
      BY DEF Kept
    <3>2. w.cstats.drop_count >= q.cstats.drop_count
      BY <1>6, <1>8
    <3>3. a.cstats.drop_count \in Nat
      BY DEF Kept
    <3>. QED
      BY <2>3, <3>1, <3>2, <3>3
  <2>6. w.skb = NoSkb /\ a.sch.qlen > 0 => w.sch.qlen > 0
    BY <1>0, <1>6, <1>8 DEF Kept
  <2>. QED
    BY <2>1, <2>2, <2>4, <2>5, <2>6 DEF Kept
<1>11. Places(w) = Places(u)
  BY <1>8 DEF Places
<1>12. /\ Total(Debts(q)) \in Nat /\ Total(Debts(w)) \in Nat
       /\ v.skb = NoSkb => Total(Debts(w)) = Total(Debts(q))
  <2>1. /\ IsTable(w.flows) /\ IsTable(q.flows)
        /\ \A j \in Flows : j # i => w.flows[j] = q.flows[j]
    BY <1>0, <1>6, <1>8 DEF Counted
  <2>2. /\ Total(Debts(q)) \in Nat /\ Total(Debts(w)) \in Nat
        /\ Debts(q)[i] = IF q.flows[i].deficit <= 0 THEN 1 - q.flows[i].deficit ELSE 0
        /\ Debts(w)[i] = IF w.flows[i].deficit <= 0 THEN 1 - w.flows[i].deficit ELSE 0
        /\ Debts(q)[i] \in Nat /\ Debts(w)[i] \in Nat
        /\ Total(Debts(w)) = (Total(Debts(q)) - Debts(q)[i]) + Debts(w)[i]
    BY <1>2, <2>1, DebtsChange
  <2>3. v.skb = NoSkb => Debts(w)[i] = Debts(q)[i]
    BY <1>6, <1>8, <2>2
  <2>. QED
    BY <2>2, <2>3
<1>. QED
  BY <1>2, <1>5, <1>8, <1>10, <1>11, <1>12 DEF w

\* A round keeps all this, and brings the end nearer.
LEMMA RoundKeeps ==
  ASSUME NEW a, NEW q, Kept(a, q)
  PROVE  /\ Kept(a, Round(q))
         /\ Over(q) => Round(q) = q
         /\ ~Over(q) => /\ RoundsLeft(q) \in Nat /\ RoundsLeft(Round(q)) \in Nat
                        /\ \/ Over(Round(q))
                           \/ RoundsLeft(Round(q)) <= RoundsLeft(q) - 1
<1>1. CASE Over(q)
  BY <1>1 DEF Round, Over
<1>2. CASE ~Over(q) /\ q.flows[First(q)].deficit <= 0
  <2>. DEFINE w == Round(q)
  <2>1. /\ Kept(a, w)
        /\ Total(Debts(w)) \in Nat /\ Total(Debts(q)) \in Nat
        /\ Total(Debts(w)) <= Total(Debts(q)) - 1
        /\ Places(w) \in Nat /\ Places(q) \in Nat /\ Places(w) <= Places(q)
    BY <1>2, QuantumGiven
  <2>. HIDE DEF w
  <2>2. RoundsLeft(w) = Total(Debts(w)) + Places(w)
        /\ RoundsLeft(q) = Total(Debts(q)) + Places(q)
    BY DEF RoundsLeft
  <2>3. RoundsLeft(q) \in Nat /\ RoundsLeft(w) \in Nat /\ RoundsLeft(w) <= RoundsLeft(q) - 1
    BY <2>1, <2>2
  <2>. QED
    BY <1>2, <2>1, <2>3 DEF w
<1>3. CASE ~Over(q) /\ ~(q.flows[First(q)].deficit <= 0)
  <2>. DEFINE w == Round(q)
  <2>1. /\ Kept(a, w)
        /\ Total(Debts(w)) \in Nat /\ Places(w) \in Nat
        /\ Places(q) \in Nat /\ Total(Debts(q)) \in Nat
        /\ w.skb = NoSkb => /\ Total(Debts(w)) = Total(Debts(q))
                            /\ Places(w) <= Places(q) - 1
    BY <1>3, FlowServed
  <2>. HIDE DEF w
  <2>2. RoundsLeft(w) = Total(Debts(w)) + Places(w)
        /\ RoundsLeft(q) = Total(Debts(q)) + Places(q)
    BY DEF RoundsLeft
  <2>3. /\ RoundsLeft(q) \in Nat /\ RoundsLeft(w) \in Nat
        /\ w.skb = NoSkb => RoundsLeft(w) <= RoundsLeft(q) - 1
    BY <2>1, <2>2
  <2>4. w.skb # NoSkb => Over(w)
    BY DEF Over
  <2>5. Over(w) \/ RoundsLeft(w) <= RoundsLeft(q) - 1
    BY <2>3, <2>4
  <2>6. Kept(a, w) /\ RoundsLeft(q) \in Nat /\ RoundsLeft(w) \in Nat
    BY <2>1, <2>3
  <2>. QED
    BY <1>3, <2>5, <2>6 DEF w
<1>. QED
  BY <1>1, <1>2, <1>3


\* A number of rounds is left, while there is a flow to serve.
LEMMA RoundsLeftNat ==
  ASSUME NEW q, IsQ(q)
  PROVE  /\ RoundsLeft(q) \in Nat
         /\ ~NoneListed(q) => RoundsLeft(q) >= 1
<1>1. IsTable(q.flows) /\ 1 \in Flows
  BY ChildAssumption DEF IsQ, Counted, Flows
<1>2. Total(Debts(q)) \in Nat
  BY <1>1, DebtsChange
<1>3. Places(q) \in Nat
  <2>1. Len(q.new) \in Nat /\ Len(q.old) \in Nat
    BY DEF IsQ, Linked, Lists, Distinct
  <2>. QED
    BY <2>1, PlacesAre
<1>4. ~NoneListed(q) => Places(q) >= 1
  <2>1. SUFFICES ASSUME ~NoneListed(q) PROVE Places(q) >= 1
    OBVIOUS
  <2>2. Places(Unlinked(q)) \in Nat /\ Places(Unlinked(q)) <= Places(q) - 1
    BY <2>1, UnlinkedLists
  <2>. QED
    BY <1>3, <2>2
<1>. QED
  BY <1>2, <1>3, <1>4 DEF RoundsLeft

\* Rounds(q, n) satisfies the recursion that defines it.
LEMMA RoundsEquation ==
  ASSUME NEW q, NEW n \in Nat
  PROVE  Rounds(q, n) = [k \in 0..n |-> IF k = 0 THEN q ELSE Round(Rounds(q, n)[k - 1])]
<1>. DEFINE Solves(r, m) == r = [k \in 0..m |-> IF k = 0 THEN q ELSE Round(r[k - 1])]
            S == {m \in Nat : \E r : Solves(r, m)}
<1>1. 0 \in S
  <2>1. Solves([k \in 0..0 |-> q], 0)
    OBVIOUS
  <2>. QED
    BY <2>1
<1>2. ASSUME NEW m \in Nat, m \in S PROVE m + 1 \in S
  <2>1. PICK r : Solves(r, m)
    BY <1>2
  <2>. DEFINE s == [k \in 0..(m + 1) |-> IF k = m + 1 THEN Round(r[m]) ELSE r[k]]
  <2>2. \A k \in 0..(m + 1) : s[k] = IF k = 0 THEN q ELSE Round(s[k - 1])
    BY <2>1
  <2>3. Solves(s, m + 1)
    BY <2>2
  <2>4. \E u : Solves(u, m + 1)
    <3>. HIDE DEF Solves
    <3>. QED
      BY <2>3
  <2>. HIDE DEF Solves
  <2>. QED
    BY <2>4
<1>3. n \in S
  <2>. HIDE DEF S
  <2>. QED
    BY <1>1, <1>2, SetInduction
<1>4. \E r : Solves(r, n)
  BY <1>3
<1>. QED
  BY <1>4 DEF Rounds

\* The steps of the loop.
LEMMA RoundsStep ==
  ASSUME NEW q, NEW n \in Nat
  PROVE  /\ Rounds(q, n)[0] = q
         /\ \A k \in Nat : k + 1 <= n => Rounds(q, n)[k + 1] = Round(Rounds(q, n)[k])
<1>. DEFINE r == Rounds(q, n)
<1>1. r = [k \in 0..n |-> IF k = 0 THEN q ELSE Round(r[k - 1])]
  BY RoundsEquation
<1>. HIDE DEF r
<1>2. r[0] = q
  BY <1>1
<1>3. ASSUME NEW k \in Nat, k + 1 <= n PROVE r[k + 1] = Round(r[k])
  <2>1. k + 1 \in 0..n /\ k + 1 # 0 /\ (k + 1) - 1 = k
    BY <1>3
  <2>. QED
    BY <1>1, <2>1
<1>. QED
  BY <1>2, <1>3 DEF r

\* The rounds of fq_codel_dequeue are enough for it to end.
LEMMA RoundsEnd ==
  ASSUME NEW a, Kept(a, a), NEW n, n = RoundsLeft(a)
  PROVE  Kept(a, Rounds(a, n)[n]) /\ Over(Rounds(a, n)[n])
<1>. DEFINE r == Rounds(a, n)
            P(k) == /\ Kept(a, r[k])
                    /\ Over(r[k]) \/ RoundsLeft(r[k]) <= n - k
            S == {k \in Nat : k <= n => P(k)}
<1>0. n \in Nat
  BY RoundsLeftNat DEF Kept
<1>1. r[0] = a /\ \A k \in Nat : k + 1 <= n => r[k + 1] = Round(r[k])
  BY <1>0, RoundsStep
<1>. HIDE DEF r
<1>2. 0 \in S
  BY <1>0, <1>1
<1>3. ASSUME NEW k \in Nat, k \in S PROVE k + 1 \in S
  <2>1. SUFFICES ASSUME k + 1 <= n PROVE P(k + 1)
    OBVIOUS
  <2>. DEFINE x == r[k]
              y == r[k + 1]
  <2>2. y = Round(x)
    BY <1>1, <2>1
  <2>3. Kept(a, x) /\ (Over(x) \/ RoundsLeft(x) <= n - k)
    BY <1>0, <1>3, <2>1
  <2>. HIDE DEF x, y
  <2>4. Kept(a, y)
    BY <2>2, <2>3, RoundKeeps
  <2>5. Over(y) \/ RoundsLeft(y) <= n - (k + 1)
    <3>1. CASE Over(x)
      BY <2>2, <2>3, <3>1, RoundKeeps
    <3>2. CASE ~Over(x)
      <4>1. /\ RoundsLeft(x) \in Nat /\ RoundsLeft(y) \in Nat
            /\ Over(y) \/ RoundsLeft(y) <= RoundsLeft(x) - 1
        BY <2>2, <2>3, <3>2, RoundKeeps
      <4>. QED
        BY <1>0, <2>3, <3>2, <4>1
    <3>. QED
      BY <3>1, <3>2
  <2>. QED
    BY <2>4, <2>5 DEF x, y
<1>4. n \in S
  <2>. HIDE DEF S
  <2>. QED
    BY <1>0, <1>2, <1>3, SetInduction
<1>5. P(n)
  BY <1>0, <1>4
<1>6. Over(r[n])
  <2>1. SUFFICES ASSUME ~Over(r[n]) PROVE FALSE
    OBVIOUS
  <2>2. RoundsLeft(r[n]) <= n - n
    BY <1>5, <2>1
  <2>3. IsQ(r[n]) /\ ~NoneListed(r[n])
    BY <1>5, <2>1 DEF Kept, Over
  <2>4. RoundsLeft(r[n]) \in Nat /\ RoundsLeft(r[n]) >= 1
    BY <2>3, RoundsLeftNat
  <2>. QED
    BY <1>0, <2>2, <2>4
<1>. QED
  BY <1>5, <1>6 DEF r

-----------------------------------------------------------------------------
(***************************************************************************)
(* The class of the parent.                                                *)
(***************************************************************************)
IsParent(p) == DOMAIN p = {"qlen", "active", "twice"} /\ p.qlen \in Int

\* The class when its child has qlen packets left.
LEMMA DeactivatedClass ==
  ASSUME NEW p, IsParent(p), NEW qlen
  PROVE  /\ IsParent(Deactivated(p, qlen))
         /\ Deactivated(p, qlen).qlen = p.qlen
         /\ Deactivated(p, qlen).active <=> p.active /\ qlen # 0
         /\ Deactivated(p, qlen).twice <=> p.twice \/ (qlen = 0 /\ ~p.active)
BY DEF IsParent, Deactivated

\* Packets of the child are gone.
LEMMA TreeDecreaseClass ==
  ASSUME NEW p, IsParent(p), NEW n \in Int, NEW qlen
  PROVE  /\ IsParent(TreeDecrease(p, n, qlen))
         /\ TreeDecrease(p, n, qlen).qlen = p.qlen - n
         /\ TreeDecrease(p, n, qlen).active <=> p.active /\ (n = 0 \/ qlen # 0)
         /\ TreeDecrease(p, n, qlen).twice <=>
              p.twice \/ (n # 0 /\ qlen = 0 /\ ~p.active)
<1>1. CASE n = 0
  BY <1>1 DEF TreeDecrease, IsParent
<1>2. CASE n # 0
  <2>. DEFINE m == [p EXCEPT !.qlen = @ - n]
  <2>1. /\ IsParent(m) /\ m.qlen = p.qlen - n
        /\ m.active <=> p.active
        /\ m.twice <=> p.twice
    BY DEF IsParent
  <2>2. TreeDecrease(p, n, qlen) = Deactivated(m, qlen)
    BY <1>2 DEF TreeDecrease
  <2>. HIDE DEF m
  <2>3. /\ IsParent(Deactivated(m, qlen))
        /\ Deactivated(m, qlen).qlen = m.qlen
        /\ Deactivated(m, qlen).active <=> m.active /\ qlen # 0
        /\ Deactivated(m, qlen).twice <=> m.twice \/ (qlen = 0 /\ ~m.active)
    BY <2>1, DeactivatedClass
  <2>. QED
    BY <1>2, <2>1, <2>2, <2>3
<1>. QED
  BY <1>1, <1>2

\* The class got a packet, or sent one.
LEMMA ParentMoves ==
  ASSUME NEW p, IsParent(p), NEW qlen
  PROVE  /\ IsParent(ParentEnqueued(p)) /\ ParentEnqueued(p).qlen = p.qlen + 1
         /\ ParentEnqueued(p).active
         /\ ParentEnqueued(p).twice <=> p.twice
         /\ IsParent(ParentTook(p, qlen)) /\ ParentTook(p, qlen).qlen = p.qlen - 1
         /\ ParentTook(p, qlen).active <=> p.active /\ qlen # 0
         /\ ParentTook(p, qlen).twice <=> p.twice \/ (qlen = 0 /\ ~p.active)
<1>1. /\ IsParent(ParentEnqueued(p)) /\ ParentEnqueued(p).qlen = p.qlen + 1
      /\ ParentEnqueued(p).active
      /\ ParentEnqueued(p).twice <=> p.twice
  BY DEF ParentEnqueued, IsParent
<1>. DEFINE m == [p EXCEPT !.qlen = @ - 1]
<1>2. /\ IsParent(m) /\ m.qlen = p.qlen - 1
      /\ m.active <=> p.active
      /\ m.twice <=> p.twice
  BY DEF IsParent
<1>3. ParentTook(p, qlen) = Deactivated(m, qlen)
  BY DEF ParentTook
<1>. HIDE DEF m
<1>4. /\ IsParent(Deactivated(m, qlen))
      /\ Deactivated(m, qlen).qlen = m.qlen
      /\ Deactivated(m, qlen).active <=> m.active /\ qlen # 0
      /\ Deactivated(m, qlen).twice <=> m.twice \/ (qlen = 0 /\ ~m.active)
  BY <1>2, DeactivatedClass
<1>. QED
  BY <1>1, <1>2, <1>3, <1>4

-----------------------------------------------------------------------------
(***************************************************************************)
(* fq_codel_dequeue.                                                       *)
(***************************************************************************)
\* What is said of the packets that left: handed out, or dropped and still to
\* be reported, or reported.
Answers(a, w) ==
  /\ IsQ(w) /\ IsParent(w.parent)
  /\ w.cparams = a.cparams /\ w.quantum = a.quantum
  /\ (w.parent.qlen - w.cstats.drop_count) - w.sch.qlen
       = ((a.parent.qlen - a.cstats.drop_count) - a.sch.qlen) + InHand(w)
  /\ w.parent.active <=> a.parent.active
  /\ w.parent.twice <=> a.parent.twice
  /\ w.skb = NoSkb => /\ a.sch.qlen = 0 /\ w.sch.qlen = 0 /\ NoneListed(w)
                      /\ w.parent = a.parent
                      /\ w.cstats.drop_count = a.cstats.drop_count
  /\ w.skb # NoSkb => w.sch.qlen <= a.sch.qlen - 1

\* The reports at the end.
LEMMA ReportedKeeps ==
  ASSUME NEW q, IsQ(q), IsParent(q.parent)
  PROVE  /\ IsQ(Reported(q)) /\ IsParent(Reported(q).parent)
         /\ Reported(q).cparams = q.cparams /\ Reported(q).quantum = q.quantum
         /\ Reported(q).sch = q.sch /\ Reported(q).skb = q.skb
         /\ Reported(q).parent.qlen - Reported(q).cstats.drop_count
              = q.parent.qlen - q.cstats.drop_count
         /\ Reported(q).parent.active <=> q.parent.active
         /\ Reported(q).parent.twice <=> q.parent.twice
<1>. DEFINE p == TreeDecrease(q.parent, q.cstats.drop_count, q.sch.qlen)
            st == [q.cstats EXCEPT !.drop_count = 0]
            w == [q EXCEPT !.parent = TreeDecrease(@, q.cstats.drop_count, q.sch.qlen),
                           !.cstats.drop_count = 0]
<1>1. CASE ~ReportDrops(q)
  BY <1>1 DEF Reported
<1>2. CASE ReportDrops(q)
  <2>1. q.sch.qlen # 0 /\ q.cstats.drop_count \in Nat /\ q.cstats \in Stats
        /\ q.parent.qlen \in Int
    BY <1>2 DEF ReportDrops, IsQ, Counted, Stats, IsParent
  <2>2. /\ IsParent(p) /\ p.qlen = q.parent.qlen - q.cstats.drop_count
        /\ p.active <=> q.parent.active
        /\ p.twice <=> q.parent.twice
    BY <2>1, TreeDecreaseClass
  <2>3. Reported(q) = w
    BY <1>2 DEF Reported
  <2>4. st \in Stats /\ st.drop_count = 0
    BY <2>1 DEF Stats
  <2>5. /\ DOMAIN w = DOMAIN q /\ w.parent = p /\ w.cstats = st
        /\ w.flows = q.flows /\ w.new = q.new /\ w.old = q.old
        /\ w.cparams = q.cparams /\ w.quantum = q.quantum /\ w.sch = q.sch
        /\ w.skb = q.skb
    BY DEF IsQ, Counted
  <2>. HIDE DEF p, st, w
  <2>6. IsQ(w)
    <3>1. Counted(w)
      BY <2>4, <2>5 DEF IsQ, Counted
    <3>2. Linked(w)
      BY <2>5 DEF IsQ, Linked, Listed
    <3>. QED
      BY <3>1, <3>2 DEF IsQ
  <2>7. w.parent.qlen - w.cstats.drop_count = q.parent.qlen - q.cstats.drop_count
    BY <2>1, <2>2, <2>4, <2>5
  <2>. QED
    BY <2>2, <2>3, <2>5, <2>6, <2>7
<1>. QED
  BY <1>1, <1>2

\* fq_codel_dequeue hands out a packet if there is one.
LEMMA FqDequeueAnswers ==
  ASSUME NEW a, IsQ(a), IsParent(a.parent)
  PROVE  Answers(a, fq_codel_dequeue(a))
<1>. DEFINE n == RoundsLeft(a)
            b == [a EXCEPT !.skb = NoSkb]
            r == Rounds(b, n)[n]
            w == fq_codel_dequeue(a)
<1>1. /\ DOMAIN b = DOMAIN a /\ b.skb = NoSkb /\ b.flows = a.flows /\ b.new = a.new
      /\ b.old = a.old /\ b.cparams = a.cparams /\ b.quantum = a.quantum
      /\ b.cstats = a.cstats /\ b.sch = a.sch /\ b.parent = a.parent
  BY DEF IsQ, Counted
<1>. HIDE DEF b
<1>2. IsQ(b)
  <2>1. Counted(b)
    BY <1>1 DEF IsQ, Counted
  <2>2. Linked(b)
    BY <1>1 DEF IsQ, Linked, Listed
  <2>. QED
    BY <2>1, <2>2 DEF IsQ
<1>3. /\ a.cstats.drop_count \in Nat /\ a.sch.qlen \in Nat
  BY PacketsAreListed DEF IsQ, Counted, Stats
<1>4. Kept(b, b)
  BY <1>1, <1>2, <1>3 DEF Kept, InHand
<1>5. n = RoundsLeft(b)
  BY <1>1 DEF RoundsLeft, Debts, Places
<1>. HIDE DEF n
<1>6. Kept(b, r) /\ Over(r)
  BY <1>4, <1>5, RoundsEnd
<1>7. w = IF r.skb = NoSkb THEN r ELSE Reported(r)
  BY DEF fq_codel_dequeue, n, b
<1>. HIDE DEF r, w
<1>8. /\ IsQ(r) /\ r.cparams = a.cparams /\ r.quantum = a.quantum /\ r.parent = a.parent
      /\ r.cstats.drop_count + r.sch.qlen + InHand(r) = a.cstats.drop_count + a.sch.qlen
      /\ r.cstats.drop_count >= a.cstats.drop_count
      /\ r.skb = NoSkb /\ a.sch.qlen > 0 => r.sch.qlen > 0
  BY <1>1, <1>6 DEF Kept
<1>9. r.cstats.drop_count \in Nat /\ r.sch.qlen \in Nat /\ a.parent.qlen \in Int
  BY <1>8, PacketsAreListed DEF IsQ, Counted, Stats, IsParent
<1>10. CASE r.skb = NoSkb
  <2>1. NoneListed(r) /\ r.sch.qlen = 0
    BY <1>6, <1>8, <1>10, PacketsAreListed DEF Over
  <2>2. a.sch.qlen = 0
    BY <1>3, <1>8, <1>10, <2>1
  <2>3. InHand(r) = 0
    BY <1>10 DEF InHand
  <2>4. r.cstats.drop_count = a.cstats.drop_count
    BY <1>3, <1>8, <1>9, <2>1, <2>2, <2>3
  <2>5. (r.parent.qlen - r.cstats.drop_count) - r.sch.qlen
          = ((a.parent.qlen - a.cstats.drop_count) - a.sch.qlen) + InHand(r)
    BY <1>3, <1>8, <1>9, <2>1, <2>2, <2>3, <2>4
  <2>6. w = r
    BY <1>7, <1>10
  <2>7. /\ IsQ(r) /\ IsParent(r.parent)
        /\ r.cparams = a.cparams /\ r.quantum = a.quantum /\ r.parent = a.parent
    BY <1>8
  <2>8. Answers(a, r)
    BY <1>10, <2>1, <2>2, <2>4, <2>5, <2>7 DEF Answers
  <2>. QED
    BY <2>6, <2>8 DEF w
<1>11. CASE r.skb # NoSkb
  <2>1. w = Reported(r)
    BY <1>7, <1>11
  <2>2. /\ IsQ(w) /\ IsParent(w.parent)
        /\ w.cparams = r.cparams /\ w.quantum = r.quantum
        /\ w.sch = r.sch /\ w.skb = r.skb
        /\ w.parent.qlen - w.cstats.drop_count = r.parent.qlen - r.cstats.drop_count
        /\ w.parent.active <=> r.parent.active
        /\ w.parent.twice <=> r.parent.twice
    BY <1>8, <2>1, ReportedKeeps
  <2>3. InHand(r) = 1 /\ InHand(w) = 1
    BY <1>11, <2>2 DEF InHand
  <2>4. w.sch.qlen <= a.sch.qlen - 1
    BY <1>3, <1>8, <1>9, <2>2, <2>3
  <2>5. (w.parent.qlen - w.cstats.drop_count) - w.sch.qlen
          = ((a.parent.qlen - a.cstats.drop_count) - a.sch.qlen) + InHand(w)
    <3>1. (r.parent.qlen - r.cstats.drop_count) - r.sch.qlen
            = ((a.parent.qlen - a.cstats.drop_count) - a.sch.qlen) + 1
      BY <1>3, <1>8, <1>9, <2>3
    <3>. QED
      BY <2>2, <2>3, <3>1
  <2>6. /\ IsQ(w) /\ IsParent(w.parent) /\ w.skb # NoSkb
        /\ w.cparams = a.cparams /\ w.quantum = a.quantum
    BY <1>8, <1>11, <2>2
  <2>7. /\ w.parent.active <=> a.parent.active
        /\ w.parent.twice <=> a.parent.twice
    BY <1>8, <2>2
  <2>8. Answers(a, w)
    BY <2>4, <2>5, <2>6, <2>7 DEF Answers
  <2>. QED
    BY <2>8 DEF w
<1>. QED
  BY <1>10, <1>11 DEF w


-----------------------------------------------------------------------------
(***************************************************************************)
(* The loops of fq_codel_reset and fq_codel_change, which take packets.    *)
(***************************************************************************)
\* A round of the two loops.
DrainRound(q) == IF NoneListed(q) THEN q ELSE fq_codel_dequeue(q)
TrimRound(q, lim) == IF q.sch.qlen <= lim THEN q ELSE Freed(q)

\* What both keep.
Drawn(a, q) ==
  /\ IsQ(q) /\ IsParent(q.parent)
  /\ q.cparams = a.cparams /\ q.quantum = a.quantum
  /\ q.parent.active <=> a.parent.active
  /\ q.parent.twice <=> a.parent.twice
  /\ q.sch.qlen <= a.sch.qlen

\* What the class counts too many, and has not been told.
Surplus(q) == (q.parent.qlen - q.cstats.drop_count) - q.sch.qlen

\* Drains(q, n) satisfies the recursion that defines it.
LEMMA DrainsEquation ==
  ASSUME NEW q, NEW n \in Nat
  PROVE  Drains(q, n) =
           [k \in 0..n |-> IF k = 0 THEN q ELSE DrainRound(Drains(q, n)[k - 1])]
<1>. DEFINE Solves(r, m) ==
              r = [k \in 0..m |-> IF k = 0 THEN q ELSE DrainRound(r[k - 1])]
            S == {m \in Nat : \E r : Solves(r, m)}
<1>1. 0 \in S
  <2>1. Solves([k \in 0..0 |-> q], 0)
    OBVIOUS
  <2>. QED
    BY <2>1
<1>2. ASSUME NEW m \in Nat, m \in S PROVE m + 1 \in S
  <2>1. PICK r : Solves(r, m)
    BY <1>2
  <2>. DEFINE s == [k \in 0..(m + 1) |-> IF k = m + 1 THEN DrainRound(r[m]) ELSE r[k]]
  <2>2. \A k \in 0..(m + 1) : s[k] = IF k = 0 THEN q ELSE DrainRound(s[k - 1])
    BY <2>1
  <2>3. Solves(s, m + 1)
    BY <2>2
  <2>4. \E u : Solves(u, m + 1)
    <3>. HIDE DEF Solves
    <3>. QED
      BY <2>3
  <2>. HIDE DEF Solves
  <2>. QED
    BY <2>4
<1>3. n \in S
  <2>. HIDE DEF S
  <2>. QED
    BY <1>1, <1>2, SetInduction
<1>4. \E r : Solves(r, n)
  BY <1>3
<1>. QED
  BY <1>4 DEF Drains, DrainRound

\* The steps of the loop.
LEMMA DrainsStep ==
  ASSUME NEW q, NEW n \in Nat
  PROVE  /\ Drains(q, n)[0] = q
         /\ \A k \in Nat : k + 1 <= n =>
              Drains(q, n)[k + 1] = DrainRound(Drains(q, n)[k])
<1>. DEFINE r == Drains(q, n)
<1>1. r = [k \in 0..n |-> IF k = 0 THEN q ELSE DrainRound(r[k - 1])]
  BY DrainsEquation
<1>. HIDE DEF r
<1>2. r[0] = q
  BY <1>1
<1>3. ASSUME NEW k \in Nat, k + 1 <= n PROVE r[k + 1] = DrainRound(r[k])
  <2>1. k + 1 \in 0..n /\ k + 1 # 0 /\ (k + 1) - 1 = k
    BY <1>3
  <2>. QED
    BY <1>1, <2>1
<1>. QED
  BY <1>2, <1>3 DEF r

\* Trims(q, lim, n) satisfies the recursion that defines it.
LEMMA TrimsEquation ==
  ASSUME NEW q, NEW lim, NEW n \in Nat
  PROVE  Trims(q, lim, n) =
           [k \in 0..n |-> IF k = 0 THEN q ELSE TrimRound(Trims(q, lim, n)[k - 1], lim)]
<1>. DEFINE Solves(r, m) ==
              r = [k \in 0..m |-> IF k = 0 THEN q ELSE TrimRound(r[k - 1], lim)]
            S == {m \in Nat : \E r : Solves(r, m)}
<1>1. 0 \in S
  <2>1. Solves([k \in 0..0 |-> q], 0)
    OBVIOUS
  <2>. QED
    BY <2>1
<1>2. ASSUME NEW m \in Nat, m \in S PROVE m + 1 \in S
  <2>1. PICK r : Solves(r, m)
    BY <1>2
  <2>. DEFINE s == [k \in 0..(m + 1) |-> IF k = m + 1 THEN TrimRound(r[m], lim) ELSE r[k]]
  <2>2. \A k \in 0..(m + 1) : s[k] = IF k = 0 THEN q ELSE TrimRound(s[k - 1], lim)
    BY <2>1
  <2>3. Solves(s, m + 1)
    BY <2>2
  <2>4. \E u : Solves(u, m + 1)
    <3>. HIDE DEF Solves
    <3>. QED
      BY <2>3
  <2>. HIDE DEF Solves
  <2>. QED
    BY <2>4
<1>3. n \in S
  <2>. HIDE DEF S
  <2>. QED
    BY <1>1, <1>2, SetInduction
<1>4. \E r : Solves(r, n)
  BY <1>3
<1>. QED
  BY <1>4 DEF Trims, TrimRound

\* The steps of the loop.
LEMMA TrimsStep ==
  ASSUME NEW q, NEW lim, NEW n \in Nat
  PROVE  /\ Trims(q, lim, n)[0] = q
         /\ \A k \in Nat : k + 1 <= n =>
              Trims(q, lim, n)[k + 1] = TrimRound(Trims(q, lim, n)[k], lim)
<1>. DEFINE r == Trims(q, lim, n)
<1>1. r = [k \in 0..n |-> IF k = 0 THEN q ELSE TrimRound(r[k - 1], lim)]
  BY TrimsEquation
<1>. HIDE DEF r
<1>2. r[0] = q
  BY <1>1
<1>3. ASSUME NEW k \in Nat, k + 1 <= n PROVE r[k + 1] = TrimRound(r[k], lim)
  <2>1. k + 1 \in 0..n /\ k + 1 # 0 /\ (k + 1) - 1 = k
    BY <1>3
  <2>. QED
    BY <1>1, <2>1
<1>. QED
  BY <1>2, <1>3 DEF r

\* A round that empties the queue.
LEMMA DrainRoundKeeps ==
  ASSUME NEW a, a.sch.qlen \in Int, NEW q, Drawn(a, q)
  PROVE  /\ Drawn(a, DrainRound(q))
         /\ \/ NoneListed(DrainRound(q))
            \/ DrainRound(q).sch.qlen <= q.sch.qlen - 1
<1>. DEFINE w == fq_codel_dequeue(q)
<1>1. CASE NoneListed(q)
  BY <1>1 DEF DrainRound
<1>2. CASE ~NoneListed(q)
  <2>1. Answers(q, w)
    BY FqDequeueAnswers DEF Drawn
  <2>2. DrainRound(q) = w
    BY <1>2 DEF DrainRound
  <2>. HIDE DEF w
  <2>3. /\ IsQ(w) /\ IsParent(w.parent) /\ w.cparams = q.cparams /\ w.quantum = q.quantum
        /\ w.parent.active <=> q.parent.active
        /\ w.parent.twice <=> q.parent.twice
    BY <2>1 DEF Answers
  <2>4. w.sch.qlen \in Nat /\ q.sch.qlen \in Nat
    BY <2>3, PacketsAreListed DEF Drawn
  <2>5. /\ w.sch.qlen <= q.sch.qlen
        /\ NoneListed(w) \/ w.sch.qlen <= q.sch.qlen - 1
    BY <2>1, <2>4 DEF Answers
  <2>6. w.sch.qlen <= a.sch.qlen
    BY <2>4, <2>5 DEF Drawn
  <2>7. Drawn(a, w)
    BY <2>3, <2>6 DEF Drawn
  <2>. QED
    BY <2>2, <2>5, <2>7
<1>. QED
  BY <1>1, <1>2

\* fq_codel_reset leaves no packet.
LEMMA DrainedEmpty ==
  ASSUME NEW a, IsQ(a), IsParent(a.parent)
  PROVE  /\ Drawn(a, Drained(a))
         /\ NoneListed(Drained(a)) /\ Drained(a).sch.qlen = 0
<1>. DEFINE n == a.sch.qlen + 1
            r == Drains(a, n)
            P(k) == /\ Drawn(a, r[k])
                    /\ NoneListed(r[k]) \/ r[k].sch.qlen <= a.sch.qlen - k
            S == {k \in Nat : k <= n => P(k)}
<1>0. a.sch.qlen \in Nat /\ n \in Nat
  BY PacketsAreListed
<1>. DEFINE l == a.sch.qlen
<1>8. l \in Nat /\ n = l + 1
  BY <1>0
<1>. HIDE DEF n
<1>1. r[0] = a /\ \A k \in Nat : k + 1 <= n => r[k + 1] = DrainRound(r[k])
  BY <1>0, DrainsStep
<1>. HIDE DEF r
<1>2. 0 \in S
  <2>1. Drawn(a, a)
    BY <1>0 DEF Drawn
  <2>2. a.sch.qlen <= a.sch.qlen - 0
    BY <1>0
  <2>. QED
    BY <1>1, <2>1, <2>2
<1>3. ASSUME NEW k \in Nat, k \in S PROVE k + 1 \in S
  <2>1. SUFFICES ASSUME k + 1 <= n PROVE P(k + 1)
    OBVIOUS
  <2>. DEFINE x == r[k]
              y == r[k + 1]
  <2>2. y = DrainRound(x)
    BY <1>1, <2>1
  <2>3. Drawn(a, x) /\ (NoneListed(x) \/ x.sch.qlen <= a.sch.qlen - k)
    BY <1>0, <1>3, <2>1
  <2>. HIDE DEF x, y
  <2>4. Drawn(a, y) /\ (NoneListed(y) \/ y.sch.qlen <= x.sch.qlen - 1)
    BY <1>0, <2>2, <2>3, DrainRoundKeeps
  <2>5. x.sch.qlen \in Nat /\ y.sch.qlen \in Nat
    BY <2>3, <2>4, PacketsAreListed DEF Drawn
  <2>6. NoneListed(y) \/ y.sch.qlen <= a.sch.qlen - (k + 1)
    <3>1. CASE NoneListed(x)
      BY <2>2, <3>1 DEF DrainRound
    <3>2. CASE ~NoneListed(x)
      BY <1>0, <2>3, <2>4, <2>5, <3>2
    <3>. QED
      BY <3>1, <3>2
  <2>. QED
    BY <2>4, <2>6 DEF x, y
<1>4. n \in S
  <2>. HIDE DEF S
  <2>. QED
    BY <1>0, <1>2, <1>3, SetInduction
<1>5. P(n)
  BY <1>0, <1>4
<1>6. r[n].sch.qlen \in Nat /\ (NoneListed(r[n]) => r[n].sch.qlen = 0)
  BY <1>5, PacketsAreListed DEF Drawn
<1>7. NoneListed(r[n])
  <2>1. r[n].sch.qlen <= l - n \/ NoneListed(r[n])
    BY <1>5
  <2>2. ~(r[n].sch.qlen <= l - n)
    BY <1>6, <1>8
  <2>. QED
    BY <2>1, <2>2
<1>9. Drained(a) = r[n]
  BY DEF Drained, r, n
<1>. QED
  BY <1>5, <1>6, <1>7, <1>9

\* A round that brings the queue to the limit.
LEMMA TrimRoundKeeps ==
  ASSUME NEW lim \in Nat, NEW a, a.sch.qlen \in Int, NEW q, Drawn(a, q)
  PROVE  /\ Drawn(a, TrimRound(q, lim))
         /\ Surplus(TrimRound(q, lim)) = Surplus(q)
         /\ q.sch.qlen > lim => TrimRound(q, lim).sch.qlen <= q.sch.qlen - 1
         /\ TrimRound(q, lim) = q \/ TrimRound(q, lim).cstats.drop_count > 0
<1>. DEFINE w == fq_codel_dequeue(q)
            x == [w EXCEPT !.cstats.drop_count = @ + 1]
<1>0. q.sch.qlen \in Nat
  BY PacketsAreListed DEF Drawn
<1>1. CASE q.sch.qlen <= lim
  BY <1>0, <1>1 DEF TrimRound
<1>2. CASE q.sch.qlen > lim
  <2>1. Answers(q, w)
    BY FqDequeueAnswers DEF Drawn
  <2>2. TrimRound(q, lim) = x
    BY <1>0, <1>2 DEF TrimRound, Freed
  <2>. HIDE DEF w
  <2>3. /\ IsQ(w) /\ IsParent(w.parent) /\ w.cparams = q.cparams /\ w.quantum = q.quantum
        /\ w.parent.active <=> q.parent.active
        /\ w.parent.twice <=> q.parent.twice
    BY <2>1 DEF Answers
  <2>4. w.sch.qlen \in Nat
    BY <2>3, PacketsAreListed
  <2>5. w.skb # NoSkb
    BY <1>0, <1>2, <2>1 DEF Answers
  <2>6. w.sch.qlen <= q.sch.qlen - 1
    BY <2>1, <2>5 DEF Answers
  <2>7. Surplus(w) = Surplus(q) + 1
    BY <2>1, <2>5 DEF Answers, Surplus, InHand
  <2>8. w.cstats \in Stats /\ w.cstats.drop_count \in Nat /\ w.parent.qlen \in Int
        /\ q.cstats.drop_count \in Nat /\ q.parent.qlen \in Int
    BY <2>3 DEF IsQ, Counted, Stats, IsParent, Drawn
  <2>9. /\ DOMAIN x = DOMAIN w /\ x.flows = w.flows /\ x.new = w.new /\ x.old = w.old
        /\ x.cparams = w.cparams /\ x.quantum = w.quantum /\ x.sch = w.sch
        /\ x.parent = w.parent /\ x.skb = w.skb
        /\ x.cstats = [w.cstats EXCEPT !.drop_count = @ + 1]
    BY <2>3 DEF IsQ, Counted
  <2>. HIDE DEF x
  <2>10. x.cstats \in Stats /\ x.cstats.drop_count = w.cstats.drop_count + 1
    BY <2>8, <2>9 DEF Stats
  <2>11. IsQ(x)
    <3>1. Counted(x)
      BY <2>3, <2>9, <2>10 DEF IsQ, Counted
    <3>2. Linked(x)
      BY <2>3, <2>9 DEF IsQ, Linked, Listed
    <3>. QED
      BY <3>1, <3>2 DEF IsQ
  <2>12. Surplus(x) = Surplus(q)
    <3>1. Surplus(x) = (w.parent.qlen - (w.cstats.drop_count + 1)) - w.sch.qlen
      BY <2>9, <2>10 DEF Surplus
    <3>2. Surplus(w) = (w.parent.qlen - w.cstats.drop_count) - w.sch.qlen
      BY DEF Surplus
    <3>3. Surplus(q) \in Int
      BY <1>0, <2>8 DEF Surplus
    <3>. QED
      BY <2>4, <2>7, <2>8, <3>1, <3>2, <3>3
  <2>13. Drawn(a, x)
    <3>1. x.sch.qlen <= a.sch.qlen
      BY <1>0, <2>4, <2>6, <2>9 DEF Drawn
    <3>. QED
      BY <2>3, <2>9, <2>11, <3>1 DEF Drawn
  <2>. QED
    BY <2>2, <2>6, <2>8, <2>9, <2>10, <2>12, <2>13
<1>. QED
  BY <1>0, <1>1, <1>2

\* fq_codel_change takes packets until the limit holds, and no more.
LEMMA TrimmedKeeps ==
  ASSUME NEW lim \in Nat, NEW a, IsQ(a), IsParent(a.parent)
  PROVE  /\ Drawn(a, Trimmed(a, lim)) /\ Surplus(Trimmed(a, lim)) = Surplus(a)
         /\ Trimmed(a, lim).sch.qlen <= lim
         /\ a.sch.qlen <= lim => Trimmed(a, lim) = a
         /\ Trimmed(a, lim) = a \/ Trimmed(a, lim).cstats.drop_count > 0
<1>. DEFINE l == a.sch.qlen
            n == IF a.sch.qlen <= lim THEN 0 ELSE a.sch.qlen - lim
            r == Trims(a, lim, n)
            P(k) == /\ Drawn(a, r[k]) /\ Surplus(r[k]) = Surplus(a)
                    /\ r[k].sch.qlen <= lim \/ r[k].sch.qlen <= l - k
                    /\ r[k] = a \/ r[k].cstats.drop_count > 0
            S == {k \in Nat : k <= n => P(k)}
<1>0. l \in Nat
  BY PacketsAreListed
<1>1. /\ n \in Nat
      /\ l <= lim => n = 0
      /\ ~(l <= lim) => n = l - lim
  BY <1>0
<1>. HIDE DEF n
<1>2. r[0] = a /\ \A k \in Nat : k + 1 <= n => r[k + 1] = TrimRound(r[k], lim)
  BY <1>1, TrimsStep
<1>. HIDE DEF r
<1>3. 0 \in S
  <2>1. Drawn(a, a)
    BY <1>0 DEF Drawn
  <2>2. a.sch.qlen <= l - 0
    BY <1>0
  <2>. QED
    BY <1>2, <2>1, <2>2
<1>4. ASSUME NEW k \in Nat, k \in S PROVE k + 1 \in S
  <2>1. SUFFICES ASSUME k + 1 <= n PROVE P(k + 1)
    OBVIOUS
  <2>. DEFINE x == r[k]
              y == r[k + 1]
  <2>2. y = TrimRound(x, lim)
    BY <1>2, <2>1
  <2>3. /\ Drawn(a, x) /\ Surplus(x) = Surplus(a)
        /\ x.sch.qlen <= lim \/ x.sch.qlen <= l - k
        /\ x = a \/ x.cstats.drop_count > 0
    BY <1>1, <1>4, <2>1
  <2>. HIDE DEF x, y
  <2>4. /\ Drawn(a, y) /\ Surplus(y) = Surplus(a)
        /\ x.sch.qlen > lim => y.sch.qlen <= x.sch.qlen - 1
        /\ y = x \/ y.cstats.drop_count > 0
    BY <1>0, <2>2, <2>3, TrimRoundKeeps
  <2>5. x.sch.qlen \in Nat /\ y.sch.qlen \in Nat
    BY <2>3, <2>4, PacketsAreListed DEF Drawn
  <2>6. y.sch.qlen <= lim \/ y.sch.qlen <= l - (k + 1)
    <3>1. CASE x.sch.qlen <= lim
      BY <2>2, <3>1 DEF TrimRound
    <3>2. CASE ~(x.sch.qlen <= lim)
      BY <1>0, <2>3, <2>4, <2>5, <3>2
    <3>. QED
      BY <3>1, <3>2
  <2>. QED
    BY <2>3, <2>4, <2>6 DEF x, y
<1>5. n \in S
  <2>. HIDE DEF S
  <2>. QED
    BY <1>1, <1>3, <1>4, SetInduction
<1>6. P(n)
  BY <1>1, <1>5
<1>7. r[n].sch.qlen \in Nat
  BY <1>6, PacketsAreListed DEF Drawn
<1>8. r[n].sch.qlen <= lim
  <2>1. CASE l <= lim
    BY <1>1, <1>2, <2>1
  <2>2. CASE ~(l <= lim)
    BY <1>0, <1>1, <1>6, <1>7, <2>2
  <2>. QED
    BY <2>1, <2>2
<1>9. Trimmed(a, lim) = r[n]
  BY DEF Trimmed, r, n
<1>. QED
  BY <1>1, <1>2, <1>6, <1>8, <1>9


-----------------------------------------------------------------------------
(***************************************************************************)
(* The inductive invariant.                                                *)
(***************************************************************************)
\* With fq_codel: the table and the lists.  With codel: the queue.
FqState == IsQ(Q)
ScState ==
  /\ queue \in Seq(Packet)
  /\ sch = [qlen |-> Len(queue), backlog |-> Bytes(queue)]
  /\ flows = [i \in Flows |-> EmptyFlow] /\ new_flows = << >> /\ old_flows = << >>

\* A scheduler with packets has an active class.
ClassActive == sch.qlen > 0 => parent.active

ClassInv ==
  /\ cstats \in Stats /\ sch \in Counters /\ sch.qlen \in Nat
  /\ now \in Int /\ drift \in Int /\ IsParent(parent)
  /\ ParentCounts /\ ClassActive

IInv ==
  /\ ClassInv
  /\ kind \in {"fq_codel", "codel"}
  /\ kind = "fq_codel" => FqState
  /\ kind = "codel" => ScState

\* The three action properties, as what a step may do.
Conserves == out' = NoSkb => sch.qlen = 0
TwiceStep == parent'.twice => \/ parent.twice
                              \/ /\ kind = "fq_codel" /\ sch.qlen = 0 /\ out' = Quiet
                                 /\ cstats.drop_count > 0 /\ cstats'.drop_count = 0
Finds == /\ out' = Oops => parent.active /\ sch.qlen = 0
         /\ parent'.active /\ sch'.qlen = 0 =>
              \/ parent.active /\ sch.qlen = 0
              \/ /\ flows[1].queue # << >> /\ flows'[1].queue = << >>
                 /\ drift' = drift + 1

\* What is said of the steps that crash nothing and leave no class active over
\* an empty queue that was not.
LEMMA FindsNothing ==
  ASSUME out' # Oops,
         parent'.active /\ sch'.qlen = 0 => parent.active /\ sch.qlen = 0
  PROVE  Finds
BY DEF Finds


\* The state is the one q says.
LEMMA StateBecomes ==
  ASSUME NEW q, IsQ(q), Becomes(q), quantum' = q.quantum, cstats' \in Stats
  PROVE  FqState' /\ sch' \in Counters /\ sch'.qlen \in Nat
<1>. DEFINE w == Q'
<1>1. /\ DOMAIN w = {"flows", "new", "old", "cparams", "quantum", "cstats", "sch",
                     "parent", "skb"}
      /\ w.flows = flows' /\ w.new = new_flows' /\ w.old = old_flows'
      /\ w.quantum = quantum' /\ w.cstats = cstats' /\ w.sch = sch' /\ w.skb = NoSkb
  BY DEF Q
<1>. HIDE DEF w
<1>2. Counted(w)
  BY <1>1 DEF Becomes, IsQ, Counted
<1>3. Linked(w)
  BY <1>1 DEF Becomes, IsQ, Linked, Listed
<1>4. IsQ(w)
  BY <1>2, <1>3 DEF IsQ
<1>5. sch' \in Counters /\ sch'.qlen \in Nat
  BY PacketsAreListed DEF Becomes, IsQ, Counted
<1>. QED
  BY <1>4, <1>5 DEF FqState, w

\* What the invariant says of Q.
LEMMA QFields ==
  ASSUME IInv, kind = "fq_codel"
  PROVE  /\ IsQ(Q) /\ Q.flows = flows /\ Q.new = new_flows /\ Q.old = old_flows
         /\ Q.cparams = cparams /\ Q.quantum = quantum /\ Q.cstats = cstats
         /\ Q.sch = sch /\ Q.parent = parent /\ Q.skb = NoSkb
         /\ IsTable(flows) /\ Lists(new_flows, old_flows)
         /\ \A i \in Flows : flows[i].queue # << >> =>
                               On(new_flows, i) \/ On(old_flows, i)
         /\ sch.qlen = Total(Lengths(flows)) /\ sch.backlog = Total(Backlogs(flows))
         /\ quantum \in Nat \ {0}
<1>1. /\ Q.flows = flows /\ Q.new = new_flows /\ Q.old = old_flows
      /\ Q.cparams = cparams /\ Q.quantum = quantum /\ Q.cstats = cstats
      /\ Q.sch = sch /\ Q.parent = parent /\ Q.skb = NoSkb
  BY DEF Q
<1>2. IsQ(Q)
  BY DEF IInv, FqState
<1>3. Counted(Q) /\ Linked(Q)
  BY <1>2 DEF IsQ
<1>4. /\ IsTable(flows) /\ quantum \in Nat \ {0}
      /\ sch.qlen = Total(Lengths(flows)) /\ sch.backlog = Total(Backlogs(flows))
  BY <1>1, <1>3 DEF Counted
<1>5. /\ Lists(new_flows, old_flows)
      /\ \A i \in Flows : flows[i].queue # << >> =>
                            On(new_flows, i) \/ On(old_flows, i)
  BY <1>1, <1>3 DEF Linked, Listed
<1>. QED
  BY <1>1, <1>2, <1>4, <1>5

\* What the invariant says of the class.
LEMMA ClassFields ==
  ASSUME IInv
  PROVE  /\ cstats \in Stats /\ cstats.drop_count \in Nat
         /\ sch \in Counters /\ sch.qlen \in Nat /\ sch.backlog \in Int
         /\ now \in Int /\ drift \in Int
         /\ IsParent(parent) /\ parent.qlen \in Int
         /\ parent.qlen = sch.qlen + cstats.drop_count + drift
         /\ sch.qlen > 0 => parent.active
BY DEF IInv, ClassInv, Stats, Counters, IsParent, ParentCounts, ClassActive

\* A packet of the fattest flow is dropped.
LEMMA FqDropKeeps ==
  ASSUME NEW fl, IsTable(fl), NEW s \in Counters, s.qlen = Total(Lengths(fl)),
         s.backlog = Total(Backlogs(fl)), NEW k \in Flows, fl[k].queue # << >>
  PROVE  LET d == fq_codel_drop(fl, s)
         IN /\ IsTable(d.flows) /\ d.sch \in Counters
            /\ d.sch.qlen = Total(Lengths(d.flows))
            /\ d.sch.backlog = Total(Backlogs(d.flows))
            /\ d.sch.qlen = s.qlen - 1
            /\ d.idx \in Flows /\ fl[d.idx].queue # << >>
            /\ \A j \in Flows : d.flows[j].queue # << >> => fl[j].queue # << >>
<1>. DEFINE d == fq_codel_drop(fl, s)
            i == Fattest(fl)
            old == fl[i]
            hd == Head(old.queue)
            new == [fl EXCEPT ![i].queue = Tail(@), ![i].backlog = @ - hd.len]
            f == [old EXCEPT !.queue = Tail(@), !.backlog = @ - hd.len]
<1>1. i \in Flows /\ old.queue # << >>
  BY FattestFlow
<1>2. /\ d.flows = new /\ d.idx = i
      /\ d.sch = [qlen |-> s.qlen - 1, backlog |-> s.backlog - hd.len]
  <2>1. d = [flows |-> new,
             sch |-> [qlen |-> s.qlen - 1, backlog |-> s.backlog - hd.len], idx |-> i]
    BY DEF fq_codel_drop
  <2>. HIDE DEF d, new, i, hd
  <2>. QED
    BY <2>1
<1>. HIDE DEF i, d
<1>16. new = [fl EXCEPT ![i] = f]
  BY <1>1 DEF IsTable, IsFlow
<1>. HIDE DEF new
<1>3. IsFlow(old)
  BY <1>1 DEF IsTable
<1>. HIDE DEF old
<1>4. /\ old.queue \in Seq(Packet) /\ hd \in Packet /\ hd.len \in Nat /\ hd.len > 0
      /\ Len(Tail(old.queue)) = Len(old.queue) - 1
      /\ Tail(old.queue) \in Seq(Packet)
      /\ Bytes(Tail(old.queue)) = Bytes(old.queue) - hd.len
  BY <1>1, <1>3, BytesTail DEF IsFlow
<1>5. Len(old.queue) \in Nat /\ Bytes(old.queue) \in Nat
  BY <1>4, BytesNat
<1>. HIDE DEF hd
<1>6. IsFlow(f) /\ Len(f.queue) = Len(old.queue) - 1
      /\ Bytes(f.queue) = Bytes(old.queue) - hd.len
  <2>. DEFINE t == Tail(old.queue)
  <2>1. t \in Seq(Packet) /\ Len(t) = Len(old.queue) - 1
        /\ Bytes(t) = Bytes(old.queue) - hd.len
    BY <1>4
  <2>2. /\ DOMAIN f = DOMAIN old /\ f.queue = t /\ f.backlog = old.backlog - hd.len
        /\ f.deficit = old.deficit
    BY <1>3 DEF IsFlow
  <2>. HIDE DEF f, t
  <2>. QED
    BY <1>3, <2>1, <2>2 DEF IsFlow
<1>. HIDE DEF f
<1>7. /\ IsTable(new)
      /\ Total(Lengths(new)) = (Total(Lengths(fl)) - Len(fl[i].queue)) + Len(f.queue)
      /\ Total(Backlogs(new)) =
           (Total(Backlogs(fl)) - Bytes(fl[i].queue)) + Bytes(f.queue)
  BY <1>1, <1>6, <1>16, TableUpdate
<1>8. new[i] = f /\ \A j \in Flows : j # i => new[j] = fl[j]
  BY <1>1, <1>16 DEF IsTable
<1>9. Total(Lengths(fl)) \in Nat /\ Total(Backlogs(fl)) \in Nat
  BY TotalsNat
<1>10. d.sch.qlen = s.qlen - 1 /\ d.sch.backlog = s.backlog - hd.len
  BY <1>2
<1>11. d.sch.qlen = Total(Lengths(d.flows))
  <2>1. Total(Lengths(new)) = (Total(Lengths(fl)) - Len(old.queue)) + (Len(old.queue) - 1)
    BY <1>6, <1>7 DEF old
  <2>2. Total(Lengths(new)) = Total(Lengths(fl)) - 1
    BY <1>5, <1>9, <2>1
  <2>. QED
    BY <1>2, <1>10, <2>2
<1>12. d.sch.backlog = Total(Backlogs(d.flows))
  <2>1. Total(Backlogs(new)) =
          (Total(Backlogs(fl)) - Bytes(old.queue)) + (Bytes(old.queue) - hd.len)
    BY <1>6, <1>7 DEF old
  <2>2. Total(Backlogs(new)) = Total(Backlogs(fl)) - hd.len
    BY <1>4, <1>5, <1>9, <2>1
  <2>. QED
    BY <1>2, <1>10, <2>2
<1>13. d.sch \in Counters
  BY <1>2, <1>4, <1>9 DEF Counters
<1>14. ASSUME NEW j \in Flows, d.flows[j].queue # << >> PROVE fl[j].queue # << >>
  <2>1. CASE j = i
    BY <1>1, <2>1 DEF old
  <2>2. CASE j # i
    BY <1>2, <1>8, <1>14, <2>2
  <2>. QED
    BY <2>1, <2>2
<1>15. IsTable(d.flows) /\ d.idx \in Flows /\ fl[d.idx].queue # << >>
  BY <1>1, <1>2, <1>7 DEF old
<1>. QED
  BY <1>10, <1>11, <1>12, <1>13, <1>14, <1>15 DEF d

\* The counters and the class after a step of fq_codel with other lists.
LEMMA TableBecomes ==
  ASSUME IsTable(flows'), sch' \in Counters, cstats' \in Stats,
         quantum' \in Nat \ {0},
         sch'.qlen = Total(Lengths(flows')), sch'.backlog = Total(Backlogs(flows')),
         Lists(new_flows', old_flows'),
         \A i \in Flows : flows'[i].queue # << >> =>
                            On(new_flows', i) \/ On(old_flows', i)
  PROVE  FqState' /\ sch'.qlen \in Nat
<1>. DEFINE w == Q'
<1>1. /\ DOMAIN w = {"flows", "new", "old", "cparams", "quantum", "cstats", "sch",
                     "parent", "skb"}
      /\ w.flows = flows' /\ w.new = new_flows' /\ w.old = old_flows'
      /\ w.quantum = quantum' /\ w.cstats = cstats' /\ w.sch = sch' /\ w.skb = NoSkb
  BY DEF Q
<1>. HIDE DEF w
<1>2. Counted(w)
  BY <1>1 DEF Counted
<1>3. Linked(w)
  BY <1>1 DEF Linked, Listed
<1>4. IsQ(w)
  BY <1>2, <1>3 DEF IsQ
<1>5. sch'.qlen \in Nat
  BY TotalsNat
<1>. QED
  BY <1>4, <1>5 DEF FqState, w


\* The invariant after a step of fq_codel.
LEMMA FqStepDone ==
  ASSUME kind = "fq_codel", kind' = kind, FqState', sch' \in Counters,
         sch'.qlen \in Nat, cstats' \in Stats, now' \in Int, drift' \in Int,
         IsParent(parent'), parent'.qlen = sch'.qlen + cstats'.drop_count + drift',
         sch'.qlen > 0 => parent'.active
  PROVE  IInv'
<1>1. ClassInv'
  BY DEF ClassInv, ParentCounts, ClassActive
<1>. QED
  BY <1>1 DEF IInv

\* The lists after a packet came: its flow is on one.
LEMMA EnqueuedLists ==
  ASSUME Lists(new_flows, old_flows), NEW idx \in Flows,
         new_flows' = IF Idle(idx) THEN Append(new_flows, idx) ELSE new_flows,
         old_flows' = old_flows
  PROVE  /\ Lists(new_flows', old_flows')
         /\ \A j \in Flows : On(new_flows', j) \/ On(old_flows', j) <=>
                               On(new_flows, j) \/ On(old_flows, j) \/ j = idx
<1>1. Idle(idx) <=> ~On(new_flows, idx) /\ ~On(old_flows, idx)
  BY DEF Idle, On
<1>2. CASE Idle(idx)
  <2>. DEFINE l == Append(new_flows, idx)
  <2>1. Distinct(l) /\ \A j \in Flows : On(l, j) <=> On(new_flows, j) \/ j = idx
    BY <1>1, <1>2, AppendDistinct DEF Lists
  <2>2. new_flows' = l
    BY <1>2
  <2>. HIDE DEF l
  <2>. QED
    BY <1>1, <1>2, <2>1, <2>2 DEF Lists
<1>3. CASE ~Idle(idx)
  BY <1>1, <1>3
<1>. QED
  BY <1>2, <1>3

\* The table after a packet came for a flow.
LEMMA QueuedTable ==
  ASSUME IsTable(flows), quantum \in Nat, NEW skb \in Packet, NEW idle \in BOOLEAN
  PROVE  /\ IsTable(Queued(skb, idle))
         /\ Total(Lengths(Queued(skb, idle))) = Total(Lengths(flows)) + 1
         /\ Total(Backlogs(Queued(skb, idle))) = Total(Backlogs(flows)) + skb.len
         /\ Queued(skb, idle)[skb.flow].queue # << >>
         /\ \A j \in Flows : j # skb.flow => Queued(skb, idle)[j] = flows[j]
<1>. DEFINE i == skb.flow
            old == flows[i]
            l == Append(old.queue, skb)
            f == [queue |-> Append(old.queue, skb), backlog |-> old.backlog + skb.len,
                  deficit |-> IF idle THEN quantum ELSE old.deficit,
                  vars |-> IF idle THEN CodelVars0 ELSE old.vars]
            new == [flows EXCEPT ![i] = f]
<1>1. i \in Flows /\ skb.len \in Nat /\ skb.len > 0
  BY DEF Packet
<1>2. Queued(skb, idle) = new
  BY DEF Queued
<1>3. IsFlow(old)
  BY <1>1 DEF IsTable
<1>. HIDE DEF i, old
<1>4. /\ l \in Seq(Packet) /\ Len(l) = Len(old.queue) + 1
      /\ Bytes(l) = Bytes(old.queue) + skb.len
  BY <1>3, BytesAppend DEF IsFlow
<1>5. Len(old.queue) \in Nat /\ Bytes(old.queue) \in Nat /\ old.deficit \in Int
  BY <1>3, BytesNat DEF IsFlow
<1>6. f.queue = l /\ DOMAIN f = {"queue", "backlog", "deficit", "vars"}
      /\ f.backlog = old.backlog + skb.len /\ f.deficit \in Int
  BY <1>5
<1>. HIDE DEF f, l
<1>7. IsFlow(f)
  BY <1>3, <1>4, <1>6 DEF IsFlow
<1>8. /\ IsTable(new)
      /\ Total(Lengths(new)) = (Total(Lengths(flows)) - Len(flows[i].queue)) + Len(f.queue)
      /\ Total(Backlogs(new)) =
           (Total(Backlogs(flows)) - Bytes(flows[i].queue)) + Bytes(f.queue)
  BY <1>1, <1>7, TableUpdate
<1>9. new[i] = f /\ \A j \in Flows : j # i => new[j] = flows[j]
  BY <1>1 DEF IsTable
<1>. HIDE DEF new
<1>10. Total(Lengths(flows)) \in Nat /\ Total(Backlogs(flows)) \in Nat
  BY TotalsNat
<1>11. Total(Lengths(new)) = Total(Lengths(flows)) + 1
  <2>1. Total(Lengths(new)) =
          (Total(Lengths(flows)) - Len(old.queue)) + (Len(old.queue) + 1)
    BY <1>4, <1>6, <1>8 DEF old
  <2>. QED
    BY <1>5, <1>10, <2>1
<1>12. Total(Backlogs(new)) = Total(Backlogs(flows)) + skb.len
  <2>1. Total(Backlogs(new)) =
          (Total(Backlogs(flows)) - Bytes(old.queue)) + (Bytes(old.queue) + skb.len)
    BY <1>4, <1>6, <1>8 DEF old
  <2>. QED
    BY <1>1, <1>5, <1>10, <2>1
<1>13. f.queue # << >>
  <2>1. Bytes(f.queue) > 0
    BY <1>1, <1>4, <1>5, <1>6
  <2>. QED
    BY <2>1, BytesEmpty
<1>. QED
  BY <1>2, <1>8, <1>9, <1>11, <1>12, <1>13 DEF i

\* A packet comes.
LEMMA EnqueueStep ==
  ASSUME IInv, kind = "fq_codel", kind' = kind, fq_codel_enqueue
  PROVE  IInv' /\ Conserves /\ TwiceStep /\ Finds
<1>1. /\ IsTable(flows) /\ Lists(new_flows, old_flows)
      /\ \A i \in Flows : flows[i].queue # << >> =>
                            On(new_flows, i) \/ On(old_flows, i)
      /\ sch.qlen = Total(Lengths(flows)) /\ sch.backlog = Total(Backlogs(flows))
      /\ quantum \in Nat \ {0}
  BY QFields
<1>2. /\ cstats \in Stats /\ cstats.drop_count \in Nat
      /\ sch \in Counters /\ sch.qlen \in Nat /\ sch.backlog \in Int
      /\ now \in Int /\ drift \in Int
      /\ IsParent(parent) /\ parent.qlen \in Int
      /\ parent.qlen = sch.qlen + cstats.drop_count + drift
      /\ sch.qlen > 0 => parent.active
  BY ClassFields
<1>. DEFINE Skb(i, p) == [flow |-> i, len |-> p.len, ect |-> p.ect, time |-> now]
            Added(i, p) == Queued(Skb(i, p), Idle(i))
            Sch(p) == [qlen |-> sch.qlen + 1, backlog |-> sch.backlog + p.len]
            Spill(i, p) == fq_codel_drop(Added(i, p), Sch(p))
            Case(i, p) ==
              /\ new_flows' = IF Idle(i) THEN Append(new_flows, i) ELSE new_flows
              /\ IF Sch(p).qlen < limit
                 THEN /\ flows' = Added(i, p) /\ sch' = Sch(p)
                      /\ parent' = ParentEnqueued(parent)
                 ELSE /\ flows' = Spill(i, p).flows /\ sch' = Spill(i, p).sch
                      /\ parent' = IF Spill(i, p).idx = i THEN parent
                                   ELSE ParentEnqueued(TreeDecrease(parent, 1,
                                                            Spill(i, p).sch.qlen))
<1>30. \E i \in Flows : \E p \in Traffic[i] : Case(i, p)
  BY DEF fq_codel_enqueue, fq_codel_classify
<1>31. PICK idx \in Flows : \E p \in Traffic[idx] : Case(idx, p)
  BY <1>30
<1>32. PICK p \in Traffic[idx] : Case(idx, p)
  BY <1>31
<1>3. Case(idx, p)
  BY <1>32
<1>4. /\ out' = Quiet /\ old_flows' = old_flows /\ quantum' = quantum
      /\ cstats' = cstats /\ drift' = drift /\ now' = now
  BY DEF fq_codel_enqueue
<1>. DEFINE skb == Skb(idx, p)
            added == Added(idx, p)
            s == Sch(p)
            over == Spill(idx, p)
<1>5. p.len \in Nat /\ p.len > 0 /\ skb \in Packet /\ skb.flow = idx /\ skb.len = p.len
  <2>1. p \in Kinds
    BY ChildAssumption
  <2>. QED
    BY <1>2, <2>1 DEF Kinds, Packet
<1>6. /\ IsTable(added)
      /\ Total(Lengths(added)) = Total(Lengths(flows)) + 1
      /\ Total(Backlogs(added)) = Total(Backlogs(flows)) + p.len
      /\ added[idx].queue # << >>
      /\ \A j \in Flows : j # idx => added[j] = flows[j]
  <2>. DEFINE idle == Idle(idx)
  <2>1. idle \in BOOLEAN /\ quantum \in Nat
    BY <1>1 DEF Idle
  <2>2. added = Queued(skb, idle)
    OBVIOUS
  <2>. HIDE DEF skb, added, idle
  <2>. QED
    BY <1>1, <1>5, <2>1, <2>2, QueuedTable
<1>7. /\ s \in Counters /\ s.qlen = sch.qlen + 1 /\ s.backlog = sch.backlog + p.len
      /\ s.qlen = Total(Lengths(added)) /\ s.backlog = Total(Backlogs(added))
  BY <1>1, <1>2, <1>5, <1>6 DEF Counters
<1>8. /\ Lists(new_flows', old_flows')
      /\ \A j \in Flows : On(new_flows', j) \/ On(old_flows', j) <=>
                            On(new_flows, j) \/ On(old_flows, j) \/ j = idx
  BY <1>1, <1>3, <1>4, EnqueuedLists
<1>9. \A j \in Flows : added[j].queue # << >> => On(new_flows', j) \/ On(old_flows', j)
  BY <1>1, <1>6, <1>8
<1>10. Conserves /\ out' # Oops
  BY <1>4, ChildAssumption DEF Conserves
<1>11. CASE s.qlen < limit
  <2>1. flows' = added /\ sch' = s /\ parent' = ParentEnqueued(parent)
    BY <1>3, <1>11
  <2>. HIDE DEF added, s
  <2>2. FqState'
    BY <1>1, <1>2, <1>4, <1>6, <1>7, <1>8, <1>9, <2>1, TableBecomes
  <2>3. /\ IsParent(parent') /\ parent'.qlen = parent.qlen + 1 /\ parent'.active
        /\ parent'.twice <=> parent.twice
    BY <1>2, <2>1, ParentMoves
  <2>4. parent'.qlen = sch'.qlen + cstats'.drop_count + drift' /\ sch'.qlen \in Nat
    BY <1>2, <1>4, <1>7, <2>1, <2>3
  <2>5. IInv'
    BY <1>2, <1>4, <1>7, <2>1, <2>2, <2>3, <2>4, FqStepDone
  <2>6. TwiceStep
    BY <2>3 DEF TwiceStep
  <2>7. sch'.qlen # 0
    BY <1>2, <1>7, <2>1
  <2>. QED
    BY <1>10, <2>5, <2>6, <2>7, FindsNothing
<1>12. CASE ~(s.qlen < limit)
  <2>1. /\ flows' = over.flows /\ sch' = over.sch
        /\ parent' = IF over.idx = idx THEN parent
                     ELSE ParentEnqueued(TreeDecrease(parent, 1, over.sch.qlen))
    BY <1>3, <1>12
  <2>2. over = fq_codel_drop(added, s)
    OBVIOUS
  <2>. HIDE DEF added, s, over
  <2>3. /\ IsTable(over.flows) /\ over.sch \in Counters
        /\ over.sch.qlen = Total(Lengths(over.flows))
        /\ over.sch.backlog = Total(Backlogs(over.flows))
        /\ over.sch.qlen = s.qlen - 1
        /\ over.idx \in Flows /\ added[over.idx].queue # << >>
        /\ \A j \in Flows : over.flows[j].queue # << >> => added[j].queue # << >>
    BY <1>6, <1>7, <2>2, FqDropKeeps
  <2>4. over.sch.qlen = sch.qlen
    BY <1>2, <1>7, <2>3
  <2>5. FqState'
    <3>1. \A j \in Flows : flows'[j].queue # << >> => On(new_flows', j) \/ On(old_flows', j)
      BY <1>9, <2>1, <2>3
    <3>. QED
      BY <1>1, <1>2, <1>4, <1>8, <2>1, <2>3, <3>1, TableBecomes
  <2>6. /\ IsParent(parent') /\ parent'.qlen = parent.qlen
        /\ sch.qlen > 0 => parent'.active
        /\ parent'.twice <=> parent.twice
        /\ sch.qlen = 0 => parent' = parent
    <3>1. CASE over.idx = idx
      BY <1>2, <2>1, <3>1
    <3>2. CASE over.idx # idx
      <4>1. flows[over.idx].queue # << >>
        BY <1>6, <2>3, <3>2
      <4>2. sch.qlen > 0
        BY <1>1, <2>3, <4>1, TotalsNat
      <4>. DEFINE t == TreeDecrease(parent, 1, over.sch.qlen)
      <4>3. parent' = ParentEnqueued(t)
        BY <2>1, <3>2
      <4>4. IsParent(t) /\ t.qlen = parent.qlen - 1 /\ (t.twice <=> parent.twice)
        <5>1. /\ IsParent(t) /\ t.qlen = parent.qlen - 1
              /\ t.twice <=> parent.twice \/ (1 # 0 /\ over.sch.qlen = 0 /\ ~parent.active)
          BY <1>2, TreeDecreaseClass
        <5>2. parent.active
          BY <1>2, <4>2
        <5>. HIDE DEF t
        <5>. QED
          BY <5>1, <5>2
      <4>. HIDE DEF t
      <4>5. /\ IsParent(parent') /\ parent'.qlen = t.qlen + 1 /\ parent'.active
            /\ parent'.twice <=> t.twice
        BY <4>3, <4>4, ParentMoves
      <4>. QED
        BY <1>2, <4>2, <4>4, <4>5
    <3>. QED
      BY <3>1, <3>2
  <2>7. parent'.qlen = sch'.qlen + cstats'.drop_count + drift' /\ sch'.qlen \in Nat
    BY <1>2, <1>4, <2>1, <2>4, <2>6
  <2>8. IInv'
    <3>1. sch'.qlen > 0 => parent'.active
      BY <2>1, <2>4, <2>6
    <3>2. /\ sch' \in Counters /\ cstats' \in Stats /\ now' \in Int /\ drift' \in Int
      BY <1>2, <1>4, <2>1, <2>3
    <3>. QED
      BY <2>5, <2>6, <2>7, <3>1, <3>2, FqStepDone
  <2>9. TwiceStep
    BY <2>6 DEF TwiceStep
  <2>10. sch'.qlen = 0 => sch.qlen = 0 /\ parent' = parent
    BY <2>1, <2>4, <2>6
  <2>. QED
    BY <1>10, <2>8, <2>9, <2>10, FindsNothing
<1>. QED
  BY <1>11, <1>12


\* The parent asks for a packet.
LEMMA DequeueStep ==
  ASSUME IInv, kind = "fq_codel", kind' = kind, Dequeue
  PROVE  IInv' /\ Conserves /\ TwiceStep /\ Finds
<1>. DEFINE q == fq_codel_dequeue(Q)
<1>1. /\ IsQ(Q) /\ Q.cstats = cstats /\ Q.sch = sch /\ Q.parent = parent
      /\ Q.quantum = quantum
  BY QFields
<1>2. /\ cstats \in Stats /\ cstats.drop_count \in Nat
      /\ sch \in Counters /\ sch.qlen \in Nat
      /\ now \in Int /\ drift \in Int
      /\ IsParent(parent) /\ parent.qlen \in Int
      /\ parent.qlen = sch.qlen + cstats.drop_count + drift
  BY ClassFields
<1>3. Answers(Q, q)
  BY <1>1, <1>2, FqDequeueAnswers
<1>4. /\ parent.active
      /\ Becomes(q) /\ cstats' = q.cstats
      /\ out' = IF q.skb = NoSkb THEN NoSkb ELSE q.skb.flow
      /\ parent' = IF q.skb = NoSkb THEN [q.parent EXCEPT !.active = FALSE]
                   ELSE ParentTook(q.parent, q.sch.qlen)
      /\ quantum' = quantum /\ drift' = drift /\ now' = now
  BY DEF Dequeue
<1>. HIDE DEF q
<1>5. /\ IsQ(q) /\ IsParent(q.parent) /\ q.quantum = Q.quantum
      /\ (q.parent.qlen - q.cstats.drop_count) - q.sch.qlen
           = ((parent.qlen - cstats.drop_count) - sch.qlen) + InHand(q)
      /\ q.parent.active
      /\ q.parent.twice <=> parent.twice
      /\ q.skb = NoSkb => /\ sch.qlen = 0 /\ q.sch.qlen = 0
                          /\ q.parent = parent
                          /\ q.cstats.drop_count = cstats.drop_count
  BY <1>1, <1>3, <1>4 DEF Answers
<1>6. /\ q.cstats \in Stats /\ q.cstats.drop_count \in Nat /\ q.sch.qlen \in Nat
      /\ q.parent.qlen \in Int /\ q.skb \in Packet \cup {NoSkb}
  BY <1>5, PacketsAreListed DEF IsQ, Counted, Stats, IsParent
<1>7. sch' = q.sch
  BY <1>4 DEF Becomes
<1>8. FqState' /\ sch' \in Counters /\ sch'.qlen \in Nat /\ cstats' \in Stats
  BY <1>1, <1>4, <1>5, <1>6, StateBecomes
<1>9. Conserves /\ out' # Oops
  <2>1. q.skb # NoSkb => q.skb.flow \in Flows
    BY <1>6 DEF Packet
  <2>. QED
    BY <1>4, <1>5, <2>1, NoSkbAssumption, ChildAssumption DEF Conserves
<1>10. /\ IsParent(parent')
       /\ parent'.qlen = q.parent.qlen - InHand(q)
       /\ q.sch.qlen > 0 => parent'.active
       /\ parent'.active => q.sch.qlen # 0
       /\ parent'.twice <=> parent.twice
  <2>1. CASE q.skb = NoSkb
    <3>1. parent' = [q.parent EXCEPT !.active = FALSE]
      BY <1>4, <2>1
    <3>2. /\ IsParent(parent') /\ parent'.qlen = q.parent.qlen
          /\ parent'.twice <=> q.parent.twice
          /\ ~parent'.active
      BY <1>5, <3>1 DEF IsParent
    <3>. QED
      BY <1>5, <1>6, <2>1, <3>2 DEF InHand
  <2>2. CASE q.skb # NoSkb
    <3>1. parent' = ParentTook(q.parent, q.sch.qlen)
      BY <1>4, <2>2
    <3>2. /\ IsParent(parent') /\ parent'.qlen = q.parent.qlen - 1
          /\ parent'.active <=> q.parent.active /\ q.sch.qlen # 0
          /\ parent'.twice <=> q.parent.twice \/ (q.sch.qlen = 0 /\ ~q.parent.active)
      BY <1>5, <3>1, ParentMoves
    <3>. QED
      BY <1>5, <2>2, <3>2 DEF InHand
  <2>. QED
    BY <2>1, <2>2
<1>11. parent'.qlen = sch'.qlen + cstats'.drop_count + drift'
  <2>1. InHand(q) \in Int
    BY DEF InHand
  <2>2. (q.parent.qlen - q.cstats.drop_count) - q.sch.qlen = drift + InHand(q)
    BY <1>2, <1>5, <2>1
  <2>. QED
    BY <1>2, <1>4, <1>6, <1>7, <1>10, <2>1, <2>2
<1>12. IInv'
  <2>1. sch'.qlen > 0 => parent'.active
    BY <1>7, <1>10
  <2>2. now' \in Int /\ drift' \in Int
    BY <1>2, <1>4
  <2>. QED
    BY <1>8, <1>10, <1>11, <2>1, <2>2, FqStepDone
<1>13. Finds
  BY <1>7, <1>9, <1>10, FindsNothing
<1>. QED
  BY <1>9, <1>10, <1>12, <1>13 DEF TwiceStep

\* The parent asks its child to drop a packet, and there is one.
LEMMA PacketDropStep ==
  ASSUME IInv, kind = "fq_codel", kind' = kind, ParentDrop, ~NothingToDrop
  PROVE  IInv' /\ Conserves /\ TwiceStep /\ Finds
<1>. DEFINE d == fq_codel_drop(flows, sch)
<1>1. /\ IsTable(flows) /\ Lists(new_flows, old_flows)
      /\ \A i \in Flows : flows[i].queue # << >> =>
                            On(new_flows, i) \/ On(old_flows, i)
      /\ sch.qlen = Total(Lengths(flows)) /\ sch.backlog = Total(Backlogs(flows))
      /\ quantum \in Nat \ {0}
  BY QFields
<1>2. /\ cstats \in Stats /\ cstats.drop_count \in Nat
      /\ sch \in Counters /\ sch.qlen \in Nat
      /\ now \in Int /\ drift \in Int
      /\ IsParent(parent) /\ parent.qlen \in Int
      /\ parent.qlen = sch.qlen + cstats.drop_count + drift
      /\ sch.qlen > 0 => parent.active
  BY ClassFields
<1>3. /\ ~NothingToDrop /\ flows' = d.flows /\ sch' = d.sch
      /\ parent' = IF d.idx # 1 THEN ParentTook(parent, d.sch.qlen) ELSE parent
      /\ drift' = IF d.idx # 1 THEN drift ELSE drift + 1
      /\ out' = Quiet /\ new_flows' = new_flows /\ old_flows' = old_flows
      /\ quantum' = quantum /\ cstats' = cstats /\ now' = now
  BY DEF ParentDrop
<1>4. PICK k \in Flows : flows[k].queue # << >>
  BY <1>1, <1>3, FattestFlow DEF NothingToDrop
<1>10. sch.qlen > 0
  BY <1>1, <1>4, TotalsNat
<1>5. /\ IsTable(d.flows) /\ d.sch \in Counters
      /\ d.sch.qlen = Total(Lengths(d.flows))
      /\ d.sch.backlog = Total(Backlogs(d.flows))
      /\ d.sch.qlen = sch.qlen - 1
      /\ d.idx \in Flows /\ flows[d.idx].queue # << >>
      /\ \A j \in Flows : d.flows[j].queue # << >> => flows[j].queue # << >>
  BY <1>1, <1>2, <1>4, FqDropKeeps
<1>. HIDE DEF d
<1>6. FqState' /\ sch'.qlen \in Nat
  <2>1. \A j \in Flows : flows'[j].queue # << >> => On(new_flows', j) \/ On(old_flows', j)
    BY <1>1, <1>3, <1>5
  <2>. QED
    BY <1>1, <1>2, <1>3, <1>5, <2>1, TableBecomes
<1>7. /\ IsParent(parent') /\ parent'.qlen = (sch.qlen - 1) + cstats.drop_count + drift'
      /\ sch'.qlen > 0 => parent'.active
      /\ parent'.active /\ sch'.qlen = 0 => d.idx = 1 /\ drift' = drift + 1
      /\ parent'.twice <=> parent.twice
  <2>1. CASE d.idx # 1
    <3>1. parent' = ParentTook(parent, d.sch.qlen) /\ drift' = drift
      BY <1>3, <2>1
    <3>2. /\ IsParent(parent') /\ parent'.qlen = parent.qlen - 1
          /\ parent'.active <=> parent.active /\ d.sch.qlen # 0
          /\ parent'.twice <=> parent.twice \/ (d.sch.qlen = 0 /\ ~parent.active)
      BY <1>2, <3>1, ParentMoves
    <3>3. parent'.qlen = (sch.qlen - 1) + cstats.drop_count + drift'
      BY <1>2, <3>1, <3>2
    <3>. QED
      BY <1>2, <1>3, <1>10, <3>2, <3>3
  <2>2. CASE d.idx = 1
    <3>1. parent' = parent /\ drift' = drift + 1
      BY <1>3, <2>2
    <3>2. parent'.qlen = (sch.qlen - 1) + cstats.drop_count + drift'
      BY <1>2, <3>1
    <3>. QED
      BY <1>2, <1>3, <1>10, <2>2, <3>1, <3>2
  <2>. QED
    BY <2>1, <2>2
<1>8. IInv'
  <2>1. parent'.qlen = sch'.qlen + cstats'.drop_count + drift'
    BY <1>3, <1>5, <1>7
  <2>2. sch' \in Counters /\ cstats' \in Stats /\ now' \in Int /\ drift' \in Int
    BY <1>2, <1>3, <1>5
  <2>. QED
    BY <1>6, <1>7, <2>1, <2>2, FqStepDone
<1>9. Conserves /\ out' # Oops
  BY <1>3, ChildAssumption DEF Conserves
<1>11. ASSUME parent'.active, sch'.qlen = 0
       PROVE  /\ flows[1].queue # << >> /\ flows'[1].queue = << >>
              /\ drift' = drift + 1
  <2>1. d.idx = 1 /\ drift' = drift + 1
    BY <1>7, <1>11
  <2>2. 1 \in Flows /\ flows[1].queue # << >>
    BY <1>5, <2>1
  <2>3. flows'[1].queue = << >>
    <3>1. sch'.qlen = Total(Lengths(flows')) /\ IsTable(flows')
      BY <1>3, <1>5
    <3>. QED
      BY <1>11, <2>2, <3>1, TotalsNat
  <2>. QED
    BY <2>1, <2>2, <2>3
<1>12. Finds
  BY <1>9, <1>11 DEF Finds
<1>. QED
  BY <1>7, <1>8, <1>9, <1>12 DEF TwiceStep

\* It asks for one, and there is none.
LEMMA CrashStep ==
  ASSUME IInv, kind = "fq_codel", kind' = kind, ParentDrop, NothingToDrop
  PROVE  IInv' /\ Conserves /\ TwiceStep /\ Finds
<1>1. /\ IsTable(flows) /\ Lists(new_flows, old_flows)
      /\ \A i \in Flows : flows[i].queue # << >> =>
                            On(new_flows, i) \/ On(old_flows, i)
      /\ sch.qlen = Total(Lengths(flows)) /\ sch.backlog = Total(Backlogs(flows))
      /\ quantum \in Nat \ {0}
  BY QFields
<1>2. /\ cstats \in Stats /\ sch \in Counters /\ sch.qlen \in Nat
      /\ now \in Int /\ drift \in Int /\ IsParent(parent)
      /\ parent.qlen = sch.qlen + cstats.drop_count + drift
      /\ sch.qlen > 0 => parent.active
  BY ClassFields
<1>3. /\ parent.active /\ out' = Oops
      /\ flows' = flows /\ new_flows' = new_flows /\ old_flows' = old_flows
      /\ quantum' = quantum /\ cstats' = cstats /\ sch' = sch /\ parent' = parent
      /\ drift' = drift /\ now' = now
  BY DEF ParentDrop
<1>4. FqState'
  BY <1>1, <1>2, <1>3, TableBecomes
<1>5. IInv'
  BY <1>2, <1>3, <1>4, FqStepDone
<1>6. sch.qlen = 0
  <2>1. \A i \in Flows : flows[i].queue = << >>
    BY <1>1, FattestFlow DEF NothingToDrop
  <2>. QED
    BY <1>1, <2>1, TotalsZero
<1>7. Conserves /\ Finds
  BY <1>3, <1>6 DEF Conserves, Finds
<1>. QED
  BY <1>3, <1>5, <1>7 DEF TwiceStep

\* The parent asks its child to drop a packet.
LEMMA ParentDropStep ==
  ASSUME IInv, kind = "fq_codel", kind' = kind, ParentDrop
  PROVE  IInv' /\ Conserves /\ TwiceStep /\ Finds
BY PacketDropStep, CrashStep

\* The scheduler is reset, and its parent.
LEMMA ResetStep ==
  ASSUME IInv, kind = "fq_codel", kind' = kind, Reset
  PROVE  IInv' /\ Conserves /\ TwiceStep /\ Finds
<1>. DEFINE q == Drained(Q)
<1>1. /\ IsQ(Q) /\ Q.parent = parent /\ Q.quantum = quantum
  BY QFields
<1>2. now \in Int /\ IsParent(parent)
  BY ClassFields
<1>3. Drawn(Q, q) /\ q.sch.qlen = 0
  BY <1>1, <1>2, DrainedEmpty
<1>4. /\ Becomes(q) /\ cstats' = q.cstats
      /\ parent' = [q.parent EXCEPT !.qlen = 0, !.active = FALSE]
      /\ drift' = 0 - q.cstats.drop_count
      /\ out' = Quiet /\ quantum' = quantum /\ now' = now
  BY DEF Reset
<1>. HIDE DEF q
<1>5. /\ IsQ(q) /\ IsParent(q.parent) /\ q.quantum = quantum
      /\ q.parent.twice <=> parent.twice
  BY <1>1, <1>3 DEF Drawn
<1>6. q.cstats \in Stats /\ q.cstats.drop_count \in Nat
  BY <1>5 DEF IsQ, Counted, Stats
<1>7. FqState' /\ sch' \in Counters /\ sch'.qlen \in Nat
  BY <1>4, <1>5, <1>6, StateBecomes
<1>8. sch'.qlen = 0
  BY <1>3, <1>4 DEF Becomes
<1>9. /\ IsParent(parent') /\ parent'.qlen = 0 /\ ~parent'.active
      /\ parent'.twice <=> parent.twice
  BY <1>4, <1>5 DEF IsParent
<1>10. IInv'
  <2>1. parent'.qlen = sch'.qlen + cstats'.drop_count + drift'
    BY <1>4, <1>6, <1>8, <1>9
  <2>2. now' \in Int /\ drift' \in Int /\ cstats' \in Stats
    BY <1>2, <1>4, <1>6
  <2>3. sch'.qlen > 0 => parent'.active
    BY <1>8
  <2>. QED
    BY <1>7, <1>9, <2>1, <2>2, <2>3, FqStepDone
<1>11. Conserves /\ out' # Oops
  BY <1>4, ChildAssumption DEF Conserves
<1>12. Finds
  BY <1>9, <1>11, FindsNothing
<1>. QED
  BY <1>9, <1>10, <1>11, <1>12 DEF TwiceStep

\* The parameters change.
LEMMA ChangeStep ==
  ASSUME IInv, kind = "fq_codel", kind' = kind, Change
  PROVE  IInv' /\ Conserves /\ TwiceStep /\ Finds
<1>. DEFINE a == [Q EXCEPT !.cparams = cparams', !.quantum = quantum']
            q == Trimmed(a, limit')
<1>1. /\ IsQ(Q) /\ Q.flows = flows /\ Q.new = new_flows /\ Q.old = old_flows
      /\ Q.cstats = cstats /\ Q.sch = sch /\ Q.parent = parent
  BY QFields
<1>2. /\ cstats \in Stats /\ cstats.drop_count \in Nat
      /\ sch \in Counters /\ sch.qlen \in Nat
      /\ now \in Int /\ drift \in Int
      /\ IsParent(parent) /\ parent.qlen \in Int
      /\ parent.qlen = sch.qlen + cstats.drop_count + drift
      /\ sch.qlen > 0 => parent.active
  BY ClassFields
<1>3. limit' \in Nat /\ quantum' \in Nat \ {0}
  <2>1. limit' \in Limits /\ quantum' \in Quantums
    BY DEF Change
  <2>. QED
    BY <2>1, ChildAssumption, FqAssumption DEF Quantums
<1>4. /\ Becomes(q) /\ cstats' = [q.cstats EXCEPT !.drop_count = 0]
      /\ parent' = TreeDecrease(q.parent, q.cstats.drop_count, q.sch.qlen)
      /\ out' = Quiet /\ drift' = drift /\ now' = now
  BY DEF Change
<1>5. /\ DOMAIN a = DOMAIN Q /\ a.flows = Q.flows /\ a.new = Q.new /\ a.old = Q.old
      /\ a.quantum = quantum' /\ a.cstats = Q.cstats /\ a.sch = Q.sch
      /\ a.parent = Q.parent /\ a.skb = Q.skb
  BY <1>1 DEF IsQ, Counted
<1>. HIDE DEF a
<1>6. IsQ(a)
  <2>1. Counted(a)
    BY <1>1, <1>3, <1>5 DEF IsQ, Counted
  <2>2. Linked(a)
    BY <1>1, <1>5 DEF IsQ, Linked, Listed
  <2>. QED
    BY <2>1, <2>2 DEF IsQ
<1>7. /\ Drawn(a, q) /\ Surplus(q) = Surplus(a)
      /\ a.sch.qlen <= limit' => q = a
      /\ q = a \/ q.cstats.drop_count > 0
  BY <1>1, <1>2, <1>3, <1>5, <1>6, TrimmedKeeps
<1>. HIDE DEF q
<1>8. /\ IsQ(q) /\ IsParent(q.parent) /\ q.quantum = quantum'
      /\ q.parent.active <=> parent.active
      /\ q.parent.twice <=> parent.twice
      /\ q.sch.qlen <= sch.qlen
  BY <1>1, <1>5, <1>7 DEF Drawn
<1>9. /\ q.cstats \in Stats /\ q.cstats.drop_count \in Nat /\ q.sch.qlen \in Nat
      /\ q.parent.qlen \in Int
  BY <1>8, PacketsAreListed DEF IsQ, Counted, Stats, IsParent
<1>10. cstats' \in Stats /\ cstats'.drop_count = 0
  BY <1>4, <1>9 DEF Stats
<1>11. FqState' /\ sch' \in Counters /\ sch'.qlen \in Nat
  BY <1>4, <1>8, <1>10, StateBecomes
<1>12. sch' = q.sch
  BY <1>4 DEF Becomes
<1>13. /\ IsParent(parent') /\ parent'.qlen = q.parent.qlen - q.cstats.drop_count
       /\ parent'.active <=> q.parent.active /\ (q.cstats.drop_count = 0 \/ q.sch.qlen # 0)
       /\ parent'.twice <=> q.parent.twice \/ (q.cstats.drop_count # 0 /\ q.sch.qlen = 0
                                                /\ ~q.parent.active)
  BY <1>4, <1>8, <1>9, TreeDecreaseClass
<1>14. parent'.qlen = sch'.qlen + cstats'.drop_count + drift'
  <2>1. (q.parent.qlen - q.cstats.drop_count) - q.sch.qlen
          = (parent.qlen - cstats.drop_count) - sch.qlen
    BY <1>1, <1>5, <1>7 DEF Surplus
  <2>. QED
    BY <1>2, <1>4, <1>9, <1>10, <1>12, <1>13, <2>1
<1>15. IInv'
  <2>1. sch'.qlen > 0 => parent'.active
    BY <1>2, <1>8, <1>9, <1>12, <1>13
  <2>2. now' \in Int /\ drift' \in Int
    BY <1>2, <1>4
  <2>. QED
    BY <1>10, <1>11, <1>13, <1>14, <2>1, <2>2, FqStepDone
<1>16. TwiceStep
  <2>1. SUFFICES ASSUME parent'.twice, ~parent.twice
                 PROVE  sch.qlen = 0 /\ cstats.drop_count > 0
    BY <1>4, <1>10 DEF TwiceStep
  <2>2. q.cstats.drop_count # 0 /\ ~parent.active
    BY <1>8, <1>13, <2>1
  <2>3. sch.qlen = 0
    BY <1>2, <2>2
  <2>4. q = a
    BY <1>1, <1>3, <1>5, <1>7, <2>3
  <2>5. cstats.drop_count # 0
    BY <1>1, <1>5, <2>2, <2>4
  <2>. QED
    BY <1>2, <2>3, <2>5
<1>17. Conserves /\ out' # Oops
  BY <1>4, ChildAssumption DEF Conserves
<1>18. ASSUME parent'.active, sch'.qlen = 0 PROVE parent.active /\ sch.qlen = 0
  <2>1. q.parent.active /\ q.cstats.drop_count = 0
    BY <1>12, <1>13, <1>18
  <2>2. q = a
    BY <1>7, <2>1
  <2>. QED
    BY <1>1, <1>5, <1>8, <1>12, <1>18, <2>1, <2>2
<1>19. Finds
  BY <1>17, <1>18, FindsNothing
<1>. QED
  BY <1>15, <1>16, <1>17, <1>19

\* Time passes.
LEMMA FqTickStep ==
  ASSUME IInv, kind = "fq_codel", kind' = kind, FqTick
  PROVE  IInv' /\ Conserves /\ TwiceStep /\ Finds
<1>1. /\ IsTable(flows) /\ Lists(new_flows, old_flows)
      /\ \A i \in Flows : flows[i].queue # << >> =>
                            On(new_flows, i) \/ On(old_flows, i)
      /\ sch.qlen = Total(Lengths(flows)) /\ sch.backlog = Total(Backlogs(flows))
      /\ quantum \in Nat \ {0}
  BY QFields
<1>2. /\ cstats \in Stats /\ sch \in Counters /\ sch.qlen \in Nat
      /\ now \in Int /\ drift \in Int /\ IsParent(parent)
      /\ parent.qlen = sch.qlen + cstats.drop_count + drift
      /\ sch.qlen > 0 => parent.active
  BY ClassFields
<1>3. /\ flows' = flows /\ new_flows' = new_flows /\ old_flows' = old_flows
      /\ quantum' = quantum /\ cstats' = cstats /\ sch' = sch /\ parent' = parent
      /\ drift' = drift /\ out' = Quiet
  BY DEF FqTick, Tick
<1>4. now' \in Int
  <2>1. PICK d \in Ticks : now' = (now + d) % TimeMod
    BY DEF FqTick, Tick
  <2>2. d \in Int /\ TimeMod \in Nat \ {0}
    BY ChildAssumption
  <2>. QED
    BY <1>2, <2>1, <2>2
<1>5. FqState'
  BY <1>1, <1>2, <1>3, TableBecomes
<1>6. IInv'
  BY <1>2, <1>3, <1>4, <1>5, FqStepDone
<1>7. Conserves /\ out' # Oops
  BY <1>3, ChildAssumption DEF Conserves
<1>8. Finds
  BY <1>3, <1>7, FindsNothing
<1>. QED
  BY <1>3, <1>6, <1>7, <1>8 DEF TwiceStep


-----------------------------------------------------------------------------
(***************************************************************************)
(* The steps of codel.                                                     *)
(***************************************************************************)
\* What the invariant says of codel.
LEMMA ScFields ==
  ASSUME IInv, kind = "codel"
  PROVE  /\ queue \in Seq(Packet) /\ Len(queue) \in Nat /\ Bytes(queue) \in Nat
         /\ sch.qlen = Len(queue) /\ sch.backlog = Bytes(queue)
         /\ flows = [i \in Flows |-> EmptyFlow] /\ new_flows = << >>
         /\ old_flows = << >>
<1>1. ScState
  BY DEF IInv
<1>2. queue \in Seq(Packet)
  BY <1>1 DEF ScState
<1>3. Len(queue) \in Nat /\ Bytes(queue) \in Nat
  BY <1>2, BytesNat
<1>4. sch.qlen = Len(queue) /\ sch.backlog = Bytes(queue)
  BY <1>1 DEF ScState
<1>. QED
  BY <1>1, <1>2, <1>3, <1>4 DEF ScState

\* The invariant after a step of codel.
LEMMA ScStepDone ==
  ASSUME IInv, kind = "codel", kind' = kind, UNCHANGED fq_vars,
         queue' \in Seq(Packet), sch' \in Counters,
         sch'.qlen = Len(queue'), sch'.backlog = Bytes(queue'),
         cstats' \in Stats, now' \in Int, drift' \in Int, IsParent(parent'),
         parent'.qlen = sch'.qlen + cstats'.drop_count + drift',
         sch'.qlen > 0 => parent'.active
  PROVE  IInv'
<1>1. Len(queue') \in Nat /\ Bytes(queue') \in Nat
  BY BytesNat
<1>2. sch' \in Counters /\ sch'.qlen \in Nat
  BY <1>1
<1>3. ClassInv'
  BY <1>2 DEF ClassInv, ParentCounts, ClassActive
<1>4. ScState'
  <2>1. sch' = [qlen |-> Len(queue'), backlog |-> Bytes(queue')]
    BY DEF Counters
  <2>2. /\ flows' = [i \in Flows |-> EmptyFlow] /\ new_flows' = << >>
        /\ old_flows' = << >>
    BY ScFields DEF fq_vars
  <2>. QED
    BY <2>1, <2>2 DEF ScState
<1>. QED
  BY <1>3, <1>4 DEF IInv

\* A packet comes.
LEMMA ScEnqueueStep ==
  ASSUME IInv, kind = "codel", kind' = kind, UNCHANGED fq_vars, codel_qdisc_enqueue
  PROVE  IInv' /\ Conserves /\ TwiceStep /\ Finds
<1>1. /\ queue \in Seq(Packet) /\ Len(queue) \in Nat /\ Bytes(queue) \in Nat
      /\ sch.qlen = Len(queue) /\ sch.backlog = Bytes(queue)
  BY ScFields
<1>2. /\ cstats \in Stats /\ cstats.drop_count \in Nat /\ sch \in Counters
      /\ now \in Int /\ drift \in Int /\ IsParent(parent) /\ parent.qlen \in Int
      /\ parent.qlen = sch.qlen + cstats.drop_count + drift
      /\ sch.qlen > 0 => parent.active
  BY ClassFields
<1>. DEFINE Skb(i, p) == [flow |-> i, len |-> p.len, ect |-> p.ect, time |-> now]
            Case(i, p) ==
              IF sch.qlen < limit
              THEN /\ queue' = Append(queue, Skb(i, p))
                   /\ sch' = [qlen |-> sch.qlen + 1, backlog |-> sch.backlog + p.len]
                   /\ parent' = ParentEnqueued(parent)
              ELSE UNCHANGED <<queue, sch, parent>>
<1>3. /\ out' = Quiet /\ cstats' = cstats /\ drift' = drift /\ now' = now
      /\ \E i \in TimedFlows : \E p \in Traffic[i] : Case(i, p)
  BY DEF codel_qdisc_enqueue
<1>4. PICK i \in TimedFlows : \E p \in Traffic[i] : Case(i, p)
  BY <1>3
<1>5. PICK p \in Traffic[i] : Case(i, p)
  BY <1>4
<1>. DEFINE skb == Skb(i, p)
<1>6. p.len \in Nat /\ skb \in Packet /\ skb.len = p.len
  <2>1. i \in Flows /\ p \in Kinds
    BY ChildAssumption
  <2>. QED
    BY <1>2, <2>1 DEF Kinds, Packet
<1>7. Conserves /\ out' # Oops
  BY <1>3, ChildAssumption DEF Conserves
<1>8. CASE sch.qlen < limit
  <2>1. /\ queue' = Append(queue, skb)
        /\ sch' = [qlen |-> sch.qlen + 1, backlog |-> sch.backlog + p.len]
        /\ parent' = ParentEnqueued(parent)
    BY <1>5, <1>8
  <2>. HIDE DEF skb
  <2>. DEFINE l == Append(queue, skb)
  <2>2. /\ l \in Seq(Packet) /\ Len(l) = Len(queue) + 1
        /\ Bytes(l) = Bytes(queue) + p.len
    BY <1>1, <1>6, BytesAppend
  <2>3. queue' = l
    BY <2>1
  <2>. HIDE DEF l
  <2>4. /\ IsParent(parent') /\ parent'.qlen = parent.qlen + 1 /\ parent'.active
        /\ parent'.twice <=> parent.twice
    BY <1>2, <2>1, ParentMoves
  <2>5. sch'.qlen = sch.qlen + 1 /\ sch'.backlog = sch.backlog + p.len
    BY <2>1
  <2>6. sch'.qlen = Len(queue') /\ sch'.backlog = Bytes(queue')
    BY <1>1, <2>2, <2>3, <2>5
  <2>7. parent'.qlen = sch'.qlen + cstats'.drop_count + drift'
    BY SMTT(30), <1>1, <1>2, <1>3, <2>4, <2>5
  <2>8. sch' \in Counters
    BY <1>2, <1>6, <2>1 DEF Counters
  <2>9. queue' \in Seq(Packet) /\ cstats' \in Stats /\ now' \in Int /\ drift' \in Int
    BY <1>2, <1>3, <2>2, <2>3
  <2>10. IInv'
    BY <2>4, <2>6, <2>7, <2>8, <2>9, ScStepDone
  <2>11. Finds
    BY <1>1, <1>7, <2>5, FindsNothing
  <2>. QED
    BY <1>7, <2>4, <2>10, <2>11 DEF TwiceStep
<1>9. CASE ~(sch.qlen < limit)
  <2>1. queue' = queue /\ sch' = sch /\ parent' = parent
    BY <1>5, <1>9
  <2>2. sch' \in Counters
    BY <1>2, <2>1
  <2>3. IInv'
    BY <1>1, <1>2, <1>3, <2>1, <2>2, ScStepDone
  <2>4. Finds
    BY <1>7, <2>1, FindsNothing
  <2>. QED
    BY <1>7, <2>1, <2>3, <2>4 DEF TwiceStep
<1>. QED
  BY <1>8, <1>9

\* The parent asks for a packet.
LEMMA ScDequeueStep ==
  ASSUME IInv, kind = "codel", kind' = kind, UNCHANGED fq_vars, ScDequeue
  PROVE  IInv' /\ Conserves /\ TwiceStep /\ Finds
<1>1. /\ queue \in Seq(Packet) /\ Len(queue) \in Nat /\ Bytes(queue) \in Nat
      /\ sch.qlen = Len(queue) /\ sch.backlog = Bytes(queue)
  BY ScFields
<1>2. /\ cstats \in Stats /\ cstats.drop_count \in Nat /\ sch \in Counters
      /\ now \in Int /\ drift \in Int /\ IsParent(parent) /\ parent.qlen \in Int
      /\ parent.qlen = sch.qlen + cstats.drop_count + drift
  BY ClassFields
<1>. DEFINE a == ScView
            v == codel_dequeue(ScView, cparams, now)
            p == IF v.sch.qlen # 0
                 THEN TreeDecrease(parent, v.stats.drop_count, v.sch.qlen)
                 ELSE parent
<1>3. /\ parent.active /\ queue' = v.queue /\ sch' = v.sch
      /\ cstats' = IF v.sch.qlen # 0 THEN [v.stats EXCEPT !.drop_count = 0] ELSE v.stats
      /\ out' = IF v.skb = NoSkb THEN NoSkb ELSE v.skb.flow
      /\ parent' = IF v.skb = NoSkb THEN [p EXCEPT !.active = FALSE]
                   ELSE ParentTook(p, v.sch.qlen)
      /\ drift' = drift /\ now' = now
  BY DEF ScDequeue
<1>4. /\ IsView(a) /\ a.queue = queue /\ a.sch = sch /\ a.stats = cstats
      /\ a.skb = NoSkb /\ ~a.drop
  BY <1>1, <1>2 DEF ScView, IsView
<1>5. Follows(a, v)
  BY <1>4, CodelDequeueKeeps
<1>. HIDE DEF a, v
<1>6. /\ v.queue \in Seq(Packet) /\ v.stats \in Stats /\ v.stats.drop_count \in Nat
      /\ v.sch \in Counters /\ v.sch.qlen \in Int /\ v.sch.backlog \in Int
      /\ v.skb \in Packet \cup {NoSkb}
  BY <1>5 DEF Follows, IsView, Counters, Stats
<1>7. Len(v.queue) \in Nat /\ Bytes(v.queue) \in Nat
  BY <1>6, BytesNat
<1>8. v.sch.qlen = Len(v.queue)
  <2>1. v.sch.qlen - Len(v.queue) = sch.qlen - Len(queue)
    BY <1>4, <1>5 DEF Follows, Conserved
  <2>. QED
    BY <1>1, <1>6, <1>7, <2>1
<1>9. v.sch.backlog = Bytes(v.queue)
  <2>1. v.sch.backlog - Bytes(v.queue) = sch.backlog - Bytes(queue)
    BY <1>4, <1>5 DEF Follows, Conserved
  <2>. QED
    BY <1>1, <1>6, <1>7, <2>1
<1>10. v.stats.drop_count + v.sch.qlen + InHand(v) = cstats.drop_count + sch.qlen
  BY <1>4, <1>5 DEF Follows, Conserved
<1>11. ASSUME v.skb = NoSkb
       PROVE  v.sch.qlen = 0 /\ sch.qlen = 0 /\ v.stats.drop_count = cstats.drop_count
  <2>1. v.queue = << >> /\ (v.sch = sch \/ v.sch.backlog > 0)
    BY <1>4, <1>5, <1>11 DEF Follows, DropAllowed
  <2>2. Len(v.queue) = 0 /\ Bytes(v.queue) = 0
    BY <2>1, BytesEmpty
  <2>3. v.sch.qlen = 0 /\ v.sch = sch
    BY <1>8, <1>9, <2>1, <2>2
  <2>4. InHand(v) = 0
    BY <1>11 DEF InHand
  <2>. QED
    BY <1>2, <1>6, <1>10, <2>3, <2>4
<1>12. Conserves /\ out' # Oops
  <2>1. v.skb # NoSkb => v.skb.flow \in Flows
    BY <1>6 DEF Packet
  <2>. QED
    BY <1>3, <1>11, <2>1, NoSkbAssumption, ChildAssumption DEF Conserves
<1>13. /\ IsParent(p) /\ p.active
       /\ p.twice <=> parent.twice
       /\ cstats' \in Stats /\ cstats'.drop_count \in Nat
       /\ p.qlen - cstats'.drop_count = parent.qlen - v.stats.drop_count
  <2>1. CASE v.sch.qlen # 0
    <3>1. p = TreeDecrease(parent, v.stats.drop_count, v.sch.qlen)
      BY <2>1
    <3>2. cstats' \in Stats /\ cstats'.drop_count = 0
      BY <1>3, <1>6, <2>1 DEF Stats
    <3>. HIDE DEF p
    <3>3. /\ IsParent(p) /\ p.qlen = parent.qlen - v.stats.drop_count
          /\ p.active <=> parent.active /\ (v.stats.drop_count = 0 \/ v.sch.qlen # 0)
          /\ p.twice <=> parent.twice \/ (v.stats.drop_count # 0 /\ v.sch.qlen = 0
                                           /\ ~parent.active)
      BY <1>2, <1>6, <3>1, TreeDecreaseClass
    <3>. QED
      BY <1>2, <1>3, <1>6, <2>1, <3>2, <3>3
  <2>2. CASE v.sch.qlen = 0
    <3>1. p = parent /\ cstats' = v.stats
      BY <1>3, <2>2
    <3>. QED
      BY <1>2, <1>3, <1>6, <3>1
  <2>. QED
    BY <2>1, <2>2
<1>. HIDE DEF p
<1>14. /\ IsParent(parent') /\ parent'.qlen = p.qlen - InHand(v)
       /\ v.sch.qlen > 0 => parent'.active
       /\ parent'.active => v.sch.qlen # 0
       /\ parent'.twice <=> parent.twice
  <2>1. CASE v.skb = NoSkb
    <3>1. parent' = [p EXCEPT !.active = FALSE]
      BY <1>3, <2>1
    <3>2. /\ IsParent(parent') /\ parent'.qlen = p.qlen
          /\ parent'.twice <=> p.twice
          /\ ~parent'.active
      BY <1>13, <3>1 DEF IsParent
    <3>3. p.qlen \in Int
      BY <1>13 DEF IsParent
    <3>. QED
      BY <1>11, <1>13, <2>1, <3>2, <3>3 DEF InHand
  <2>2. CASE v.skb # NoSkb
    <3>1. parent' = ParentTook(p, v.sch.qlen)
      BY <1>3, <2>2
    <3>2. /\ IsParent(parent') /\ parent'.qlen = p.qlen - 1
          /\ parent'.active <=> p.active /\ v.sch.qlen # 0
          /\ parent'.twice <=> p.twice \/ (v.sch.qlen = 0 /\ ~p.active)
      BY <1>13, <3>1, ParentMoves
    <3>. QED
      BY <1>13, <2>2, <3>2 DEF InHand
  <2>. QED
    BY <2>1, <2>2
<1>15. parent'.qlen = sch'.qlen + cstats'.drop_count + drift'
  <2>1. InHand(v) \in Int /\ p.qlen \in Int
    BY <1>13 DEF InHand, IsParent
  <2>2. sch'.qlen = v.sch.qlen /\ drift' = drift /\ sch.qlen \in Int
    BY <1>2, <1>3 DEF Counters
  <2>3. p.qlen - cstats'.drop_count
          = (sch.qlen + cstats.drop_count + drift) - v.stats.drop_count
    BY <1>2, <1>13
  <2>4. (cstats.drop_count + sch.qlen) - v.stats.drop_count = v.sch.qlen + InHand(v)
    <3>1. /\ cstats.drop_count \in Int /\ v.stats.drop_count \in Int
          /\ v.sch.qlen \in Int
      BY <1>2, <1>6
    <3>. QED
      BY ONLY <1>10, <2>1, <2>2, <3>1, SMTT(30)
  <2>5. p.qlen - cstats'.drop_count = (v.sch.qlen + InHand(v)) + drift
    BY SMTT(30), <1>2, <1>6, <2>2, <2>3, <2>4
  <2>6. p.qlen - InHand(v) = v.sch.qlen + cstats'.drop_count + drift
    <3>1. v.sch.qlen \in Int /\ drift \in Int /\ cstats'.drop_count \in Int
      BY <1>2, <1>6, <1>13
    <3>. QED
      BY <2>1, <2>5, <3>1
  <2>. QED
    BY <1>14, <2>2, <2>6
<1>16. IInv'
  <2>1. sch'.qlen = Len(queue') /\ sch'.backlog = Bytes(queue') /\ queue' \in Seq(Packet)
    BY <1>3, <1>6, <1>8, <1>9
  <2>2. sch' \in Counters
    BY <1>3, <1>6
  <2>3. sch'.qlen > 0 => parent'.active
    BY <1>3, <1>14
  <2>4. now' \in Int /\ drift' \in Int /\ cstats' \in Stats
    BY <1>2, <1>3, <1>13
  <2>. QED
    BY <1>14, <1>15, <2>1, <2>2, <2>3, <2>4, ScStepDone
<1>17. Finds
  BY <1>3, <1>12, <1>14, FindsNothing
<1>. QED
  BY <1>12, <1>14, <1>16, <1>17 DEF TwiceStep

\* The scheduler is reset, and its parent.
LEMMA ScResetStep ==
  ASSUME IInv, kind = "codel", kind' = kind, UNCHANGED fq_vars, ScReset
  PROVE  IInv' /\ Conserves /\ TwiceStep /\ Finds
<1>1. /\ cstats \in Stats /\ cstats.drop_count \in Nat /\ now \in Int /\ IsParent(parent)
  BY ClassFields
<1>2. /\ queue' = << >> /\ sch' = [qlen |-> 0, backlog |-> 0]
      /\ parent' = [parent EXCEPT !.qlen = 0, !.active = FALSE]
      /\ drift' = 0 - cstats.drop_count
      /\ out' = Quiet /\ cstats' = cstats /\ now' = now
  BY DEF ScReset
<1>3. /\ IsParent(parent') /\ parent'.qlen = 0 /\ ~parent'.active
      /\ parent'.twice <=> parent.twice
  BY <1>1, <1>2 DEF IsParent
<1>4. queue' \in Seq(Packet) /\ sch'.qlen = Len(queue') /\ sch'.backlog = Bytes(queue')
  BY <1>2, BytesEmpty
<1>5. sch' \in Counters
  BY <1>2 DEF Counters
<1>6. IInv'
  <2>1. parent'.qlen = sch'.qlen + cstats'.drop_count + drift'
    BY <1>1, <1>2, <1>3
  <2>2. now' \in Int /\ drift' \in Int /\ cstats' \in Stats
    BY <1>1, <1>2
  <2>3. sch'.qlen > 0 => parent'.active
    BY <1>2
  <2>. QED
    BY <1>3, <1>4, <1>5, <2>1, <2>2, <2>3, ScStepDone
<1>7. Conserves /\ out' # Oops
  BY <1>2, ChildAssumption DEF Conserves
<1>8. Finds
  BY <1>3, <1>7, FindsNothing
<1>. QED
  BY <1>3, <1>6, <1>7, <1>8 DEF TwiceStep

\* The parameters change.
LEMMA ScChangeStep ==
  ASSUME IInv, kind = "codel", kind' = kind, UNCHANGED fq_vars, ScChange
  PROVE  IInv' /\ Conserves /\ TwiceStep /\ Finds
<1>1. /\ queue \in Seq(Packet) /\ Len(queue) \in Nat /\ Bytes(queue) \in Nat
      /\ sch.qlen = Len(queue) /\ sch.backlog = Bytes(queue)
  BY ScFields
<1>2. /\ cstats \in Stats /\ cstats.drop_count \in Nat /\ sch \in Counters
      /\ now \in Int /\ drift \in Int /\ IsParent(parent) /\ parent.qlen \in Int
      /\ parent.qlen = sch.qlen + cstats.drop_count + drift
      /\ sch.qlen > 0 => parent.active
  BY ClassFields
<1>. DEFINE N(lim) == IF sch.qlen > lim THEN sch.qlen - lim ELSE 0
<1>3. PICK lim \in Limits :
        /\ queue' = SubSeq(queue, N(lim) + 1, Len(queue))
        /\ sch' = [qlen |-> sch.qlen - N(lim),
                   backlog |-> sch.backlog - Bytes(SubSeq(queue, 1, N(lim)))]
        /\ parent' = TreeDecrease(parent, N(lim), sch.qlen - N(lim))
  BY DEF ScChange
<1>. DEFINE n == N(lim)
            b == Bytes(SubSeq(queue, 1, n))
            rest == SubSeq(queue, n + 1, Len(queue))
<1>4. out' = Quiet /\ cstats' = cstats /\ drift' = drift /\ now' = now
  BY DEF ScChange
<1>5. n \in 0..Len(queue)
  <2>1. lim \in Nat
    BY ChildAssumption
  <2>2. sch.qlen \in Nat
    BY <1>1
  <2>3. n \in Nat /\ n <= sch.qlen
    BY <2>1, <2>2
  <2>. HIDE DEF n
  <2>. QED
    BY <1>1, <2>3
<1>6. /\ queue' = rest /\ sch' = [qlen |-> sch.qlen - n, backlog |-> sch.backlog - b]
      /\ parent' = TreeDecrease(parent, n, sch.qlen - n)
  BY <1>3
<1>. HIDE DEF n
<1>7. /\ rest \in Seq(Packet) /\ Len(rest) = Len(queue) - n
      /\ Bytes(queue) = b + Bytes(rest)
      /\ SubSeq(queue, 1, n) \in Seq(Packet)
  BY <1>1, <1>5, BytesSplit
<1>8. b \in Nat /\ Bytes(rest) \in Nat
  BY <1>7, BytesNat
<1>. HIDE DEF b, rest
<1>9. n \in Nat /\ n <= sch.qlen /\ sch.qlen \in Nat
  BY <1>1, <1>5
<1>10. sch'.qlen = sch.qlen - n /\ sch'.backlog = sch.backlog - b
  BY <1>6
<1>11. sch'.qlen = Len(queue')
  <2>1. Len(rest) = Len(queue) - n
    BY <1>7
  <2>. QED
    BY <1>1, <1>6, <1>10, <2>1
<1>12. sch'.backlog = Bytes(queue')
  <2>1. sch.backlog = b + Bytes(rest)
    BY <1>1, <1>7
  <2>. QED
    BY <1>6, <1>8, <1>10, <2>1
<1>13. /\ IsParent(parent') /\ parent'.qlen = parent.qlen - n
       /\ parent'.active <=> parent.active /\ (n = 0 \/ sch.qlen - n # 0)
       /\ parent'.twice <=> parent.twice \/ (n # 0 /\ sch.qlen - n = 0 /\ ~parent.active)
  <2>1. n \in Int
    BY <1>9
  <2>. DEFINE left_ == sch.qlen - n
  <2>2. parent' = TreeDecrease(parent, n, left_)
    BY <1>6
  <2>3. /\ IsParent(parent') /\ parent'.qlen = parent.qlen - n
        /\ parent'.active <=> parent.active /\ (n = 0 \/ left_ # 0)
        /\ parent'.twice <=> parent.twice \/ (n # 0 /\ left_ = 0 /\ ~parent.active)
    <3>. HIDE DEF left_
    <3>. QED
      BY <1>2, <2>1, <2>2, TreeDecreaseClass
  <2>. QED
    BY <2>3
<1>14. IInv'
  <2>1. parent'.qlen = sch'.qlen + cstats'.drop_count + drift'
    BY <1>2, <1>4, <1>9, <1>10, <1>13
  <2>2. now' \in Int /\ drift' \in Int /\ cstats' \in Stats
    BY <1>2, <1>4
  <2>3. sch'.qlen > 0 => parent'.active
    BY <1>2, <1>9, <1>10, <1>13
  <2>4. sch' \in Counters
    BY <1>1, <1>6, <1>8, <1>9 DEF Counters
  <2>5. queue' \in Seq(Packet)
    BY <1>6, <1>7
  <2>. QED
    BY <1>11, <1>12, <1>13, <2>1, <2>2, <2>3, <2>4, <2>5, ScStepDone
<1>15. TwiceStep
  <2>1. n # 0 => parent.active
    BY <1>2, <1>9
  <2>. QED
    BY <1>13, <2>1 DEF TwiceStep
<1>16. Conserves /\ out' # Oops
  BY <1>4, ChildAssumption DEF Conserves
<1>17. parent'.active /\ sch'.qlen = 0 => parent.active /\ sch.qlen = 0
  BY <1>9, <1>10, <1>13
<1>18. Finds
  BY <1>16, <1>17, FindsNothing
<1>. QED
  BY <1>14, <1>15, <1>16, <1>18

\* Time passes.
LEMMA ScTickStep ==
  ASSUME IInv, kind = "codel", kind' = kind, UNCHANGED fq_vars, ScTick
  PROVE  IInv' /\ Conserves /\ TwiceStep /\ Finds
<1>1. /\ queue \in Seq(Packet) /\ sch.qlen = Len(queue) /\ sch.backlog = Bytes(queue)
  BY ScFields
<1>2. /\ cstats \in Stats /\ sch \in Counters /\ now \in Int /\ drift \in Int
      /\ IsParent(parent)
      /\ parent.qlen = sch.qlen + cstats.drop_count + drift
      /\ sch.qlen > 0 => parent.active
  BY ClassFields
<1>3. /\ queue' = queue /\ cstats' = cstats /\ sch' = sch /\ parent' = parent
      /\ drift' = drift /\ out' = Quiet
  BY DEF ScTick, Tick
<1>4. now' \in Int
  <2>1. PICK d \in Ticks : now' = (now + d) % TimeMod
    BY DEF ScTick, Tick
  <2>2. d \in Int /\ TimeMod \in Nat \ {0}
    BY ChildAssumption
  <2>. QED
    BY <1>2, <2>1, <2>2
<1>5. sch' \in Counters
  BY <1>2, <1>3
<1>6. IInv'
  BY <1>1, <1>2, <1>3, <1>4, <1>5, ScStepDone
<1>7. Conserves /\ out' # Oops
  BY <1>3, ChildAssumption DEF Conserves
<1>8. Finds
  BY <1>3, <1>7, FindsNothing
<1>. QED
  BY <1>3, <1>6, <1>7, <1>8 DEF TwiceStep


-----------------------------------------------------------------------------
(***************************************************************************)
(* The theorems.                                                           *)
(***************************************************************************)
\* The schedulers start with nothing queued.
LEMMA InitIInv == Init => IInv
<1>1. SUFFICES ASSUME Init PROVE IInv
  OBVIOUS
<1>2. ChildInit
  BY <1>1 DEF Init, FqInit, ScInit
<1>3. /\ cstats = CodelStats0 /\ sch = [qlen |-> 0, backlog |-> 0]
      /\ parent = ParentIdle /\ drift = 0 /\ now = Start
  BY <1>2 DEF ChildInit
<1>4. cstats \in Stats /\ cstats.drop_count = 0
  BY <1>3, ChildAssumption DEF CodelStats0, Stats
<1>5. IsParent(parent) /\ parent.qlen = 0
  BY <1>3 DEF ParentIdle, IsParent
<1>6. ClassInv
  BY <1>3, <1>4, <1>5, ChildAssumption DEF ClassInv, Counters, ParentCounts, ClassActive
<1>7. flows = [i \in Flows |-> EmptyFlow] /\ new_flows = << >> /\ old_flows = << >>
  BY <1>1 DEF Init, FqInit
<1>8. CASE kind = "fq_codel"
  <2>1. quantum \in Nat \ {0}
    <3>1. quantum \in Quantums \/ quantum = MinQuantum
      BY <1>1, <1>8 DEF Init, FqInit
    <3>2. \A n \in Quanta : (IF n > MinQuantum THEN n ELSE MinQuantum) \in Nat \ {0}
      BY FqAssumption
    <3>. QED
      BY <3>1, <3>2, FqAssumption DEF Quantums
  <2>2. IsTable(flows)
    <3>1. IsFlow(EmptyFlow)
      BY BytesEmpty DEF EmptyFlow, IsFlow
    <3>. HIDE DEF IsFlow
    <3>. QED
      BY <1>7, <3>1 DEF IsTable
  <2>3. \A i \in Flows : flows[i].queue = << >>
    BY <1>7 DEF EmptyFlow
  <2>4. Total(Lengths(flows)) = 0 /\ Total(Backlogs(flows)) = 0
    BY <2>2, <2>3, TotalsZero
  <2>. DEFINE w == Q
  <2>5. /\ DOMAIN w = {"flows", "new", "old", "cparams", "quantum", "cstats", "sch",
                       "parent", "skb"}
        /\ w.flows = flows /\ w.new = new_flows /\ w.old = old_flows
        /\ w.quantum = quantum /\ w.cstats = cstats /\ w.sch = sch /\ w.skb = NoSkb
    BY DEF Q
  <2>. HIDE DEF w
  <2>6. Counted(w)
    BY <1>3, <1>4, <2>1, <2>2, <2>4, <2>5 DEF Counted, Counters
  <2>7. Lists(w.new, w.old)
    BY <1>7, <2>5 DEF Lists, Distinct, On
  <2>8. Linked(w)
    BY <2>3, <2>5, <2>7 DEF Linked
  <2>9. FqState
    BY <2>6, <2>8 DEF FqState, IsQ, w
  <2>. QED
    BY <1>6, <1>8, <2>9 DEF IInv
<1>9. CASE kind = "codel"
  <2>1. queue = << >>
    BY <1>1 DEF Init, ScInit
  <2>2. ScState
    BY <1>3, <1>7, <2>1, BytesEmpty DEF ScState
  <2>. QED
    BY <1>6, <1>9, <2>2 DEF IInv
<1>. QED
  BY <1>1, <1>8, <1>9 DEF Init

\* Every step keeps the invariant and does what the three properties say.
LEMMA NextSteps ==
  ASSUME IInv, Next
  PROVE  IInv' /\ Conserves /\ TwiceStep /\ Finds
<1>1. CASE FqStep
  <2>1. kind = "fq_codel" /\ kind' = kind /\ FqNext
    BY <1>1 DEF FqStep
  <2>2. CASE fq_codel_enqueue
    BY <2>1, <2>2, EnqueueStep
  <2>3. CASE Dequeue
    BY <2>1, <2>3, DequeueStep
  <2>4. CASE ParentDrop
    BY <2>1, <2>4, ParentDropStep
  <2>5. CASE Reset
    BY <2>1, <2>5, ResetStep
  <2>6. CASE Change
    BY <2>1, <2>6, ChangeStep
  <2>7. CASE FqTick
    BY <2>1, <2>7, FqTickStep
  <2>. QED
    BY <2>1, <2>2, <2>3, <2>4, <2>5, <2>6, <2>7 DEF FqNext
<1>2. CASE ScStep
  <2>1. kind = "codel" /\ kind' = kind /\ UNCHANGED fq_vars /\ ScNext
    BY <1>2 DEF ScStep
  <2>2. CASE codel_qdisc_enqueue
    BY <2>1, <2>2, ScEnqueueStep
  <2>3. CASE ScDequeue
    BY <2>1, <2>3, ScDequeueStep
  <2>4. CASE ScReset
    BY <2>1, <2>4, ScResetStep
  <2>5. CASE ScChange
    BY <2>1, <2>5, ScChangeStep
  <2>6. CASE ScTick
    BY <2>1, <2>6, ScTickStep
  <2>. QED
    BY <2>1, <2>2, <2>3, <2>4, <2>5, <2>6 DEF ScNext
<1>. QED
  BY <1>1, <1>2 DEF Next

\* A stuttering step keeps the invariant.
LEMMA StutterIInv ==
  ASSUME IInv, UNCHANGED vars
  PROVE  IInv'
<1>1. /\ kind' = kind /\ flows' = flows /\ new_flows' = new_flows
      /\ old_flows' = old_flows /\ quantum' = quantum /\ queue' = queue
      /\ cparams' = cparams /\ cstats' = cstats /\ sch' = sch /\ parent' = parent
      /\ drift' = drift /\ now' = now
  BY DEF vars, fq_vars, sc_vars
<1>2. Q' = Q
  BY <1>1 DEF Q
<1>3. FqState => FqState'
  BY <1>2 DEF FqState
<1>4. ScState => ScState'
  BY <1>1 DEF ScState
<1>5. ClassInv'
  BY <1>1 DEF IInv, ClassInv, ParentCounts, ClassActive
<1>. QED
  BY <1>1, <1>3, <1>4, <1>5 DEF IInv

\* The invariant holds in every state.
THEOREM AlwaysIInv == Spec => []IInv
<1>1. IInv /\ [Next]_vars => IInv'
  BY NextSteps, StutterIInv
<1>. QED
  BY InitIInv, <1>1, PTL DEF Spec

\* The counters of the invariant are those of QueuesCounted.
LEMMA CountedFromIInv == IInv => QueuesCounted
<1>1. SUFFICES ASSUME IInv PROVE QueuesCounted
  OBVIOUS
<1>2. sch \in Counters /\ kind \in {"fq_codel", "codel"}
  BY <1>1 DEF IInv, ClassInv
<1>3. CASE kind = "fq_codel"
  <2>1. /\ IsTable(flows) /\ sch.qlen = Total(Lengths(flows))
        /\ sch.backlog = Total(Backlogs(flows))
    BY <1>1, <1>3, QFields
  <2>2. \A i \in Flows : flows[i].backlog = Bytes(flows[i].queue)
    BY <2>1 DEF IsTable, IsFlow
  <2>. DEFINE shown == [i \in Flows |-> fq_codel_dump_class_stats(i)]
  <2>3. \A i \in Flows : /\ shown[i].qlen = Len(flows[i].queue)
                         /\ shown[i].backlog = Bytes(flows[i].queue)
    BY <2>2 DEF fq_codel_dump_class_stats
  <2>. HIDE DEF shown
  <2>4. /\ [i \in Flows |-> shown[i].qlen] = Lengths(flows)
        /\ [i \in Flows |-> shown[i].backlog] = Backlogs(flows)
    BY <2>3 DEF Lengths, Backlogs
  <2>5. sch = [qlen |-> Total([i \in Flows |-> shown[i].qlen]),
               backlog |-> Total([i \in Flows |-> shown[i].backlog])]
    BY <1>2, <2>1, <2>4 DEF Counters
  <2>. QED
    BY <1>3, <2>2, <2>5 DEF QueuesCounted, shown
<1>4. CASE kind = "codel"
  <2>1. ScState
    BY <1>1, <1>4 DEF IInv
  <2>2. sch = [qlen |-> Len(queue), backlog |-> Bytes(queue)]
    BY <2>1 DEF ScState
  <2>3. \A i \in Flows : flows[i].backlog = Bytes(flows[i].queue)
    BY <2>1, BytesEmpty DEF ScState, EmptyFlow
  <2>. QED
    BY <1>4, <2>2, <2>3 DEF QueuesCounted
<1>. QED
  BY <1>2, <1>3, <1>4

\* Two lists in order, one after the other, have no slot twice.
LEMMA BothDistinct ==
  ASSUME NEW a, NEW b, Lists(a, b)
  PROVE  \A j, k \in 1..Len(a \o b) : j # k => (a \o b)[j] # (a \o b)[k]
<1>1. /\ a \in Seq(Flows) /\ b \in Seq(Flows) /\ Len(a) \in Nat /\ Len(b) \in Nat
      /\ \A j, k \in 1..Len(a) : a[j] = a[k] => j = k
      /\ \A j, k \in 1..Len(b) : b[j] = b[k] => j = k
      /\ \A i \in Flows : ~(On(a, i) /\ On(b, i))
  BY DEF Lists, Distinct
<1>. DEFINE c == a \o b
<1>2. /\ Len(c) = Len(a) + Len(b)
      /\ \A k \in 1..Len(a) : c[k] = a[k]
      /\ \A k \in 1..Len(c) : k \notin 1..Len(a) =>
           k - Len(a) \in 1..Len(b) /\ c[k] = b[k - Len(a)]
  BY <1>1
<1>. HIDE DEF c
<1>3. ASSUME NEW j \in 1..Len(a), NEW k \in 1..Len(b) PROVE a[j] # b[k]
  <2>1. SUFFICES ASSUME a[j] = b[k] PROVE FALSE
    OBVIOUS
  <2>2. a[j] \in Flows /\ On(a, a[j])
    BY <1>1 DEF On
  <2>3. On(b, a[j])
    BY <2>1 DEF On
  <2>. QED
    BY <1>1, <2>2, <2>3
<1>4. ASSUME NEW j \in 1..Len(c), NEW k \in 1..Len(c), j # k PROVE c[j] # c[k]
  <2>1. CASE j \in 1..Len(a) /\ k \in 1..Len(a)
    BY <1>1, <1>2, <1>4, <2>1
  <2>2. CASE j \in 1..Len(a) /\ k \notin 1..Len(a)
    BY <1>2, <1>3, <2>2
  <2>3. CASE j \notin 1..Len(a) /\ k \in 1..Len(a)
    BY <1>2, <1>3, <2>3
  <2>4. CASE j \notin 1..Len(a) /\ k \notin 1..Len(a)
    <3>1. /\ j - Len(a) \in 1..Len(b) /\ c[j] = b[j - Len(a)]
          /\ k - Len(a) \in 1..Len(b) /\ c[k] = b[k - Len(a)]
      BY <1>2, <2>4
    <3>2. j - Len(a) # k - Len(a)
      BY <1>1, <1>4
    <3>. QED
      BY <1>1, <3>1, <3>2
  <2>. QED
    BY <2>1, <2>2, <2>3, <2>4
<1>. QED
  BY <1>4 DEF c

\* The lists of the invariant are those of FlowsLinkedOnce.
LEMMA LinkedFromIInv == IInv => FlowsLinkedOnce
<1>1. SUFFICES ASSUME IInv PROVE FlowsLinkedOnce
  OBVIOUS
<1>2. kind \in {"fq_codel", "codel"}
  BY <1>1 DEF IInv
<1>3. /\ Lists(new_flows, old_flows)
      /\ \A i \in Flows : flows[i].queue # << >> => On(new_flows, i) \/ On(old_flows, i)
  <2>1. CASE kind = "fq_codel"
    BY <1>1, <2>1, QFields
  <2>2. CASE kind = "codel"
    <3>1. /\ flows = [i \in Flows |-> EmptyFlow] /\ new_flows = << >>
          /\ old_flows = << >>
      BY <1>1, <2>2, ScFields
    <3>2. Lists(<< >>, << >>)
      BY DEF Lists, Distinct, On
    <3>3. \A i \in Flows : flows[i].queue = << >>
      BY <3>1 DEF EmptyFlow
    <3>. QED
      BY <3>1, <3>2, <3>3
  <2>. QED
    BY <1>2, <2>1, <2>2
<1>4. \A j, k \in 1..Len(new_flows \o old_flows) :
        j # k => (new_flows \o old_flows)[j] # (new_flows \o old_flows)[k]
  BY <1>3, BothDistinct
<1>5. ASSUME NEW i \in Flows, flows[i].queue # << >> PROVE i \in fq_codel_walk(0)
  <2>1. ~Idle(i)
    BY <1>3, <1>5 DEF Idle, On
  <2>2. i > 0
    BY ChildAssumption DEF Flows
  <2>. QED
    BY <2>1, <2>2 DEF fq_codel_walk
<1>. QED
  BY <1>4, <1>5 DEF FlowsLinkedOnce

\* The counters kept by hand agree with the queues.
THEOREM Counts == Spec => []QueuesCounted
BY AlwaysIInv, CountedFromIInv, PTL

\* No flow is on the lists twice, and none with packets is on neither.
THEOREM LinkedOnce == Spec => []FlowsLinkedOnce
BY AlwaysIInv, LinkedFromIInv, PTL

\* The parent counts the packets of its child and the drops to be reported.
THEOREM ParentIsTold == Spec => []ParentCounts
<1>1. IInv => ParentCounts
  BY DEF IInv, ClassInv
<1>. QED
  BY <1>1, AlwaysIInv, PTL

\* A scheduler with packets hands one out.
THEOREM ConservesWork == Spec => WorkConserving
<1>1. IInv /\ [Next]_vars => [out' = NoSkb => sch.qlen = 0]_vars
  BY NextSteps DEF Conserves
<1>. QED
  BY <1>1, AlwaysIInv, PTL DEF Spec, WorkConserving

\* A class is deactivated twice by one call only.
THEOREM OnceDeactivated == Spec => TwiceOnlyByChange
<1>1. IInv /\ [Next]_vars =>
        [parent'.twice => \/ parent.twice
                          \/ /\ kind = "fq_codel" /\ sch.qlen = 0 /\ out' = Quiet
                             /\ cstats.drop_count > 0 /\ cstats'.drop_count = 0]_vars
  BY NextSteps DEF TwiceStep
<1>. QED
  BY <1>1, AlwaysIInv, PTL DEF Spec, TwiceOnlyByChange

\* A drop meets no packet only in an empty scheduler, whose class was left
\* active by a drop that was answered 0.
THEOREM DropsFind == Spec => DropsFindPackets
<1>1. IInv /\ [Next]_vars =>
        [/\ out' = Oops => parent.active /\ sch.qlen = 0
         /\ parent'.active /\ sch'.qlen = 0 =>
              \/ parent.active /\ sch.qlen = 0
              \/ /\ flows[1].queue # << >> /\ flows'[1].queue = << >>
                 /\ drift' = drift + 1]_vars
  BY NextSteps DEF Finds
<1>. QED
  BY <1>1, AlwaysIInv, PTL DEF Spec, DropsFindPackets

\* The loops of fq_codel that the model bounds come to their end within the
\* bound: a round is left neither in fq_codel_dequeue, with a packet in hand or
\* no flow on a list, nor in the loop of fq_codel_reset, which leaves no flow,
\* nor in that of fq_codel_change, which leaves no more packets than the limit.
LoopsOver ==
  kind = "fq_codel" =>
    /\ Over(Rounds(Q, RoundsLeft(Q))[RoundsLeft(Q)])
    /\ NoneListed(Drained(Q)) /\ Drained(Q).sch.qlen = 0
    /\ \A lim \in Nat : Trimmed(Q, lim).sch.qlen <= lim

\* The bounds of the loops are no bounds: they hold in every state.
THEOREM LoopsEnd == Spec => []LoopsOver
<1>1. IInv => LoopsOver
  <2>1. SUFFICES ASSUME IInv, kind = "fq_codel"
                 PROVE  /\ Over(Rounds(Q, RoundsLeft(Q))[RoundsLeft(Q)])
                        /\ NoneListed(Drained(Q)) /\ Drained(Q).sch.qlen = 0
                        /\ \A lim \in Nat : Trimmed(Q, lim).sch.qlen <= lim
    BY DEF LoopsOver
  <2>2. IsQ(Q) /\ Q.skb = NoSkb /\ IsParent(Q.parent)
    BY <2>1, QFields, ClassFields
  <2>3. Q.cstats.drop_count \in Nat /\ Q.sch.qlen \in Nat
    BY <2>2, PacketsAreListed DEF IsQ, Counted, Stats
  <2>4. Kept(Q, Q)
    BY <2>2, <2>3 DEF Kept, InHand
  <2>5. Over(Rounds(Q, RoundsLeft(Q))[RoundsLeft(Q)])
    BY <2>4, RoundsEnd
  <2>6. NoneListed(Drained(Q)) /\ Drained(Q).sch.qlen = 0
    BY <2>2, DrainedEmpty
  <2>7. \A lim \in Nat : Trimmed(Q, lim).sch.qlen <= lim
    BY <2>2, TrimmedKeeps
  <2>. QED
    BY <2>5, <2>6, <2>7
<1>. QED
  BY <1>1, AlwaysIInv, PTL

=============================================================================
