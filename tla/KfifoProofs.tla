---------------------------- MODULE KfifoProofs -----------------------------
(***************************************************************************)
(* For a fifo of any size, over indices of any width, with records or      *)
(* without: the writer and the reader, which share no lock, never touch    *)
(* the same cell; what is queued is whole records; and it is a fifo.       *)
(***************************************************************************)
EXTENDS Kfifo, SequenceTheorems, WellFoundedInduction, TLAPS

Index == 0..(IndexRange - 1)

\* A fifo has at least two cells, and the indices wrap after a whole number
\* of rounds, two at least.
Shape ==
  /\ recsize \in RecSizes
  /\ mask \in Nat \ {0}
  /\ 2 * Size <= IndexRange
  /\ \E rounds \in Nat : IndexRange = Size * rounds

-----------------------------------------------------------------------------
(***************************************************************************)
(* Indices and the cells they stand for.                                   *)
(***************************************************************************)

\* Numbers that differ by a multiple of s leave the same remainder, and no
\* others do.
LEMMA Remainder ==
  ASSUME NEW s \in Nat \ {0}, NEW a \in Nat
  PROVE  /\ a % s \in 0..(s - 1)
         /\ \A q \in Int, r \in 0..(s - 1) : a = s * q + r => a % s = r
<1>1. a = s * (a \div s) + (a % s) /\ a % s \in 0..(s - 1) /\ (a \div s) \in Int
  OBVIOUS
<1>2. ASSUME NEW q \in Int, NEW r \in 0..(s - 1), NEW p \in Int, NEW t \in 0..(s - 1),
             s * q + r = s * p + t
      PROVE  r = t
  <2>1. s * (q - p) = t - r
    BY <1>2
  <2>2. q - p >= 1 => s * (q - p) >= s
    OBVIOUS
  <2>3. q - p <= -1 => s * (q - p) <= -s
    OBVIOUS
  <2>. QED
    BY <2>1, <2>2, <2>3
<1>. QED
  BY <1>1, <1>2

LEMMA SameRemainder ==
  ASSUME NEW s \in Nat \ {0}, NEW a \in Nat, NEW b \in Nat, a % s = b % s, a < b
  PROVE  s <= b - a
<1>1. /\ a = s * (a \div s) + (a % s) /\ (a \div s) \in Int
      /\ b = s * (b \div s) + (b % s) /\ (b \div s) \in Int
      /\ a % s \in Int
  OBVIOUS
<1>. DEFINE q == (b \div s) - (a \div s)
<1>2. b - a = s * q /\ q \in Int
  BY <1>1
<1>. HIDE DEF q
<1>3. q >= 1 => s * q >= s
  BY <1>2
<1>4. q <= 0 => s * q <= 0
  BY <1>2
<1>. QED
  BY <1>2, <1>3, <1>4

\* The cell n places after index i.
LEMMA OffPlus ==
  ASSUME Shape, NEW i \in Index, NEW n \in Index
  PROVE  /\ Plus(i, n) \in Index
         /\ Off(Plus(i, n)) = (i + n) % Size
         /\ Off(Plus(i, n)) \in 0..mask
<1>1. Size \in Nat \ {0} /\ Size = mask + 1 /\ IndexRange \in Nat
  BY KfifoAssumption DEF Shape, Size
<1>2. Plus(i, n) \in Index
  BY <1>1 DEF Plus, Index
<1>3. Off(Plus(i, n)) = (i + n) % Size
  <2>1. CASE i + n < IndexRange
    BY <2>1 DEF Plus, Off
  <2>2. CASE ~(i + n < IndexRange)
    <3>1. PICK rounds \in Nat : IndexRange = Size * rounds
      BY DEF Shape
    <3>2. Plus(i, n) = i + n - IndexRange
      BY <2>2 DEF Plus
    <3>. DEFINE x == i + n - IndexRange
    <3>3. x \in Nat /\ i + n \in Nat
      BY <1>2, <3>2 DEF Index
    <3>4. x = Size * (x \div Size) + (x % Size) /\ (x \div Size) \in Int /\ x % Size \in 0..(Size - 1)
      BY <1>1, <3>3
    <3>5. i + n = Size * ((x \div Size) + rounds) + (x % Size)
      <4>1. i + n = x + IndexRange
        BY <1>1 DEF Index
      <4>. HIDE DEF x
      <4>. QED
        BY <4>1, <3>1, <3>3, <3>4, <1>1
    <3>6. (i + n) % Size = x % Size
      <4>. HIDE DEF x
      <4>1. PICK q \in Int : q = (x \div Size) + rounds
        BY <3>4
      <4>2. PICK r \in 0..(Size - 1) : r = x % Size
        BY <3>4
      <4>3. PICK a \in Nat : a = i + n
        BY <3>3
      <4>4. a = Size * q + r
        BY <3>5, <4>1, <4>2, <4>3
      <4>5. a % Size = r
        BY <1>1, <4>4, Remainder
      <4>. QED
        BY <4>2, <4>3, <4>5
    <3>. QED
      BY <3>2, <3>6 DEF Off
  <2>. QED
    BY <2>1, <2>2
<1>4. (i + n) % Size \in 0..mask
  <2>1. i + n \in Nat /\ Size - 1 = mask
    BY <1>1 DEF Index, Shape
  <2>. QED
    BY <1>1, <2>1, Remainder
<1>. QED
  BY <1>2, <1>3, <1>4

\* Cells fewer places apart than the buffer is long are different.
LEMMA CellsApart ==
  ASSUME Shape, NEW i \in Index, NEW m \in Index, NEW n \in Index,
         m < n, n < m + Size
  PROVE  Off(Plus(i, m)) # Off(Plus(i, n))
<1>1. Size \in Nat \ {0} /\ IndexRange \in Nat
  BY KfifoAssumption DEF Shape, Size
<1>2. Off(Plus(i, m)) = (i + m) % Size /\ Off(Plus(i, n)) = (i + n) % Size
  BY OffPlus
<1>3. i + m \in Nat /\ i + n \in Nat /\ i + m < i + n /\ ~(Size <= (i + n) - (i + m))
  BY <1>1 DEF Index
<1>. QED
  BY <1>1, <1>2, <1>3, SameRemainder

\* Unsigned arithmetic, as long as the true result is an index.
LEMMA PlusPlus ==
  ASSUME NEW i \in Index, NEW m \in Nat, NEW n \in Nat, m + n < IndexRange
  PROVE  Plus(Plus(i, m), n) = Plus(i, m + n) /\ Plus(i, m) \in Index /\ Plus(i, 0) = i
BY KfifoAssumption DEF Plus, Index

LEMMA MinusPlus ==
  ASSUME NEW i \in Index, NEW j \in Index, NEW n \in Nat
  PROVE  /\ Minus(i, j) \in Index
         /\ Plus(j, Minus(i, j)) = i
         /\ i # j => Minus(i, j) > 0
         /\ i = j => Minus(i, j) = 0
         /\ Minus(i, j) + n < IndexRange => Minus(Plus(i, n), j) = Minus(i, j) + n
         /\ n <= Minus(i, j) => Minus(i, Plus(j, n)) = Minus(i, j) - n
BY KfifoAssumption DEF Plus, Minus, Index
-----------------------------------------------------------------------------
(***************************************************************************)
(* What is read from a buffer d, and what the two ways to write change.    *)
(***************************************************************************)
Cells(d) == /\ 0..mask \subseteq DOMAIN d
            /\ \A c \in DOMAIN d : d[c] \in Byte

\* The length of the record at an index, as d has it, and the longest length.
LengthAt(d, at) == d[Off(at)] + IF recsize = 2 THEN Base * d[Off(Plus(at, 1))] ELSE 0
Longest == (IF recsize = 2 THEN Base * Base ELSE Base) - 1

LEMMA BaseIsNat == Base \in Nat \ {0, 1} /\ Byte \subseteq Nat /\ 0 \in Byte
BY KfifoAssumption DEF Byte

LEMMA LengthIsNat ==
  ASSUME Shape, NEW d, Cells(d), NEW at \in Index
  PROVE  LengthAt(d, at) \in Nat
<1>1. at % Size \in 0..mask
  <2>1. at \in Nat /\ Size \in Nat \ {0} /\ Size - 1 = mask
    BY DEF Index, Shape, Size
  <2>. QED
    BY <2>1, Remainder
<1>2. 1 \in Index
  BY KfifoAssumption DEF Shape, Size, Index
<1>3. Off(at) \in 0..mask /\ Off(Plus(at, 1)) \in 0..mask
  BY <1>1, <1>2, OffPlus DEF Off
<1>4. d[Off(at)] \in Nat /\ d[Off(Plus(at, 1))] \in Nat
  BY <1>3, BaseIsNat DEF Cells
<1>. QED
  BY <1>4, BaseIsNat DEF LengthAt

LEMMA LongestIsNat == Longest \in Nat
BY BaseIsNat DEF Longest

\* A length that the field can hold is split into bytes and put together.
LEMMA LengthInBytes ==
  ASSUME NEW n \in Nat
  PROVE  /\ n % Base \in Byte /\ (n \div Base) % Base \in Byte
         /\ n < Base => n % Base = n
         /\ n < Base * Base => (n % Base) + Base * ((n \div Base) % Base) = n
<1>. PICK b \in Nat \ {0, 1} : b = Base
  BY BaseIsNat
<1>1. n = b * (n \div b) + (n % b) /\ n % b \in 0..(b - 1) /\ (n \div b) \in Nat
  OBVIOUS
<1>2. (n \div b) % b \in 0..(b - 1)
  BY <1>1, Remainder
<1>3. ASSUME n < b * b PROVE (n % b) + b * ((n \div b) % b) = n
  <2>1. n \div b < b
    BY <1>3
  <2>2. (n \div b) % b = n \div b
    BY <1>1, <2>1
  <2>. QED
    BY <1>1, <2>2
<1>4. n < b => n % b = n
  OBVIOUS
<1>. QED
  BY <1>1, <1>2, <1>3, <1>4 DEF Byte

\* Copying some bytes of s: they are where they belong, and every other
\* cell is as it was.
LEMMA CopyInCells ==
  ASSUME Shape, NEW d, Cells(d), NEW at \in Index, NEW s \in Seq(Byte),
         NEW which \in SUBSET (1..Len(s)), Len(s) <= Size
  PROVE  /\ Cells(CopyIn(d, at, s, which))
         /\ \A j \in which : CopyIn(d, at, s, which)[Off(Plus(at, j - 1))] = s[j]
         /\ \A c \in 0..mask :
              (\A j \in which : c # Off(Plus(at, j - 1))) => CopyIn(d, at, s, which)[c] = d[c]
<1>. DEFINE cell(j) == Off(Plus(at, j - 1))
            new == CopyIn(d, at, s, which)
<1>1. Size \in Nat /\ IndexRange \in Nat /\ Size < IndexRange
  BY KfifoAssumption DEF Shape, Size
<1>2. ASSUME NEW j \in which
      PROVE  /\ cell(j) \in 0..mask /\ s[j] \in Byte
             /\ \A k \in which : cell(k) = cell(j) => k = j
  <2>1. j \in 1..Len(s) /\ j - 1 \in Index
    BY <1>1 DEF Index
  <2>2. ASSUME NEW k \in which, k # j PROVE cell(k) # cell(j)
    <3>1. k - 1 \in Index /\ (k - 1 < j - 1 \/ j - 1 < k - 1)
          /\ k - 1 < (j - 1) + Size /\ j - 1 < (k - 1) + Size
      BY <1>1, <2>2 DEF Index
    <3>. QED
      BY <2>1, <3>1, CellsApart
  <2>3. s[j] \in Byte
    BY <2>1
  <2>. QED
    BY <2>1, <2>2, <2>3, OffPlus
<1>3. /\ DOMAIN new = DOMAIN d
      /\ \A c \in DOMAIN d :
           new[c] = IF \E j \in which : c = cell(j)
                      THEN s[CHOOSE j \in which : c = cell(j)] ELSE d[c]
  BY DEF CopyIn
<1>. HIDE DEF cell, new
<1>4. ASSUME NEW c \in DOMAIN d, NEW k \in which, c = cell(k) PROVE new[c] = s[k]
  <2>1. (CHOOSE j \in which : c = cell(j)) \in which
        /\ c = cell(CHOOSE j \in which : c = cell(j))
    BY SMTT(30), <1>4
  <2>2. (CHOOSE j \in which : c = cell(j)) = k
    BY <1>2, <1>4, <2>1
  <2>. QED
    BY <1>3, <1>4, <2>2
<1>5. \A c \in DOMAIN d : (\A j \in which : c # cell(j)) => new[c] = d[c]
  BY <1>3
<1>6. Cells(new)
  BY <1>2, <1>3, <1>4, <1>5 DEF Cells
<1>7. \A j \in which : cell(j) \in DOMAIN d
  BY <1>2 DEF Cells
<1>. QED
  BY <1>4, <1>5, <1>6, <1>7 DEF Cells, cell, new

\* Writing a length at `in': it can be read there, and every other cell is as
\* it was.
LEMMA PokeNCells ==
  ASSUME Shape, NEW d, Cells(d), in \in Index, NEW n \in Nat
  PROVE  /\ Cells(PokeN(d, n))
         /\ recsize # 0 /\ n <= Longest => LengthAt(PokeN(d, n), in) = n
         /\ \A c \in 0..mask :
              (\A m \in 0..(recsize - 1) : c # Off(Plus(in, m))) => PokeN(d, n)[c] = d[c]
<1>. DEFINE new == PokeN(d, n)
<1>1. recsize \in 0..2
  BY KfifoAssumption DEF Shape
<1>2. 0 \in Index /\ 1 \in Index /\ Plus(in, 0) = in /\ 0 < 1 /\ 1 < 0 + Size
  BY KfifoAssumption DEF Shape, Size, Index, Plus
<1>3. Off(in) \in 0..mask /\ Off(Plus(in, 1)) \in 0..mask /\ Off(in) # Off(Plus(in, 1))
  <2>1. Off(Plus(in, 0)) # Off(Plus(in, 1))
    BY <1>2, CellsApart
  <2>2. Off(Plus(in, 0)) \in 0..mask /\ Off(Plus(in, 1)) \in 0..mask
    BY <1>2, OffPlus
  <2>. QED
    BY <1>2, <2>1, <2>2
<1>4. Off(in) \in DOMAIN d /\ Off(Plus(in, 1)) \in DOMAIN d
  BY <1>3 DEF Cells
<1>5. CASE recsize = 0
  BY <1>5 DEF PokeN
<1>6. CASE recsize # 0
  <2>1. /\ DOMAIN new = DOMAIN d
        /\ new[Off(in)] = n % Base
        /\ recsize = 2 => new[Off(Plus(in, 1))] = (n \div Base) % Base
        /\ \A c \in DOMAIN d :
             c # Off(in) /\ (recsize = 2 => c # Off(Plus(in, 1))) => new[c] = d[c]
    BY <1>3, <1>4, <1>6 DEF PokeN
  <2>. HIDE DEF new
  <2>2. Cells(new)
    <3>1. \A c \in DOMAIN d : new[c] \in Byte
      BY <2>1, LengthInBytes DEF Cells
    <3>. QED
      BY <2>1, <3>1 DEF Cells
  <2>3. ASSUME n <= Longest PROVE LengthAt(new, in) = n
    <3>1. CASE recsize = 2
      <4>1. Base * Base \in Nat
        BY BaseIsNat
      <4>2. n < Base * Base
        BY <2>3, <3>1, <4>1 DEF Longest
      <4>. QED
        BY <2>1, <3>1, <4>2, LengthInBytes DEF LengthAt
    <3>2. CASE recsize = 1
      <4>1. n < Base
        BY <2>3, <3>2, BaseIsNat DEF Longest
      <4>. QED
        BY <2>1, <3>2, <4>1, LengthInBytes DEF LengthAt
    <3>. QED
      BY <1>1, <1>6, <3>1, <3>2
  <2>4. ASSUME NEW c \in 0..mask, \A m \in 0..(recsize - 1) : c # Off(Plus(in, m))
        PROVE  new[c] = d[c]
    <3>1. c \in DOMAIN d
      BY DEF Cells
    <3>2. 0 \in 0..(recsize - 1) /\ (recsize = 2 => 1 \in 0..(recsize - 1))
      BY <1>1, <1>6
    <3>3. c # Off(in) /\ (recsize = 2 => c # Off(Plus(in, 1)))
      BY <1>2, <2>4, <3>2
    <3>. QED
      BY <2>1, <3>1, <3>3
  <2>. QED
    BY <2>2, <2>3, <2>4 DEF new
<1>. QED
  BY <1>5, <1>6
-----------------------------------------------------------------------------
(***************************************************************************)
(* The inductive invariant.  That the regions are disjoint rests, for a    *)
(* fifo of records, on out being at the start of a record and in at the    *)
(* end of one: otherwise the length found at out means nothing, and out    *)
(* may run past in.                                                        *)
(***************************************************************************)
Typed ==
  /\ Shape
  /\ in \in Index /\ out \in Index
  /\ Cells(data)
  /\ writer \in [pc : {"idle", "head", "tail", "publish"}, kind : {"in", "user", "dma"},
                 src : Seq(Byte)]
  /\ reader \in [pc : {"idle", "head", "tail", "done"},
                 kind : {"out", "peek", "user", "dma"}, len : Nat, buf : Seq(Byte)]
  /\ got \in Seq(Byte)

\* B holds the distances from out to the ends of the records of a queue of n
\* cells: the length found at each of them leads to the next.
Chain(d, n, B) ==
  /\ B \subseteq 0..n /\ 0 \in B /\ n \in B
  /\ \A b \in B : b < n => b + recsize + LengthAt(d, Plus(out, b)) \in B

Chained == recsize # 0 => \E B : Chain(data, Used, B)

\* The writer: its record has a length that can be told, its head is there
\* before it is published, and so are the bytes copied so far.
Fits == recsize # 0 => Len(writer.src) <= Longest

HeadWritten ==
  recsize # 0 /\ writer.pc \in {"tail", "publish"} /\ writer.kind # "dma"
    => LengthAt(data, in) = Len(writer.src)

Written(d, n) == \A j \in 1..n : d[Off(Plus(Target, j - 1))] = writer.src[j]

Copied ==
  /\ writer.pc = "idle" => writer.src = <<>>
  /\ writer.pc = "tail" => Written(data, BeforeEnd(Target, Len(writer.src)))
  /\ writer.pc = "publish" => Written(data, Len(writer.src))

\* The reader has what it was to take from its end of the queue.
Taken ==
  /\ reader.pc = "tail" => reader.buf = CopyOut(Source, 1, BeforeEnd(Source, reader.len))
  /\ reader.pc = "done" => reader.buf = CopyOut(Source, 1, reader.len)

IInv ==
  /\ Typed /\ RegionsDisjoint /\ Chained
  /\ Fits /\ HeadWritten /\ Copied
  /\ Taken

\* The ranges of the sizes.
LEMMA Ranges ==
  ASSUME Shape
  PROVE  /\ Size \in Nat /\ Size = mask + 1 /\ Size >= 2
         /\ IndexRange \in Nat /\ 2 * Size <= IndexRange
         /\ recsize \in 0..2 /\ recsize \in RecSizes
BY KfifoAssumption DEF Shape, Size

LEMMA UsedRange ==
  ASSUME in \in Index, out \in Index
  PROVE  Used \in Nat /\ Used < IndexRange /\ in = Plus(out, Used)
BY KfifoAssumption DEF Used, Minus, Plus, Index

\* The cells past in, as many as are free, are none of the queue's.
LEMMA FreeCells ==
  ASSUME Shape, in \in Index, out \in Index, NEW k \in Nat, k < Used,
         NEW m \in Nat, Used + m < Size
  PROVE  /\ Off(Plus(out, k)) \in 0..mask /\ Off(Plus(in, m)) \in 0..mask
         /\ Off(Plus(out, k)) # Off(Plus(in, m))
<1>1. Used \in Nat /\ Used < IndexRange /\ in = Plus(out, Used)
  BY UsedRange
<1>2. Used + m < IndexRange
  BY <1>1, Ranges
<1>3. Plus(in, m) = Plus(out, Used + m)
  BY <1>1, <1>2, PlusPlus
<1>4. k \in Index /\ Used + m \in Index /\ k < Used + m /\ Used + m < k + Size
  BY <1>1, <1>2, Ranges DEF Index
<1>5. /\ Off(Plus(out, k)) \in 0..mask /\ Off(Plus(out, Used + m)) \in 0..mask
      /\ Off(Plus(out, k)) # Off(Plus(out, Used + m))
  BY <1>4, CellsApart, OffPlus
<1>. QED
  BY <1>3, <1>5

\* A length in the queue is read the same from two buffers that agree on the
\* queue.
LEMMA SameLength ==
  ASSUME Shape, out \in Index, NEW n \in Nat, n < IndexRange, NEW d, NEW e,
         \A k \in Nat : k < n => d[Off(Plus(out, k))] = e[Off(Plus(out, k))],
         NEW b \in Nat, b + recsize <= n, recsize # 0
  PROVE  LengthAt(d, Plus(out, b)) = LengthAt(e, Plus(out, b))
<1>1. recsize \in {1, 2} /\ IndexRange \in Nat
  BY Ranges
<1>2. b < n /\ d[Off(Plus(out, b))] = e[Off(Plus(out, b))]
  BY <1>1
<1>3. CASE recsize = 2
  <2>1. b + 1 < n /\ b + 1 < IndexRange
    BY <1>1, <1>3
  <2>2. Plus(Plus(out, b), 1) = Plus(out, b + 1)
    BY <2>1, PlusPlus
  <2>3. d[Off(Plus(out, b + 1))] = e[Off(Plus(out, b + 1))]
    BY <2>1
  <2>. QED
    BY <1>2, <1>3, <2>2, <2>3 DEF LengthAt
<1>4. CASE recsize # 2
  BY <1>2, <1>4 DEF LengthAt
<1>. QED
  BY <1>3, <1>4

\* A record put at the end of the queue continues the chain.
LEMMA ChainGrows ==
  ASSUME Typed, NEW B, Chain(data, Used, B), recsize # 0,
         NEW d, Cells(d), NEW n \in Nat, Used + n <= Size,
         \A k \in Nat : k < Used => d[Off(Plus(out, k))] = data[Off(Plus(out, k))],
         n # 0 => n = recsize + LengthAt(d, in)
  PROVE  Chain(d, Used + n, B \cup {Used + n})
<1>1. Size \in Nat /\ IndexRange \in Nat /\ Size < IndexRange /\ recsize \in {1, 2}
  BY Ranges DEF Typed
<1>2. Used \in Nat /\ Used < IndexRange /\ in = Plus(out, Used)
  BY UsedRange DEF Typed
<1>3. ASSUME NEW b \in B, b < Used
      PROVE  b + recsize + LengthAt(d, Plus(out, b)) \in B
  <2>1. b \in Nat /\ b + recsize + LengthAt(data, Plus(out, b)) \in B
    BY <1>3 DEF Chain
  <2>2. Plus(out, b) \in Index
    <3>1. b + 0 < IndexRange
      BY <1>1, <1>2, <1>3, <2>1
    <3>. QED
      BY <2>1, <3>1, PlusPlus DEF Typed
  <2>3. LengthAt(data, Plus(out, b)) \in Nat
    BY <2>2, LengthIsNat DEF Typed
  <2>4. b + recsize + LengthAt(data, Plus(out, b)) \in 0..Used
    BY <2>1 DEF Chain
  <2>5. b + recsize <= Used
    BY <1>1, <1>2, <2>1, <2>3, <2>4
  <2>6. LengthAt(d, Plus(out, b)) = LengthAt(data, Plus(out, b))
    <3>1. Shape /\ out \in Index
      BY DEF Typed
    <3>2. PICK n1 \in Nat : n1 = Used
      BY <1>2
    <3>3. \A k \in Nat : k < n1 => d[Off(Plus(out, k))] = data[Off(Plus(out, k))]
      BY <3>2
    <3>4. n1 < IndexRange /\ b \in Nat /\ b + recsize <= n1 /\ recsize # 0
      BY <1>2, <2>1, <2>5, <3>2
    <3>. QED
      BY ONLY <3>1, <3>2, <3>3, <3>4, SameLength
  <2>. QED
    BY <2>1, <2>6
<1>4. ASSUME n # 0 PROVE Used + recsize + LengthAt(d, Plus(out, Used)) = Used + n
  <2>1. LengthAt(d, in) \in Nat
    BY LengthIsNat DEF Typed
  <2>. QED
    BY <1>1, <1>2, <1>4, <2>1
<1>5. \A b \in B : b \in 0..Used
  BY DEF Chain
<1>6. ASSUME NEW b \in B \cup {Used + n}, b < Used + n
      PROVE  b + recsize + LengthAt(d, Plus(out, b)) \in B \cup {Used + n}
  <2>1. b \in B
    BY <1>6, <1>2
  <2>2. CASE b < Used
    BY <2>1, <2>2, <1>3
  <2>3. CASE b = Used
    BY <1>2, <1>4, <1>6, <2>3
  <2>. QED
    BY <1>2, <1>5, <2>1, <2>2, <2>3
<1>. QED
  BY <1>2, <1>5, <1>6 DEF Chain

LEMMA BeforeEndRange ==
  ASSUME Shape, NEW at \in Index, NEW n \in Nat
  PROVE  BeforeEnd(at, n) \in Nat /\ BeforeEnd(at, n) <= n /\ BeforeEnd(at, n) <= Size
<1>1. Off(at) \in 0..mask
  <2>1. at \in Nat /\ Size \in Nat \ {0} /\ Size - 1 = mask
    BY DEF Index, Shape, Size
  <2>. QED
    BY <2>1, Remainder DEF Off
<1>. QED
  BY <1>1, Ranges DEF BeforeEnd, Least, Shape

\* What the reader takes lies in the queue.
LEMMA SourceCells ==
  ASSUME Typed, RegionsDisjoint, reader.pc # "idle", NEW j \in Nat, 1 <= j, j <= reader.len
  PROVE  Plus(Source, 1 + j - 2) = Plus(out, recsize + (j - 1))
         /\ recsize + (j - 1) \in Nat /\ recsize + (j - 1) < Used
<1>1. recsize + reader.len <= Used /\ reader.len \in Nat
  BY DEF RegionsDisjoint, ReaderClaim, Typed
<1>2. recsize \in Nat /\ Used \in Nat /\ Used < IndexRange /\ IndexRange \in Nat
  BY Ranges, UsedRange DEF Typed
<1>3. /\ recsize + (j - 1) \in Nat /\ recsize + (j - 1) < Used
      /\ recsize + (j - 1) < IndexRange /\ j - 1 \in Nat /\ 1 + j - 2 = j - 1
  BY <1>1, <1>2
<1>4. out \in Index
  BY DEF Typed
<1>5. Plus(Plus(out, recsize), j - 1) = Plus(out, recsize + (j - 1))
  BY <1>2, <1>3, <1>4, PlusPlus
<1>. QED
  BY <1>3, <1>5 DEF Source

\* A step of the writer that keeps to free cells, and moves in by nothing or
\* by what it has put in place.
LEMMA WriterEffect ==
  ASSUME IInv, UNCHANGED <<recsize, mask, out, reader, got>>,
         NEW n \in Nat, Used + n <= Size, in' = Plus(in, n), Cells(data'),
         \A k \in Nat : k < Used => data'[Off(Plus(out, k))] = data[Off(Plus(out, k))],
         recsize # 0 /\ n # 0 => n = recsize + LengthAt(data', in)
  PROVE  /\ Shape' /\ in' \in Index /\ out' \in Index /\ Cells(data)'
         /\ reader' = reader /\ got' = got
         /\ Used' = Used + n
         /\ ReaderClaim' <= Used'
         /\ Chained' /\ Taken'
<1>. USE DEF IInv
<1>1. Shape /\ in \in Index /\ out \in Index /\ Cells(data) /\ reader.len \in Nat
  BY DEF Typed
<1>2. /\ Used \in Nat /\ Used < IndexRange /\ in = Plus(out, Used)
      /\ Size \in Nat /\ Size >= 2 /\ 2 * Size <= IndexRange /\ IndexRange \in Nat
      /\ recsize \in 0..2
  BY <1>1, UsedRange, Ranges
<1>3. Used + n < IndexRange /\ Used' = Used + n
  BY <1>1, <1>2, MinusPlus DEF Used, Minus
<1>4. in' \in Index
  <2>1. n \in Index
    BY <1>2, <1>3 DEF Index
  <2>. QED
    BY <1>1, <2>1, OffPlus
<1>5. Shape' /\ out' \in Index /\ Cells(data)'
  BY <1>1 DEF Shape, Size, Cells
<1>6. ReaderClaim' <= Used'
  <2>1. ReaderClaim' = ReaderClaim /\ ReaderClaim <= Used /\ ReaderClaim \in Nat
    BY <1>1, <1>2 DEF ReaderClaim, RegionsDisjoint
  <2>. QED
    BY <1>2, <1>3, <2>1
<1>7. Chained'
  <2>. SUFFICES ASSUME recsize # 0 PROVE \E B : Chain(data, Used, B)'
    BY DEF Chained
  <2>1. PICK B : Chain(data, Used, B)
    BY DEF Chained
  <2>2. PICK C : Chain(data', Used + n, C)
    BY <2>1, ChainGrows
  <2>3. \A b : LengthAt(data, Plus(out, b))' = LengthAt(data', Plus(out, b))
    BY DEF LengthAt, Off, Size
  <2>4. Chain(data, Used, C)'
    BY <1>3, <2>2, <2>3 DEF Chain
  <2>. QED
    BY <2>4
<1>8. Taken'
  <2>1. ASSUME reader.pc # "idle", NEW m \in Nat, m <= reader.len
        PROVE  CopyOut(Source, 1, m)' = CopyOut(Source, 1, m)
    <3>1. ASSUME NEW j \in 1..(m - 1 + 1)
          PROVE  data'[Off(Plus(Source, 1 + j - 2))] = data[Off(Plus(Source, 1 + j - 2))]
      <4>1. j \in Nat /\ 1 <= j /\ j <= reader.len
        BY <1>1, <2>1
      <4>. QED
        BY <2>1, <4>1, SourceCells
    <3>2. \A x : Off(x)' = Off(x)
      BY DEF Off, Size
    <3>. QED
      BY <3>1, <3>2 DEF CopyOut, Source
  <2>2. Source' = Source /\ BeforeEnd(Source, reader.len)' = BeforeEnd(Source, reader.len)
    BY DEF Source, BeforeEnd, Off, Size
  <2>3. BeforeEnd(Source, reader.len) \in Nat /\ BeforeEnd(Source, reader.len) <= reader.len
    <3>1. recsize \in Index
      BY <1>2 DEF Index
    <3>. QED
      BY <1>1, <3>1, OffPlus, BeforeEndRange DEF Source
  <2>4. reader.pc = "tail" => CopyOut(Source, 1, BeforeEnd(Source, reader.len))'
                              = CopyOut(Source, 1, BeforeEnd(Source, reader.len))
    <3>1. PICK m \in Nat : m = BeforeEnd(Source, reader.len)
      BY <2>3
    <3>2. m <= reader.len /\ BeforeEnd(Source, reader.len)' = m
      BY <2>2, <2>3, <3>1
    <3>. QED
      BY <2>1, <3>1, <3>2
  <2>5. reader.pc = "done" => CopyOut(Source, 1, reader.len)' = CopyOut(Source, 1, reader.len)
    BY <1>1, <2>1
  <2>. QED
    BY <2>4, <2>5 DEF Taken
<1>. QED
  BY <1>3, <1>4, <1>5, <1>6, <1>7, <1>8

\* The record at out lies in the queue, and ends where another one begins.
LEMMA FirstRecord ==
  ASSUME Typed, recsize # 0, Used # 0, NEW B, Chain(data, Used, B)
  PROVE  /\ recsize + LengthAt(data, out) \in B
         /\ recsize + LengthAt(data, out) \in Nat
         /\ recsize + LengthAt(data, out) <= Used
<1>1. Used \in Nat /\ Plus(out, 0) = out /\ recsize \in Nat
  BY UsedRange, Ranges, KfifoAssumption DEF Typed, Plus, Index
<1>2. LengthAt(data, out) \in Nat
  BY LengthIsNat DEF Typed
<1>3. 0 \in B /\ 0 < Used
  BY <1>1 DEF Chain
<1>4. 0 + recsize + LengthAt(data, Plus(out, 0)) \in B
  BY <1>3 DEF Chain
<1>5. recsize + LengthAt(data, out) \in B
  BY <1>1, <1>2, <1>4
<1>. QED
  BY <1>1, <1>2, <1>5 DEF Chain

\* A step of the reader that moves out by what it has taken, a record if the
\* fifo has records, or to the end.
LEMMA ReaderEffect ==
  ASSUME IInv, UNCHANGED <<recsize, mask, in, data, writer>>,
         NEW n \in Nat, n <= Used, out' = Plus(out, n),
         recsize # 0 => n = 0 \/ n = Used \/ n = recsize + LengthAt(data, out)
  PROVE  /\ Shape' /\ in' \in Index /\ out' \in Index /\ Cells(data)'
         /\ writer' = writer
         /\ Used' = Used - n
         /\ Used' + WriterClaim' <= Size'
         /\ Chained' /\ Fits' /\ HeadWritten' /\ Copied'
<1>. USE DEF IInv
<1>1. Shape /\ in \in Index /\ out \in Index /\ Cells(data) /\ Len(writer.src) \in Nat
  BY DEF Typed
<1>2. /\ Used \in Nat /\ Used < IndexRange /\ in = Plus(out, Used)
      /\ Size \in Nat /\ 2 * Size <= IndexRange /\ IndexRange \in Nat /\ recsize \in 0..2
  BY <1>1, UsedRange, Ranges
<1>3. Used' = Used - n
  BY <1>1, MinusPlus DEF Used, Minus
<1>4. out' \in Index
  <2>1. n \in Index
    BY <1>2 DEF Index
  <2>. QED
    BY <1>1, <2>1, OffPlus
<1>5. Shape' /\ in' \in Index /\ Cells(data)'
  BY <1>1 DEF Shape, Size, Cells
<1>6. Used' + WriterClaim' <= Size'
  <2>1. WriterClaim' = WriterClaim /\ Size' = Size /\ Used + WriterClaim <= Size /\ WriterClaim \in Nat
    BY <1>1, <1>2 DEF WriterClaim, RegionsDisjoint, Size
  <2>. QED
    BY <1>2, <1>3, <2>1
<1>7. Fits' /\ HeadWritten' /\ Copied'
  <2>1. \A x : Off(x)' = Off(x)
    BY DEF Off, Size
  <2>2. Fits'
    BY DEF Fits, Longest
  <2>3. LengthAt(data, in)' = LengthAt(data, in)
    BY <2>1 DEF LengthAt
  <2>4. HeadWritten'
    BY <2>3 DEF HeadWritten
  <2>5. Target' = Target
    BY DEF Target
  <2>6. \A m : Written(data, m)' <=> Written(data, m)
    BY <2>1, <2>5 DEF Written
  <2>7. BeforeEnd(Target, Len(writer.src))' = BeforeEnd(Target, Len(writer.src))
    BY <2>1, <2>5 DEF BeforeEnd, Size
  <2>8. Copied'
    BY <2>6, <2>7 DEF Copied
  <2>. QED
    BY <2>2, <2>4, <2>8
<1>8. Chained'
  <2>. SUFFICES ASSUME recsize # 0 PROVE \E B : Chain(data, Used, B)'
    BY DEF Chained
  <2>1. PICK B : Chain(data, Used, B)
    BY DEF Chained
  <2>2. n \in B
    <3>1. 0 \in B /\ Used \in B
      BY <2>1 DEF Chain
    <3>. QED
      BY <3>1, <2>1, FirstRecord, <1>2
  <2>. DEFINE ends == {e \in 0..(Used - n) : e + n \in B}
  <2>3. ASSUME NEW e \in ends, e < Used - n
        PROVE  e + recsize + LengthAt(data, Plus(out', e)) \in ends
    <3>1. e \in Nat /\ e + n \in B /\ e + n < Used
      BY <1>2, <2>3
    <3>2. e + n + recsize + LengthAt(data, Plus(out, e + n)) \in B
      BY <2>1, <3>1 DEF Chain
    <3>3. Plus(Plus(out, n), e) = Plus(out, n + e) /\ e + n = n + e /\ Plus(out, n + e) \in Index
      <4>1. n + e < IndexRange /\ (n + e) + 0 < IndexRange /\ n + e \in Nat
        BY <1>2, <3>1
      <4>. QED
        BY <1>1, <3>1, <4>1, PlusPlus
    <3>. DEFINE len == LengthAt(data, Plus(out', e))
    <3>4. len \in Nat /\ e + n + recsize + len \in B
      BY <1>1, <3>2, <3>3, LengthIsNat
    <3>. HIDE DEF len
    <3>5. e + n + recsize + len \in 0..Used
      BY <2>1, <3>4 DEF Chain
    <3>6. (e + recsize + len) + n = e + n + recsize + len /\ e + recsize + len \in 0..(Used - n)
      BY <1>2, <3>1, <3>4, <3>5
    <3>. QED
      BY <3>4, <3>6 DEF len
  <2>4. ends \subseteq 0..(Used - n) /\ 0 \in ends /\ Used - n \in ends
    <3>1. Used \in B /\ 0 + n = n /\ (Used - n) + n = Used /\ Used - n \in Nat
      BY <1>2, <2>1 DEF Chain
    <3>. QED
      BY <2>2, <3>1
  <2>5. PICK E : E = ends
    OBVIOUS
  <2>. HIDE DEF ends
  <2>6. \A e : LengthAt(data, Plus(out, e))' = LengthAt(data, Plus(out', e))
    BY DEF LengthAt, Off, Size
  <2>7. Chain(data, Used, E)'
    BY <1>3, <2>3, <2>4, <2>5, <2>6 DEF Chain
  <2>. QED
    BY <2>7
<1>. QED
  BY <1>3, <1>4, <1>5, <1>6, <1>7, <1>8
-----------------------------------------------------------------------------
(***************************************************************************)
(* The writer.                                                             *)
(***************************************************************************)
\* e and d agree on the queue.
SameQueue(e, d) ==
  \A k \in Nat : k < Used => e[Off(Plus(out, k))] = d[Off(Plus(out, k))]

\* What the writer fills lies past in, and is free.
LEMMA TargetCells ==
  ASSUME Typed, RegionsDisjoint, writer.pc # "idle"
  PROVE  /\ Len(writer.src) \in Nat /\ Len(writer.src) <= Size /\ Target \in Index
         /\ \A j \in Nat : 1 <= j /\ j <= Len(writer.src) =>
              /\ Plus(Target, j - 1) = Plus(in, recsize + (j - 1))
              /\ recsize + (j - 1) \in Nat /\ Used + (recsize + (j - 1)) < Size
         /\ \A m \in Nat : m < recsize => Used + m < Size
<1>1. Used + (recsize + Len(writer.src)) <= Size /\ Len(writer.src) \in Nat
  BY DEF RegionsDisjoint, WriterClaim, Typed
<1>2. recsize \in Nat /\ Used \in Nat /\ Size \in Nat /\ 2 * Size <= IndexRange /\ IndexRange \in Nat
      /\ in \in Index /\ Size >= 2 /\ recsize <= 2
  BY Ranges, UsedRange DEF Typed
<1>3. Target \in Index
  <2>1. recsize + 0 < IndexRange
    BY <1>2
  <2>. QED
    BY <1>2, <2>1, PlusPlus DEF Target
<1>4. ASSUME NEW j \in Nat, 1 <= j, j <= Len(writer.src)
      PROVE  /\ Plus(Target, j - 1) = Plus(in, recsize + (j - 1))
             /\ recsize + (j - 1) \in Nat /\ Used + (recsize + (j - 1)) < Size
  <2>1. /\ recsize + (j - 1) \in Nat /\ Used + (recsize + (j - 1)) < Size
        /\ recsize + (j - 1) < IndexRange /\ j - 1 \in Nat
    BY <1>1, <1>2, <1>4
  <2>2. Plus(Plus(in, recsize), j - 1) = Plus(in, recsize + (j - 1))
    BY <1>2, <2>1, PlusPlus
  <2>. QED
    BY <2>1, <2>2 DEF Target
<1>5. ASSUME NEW m \in Nat, m < recsize PROVE Used + m < Size
  BY <1>1, <1>2, <1>5
<1>. QED
  BY <1>1, <1>2, <1>3, <1>4, <1>5

\* The cells of the head of a record are none of its content.
LEMMA HeadApart ==
  ASSUME Typed, RegionsDisjoint, writer.pc # "idle",
         NEW m \in Nat, m < recsize, NEW j \in Nat, 1 <= j, j <= Len(writer.src)
  PROVE  Off(Plus(in, m)) # Off(Plus(Target, j - 1)) /\ Off(Plus(in, m)) \in 0..mask
<1>1. recsize \in Nat /\ Used \in Nat /\ Size \in Nat /\ 2 * Size <= IndexRange /\ IndexRange \in Nat
  BY Ranges, UsedRange DEF Typed
<1>2. /\ Plus(Target, j - 1) = Plus(in, recsize + (j - 1))
      /\ recsize + (j - 1) \in Nat /\ Used + (recsize + (j - 1)) < Size
  BY TargetCells
<1>. DEFINE n == recsize + (j - 1)
<1>3. m \in Index /\ n \in Index /\ m < n /\ n < m + Size
  BY <1>1, <1>2 DEF Index
<1>. HIDE DEF n
<1>4. Off(Plus(in, m)) # Off(Plus(in, n)) /\ Off(Plus(in, m)) \in 0..mask
  BY <1>3, CellsApart, OffPlus DEF Typed
<1>. QED
  BY <1>2, <1>4 DEF n

\* Copying some of its bytes leaves the queue, the head and the other bytes.
LEMMA WriterCopies ==
  ASSUME Typed, RegionsDisjoint, writer.pc # "idle", NEW d, Cells(d),
         NEW a \in Nat \ {0}, NEW b \in Nat, b <= Len(writer.src),
         NEW n \in Nat, n = a - 1,
         NEW e, e = CopyIn(d, Target, writer.src, a..b)
  PROVE  /\ Cells(e)
         /\ SameQueue(e, d)
         /\ Written(d, n) => Written(e, b)
         /\ recsize # 0 => LengthAt(e, in) = LengthAt(d, in)
<1>1. /\ Len(writer.src) \in Nat /\ Len(writer.src) <= Size /\ Target \in Index
      /\ \A j \in Nat : 1 <= j /\ j <= Len(writer.src) =>
           /\ Plus(Target, j - 1) = Plus(in, recsize + (j - 1))
           /\ recsize + (j - 1) \in Nat /\ Used + (recsize + (j - 1)) < Size
  BY TargetCells
<1>2. Shape /\ writer.src \in Seq(Byte) /\ in \in Index /\ out \in Index
  BY DEF Typed
<1>3. Size \in Nat /\ 2 * Size <= IndexRange /\ IndexRange \in Nat /\ recsize \in 0..2 /\ b <= Size
  BY <1>1, <1>2, Ranges
<1>4. /\ Cells(e)
      /\ \A j \in a..b : e[Off(Plus(Target, j - 1))] = writer.src[j]
      /\ \A c \in 0..mask :
           (\A j \in a..b : c # Off(Plus(Target, j - 1))) => e[c] = d[c]
  <2>6. a..b \in SUBSET (1..Len(writer.src))
    BY <1>1
  <2>1. PICK at \in Index, s \in Seq(Byte), which \in SUBSET (1..Len(writer.src)) :
          at = Target /\ s = writer.src /\ which = a..b /\ which \in SUBSET (1..Len(s))
    BY <1>1, <1>2, <2>6
  <2>2. which \in SUBSET (1..Len(s)) /\ Len(s) <= Size /\ e = CopyIn(d, at, s, which)
    BY <1>1, <2>1
  <2>3. Cells(CopyIn(d, at, s, which))
    BY <1>2, <2>2, CopyInCells
  <2>4. \A j \in which : CopyIn(d, at, s, which)[Off(Plus(at, j - 1))] = s[j]
    BY <1>2, <2>2, CopyInCells
  <2>5. \A c \in 0..mask :
          (\A j \in which : c # Off(Plus(at, j - 1))) => CopyIn(d, at, s, which)[c] = d[c]
    BY <1>2, <2>2, CopyInCells
  <2>. QED
    BY <2>1, <2>2, <2>3, <2>4, <2>5
<1>5. ASSUME NEW k \in Nat, k < Used PROVE e[Off(Plus(out, k))] = d[Off(Plus(out, k))]
  <2>1. Off(Plus(out, k)) \in 0..mask
    <3>1. k \in Index
      BY <1>2, <1>3, <1>5, UsedRange DEF Index
    <3>. QED
      BY <1>2, <3>1, OffPlus
  <2>2. ASSUME NEW j \in a..b PROVE Off(Plus(out, k)) # Off(Plus(Target, j - 1))
    <3>1. j \in Nat /\ 1 <= j /\ j <= Len(writer.src)
      BY <1>1
    <3>2. PICK m \in Nat : m = recsize + (j - 1)
      BY <1>1, <3>1
    <3>3. Plus(Target, j - 1) = Plus(in, m) /\ Used + m < Size
      BY <1>1, <3>1, <3>2
    <3>. QED
      BY <1>2, <1>5, <3>3, FreeCells
  <2>. QED
    BY <1>4, <2>1, <2>2
<1>6. ASSUME NEW i \in 1..(a - 1), i <= Len(writer.src)
      PROVE  e[Off(Plus(Target, i - 1))] = d[Off(Plus(Target, i - 1))]
  <2>1. i - 1 \in Index
    BY <1>1, <1>3, <1>6 DEF Index
  <2>2. Off(Plus(Target, i - 1)) \in 0..mask
    BY <1>1, <1>2, <2>1, OffPlus
  <2>3. ASSUME NEW j \in a..b PROVE Off(Plus(Target, i - 1)) # Off(Plus(Target, j - 1))
    <3>1. j - 1 \in Index /\ i - 1 < j - 1 /\ j - 1 < (i - 1) + Size
      BY <1>1, <1>3, <1>6 DEF Index
    <3>. QED
      BY <1>1, <1>2, <2>1, <3>1, CellsApart
  <2>. QED
    BY <1>4, <2>2, <2>3
<1>7. ASSUME recsize # 0 PROVE LengthAt(e, in) = LengthAt(d, in)
  <2>1. ASSUME NEW m \in Nat, m < recsize PROVE e[Off(Plus(in, m))] = d[Off(Plus(in, m))]
    <3>1. ASSUME NEW j \in a..b
          PROVE  Off(Plus(in, m)) # Off(Plus(Target, j - 1))
      <4>1. j \in Nat /\ 1 <= j /\ j <= Len(writer.src)
        BY <1>1
      <4>. QED
        BY <2>1, <4>1, HeadApart
    <3>2. Off(Plus(in, m)) \in 0..mask
      <4>1. m \in Index
        BY <1>3, <2>1, Ranges, <1>2 DEF Index
      <4>. QED
        BY <1>2, <4>1, OffPlus
    <3>. QED
      BY <1>4, <3>1, <3>2
  <2>2. Plus(in, 0) = in
    BY <1>2, KfifoAssumption DEF Plus, Index
  <2>3. e[Off(in)] = d[Off(in)]
    BY <1>3, <1>7, <2>1, <2>2
  <2>4. recsize = 2 => e[Off(Plus(in, 1))] = d[Off(Plus(in, 1))]
    BY <2>1
  <2>. QED
    BY <2>3, <2>4 DEF LengthAt
<1>8. ASSUME Written(d, n) PROVE Written(e, b)
  <2>. SUFFICES ASSUME NEW j \in 1..b PROVE e[Off(Plus(Target, j - 1))] = writer.src[j]
    BY DEF Written
  <2>1. CASE j < a
    <3>1. j \in 1..n /\ j \in 1..(a - 1) /\ j <= Len(writer.src)
      BY <1>1, <2>1
    <3>. QED
      BY <1>6, <1>8, <3>1 DEF Written
  <2>2. CASE ~(j < a)
    <3>1. j \in a..b
      BY <2>2
    <3>. QED
      BY <1>4, <3>1
  <2>. QED
    BY <2>1, <2>2
<1>. QED
  BY <1>4, <1>5, <1>7, <1>8 DEF SameQueue

\* e and d agree on what the writer copies.
SameContent(e, d) ==
  \A j \in 1..Len(writer.src) : e[Off(Plus(Target, j - 1))] = d[Off(Plus(Target, j - 1))]

\* Writing the head leaves the queue and the content.
LEMMA WriterHeads ==
  ASSUME Typed, RegionsDisjoint, writer.pc # "idle", NEW d, Cells(d), NEW n \in Nat,
         NEW e, e = PokeN(d, n)
  PROVE  /\ Cells(e)
         /\ SameQueue(e, d)
         /\ recsize # 0 /\ n <= Longest => LengthAt(e, in) = n
         /\ SameContent(e, d)
<1>1. Shape /\ in \in Index /\ out \in Index /\ recsize \in Nat
  BY Ranges DEF Typed
<1>2. /\ Cells(e)
      /\ recsize # 0 /\ n <= Longest => LengthAt(e, in) = n
      /\ \A c \in 0..mask :
           (\A m \in 0..(recsize - 1) : c # Off(Plus(in, m))) => e[c] = d[c]
  BY <1>1, PokeNCells
<1>3. \A m \in 0..(recsize - 1) : m \in Nat /\ m < recsize
  BY <1>1
<1>4. ASSUME NEW k \in Nat, k < Used PROVE e[Off(Plus(out, k))] = d[Off(Plus(out, k))]
  <2>1. k \in Index
    BY <1>1, <1>4, UsedRange, KfifoAssumption DEF Index
  <2>2. Off(Plus(out, k)) \in 0..mask
    BY <1>1, <2>1, OffPlus
  <2>3. ASSUME NEW m \in 0..(recsize - 1) PROVE Off(Plus(out, k)) # Off(Plus(in, m))
    <3>1. Used + m < Size /\ m \in Nat
      BY <1>3, TargetCells
    <3>. QED
      BY <1>1, <1>4, <3>1, FreeCells
  <2>. QED
    BY <1>2, <2>2, <2>3
<1>5. ASSUME NEW j \in 1..Len(writer.src)
      PROVE  e[Off(Plus(Target, j - 1))] = d[Off(Plus(Target, j - 1))]
  <2>1. j \in Nat /\ 1 <= j /\ j <= Len(writer.src) /\ Len(writer.src) \in Nat
    BY TargetCells
  <2>2. Off(Plus(Target, j - 1)) \in 0..mask
    <3>1. j - 1 \in Index /\ Target \in Index
      BY SMTT(30), <2>1, <1>1, TargetCells, Ranges DEF Index
    <3>. QED
      BY <1>1, <3>1, OffPlus
  <2>3. \A m \in 0..(recsize - 1) : Off(Plus(Target, j - 1)) # Off(Plus(in, m))
    BY <1>3, <2>1, HeadApart
  <2>. QED
    BY <1>2, <2>2, <2>3
<1>. QED
  BY <1>2, <1>4, <1>5 DEF SameQueue, SameContent

\* A step of the writer keeps the invariant if it keeps to its cells, moves
\* in by what it has put in place, and keeps its own part.
LEMMA WriterKeepsIInv ==
  ASSUME IInv, UNCHANGED <<recsize, mask, out, reader, got>>,
         NEW n \in Nat, Used + n <= Size, in' = Plus(in, n), Cells(data'),
         SameQueue(data', data),
         recsize # 0 /\ n # 0 => n = recsize + LengthAt(data', in),
         writer' \in [pc : {"idle", "head", "tail", "publish"}, kind : {"in", "user", "dma"},
                      src : Seq(Byte)],
         Used + n + WriterClaim' <= Size,
         Fits', HeadWritten', Copied'
  PROVE  IInv'
<1>1. /\ Shape' /\ in' \in Index /\ out' \in Index /\ Cells(data)'
      /\ reader' = reader /\ got' = got
      /\ Used' = Used + n
      /\ ReaderClaim' <= Used'
      /\ Chained' /\ Taken'
  BY WriterEffect DEF SameQueue
<1>2. Typed'
  BY <1>1 DEF IInv, Typed
<1>3. Size' = Size
  BY DEF Size
<1>4. RegionsDisjoint'
  BY <1>1, <1>3 DEF RegionsDisjoint
<1>. QED
  BY <1>1, <1>2, <1>4 DEF IInv

LEMMA ContentsAreBytes ==
  ASSUME NEW content \in Contents
  PROVE  content \in Seq(Byte)
<1>1. Payload \subseteq Byte
  BY KfifoAssumption DEF Byte
<1>2. PICK n \in Nat : content \in [1..n -> Payload]
  BY DEF Contents
<1>3. content \in [1..n -> Byte]
  BY <1>1, <1>2
<1>. QED
  BY <1>3

\* Whether the callers of kfifo_in() respect the length field.
Respected == ~Oversized \/ RecSizes \subseteq {0}

LEMMA InKeepsIInv ==
  ASSUME Respected, IInv, NEW kind \in {"in", "user", "dma"}, NEW content \in Contents,
         In(kind, content)
  PROVE  IInv'
<1>. DEFINE n == Accepted(kind, Len(content))
<1>1. content \in Seq(Byte) /\ Len(content) \in Nat
  BY ContentsAreBytes
<1>2. /\ Shape /\ in \in Index /\ Cells(data) /\ writer.pc = "idle"
      /\ Size \in Nat /\ Used \in Nat /\ recsize \in Nat /\ recsize \in RecSizes
      /\ Used <= Size
  <2>1. Typed /\ RegionsDisjoint
    BY DEF IInv
  <2>2. Size \in Nat /\ Used \in Nat /\ recsize \in Nat /\ recsize \in RecSizes
    BY <2>1, Ranges, UsedRange DEF Typed
  <2>3. writer.pc = "idle"
    BY DEF In
  <2>. QED
    BY <2>1, <2>2, <2>3 DEF Typed, RegionsDisjoint, WriterClaim
<1>3. Longest \in Nat
  BY BaseIsNat DEF Longest
<1>4. /\ n \in Nat /\ n <= Len(content)
      /\ recsize + n <= Size - Used
      /\ recsize # 0 => n <= Longest
  <2>1. IF recsize = 0 THEN n > 0 ELSE n + recsize <= Unused
    BY DEF In
  <2>2. CASE recsize = 0
    BY <1>1, <1>2, <2>2 DEF Accepted, Least, Unused
  <2>3. CASE recsize # 0
    <3>1. MaxR(Len(content)) \in Nat /\ MaxR(Len(content)) <= Len(content)
          /\ MaxR(Len(content)) <= Longest
      BY <1>1, <1>3 DEF MaxR, Least, Longest
    <3>2. kind = "in" => Len(content) = MaxR(Len(content))
      BY <1>2, <2>3 DEF In, Respected
    <3>3. n \in Nat /\ n <= Len(content) /\ n <= Longest
      BY <1>1, <2>3, <3>1, <3>2 DEF Accepted
    <3>. HIDE DEF n
    <3>. QED
      BY <1>2, <2>1, <2>3, <3>3 DEF Unused
  <2>. QED
    BY <2>2, <2>3
<1>. HIDE DEF n
<1>5. writer' = [pc |-> "head", kind |-> kind, src |-> Begins(content, n)]
  BY DEF In, n
<1>6. Begins(content, n) \in Seq(Byte) /\ Len(Begins(content, n)) = n
  BY <1>1, <1>4 DEF Begins
<1>7. UNCHANGED <<recsize, mask, in, out, data, reader, got>> /\ in' = Plus(in, 0)
  BY <1>2, KfifoAssumption DEF In, Plus, Index
<1>8. Used + 0 + WriterClaim' <= Size
  BY <1>2, <1>4, <1>5, <1>6, <1>7 DEF WriterClaim
<1>9. Fits' /\ HeadWritten' /\ Copied'
  <2>1. Longest' = Longest
    BY <1>7 DEF Longest
  <2>. QED
    BY <1>4, <1>5, <1>6, <1>7, <2>1 DEF Fits, HeadWritten, Copied
<1>10. writer' \in [pc : {"idle", "head", "tail", "publish"}, kind : {"in", "user", "dma"},
                    src : Seq(Byte)]
  BY <1>5, <1>6
<1>11. Used + 0 <= Size /\ Cells(data') /\ SameQueue(data', data)
  BY <1>2, <1>7 DEF SameQueue
<1>. QED
  BY <1>7, <1>8, <1>9, <1>10, <1>11, WriterKeepsIInv

\* What a step does to the parts of the invariant about the writer, in terms
\* of the buffer it leaves.
LEMMA WriterParts ==
  ASSUME UNCHANGED <<recsize, mask, in>>
  PROVE  /\ Target' = Target /\ Longest' = Longest
         /\ \A at, n : BeforeEnd(at, n)' = BeforeEnd(at, n)
         /\ \A at : LengthAt(data, at)' = LengthAt(data', at)
         /\ writer'.src = writer.src => \A m :
              Written(data, m)' <=> Written(data', m)
<1>1. \A x : Off(x)' = Off(x)
  BY DEF Off, Size
<1>2. Target' = Target
  BY DEF Target
<1>. QED
  BY <1>1, <1>2 DEF Longest, BeforeEnd, Size, LengthAt, Written

\* The buffer with the head of the record, if it is written first.
LEMMA HeadedKeeps ==
  ASSUME IInv, writer.pc # "idle"
  PROVE  /\ Cells(Headed) /\ SameQueue(Headed, data)
         /\ recsize # 0 /\ writer.kind # "dma" => LengthAt(Headed, in) = Len(writer.src)
<1>1. Typed /\ RegionsDisjoint /\ Cells(data) /\ Len(writer.src) \in Nat
  BY DEF IInv, Typed
<1>2. CASE writer.kind = "dma"
  BY <1>1, <1>2 DEF Headed, SameQueue
<1>3. CASE writer.kind # "dma"
  <2>1. Headed = PokeN(data, Len(writer.src))
    BY <1>3 DEF Headed
  <2>2. recsize # 0 => Len(writer.src) <= Longest
    BY DEF Fits, IInv
  <2>3. Cells(Headed)
    BY <1>1, <2>1, WriterHeads
  <2>4. SameQueue(Headed, data)
    BY <1>1, <2>1, WriterHeads
  <2>5. recsize # 0 => LengthAt(Headed, in) = Len(writer.src)
    BY <1>1, <2>1, <2>2, WriterHeads
  <2>. QED
    BY <2>3, <2>4, <2>5
<1>. QED
  BY <1>2, <1>3

LEMMA WriteHeadKeepsIInv ==
  ASSUME IInv, WriteHead
  PROVE  IInv'
<1>. DEFINE src == writer.src
            l   == BeforeEnd(Target, Len(src))
<1>1. /\ Typed /\ RegionsDisjoint /\ Fits /\ writer.pc = "head" /\ writer.pc # "idle"
      /\ Cells(data) /\ in \in Index
  BY DEF IInv, WriteHead, Typed
<1>2. Len(src) \in Nat /\ Target \in Index /\ Shape /\ Used \in Nat /\ Size \in Nat /\ recsize \in Nat
  BY <1>1, TargetCells, Ranges, UsedRange DEF Typed
<1>3. l \in Nat /\ l <= Len(src)
  BY <1>2, BeforeEndRange
<1>4. /\ data' = CopyIn(Headed, Target, src, 1..l)
      /\ writer' = [writer EXCEPT !.pc = IF l < Len(src) THEN "tail" ELSE "publish"]
      /\ UNCHANGED <<recsize, mask, in, out, reader, got>>
  BY DEF WriteHead
<1>5. /\ Cells(Headed) /\ SameQueue(Headed, data)
      /\ recsize # 0 /\ writer.kind # "dma" => LengthAt(Headed, in) = Len(src)
  BY <1>1, HeadedKeeps
<1>. HIDE DEF l
<1>6. /\ Cells(data')
      /\ SameQueue(data', Headed)
      /\ Written(data', l)
      /\ recsize # 0 => LengthAt(data', in) = LengthAt(Headed, in)
  <2>1. PICK d : d = Headed
    OBVIOUS
  <2>2. PICK a \in Nat \ {0}, b \in Nat, n \in Nat : a = 1 /\ b = l /\ n = a - 1 /\ n = 0
    BY <1>3
  <2>3. data' = CopyIn(d, Target, writer.src, a..b) /\ b <= Len(writer.src) /\ Cells(d)
    BY <1>3, <1>4, <1>5, <2>1, <2>2
  <2>4. Cells(data')
    BY <1>1, <2>2, <2>3, WriterCopies
  <2>5. SameQueue(data', d)
    BY <1>1, <2>2, <2>3, WriterCopies
  <2>6. Written(data', b)
    <3>1. Written(d, n)
      BY <2>2 DEF Written
    <3>. QED
      BY <1>1, <2>2, <2>3, <3>1, WriterCopies
  <2>7. recsize # 0 => LengthAt(data', in) = LengthAt(d, in)
    <3>1. PICK e : e = data'
      OBVIOUS
    <3>. QED
      BY <1>1, <2>2, <2>3, <3>1, WriterCopies
  <2>. QED
    BY <2>1, <2>2, <2>4, <2>5, <2>6, <2>7
<1>7. /\ writer'.src = src /\ writer'.kind = writer.kind
      /\ writer'.pc = IF l < Len(src) THEN "tail" ELSE "publish"
      /\ writer' \in [pc : {"idle", "head", "tail", "publish"}, kind : {"in", "user", "dma"},
                      src : Seq(Byte)]
  BY <1>1, <1>4 DEF Typed
<1>8. Fits' /\ HeadWritten' /\ Copied'
  <2>1. Target' = Target /\ Longest' = Longest
        /\ LengthAt(data, in)' = LengthAt(data', in)
        /\ BeforeEnd(Target, Len(writer.src))' = l
    BY <1>4, <1>7, WriterParts DEF l
  <2>2. Fits'
    BY <1>1, <1>4, <1>7, <2>1 DEF Fits
  <2>3. HeadWritten'
    BY <1>4, <1>5, <1>6, <1>7, <2>1 DEF HeadWritten
  <2>4. PICK m \in Nat : m = l
    BY <1>3
  <2>5. Written(data, m)'
    BY <1>4, <1>6, <1>7, <2>4, WriterParts
  <2>6. BeforeEnd(Target, Len(writer.src))' = m /\ (~(m < Len(src)) => Len(writer'.src) = m)
    BY <1>2, <1>3, <1>7, <2>1, <2>4
  <2>7. Copied'
    BY <1>7, <2>4, <2>5, <2>6 DEF Copied
  <2>. QED
    BY <2>2, <2>3, <2>7
<1>9. Used + 0 + WriterClaim' <= Size /\ Used + 0 <= Size
  BY <1>1, <1>2, <1>4, <1>7 DEF RegionsDisjoint, WriterClaim
<1>10. in' = Plus(in, 0)
  BY <1>1, <1>4, KfifoAssumption DEF Plus, Index
<1>11. SameQueue(data', data)
  BY <1>5, <1>6 DEF SameQueue
<1>. QED
  BY <1>4, <1>6, <1>7, <1>8, <1>9, <1>10, <1>11, WriterKeepsIInv

LEMMA WriteTailKeepsIInv ==
  ASSUME IInv, WriteTail
  PROVE  IInv'
<1>. DEFINE src == writer.src
            l   == BeforeEnd(Target, Len(src))
<1>1. /\ Typed /\ RegionsDisjoint /\ Fits /\ writer.pc = "tail" /\ writer.pc # "idle"
      /\ Cells(data) /\ in \in Index
  BY DEF IInv, WriteTail, Typed
<1>2. Len(src) \in Nat /\ Target \in Index /\ Shape /\ Used \in Nat /\ Size \in Nat /\ recsize \in Nat
  BY <1>1, TargetCells, Ranges, UsedRange DEF Typed
<1>3. l \in Nat /\ l <= Len(src)
  BY <1>2, BeforeEndRange
<1>4. /\ data' = CopyIn(data, Target, src, (l + 1)..Len(src))
      /\ writer' = [writer EXCEPT !.pc = "publish"]
      /\ UNCHANGED <<recsize, mask, in, out, reader, got>>
  BY DEF WriteTail
<1>5. Written(data, l)
  BY <1>1 DEF IInv, Copied
<1>. HIDE DEF l
<1>6. PICK a \in Nat \ {0}, b \in Nat, n \in Nat, d \in {data}, e \in {data'} :
        a = l + 1 /\ n = a - 1 /\ n = l /\ b = Len(src) /\ d = data /\ e = data'
  <2>1. l + 1 \in Nat \ {0} /\ l = (l + 1) - 1
    BY <1>3
  <2>. QED
    BY <1>2, <1>3, <2>1
<1>7. e = CopyIn(d, Target, writer.src, a..b) /\ b <= Len(writer.src) /\ Cells(d)
  BY <1>1, <1>2, <1>4, <1>6
<1>8. Cells(e) /\ SameQueue(e, d)
  BY <1>1, <1>6, <1>7, WriterCopies
<1>9. Written(e, b)
  BY <1>1, <1>5, <1>6, <1>7, WriterCopies
<1>10. recsize # 0 => LengthAt(e, in) = LengthAt(d, in)
  BY <1>1, <1>6, <1>7, WriterCopies
<1>11. /\ writer'.src = src /\ writer'.kind = writer.kind /\ writer'.pc = "publish"
       /\ writer' \in [pc : {"idle", "head", "tail", "publish"}, kind : {"in", "user", "dma"},
                       src : Seq(Byte)]
  BY <1>1, <1>4 DEF Typed
<1>12. Fits' /\ HeadWritten' /\ Copied'
  <2>1. Longest' = Longest /\ LengthAt(data, in)' = LengthAt(data', in)
    BY <1>4, WriterParts
  <2>2. Fits'
    BY <1>1, <1>4, <1>11, <2>1 DEF Fits
  <2>3. HeadWritten'
    BY <1>1, <1>4, <1>6, <1>10, <1>11, <2>1 DEF HeadWritten, IInv
  <2>4. Written(data, b)'
    BY <1>4, <1>6, <1>9, <1>11, WriterParts
  <2>5. Copied'
    BY <1>6, <1>11, <2>4 DEF Copied
  <2>. QED
    BY <2>2, <2>3, <2>5
<1>13. Used + 0 + WriterClaim' <= Size /\ Used + 0 <= Size
  BY <1>1, <1>2, <1>4, <1>11 DEF RegionsDisjoint, WriterClaim
<1>14. in' = Plus(in, 0)
  BY <1>1, <1>4, KfifoAssumption DEF Plus, Index
<1>. QED
  BY <1>4, <1>6, <1>8, <1>11, <1>12, <1>13, <1>14, WriterKeepsIInv

\* A step that ends the call, having put n cells in place.
LEMMA WriterEndsKeepsIInv ==
  ASSUME IInv, UNCHANGED <<recsize, mask, out, reader, got>>, writer' = WIdle,
         writer.pc # "idle",
         NEW n \in Nat, n <= recsize + Len(writer.src), in' = Plus(in, n),
         Cells(data'), SameQueue(data', data),
         recsize # 0 /\ n # 0 => n = recsize + LengthAt(data', in)
  PROVE  IInv'
<1>1. /\ Typed /\ RegionsDisjoint /\ Used \in Nat /\ Size \in Nat /\ recsize \in Nat
      /\ Len(writer.src) \in Nat
  BY UsedRange, Ranges DEF IInv, Typed
<1>2. Used + n <= Size
  BY <1>1 DEF RegionsDisjoint, WriterClaim
<1>3. /\ writer'.pc = "idle" /\ writer'.src = <<>> /\ Len(<<>>) = 0
      /\ writer' \in [pc : {"idle", "head", "tail", "publish"}, kind : {"in", "user", "dma"},
                      src : Seq(Byte)]
  BY DEF WIdle
<1>4. Used + n + WriterClaim' <= Size
  BY <1>1, <1>2, <1>3 DEF WriterClaim
<1>5. Fits' /\ HeadWritten' /\ Copied'
  <2>1. 0 <= Longest'
    <3>1. Base * Base >= 1 /\ Base >= 1 /\ Base * Base \in Nat /\ Base \in Nat
      BY BaseIsNat
    <3>. QED
      BY <3>1 DEF Longest
  <2>. QED
    BY <1>3, <2>1 DEF Fits, HeadWritten, Copied
<1>. QED
  BY <1>2, <1>3, <1>4, <1>5, WriterKeepsIInv

LEMMA PublishKeepsIInv ==
  ASSUME IInv, Publish
  PROVE  IInv'
<1>1. /\ Typed /\ RegionsDisjoint /\ writer.pc = "publish" /\ writer.pc # "idle"
      /\ Cells(data) /\ Len(writer.src) \in Nat /\ recsize \in Nat
  BY Ranges DEF IInv, Publish, Typed
<1>2. PICK n \in 0..Len(writer.src) :
        /\ writer.kind # "dma" => n = Len(writer.src)
        /\ data' = IF writer.kind = "dma" THEN PokeN(data, n) ELSE data
        /\ in' = Plus(in, n + recsize)
  BY DEF Publish
<1>3. UNCHANGED <<recsize, mask, out, reader, got>> /\ writer' = WIdle
  BY DEF Publish
<1>4. n \in Nat /\ n + recsize \in Nat /\ n + recsize <= recsize + Len(writer.src)
  BY <1>1
<1>5. /\ Cells(data') /\ SameQueue(data', data)
      /\ recsize # 0 => n + recsize = recsize + LengthAt(data', in)
  <2>1. CASE writer.kind = "dma"
    <3>1. PICK e : e = data' /\ e = PokeN(data, n)
      BY <1>2, <2>1
    <3>2. recsize # 0 => n <= Longest
      <4>1. Longest \in Nat
        BY BaseIsNat DEF Longest
      <4>. QED
        BY <1>1, <1>4, <4>1 DEF Fits, IInv
    <3>3. Cells(e)
      BY <1>1, <1>4, <3>1, WriterHeads
    <3>4. SameQueue(e, data)
      BY <1>1, <1>4, <3>1, WriterHeads
    <3>5. recsize # 0 => LengthAt(e, in) = n
      BY <1>1, <1>4, <3>1, <3>2, WriterHeads
    <3>. QED
      BY <1>1, <1>4, <3>1, <3>3, <3>4, <3>5
  <2>2. CASE writer.kind # "dma"
    <3>1. data' = data /\ n = Len(writer.src)
      BY <1>2, <2>2
    <3>2. recsize # 0 => LengthAt(data, in) = n
      BY <1>1, <2>2, <3>1 DEF HeadWritten, IInv
    <3>. QED
      BY <1>1, <1>4, <3>1, <3>2 DEF SameQueue
  <2>. QED
    BY <2>1, <2>2
<1>. QED
  BY <1>1, <1>2, <1>3, <1>4, <1>5, WriterEndsKeepsIInv

\* Where a fault leaves the buffer: what was copied before it is in place.
LEMMA FaultInCells ==
  ASSUME IInv, FaultIn
  PROVE  /\ writer.pc # "idle" /\ Cells(data') /\ SameQueue(data', data)
         /\ \E k \in Nat : /\ k < Len(writer.src)
                           /\ in' = IF recsize = 0 THEN Plus(in, k) ELSE in
                           /\ Written(data', k)
<1>. DEFINE src == writer.src
            l   == BeforeEnd(Target, Len(src))
<1>1. /\ Typed /\ RegionsDisjoint /\ writer.pc # "idle" /\ Cells(data)
  BY DEF IInv, FaultIn, Typed
<1>2. Len(src) \in Nat /\ Target \in Index /\ Shape
  BY <1>1, TargetCells DEF Typed
<1>3. l \in Nat /\ l <= Len(src)
  BY <1>2, BeforeEndRange
<1>4. PICK k \in 0..(Len(src) - 1) :
        /\ writer.pc = "head" <=> k < l
        /\ data' = IF writer.pc = "head" THEN CopyIn(Headed, Target, src, 1..k)
                   ELSE CopyIn(data, Target, src, (l + 1)..k)
        /\ in' = IF recsize = 0 THEN Plus(in, k) ELSE in
  BY DEF FaultIn
<1>. HIDE DEF l
<1>5. k \in Nat /\ k < Len(src)
  BY <1>2
<1>6. PICK a \in Nat \ {0}, b \in Nat, n \in Nat, d \in {Headed, data} :
        /\ b = k /\ n = a - 1
        /\ IF writer.pc = "head" THEN a = 1 /\ d = Headed ELSE a = l + 1 /\ d = data
  <2>1. 1 \in Nat \ {0} /\ l + 1 \in Nat \ {0} /\ 1 - 1 \in Nat /\ (l + 1) - 1 \in Nat
    BY <1>3
  <2>. QED
    BY <1>5, <2>1
<1>7. Cells(d) /\ SameQueue(d, data)
  BY <1>1, <1>6, HeadedKeeps DEF SameQueue
<1>8. PICK e : e = data' /\ e = CopyIn(d, Target, writer.src, a..b)
  BY <1>4, <1>6
<1>9. e = CopyIn(d, Target, writer.src, a..b) /\ b <= Len(writer.src) /\ Cells(d)
  BY <1>2, <1>5, <1>6, <1>7, <1>8
<1>10. Cells(e) /\ SameQueue(e, d)
  BY <1>1, <1>6, <1>9, WriterCopies
<1>11. Written(d, n)
  <2>1. CASE writer.pc = "head"
    <3>1. n = 0
      BY <1>6, <2>1
    <3>. QED
      BY <3>1 DEF Written
  <2>2. CASE writer.pc # "head"
    <3>1. writer.pc = "tail" /\ Written(data, l)
      BY <2>2 DEF FaultIn, IInv, Copied, l
    <3>2. n = l /\ d = data
      BY <1>3, <1>6, <2>2
    <3>. QED
      BY <3>1, <3>2
  <2>. QED
    BY <2>1, <2>2
<1>12. Written(e, b)
  BY <1>1, <1>6, <1>9, <1>11, WriterCopies
<1>13. SameQueue(data', data)
  BY <1>7, <1>8, <1>10 DEF SameQueue
<1>. QED
  BY <1>1, <1>4, <1>5, <1>6, <1>8, <1>10, <1>12, <1>13

LEMMA FaultInKeepsIInv ==
  ASSUME IInv, FaultIn
  PROVE  IInv'
<1>1. writer.pc # "idle" /\ Cells(data') /\ SameQueue(data', data)
  BY FaultInCells
<1>2. PICK k \in Nat : k < Len(writer.src) /\ in' = IF recsize = 0 THEN Plus(in, k) ELSE in
  BY FaultInCells
<1>3. UNCHANGED <<recsize, mask, out, reader, got>> /\ writer' = WIdle
  BY DEF FaultIn
<1>4. recsize \in Nat /\ Len(writer.src) \in Nat /\ in \in Index
  BY Ranges DEF IInv, Typed
<1>5. CASE recsize = 0
  <2>1. in' = Plus(in, k) /\ k <= recsize + Len(writer.src)
    BY <1>2, <1>4, <1>5
  <2>. QED
    BY <1>1, <1>3, <1>5, <2>1, WriterEndsKeepsIInv
<1>6. CASE recsize # 0
  <2>1. in' = Plus(in, 0) /\ 0 <= recsize + Len(writer.src) /\ 0 \in Nat
    BY <1>2, <1>4, <1>6, KfifoAssumption DEF Plus, Index
  <2>. QED
    BY <1>1, <1>3, <2>1, WriterEndsKeepsIInv
<1>. QED
  BY <1>5, <1>6
-----------------------------------------------------------------------------
(***************************************************************************)
(* The reader.                                                             *)
(***************************************************************************)
\* A step of the reader keeps the invariant if it moves out by what it has
\* taken, or by everything, and keeps its own part.
LEMMA ReaderKeepsIInv ==
  ASSUME IInv, UNCHANGED <<recsize, mask, in, data, writer>>,
         NEW n \in Nat, n <= Used, out' = Plus(out, n),
         recsize # 0 => n = 0 \/ n = Used \/ n = recsize + LengthAt(data, out),
         reader' \in [pc : {"idle", "head", "tail", "done"},
                      kind : {"out", "peek", "user", "dma"}, len : Nat, buf : Seq(Byte)],
         got' \in Seq(Byte),
         reader'.pc # "idle" => n = 0 /\ recsize + reader'.len <= Used,
         Taken'
  PROVE  IInv'
<1>1. /\ Shape' /\ in' \in Index /\ out' \in Index /\ Cells(data)'
      /\ writer' = writer
      /\ Used' = Used - n
      /\ Used' + WriterClaim' <= Size'
      /\ Chained' /\ Fits' /\ HeadWritten' /\ Copied'
  BY ReaderEffect
<1>2. Typed'
  BY <1>1 DEF IInv, Typed
<1>3. Used \in Nat /\ recsize \in Nat
  BY UsedRange, Ranges DEF IInv, Typed
<1>4. ReaderClaim' <= Used'
  BY <1>1, <1>3 DEF ReaderClaim
<1>. QED
  BY <1>1, <1>2, <1>4 DEF RegionsDisjoint, IInv

\* What the reader copies is a sequence of bytes.
LEMMA CopyOutBytes ==
  ASSUME Typed, RegionsDisjoint, reader.pc # "idle",
         NEW a \in Nat, 1 <= a, NEW b \in Nat, b <= reader.len
  PROVE  /\ CopyOut(Source, a, b) \in Seq(Byte)
         /\ CopyOut(Source, a, b) = [j \in 1..(b - a + 1) |-> data[Off(Plus(Source, a + j - 2))]]
         /\ a <= b + 1 => Len(CopyOut(Source, a, b)) = b - a + 1
<1>. DEFINE s == CopyOut(Source, a, b)
<1>1. s = [j \in 1..(b - a + 1) |-> data[Off(Plus(Source, a + j - 2))]]
  BY DEF CopyOut
<1>2. ASSUME NEW j \in 1..(b - a + 1) PROVE data[Off(Plus(Source, a + j - 2))] \in Byte
  <2>1. PICK i \in Nat : i = a + j - 1
    OBVIOUS
  <2>2. 1 <= i /\ i <= reader.len /\ 1 + i - 2 = a + j - 2
    BY <2>1 DEF Typed
  <2>3. /\ Plus(Source, 1 + i - 2) = Plus(out, recsize + (i - 1))
        /\ recsize + (i - 1) \in Nat /\ recsize + (i - 1) < Used
    BY <2>2, SourceCells
  <2>4. recsize + (i - 1) \in Index
    BY <2>3, UsedRange, KfifoAssumption DEF Typed, Index
  <2>5. Off(Plus(out, recsize + (i - 1))) \in 0..mask
    BY <2>4, OffPlus DEF Typed
  <2>. QED
    BY <2>2, <2>3, <2>5 DEF Typed, Cells
<1>. HIDE DEF s
<1>3. CASE a <= b + 1
  <2>1. PICK n \in Nat : n = b - a + 1
    BY <1>3
  <2>2. s \in [1..n -> Byte]
    BY <1>1, <1>2, <2>1
  <2>3. s \in Seq(Byte) /\ Len(s) = n
    BY <2>2
  <2>. QED
    BY <1>1, <2>1, <2>3 DEF s
<1>4. CASE ~(a <= b + 1)
  <2>1. 1..(b - a + 1) = 1..0
    BY <1>4
  <2>2. s \in [1..0 -> Byte]
    BY <1>1, <1>2, <2>1
  <2>3. s \in Seq(Byte)
    BY <2>2
  <2>. QED
    BY <1>1, <1>4, <2>3 DEF s
<1>. QED
  BY <1>3, <1>4

LEMMA SourceIndex ==
  ASSUME Typed
  PROVE  /\ Source \in Index /\ recsize \in Nat /\ Used \in Nat /\ Used < IndexRange
         /\ Plus(out, 0) = out /\ in = Plus(out, Used) /\ reader.len \in Nat
         /\ BeforeEnd(Source, reader.len) \in Nat
         /\ BeforeEnd(Source, reader.len) <= reader.len
<1>1. recsize \in Index /\ Shape /\ out \in Index /\ reader.len \in Nat
  <2>1. Size \in Nat /\ Size >= 2 /\ 2 * Size <= IndexRange /\ IndexRange \in Nat /\ recsize \in 0..2
    BY Ranges DEF Typed
  <2>. QED
    BY <2>1 DEF Typed, Index
<1>2. Source \in Index
  BY <1>1, OffPlus DEF Source
<1>3. Plus(out, 0) = out
  BY <1>1, KfifoAssumption DEF Plus, Index
<1>4. recsize \in Nat
  BY <1>1, Ranges
<1>5. Used \in Nat /\ Used < IndexRange /\ in = Plus(out, Used)
  BY UsedRange DEF Typed
<1>6. PICK n \in Nat : n = reader.len
  BY <1>1
<1>7. BeforeEnd(Source, n) \in Nat /\ BeforeEnd(Source, n) <= n
  BY <1>1, <1>2, BeforeEndRange
<1>. QED
  BY <1>1, <1>2, <1>3, <1>4, <1>5, <1>6, <1>7

LEMMA OutKeepsIInv ==
  ASSUME IInv, NEW kind \in {"out", "peek", "user", "dma"}, NEW asked \in 1..MaxLen,
         Out(kind, asked)
  PROVE  IInv'
<1>. DEFINE n == Least(asked, IF recsize = 0 THEN Used ELSE PeekN(out))
<1>1. /\ Typed /\ recsize \in Nat /\ Used \in Nat /\ Plus(out, 0) = out /\ asked \in Nat
  BY SourceIndex, KfifoAssumption DEF IInv
<1>2. Used # 0
  BY <1>1, MinusPlus DEF Out, Used, Typed
<1>3. n \in Nat /\ recsize + n <= Used
  <2>1. CASE recsize = 0
    BY <1>1, <2>1 DEF Least
  <2>2. CASE recsize # 0
    <3>1. PICK B : Chain(data, Used, B)
      BY <2>2 DEF IInv, Chained
    <3>2. recsize + LengthAt(data, out) <= Used
      BY <1>1, <1>2, <2>2, <3>1, FirstRecord
    <3>3. LengthAt(data, out) \in Nat
      BY <1>1, LengthIsNat DEF Typed
    <3>4. PeekN(out) = LengthAt(data, out)
      BY DEF PeekN, LengthAt
    <3>. QED
      BY <1>1, <2>2, <3>2, <3>3, <3>4 DEF Least
  <2>. QED
    BY <2>1, <2>2
<1>. HIDE DEF n
<1>4. /\ reader' = [pc |-> "head", kind |-> kind, buf |-> <<>>, len |-> n]
      /\ got' = <<>>
      /\ UNCHANGED <<recsize, mask, in, out, data, writer>>
  BY DEF Out, n
<1>5. <<>> \in Seq(Byte)
  OBVIOUS
<1>6. reader' \in [pc : {"idle", "head", "tail", "done"},
                   kind : {"out", "peek", "user", "dma"}, len : Nat, buf : Seq(Byte)]
  BY <1>3, <1>4, <1>5
<1>7. Taken'
  BY <1>4 DEF Taken
<1>8. out' = Plus(out, 0) /\ 0 <= Used /\ recsize + reader'.len <= Used
  BY <1>1, <1>3, <1>4
<1>. QED
  BY <1>1, <1>4, <1>5, <1>6, <1>7, <1>8, ReaderKeepsIInv

\* What is to be copied does not depend on how far the call is.
LEMMA ReaderParts ==
  ASSUME UNCHANGED <<recsize, mask, in, out, data, writer, got>>, reader'.len = reader.len
  PROVE  /\ BeforeEnd(Source, reader.len)' = BeforeEnd(Source, reader.len)
         /\ \A n : CopyOut(Source, 1, n)' = CopyOut(Source, 1, n)
BY DEF BeforeEnd, Source, Off, Size, CopyOut

LEMMA ReadHeadKeepsIInv ==
  ASSUME IInv, ReadHead
  PROVE  IInv'
<1>. DEFINE l == BeforeEnd(Source, reader.len)
<1>1. /\ Typed /\ RegionsDisjoint /\ reader.pc = "head" /\ reader.pc # "idle"
      /\ recsize \in Nat /\ Used \in Nat /\ Plus(out, 0) = out
      /\ reader.len \in Nat /\ l \in Nat /\ l <= reader.len
  BY SourceIndex DEF IInv, ReadHead
<1>2. /\ reader' = [reader EXCEPT !.pc = IF l < reader.len THEN "tail" ELSE "done",
                                  !.buf = CopyOut(Source, 1, l)]
      /\ UNCHANGED <<recsize, mask, in, out, data, writer, got>>
  BY DEF ReadHead
<1>. HIDE DEF l
<1>3. CopyOut(Source, 1, l) \in Seq(Byte)
  <2>1. 1 \in Nat /\ 1 <= 1
    OBVIOUS
  <2>. QED
    BY <1>1, <2>1, CopyOutBytes
<1>4. /\ reader'.buf = CopyOut(Source, 1, l) /\ reader'.len = reader.len
      /\ reader'.pc = IF l < reader.len THEN "tail" ELSE "done"
      /\ reader' \in [pc : {"idle", "head", "tail", "done"},
                      kind : {"out", "peek", "user", "dma"}, len : Nat, buf : Seq(Byte)]
  BY <1>1, <1>2, <1>3 DEF Typed
<1>5. Taken'
  <2>1. /\ BeforeEnd(Source, reader.len)' = l
        /\ \A n : CopyOut(Source, 1, n)' = CopyOut(Source, 1, n)
    BY <1>2, <1>4, ReaderParts DEF l
  <2>2. ~(l < reader.len) => l = reader'.len
    BY <1>1, <1>4
  <2>3. PICK n \in Nat : n = l
    BY <1>1
  <2>4. CopyOut(Source, 1, n)' = CopyOut(Source, 1, l)
    BY <2>1, <2>3
  <2>. QED
    BY <1>4, <2>1, <2>2, <2>3, <2>4 DEF Taken
<1>6. out' = Plus(out, 0) /\ 0 <= Used /\ recsize + reader'.len <= Used /\ got' \in Seq(Byte)
  BY <1>1, <1>2, <1>4 DEF RegionsDisjoint, ReaderClaim, Typed
<1>. QED
  BY <1>2, <1>4, <1>5, <1>6, ReaderKeepsIInv

\* The two parts of a copy are the whole.
LEMMA CopyOutParts ==
  ASSUME Typed, RegionsDisjoint, reader.pc # "idle", NEW l \in Nat, l <= reader.len
  PROVE  CopyOut(Source, 1, l) \o CopyOut(Source, Len(CopyOut(Source, 1, l)) + 1, reader.len)
           = CopyOut(Source, 1, reader.len)
<1>. DEFINE s == CopyOut(Source, 1, l)
            t == CopyOut(Source, l + 1, reader.len)
            u == CopyOut(Source, 1, reader.len)
<1>1. reader.len \in Nat /\ 1 \in Nat /\ 1 <= 1 /\ l + 1 \in Nat /\ 1 <= l + 1
      /\ l + 1 <= reader.len + 1 /\ 1 <= l + 1 /\ 1 <= reader.len + 1 /\ reader.len <= reader.len
      /\ l - 1 + 1 = l /\ reader.len - 1 + 1 = reader.len
      /\ reader.len - (l + 1) + 1 = reader.len - l
  BY DEF Typed
<1>2. s \in Seq(Byte) /\ Len(s) = l
      /\ s = [j \in 1..l |-> data[Off(Plus(Source, 1 + j - 2))]]
  BY <1>1, CopyOutBytes
<1>3. t \in Seq(Byte) /\ Len(t) = reader.len - l
      /\ t = [j \in 1..(reader.len - l) |-> data[Off(Plus(Source, (l + 1) + j - 2))]]
  BY ZenonT(40), <1>1, CopyOutBytes
<1>4. u \in Seq(Byte) /\ Len(u) = reader.len
      /\ u = [j \in 1..reader.len |-> data[Off(Plus(Source, 1 + j - 2))]]
  BY <1>1, CopyOutBytes
<1>5. CopyOut(Source, Len(s) + 1, reader.len) = t
  BY <1>2
<1>. HIDE DEF s, t, u
<1>6. /\ s \o t \in Seq(Byte) /\ Len(s \o t) = Len(s) + Len(t)
      /\ \A i \in 1..(Len(s) + Len(t)) :
           (s \o t)[i] = IF i <= Len(s) THEN s[i] ELSE t[i - Len(s)]
  <2>1. s \in Seq(Byte) /\ t \in Seq(Byte)
    BY <1>2, <1>3
  <2>. QED
    BY <2>1, ConcatProperties
<1>9. Len(s) + Len(t) = reader.len
  BY <1>1, <1>2, <1>3
<1>7. ASSUME NEW j \in 1..reader.len PROVE (s \o t)[j] = u[j]
  <2>1. CASE j <= l
    <3>1. (s \o t)[j] = s[j] /\ j \in 1..l
      BY <1>1, <1>2, <1>6, <1>9, <2>1
    <3>. QED
      BY <1>2, <1>4, <3>1
  <2>2. CASE ~(j <= l)
    <3>1. (s \o t)[j] = t[j - l] /\ j - l \in 1..(reader.len - l)
      BY SMTT(30), <1>1, <1>2, <1>6, <1>9, <2>2
    <3>2. (l + 1) + (j - l) - 2 = 1 + j - 2
      BY <1>1
    <3>3. t[j - l] = data[Off(Plus(Source, (l + 1) + (j - l) - 2))]
      BY <1>3, <3>1
    <3>4. u[j] = data[Off(Plus(Source, 1 + j - 2))]
      BY <1>4
    <3>. QED
      BY <3>1, <3>2, <3>3, <3>4
  <2>. QED
    BY <2>1, <2>2
<1>8. s \o t = u
  <2>1. PICK v \in Seq(Byte) : v = s \o t
    BY <1>6
  <2>2. Len(v) = Len(u) /\ u \in Seq(Byte)
    BY <1>4, <1>6, <1>9, <2>1
  <2>3. \A i \in 1..Len(v) : v[i] = u[i]
    BY <1>4, <1>7, <2>1, <2>2
  <2>4. v = u
    BY <2>2, <2>3, SeqEqual
  <2>. QED
    BY <2>1, <2>4
<1>. QED
  BY <1>5, <1>8 DEF s, u

LEMMA ReadTailKeepsIInv ==
  ASSUME IInv, ReadTail
  PROVE  IInv'
<1>. DEFINE l == BeforeEnd(Source, reader.len)
<1>1. /\ Typed /\ RegionsDisjoint /\ reader.pc = "tail" /\ reader.pc # "idle"
      /\ recsize \in Nat /\ Used \in Nat /\ Plus(out, 0) = out
      /\ reader.len \in Nat /\ l \in Nat /\ l <= reader.len
  BY SourceIndex DEF IInv, ReadTail
<1>2. /\ reader' = [reader EXCEPT !.pc = "done",
                      !.buf = reader.buf \o CopyOut(Source, Len(reader.buf) + 1, reader.len)]
      /\ UNCHANGED <<recsize, mask, in, out, data, writer, got>>
  BY DEF ReadTail
<1>3. reader.buf = CopyOut(Source, 1, l)
  BY <1>1 DEF IInv, Taken
<1>. HIDE DEF l
<1>4. reader.buf \o CopyOut(Source, Len(reader.buf) + 1, reader.len) = CopyOut(Source, 1, reader.len)
  BY <1>1, <1>3, CopyOutParts
<1>5. CopyOut(Source, 1, reader.len) \in Seq(Byte)
  <2>1. 1 \in Nat /\ 1 <= 1 /\ reader.len <= reader.len
    BY <1>1
  <2>. QED
    BY <1>1, <2>1, CopyOutBytes
<1>6. /\ reader'.buf = CopyOut(Source, 1, reader.len) /\ reader'.len = reader.len
      /\ reader'.pc = "done"
      /\ reader' \in [pc : {"idle", "head", "tail", "done"},
                      kind : {"out", "peek", "user", "dma"}, len : Nat, buf : Seq(Byte)]
  BY <1>1, <1>2, <1>4, <1>5 DEF Typed
<1>7. Taken'
  <2>1. \A n : CopyOut(Source, 1, n)' = CopyOut(Source, 1, n)
    BY <1>2, <1>6, ReaderParts
  <2>2. PICK n \in Nat : n = reader.len
    BY <1>1
  <2>3. CopyOut(Source, 1, n)' = CopyOut(Source, 1, reader.len)
    BY <2>1, <2>2
  <2>. QED
    BY <1>6, <2>2, <2>3 DEF Taken
<1>8. out' = Plus(out, 0) /\ 0 <= Used /\ recsize + reader'.len <= Used /\ got' \in Seq(Byte)
  BY <1>1, <1>2, <1>6 DEF RegionsDisjoint, ReaderClaim, Typed
<1>. QED
  BY <1>2, <1>6, <1>7, <1>8, ReaderKeepsIInv

\* A step that ends the call, or is one, and moves out by n.
LEMMA ReaderEndsKeepsIInv ==
  ASSUME IInv, UNCHANGED <<recsize, mask, in, data, writer>>,
         reader' = RIdle \/ (reader.pc = "idle" /\ reader' = reader), got' \in Seq(Byte),
         NEW n \in Nat, n <= Used, out' = Plus(out, n),
         recsize # 0 => n = 0 \/ n = Used \/ n = recsize + LengthAt(data, out)
  PROVE  IInv'
<1>1. RIdle \in [pc : {"idle", "head", "tail", "done"},
                 kind : {"out", "peek", "user", "dma"}, len : Nat, buf : Seq(Byte)]
      /\ RIdle.pc = "idle"
  <2>1. <<>> \in Seq(Byte)
    OBVIOUS
  <2>. QED
    BY <2>1 DEF RIdle
<1>2. /\ reader' \in [pc : {"idle", "head", "tail", "done"},
                      kind : {"out", "peek", "user", "dma"}, len : Nat, buf : Seq(Byte)]
      /\ reader'.pc = "idle"
  BY <1>1 DEF IInv, Typed
<1>3. Taken'
  BY <1>2 DEF Taken
<1>. QED
  BY <1>2, <1>3, ReaderKeepsIInv

\* How far a call moves out that took n elements, or a record.
LEMMA MovedRange ==
  ASSUME IInv, NEW n \in Nat, n <= Used, Used # 0
  PROVE  /\ Moved(n) \in Nat /\ Moved(n) <= Used
         /\ recsize # 0 => Moved(n) = recsize + LengthAt(data, out)
<1>1. CASE recsize = 0
  BY <1>1 DEF Moved
<1>2. CASE recsize # 0
  <2>1. PICK B : Chain(data, Used, B)
    BY <1>2 DEF IInv, Chained
  <2>2. /\ recsize + LengthAt(data, out) \in Nat
        /\ recsize + LengthAt(data, out) <= Used
    BY <1>2, <2>1, FirstRecord DEF IInv
  <2>3. recsize \in Nat /\ LengthAt(data, out) \in Nat
    BY Ranges, LengthIsNat DEF IInv, Typed
  <2>4. Moved(n) = recsize + LengthAt(data, out)
    <3>1. PeekN(out) = LengthAt(data, out)
      BY DEF PeekN, LengthAt
    <3>. QED
      BY <1>2, <2>3, <3>1 DEF Moved
  <2>. QED
    BY <2>2, <2>4
<1>. QED
  BY <1>1, <1>2

LEMMA ReturnKeepsIInv ==
  ASSUME IInv, Return
  PROVE  IInv'
<1>1. /\ Typed /\ RegionsDisjoint /\ reader.pc = "done" /\ reader.pc # "idle"
      /\ recsize \in Nat /\ Used \in Nat /\ Plus(out, 0) = out /\ reader.len \in Nat
  BY SourceIndex DEF IInv, Return
<1>2. PICK n \in 0..reader.len :
        /\ got' = Begins(reader.buf, n)
        /\ out' = IF reader.kind = "peek" THEN out ELSE Plus(out, Moved(n))
  BY DEF Return
<1>3. UNCHANGED <<recsize, mask, in, data, writer>> /\ reader' = RIdle
  BY DEF Return
<1>4. n \in Nat /\ n <= Used
  BY <1>1 DEF RegionsDisjoint, ReaderClaim
<1>5. got' \in Seq(Byte)
  <2>1. reader.buf = CopyOut(Source, 1, reader.len)
    BY <1>1 DEF IInv, Taken
  <2>2. 1 \in Nat /\ 1 <= 1 /\ reader.len <= reader.len /\ 1 <= reader.len + 1
        /\ reader.len - 1 + 1 = reader.len
    BY <1>1
  <2>3. reader.buf \in Seq(Byte) /\ Len(reader.buf) = reader.len
    BY <1>1, <2>1, <2>2, CopyOutBytes
  <2>. QED
    BY <1>1, <1>2, <2>3 DEF Begins
<1>6. CASE reader.kind = "peek"
  <2>1. out' = Plus(out, 0) /\ 0 \in Nat /\ 0 <= Used
    BY <1>1, <1>2, <1>6
  <2>. QED
    BY <1>3, <1>5, <2>1, ReaderEndsKeepsIInv
<1>7. CASE reader.kind # "peek" /\ Used # 0
  <2>1. PICK m \in Nat : m = Moved(n)
    BY <1>4, <1>7, MovedRange
  <2>2. m <= Used /\ (recsize # 0 => m = recsize + LengthAt(data, out)) /\ out' = Plus(out, m)
    BY <1>2, <1>4, <1>7, <2>1, MovedRange
  <2>. QED
    BY <1>3, <1>5, <2>2, ReaderEndsKeepsIInv
<1>8. CASE Used = 0
  <2>1. recsize = 0 /\ n = 0
    BY <1>1, <1>4, <1>8 DEF RegionsDisjoint, ReaderClaim
  <2>2. out' = Plus(out, 0) /\ 0 \in Nat /\ 0 <= Used
    BY <1>1, <1>2, <2>1 DEF Moved
  <2>. QED
    BY <1>3, <1>5, <2>2, ReaderEndsKeepsIInv
<1>. QED
  BY <1>6, <1>7, <1>8

LEMMA FaultOutKeepsIInv ==
  ASSUME IInv, FaultOut
  PROVE  IInv'
<1>1. /\ Typed /\ RegionsDisjoint /\ reader.pc # "idle"
      /\ recsize \in Nat /\ Used \in Nat /\ Plus(out, 0) = out /\ reader.len \in Nat
  BY SourceIndex DEF IInv, FaultOut
<1>2. PICK k \in 0..(reader.len - 1) :
        IF recsize = 0 THEN got' = CopyOut(Source, 1, k) /\ out' = Plus(out, k)
                       ELSE got' = <<>> /\ out' = out
  BY DEF FaultOut
<1>3. UNCHANGED <<recsize, mask, in, data, writer>> /\ reader' = RIdle
  BY DEF FaultOut
<1>4. k \in Nat /\ k <= reader.len /\ k <= Used
  BY <1>1 DEF RegionsDisjoint, ReaderClaim
<1>5. CASE recsize = 0
  <2>1. got' = CopyOut(Source, 1, k) /\ out' = Plus(out, k)
    BY <1>2, <1>5
  <2>2. got' \in Seq(Byte)
    <3>1. 1 \in Nat /\ 1 <= 1
      OBVIOUS
    <3>. QED
      BY <1>1, <1>4, <2>1, <3>1, CopyOutBytes
  <2>. QED
    BY <1>3, <1>4, <1>5, <2>1, <2>2, ReaderEndsKeepsIInv
<1>6. CASE recsize # 0
  <2>1. out' = Plus(out, 0) /\ 0 \in Nat /\ 0 <= Used
    BY <1>1, <1>2, <1>6
  <2>2. got' \in Seq(Byte)
    <3>1. <<>> \in Seq(Byte)
      OBVIOUS
    <3>. QED
      BY <1>2, <1>6, <3>1
  <2>. QED
    BY <1>3, <2>1, <2>2, ReaderEndsKeepsIInv
<1>. QED
  BY <1>5, <1>6

LEMMA SkipKeepsIInv ==
  ASSUME IInv, Skip
  PROVE  IInv'
<1>1. Used \in Nat /\ Used # 0
  BY MinusPlus, UsedRange DEF IInv, Typed, Skip, Used
<1>2. 1 \in Nat /\ 1 <= Used
  BY <1>1
<1>3. PICK m \in Nat : m = Moved(1)
  BY <1>1, <1>2, MovedRange
<1>4. m <= Used /\ (recsize # 0 => m = recsize + LengthAt(data, out)) /\ out' = Plus(out, m)
  BY <1>1, <1>2, <1>3, MovedRange DEF Skip
<1>5. UNCHANGED <<recsize, mask, in, data, writer>> /\ reader.pc = "idle" /\ reader' = reader
      /\ got' \in Seq(Byte)
  BY DEF Skip, IInv, Typed
<1>. QED
  BY <1>4, <1>5, ReaderEndsKeepsIInv

LEMMA ResetOutKeepsIInv ==
  ASSUME IInv, ResetOut
  PROVE  IInv'
<1>1. PICK n \in Nat : n = Used
  BY UsedRange DEF IInv, Typed
<1>2. n <= Used /\ out' = Plus(out, n)
  BY <1>1, UsedRange DEF IInv, Typed, ResetOut
<1>3. UNCHANGED <<recsize, mask, in, data, writer>> /\ reader.pc = "idle" /\ reader' = reader
      /\ got' \in Seq(Byte)
  BY DEF ResetOut, IInv, Typed
<1>. QED
  BY <1>1, <1>2, <1>3, ReaderEndsKeepsIInv
-----------------------------------------------------------------------------
(***************************************************************************)
(* Both.                                                                   *)
(***************************************************************************)
\* A fifo that is empty, with no call under way.
Empty ==
  /\ Shape /\ in = out /\ in \in Index /\ Cells(data) /\ got \in Seq(Byte)
  /\ writer.pc = "idle" /\ writer.src = <<>> /\ reader.pc = "idle"
  /\ writer \in [pc : {"idle", "head", "tail", "publish"}, kind : {"in", "user", "dma"},
                 src : Seq(Byte)]
  /\ reader \in [pc : {"idle", "head", "tail", "done"},
                 kind : {"out", "peek", "user", "dma"}, len : Nat, buf : Seq(Byte)]

LEMMA EmptyIsIInv == Empty => IInv
<1>. SUFFICES ASSUME Empty PROVE IInv
  OBVIOUS
<1>. USE DEF Empty
<1>1. Typed
  BY DEF Typed
<1>2. Used = 0 /\ Size \in Nat
  BY MinusPlus, Ranges DEF Used
<1>3. RegionsDisjoint
  BY <1>2 DEF RegionsDisjoint, WriterClaim, ReaderClaim
<1>4. Chained
  <2>1. {0} \subseteq 0..Used /\ Used \in {0} /\ \A b \in {0} : ~(b < Used)
    BY <1>2
  <2>2. PICK B : B = {0}
    OBVIOUS
  <2>3. \A b \in B : b < Used => b + recsize + LengthAt(data, Plus(out, b)) \in B
    BY <2>1, <2>2
  <2>4. Chain(data, Used, B)
    BY <2>1, <2>2, <2>3 DEF Chain
  <2>. QED
    BY <2>4 DEF Chained
<1>5. Fits
  BY LongestIsNat DEF Fits
<1>6. HeadWritten /\ Copied /\ Taken
  BY DEF HeadWritten, Copied, Taken
<1>. QED
  BY <1>1, <1>3, <1>4, <1>5, <1>6 DEF IInv

LEMMA ResetKeepsIInv ==
  ASSUME IInv, Reset
  PROVE  IInv'
<1>1. /\ in' = 0 /\ out' = 0 /\ reader.pc = "idle" /\ writer.pc = "idle"
      /\ UNCHANGED <<recsize, mask, data, writer, reader, got>>
  BY DEF Reset
<1>2. Shape' /\ Cells(data)' /\ 0 \in Index
  BY <1>1, KfifoAssumption DEF IInv, Typed, Shape, Size, Cells, Index
<1>3. writer.src = <<>>
  BY <1>1 DEF IInv, Copied
<1>4. Typed /\ in' = out' /\ in' \in Index
  BY <1>1, <1>2 DEF IInv
<1>5. /\ got' \in Seq(Byte)
      /\ writer'.pc = "idle" /\ writer'.src = <<>> /\ reader'.pc = "idle"
      /\ writer' \in [pc : {"idle", "head", "tail", "publish"}, kind : {"in", "user", "dma"},
                      src : Seq(Byte)]
      /\ reader' \in [pc : {"idle", "head", "tail", "done"},
                      kind : {"out", "peek", "user", "dma"}, len : Nat, buf : Seq(Byte)]
  BY <1>1, <1>3, <1>4 DEF Typed
<1>6. Empty'
  BY <1>2, <1>4, <1>5 DEF Empty, Index
<1>. QED
  BY <1>6, EmptyIsIInv, PTL

LEMMA InitIInv == Init => IInv
<1>. SUFFICES ASSUME Init PROVE IInv
  OBVIOUS
<1>1. PICK asked \in Requests : mask = RoundedDown(asked) - 1 /\ data = [c \in 0..(asked - 1) |-> 0]
  BY DEF Init
<1>2. PICK r : r = RoundedDown(asked)
  OBVIOUS
<1>3. /\ asked \in Nat \ {0, 1} /\ r \in 2..asked /\ IndexRange % (2 * r) = 0
      /\ IndexRange \in Nat \ {0} /\ mask = r - 1
  BY <1>1, <1>2, KfifoAssumption
<1>4. Size = r /\ mask \in Nat \ {0} /\ r \in Nat
  BY <1>3 DEF Size
<1>5. PICK p \in Nat : p = 2 * r /\ p # 0
  BY <1>3
<1>6. PICK q \in Nat : IndexRange = p * q
  <2>1. IndexRange \div p \in Nat /\ IndexRange = p * (IndexRange \div p) + (IndexRange % p)
    BY <1>3, <1>5
  <2>. QED
    BY <1>3, <1>5, <2>1
<1>7. IndexRange = Size * (2 * q) /\ 2 * q \in Nat
  BY <1>4, <1>5, <1>6
<1>8. 2 * Size <= IndexRange
  <2>1. q >= 1
    BY <1>3, <1>5, <1>6
  <2>2. p * q >= p
    BY <1>5, <2>1
  <2>. QED
    BY <1>4, <1>5, <1>6, <2>2
<1>9. Shape
  BY <1>4, <1>7, <1>8 DEF Shape, Init
<1>10. Cells(data)
  <2>1. \A c \in 0..mask : c \in 0..(asked - 1)
    BY <1>3
  <2>. QED
    BY <1>1, <2>1, BaseIsNat DEF Cells
<1>11. in = out /\ in \in Index
  BY KfifoAssumption DEF Init, Index
<1>12. <<>> \in Seq(Byte)
  OBVIOUS
<1>13. Empty
  BY <1>9, <1>10, <1>11, <1>12 DEF Empty, Init, WIdle, RIdle
<1>. QED
  BY <1>13, EmptyIsIInv

LEMMA StutterKeepsIInv ==
  ASSUME IInv, UNCHANGED vars
  PROVE  IInv'
<1>1. /\ \A x : Off(x)' = Off(x)
      /\ Used' = Used /\ Size' = Size /\ Target' = Target /\ Source' = Source
      /\ WriterClaim' = WriterClaim /\ ReaderClaim' = ReaderClaim
      /\ Longest' = Longest
  BY DEF vars, Off, Used, Size, Target, Source, WriterClaim, ReaderClaim, Longest
<1>2. /\ \A at, n : BeforeEnd(at, n)' = BeforeEnd(at, n)
      /\ \A n : CopyOut(Source, 1, n)' = CopyOut(Source, 1, n)
      /\ \A n : Written(data, n)' = Written(data, n)
      /\ \A at : LengthAt(data, at)' = LengthAt(data, at)
  BY <1>1 DEF vars, BeforeEnd, CopyOut, Written, LengthAt
<1>3. Typed'
  BY DEF vars, IInv, Typed, Shape, Size, Cells, Index
<1>4. RegionsDisjoint'
  BY <1>1 DEF IInv, RegionsDisjoint
<1>5. Chained'
  <2>1. \A n, B : Chain(data, n, B)' = Chain(data, n, B)
    BY <1>2 DEF vars, Chain
  <2>. QED
    BY <1>1, <2>1 DEF vars, IInv, Chained
<1>6. Fits' /\ HeadWritten' /\ Copied' /\ Taken'
  BY <1>1, <1>2 DEF vars, IInv, Fits, HeadWritten, Copied, Taken
<1>. QED
  BY <1>3, <1>4, <1>5, <1>6 DEF IInv

LEMMA NextIInv ==
  ASSUME Respected, IInv, [Next]_vars
  PROVE  IInv'
<1>1. ASSUME NEW kind \in {"in", "user", "dma"}, NEW content \in Contents, In(kind, content)
      PROVE  IInv'
  BY <1>1, InKeepsIInv
<1>2. ASSUME NEW kind \in {"out", "peek", "user", "dma"}, NEW asked \in 1..MaxLen,
             Out(kind, asked)
      PROVE  IInv'
  BY <1>2, OutKeepsIInv
<1>3. CASE WriteHead
  BY <1>3, WriteHeadKeepsIInv
<1>4. CASE WriteTail
  BY <1>4, WriteTailKeepsIInv
<1>5. CASE Publish
  BY <1>5, PublishKeepsIInv
<1>6. CASE FaultIn
  BY <1>6, FaultInKeepsIInv
<1>7. CASE ReadHead
  BY <1>7, ReadHeadKeepsIInv
<1>8. CASE ReadTail
  BY <1>8, ReadTailKeepsIInv
<1>9. CASE Return
  BY <1>9, ReturnKeepsIInv
<1>10. CASE FaultOut
  BY <1>10, FaultOutKeepsIInv
<1>11. CASE Skip
  BY <1>11, SkipKeepsIInv
<1>12. CASE ResetOut
  BY <1>12, ResetOutKeepsIInv
<1>13. CASE Reset
  BY <1>13, ResetKeepsIInv
<1>14. CASE UNCHANGED vars
  BY <1>14, StutterKeepsIInv
<1>. QED
  BY <1>1, <1>2, <1>3, <1>4, <1>5, <1>6, <1>7, <1>8, <1>9, <1>10, <1>11, <1>12, <1>13, <1>14
  DEF Next, Write, Read

LEMMA Inductive ==
  ASSUME Respected
  PROVE  Spec => []IInv
<1>1. IInv /\ [Next]_vars => IInv'
  BY NextIInv
<1>. QED
  BY <1>1, InitIInv, PTL DEF Spec

\* The indices stay within an unsigned integer, the buffer and what the calls
\* carry are bytes, and a call is at one of its steps.
THEOREM TypeCorrect ==
  ASSUME Respected
  PROVE  Spec => []TypeOK
<1>1. IInv => TypeOK
  <2>. SUFFICES ASSUME IInv PROVE TypeOK
    OBVIOUS
  <2>1. \A s \in Seq(Byte) : Contained(s)
    BY DEF Contained
  <2>2. recsize \in 0..2
    BY Ranges DEF IInv, Typed
  <2>3. /\ mask \in Nat \ {0} /\ in \in 0..(IndexRange - 1) /\ out \in 0..(IndexRange - 1)
        /\ 0..mask \subseteq DOMAIN data /\ \A c \in DOMAIN data : data[c] \in Byte
    BY DEF IInv, Typed, Shape, Index, Cells
  <2>4. /\ writer.pc \in {"idle", "head", "tail", "publish"}
        /\ writer.kind \in {"in", "user", "dma"} /\ writer.src \in Seq(Byte)
    BY DEF IInv, Typed
  <2>5. /\ reader.pc \in {"idle", "head", "tail", "done"} /\ reader.len \in Nat
        /\ reader.kind \in {"out", "peek", "user", "dma"} /\ reader.buf \in Seq(Byte)
    BY DEF IInv, Typed
  <2>6. got \in Seq(Byte)
    BY DEF IInv, Typed
  <2>. QED
    BY <2>1, <2>2, <2>3, <2>4, <2>5, <2>6 DEF TypeOK
<1>. QED
  BY <1>1, Inductive, PTL

\* The writer and the reader, who share no lock, never use the same cell, and
\* neither runs past the other: what the queue holds and what the call of the
\* writer is about to fill fit the buffer together, and the call of the reader
\* takes what is queued.  It holds for kfifo_in() of records only as long as
\* its callers respect the length field, which the code does not make them.
THEOREM RegionsStayDisjoint ==
  ASSUME Respected
  PROVE  Spec => []RegionsDisjoint
<1>1. IInv => RegionsDisjoint
  BY DEF IInv
<1>. QED
  BY <1>1, Inductive, PTL

\* What is queued is a number of whole records: starting from out, the length
\* found at each leads to the next, and the last one ends at in.  This is why
\* kfifo_peek_len() may be believed, and why a reader that takes or skips
\* one record by its length does not come to stand within another.
THEOREM QueueIsRecords ==
  ASSUME Respected
  PROVE  Spec => []Chained
<1>1. IInv => Chained
  BY DEF IInv
<1>. QED
  BY <1>1, Inductive, PTL
-----------------------------------------------------------------------------
(***************************************************************************)
(* What a fifo of elements holds.                                          *)
(***************************************************************************)
\* The n elements from index o, as the buffer d has them.
Elements(d, o, n) == [j \in 1..n |-> d[Off(Plus(o, j - 1))]]

LEMMA ElementsAreBytes ==
  ASSUME Shape, NEW d, Cells(d), NEW o \in Index, NEW n \in Nat, n < IndexRange
  PROVE  /\ Elements(d, o, n) \in Seq(Byte)
         /\ Len(Elements(d, o, n)) = n
         /\ \A j \in 1..n : Elements(d, o, n)[j] = d[Off(Plus(o, j - 1))]
<1>1. ASSUME NEW j \in 1..n PROVE d[Off(Plus(o, j - 1))] \in Byte
  <2>1. j - 1 \in Index
    BY KfifoAssumption DEF Index
  <2>2. Off(Plus(o, j - 1)) \in 0..mask
    BY <2>1, OffPlus
  <2>. QED
    BY <2>2 DEF Cells
<1>. DEFINE s == Elements(d, o, n)
<1>2. s = [j \in 1..n |-> d[Off(Plus(o, j - 1))]]
  BY DEF Elements
<1>. HIDE DEF s
<1>3. s \in [1..n -> Byte]
  BY <1>1, <1>2
<1>4. s \in Seq(Byte) /\ Len(s) = n
  BY <1>3
<1>. QED
  BY <1>2, <1>4 DEF s

\* Those past the first m.
LEMMA ElementsDropped ==
  ASSUME Shape, NEW d, Cells(d), NEW o \in Index, NEW n \in Nat, n < IndexRange,
         NEW m \in Nat, m <= n
  PROVE  Elements(d, Plus(o, m), n - m) = SubSeq(Elements(d, o, n), m + 1, n)
<1>1. PICK r \in Nat : r = n - m /\ m + r = n /\ r < IndexRange
  BY KfifoAssumption
<1>2. PICK p \in Index : p = Plus(o, m)
  <2>1. m \in Index
    BY KfifoAssumption DEF Index
  <2>. QED
    BY <2>1, OffPlus
<1>3. PICK s \in Seq(Byte) : s = Elements(d, o, n)
  BY ElementsAreBytes
<1>4. Len(s) = n /\ \A j \in 1..n : s[j] = d[Off(Plus(o, j - 1))]
  BY <1>3, ElementsAreBytes
<1>5. PICK t \in Seq(Byte) : t = Elements(d, p, r)
  BY <1>1, ElementsAreBytes
<1>6. Len(t) = r /\ \A j \in 1..r : t[j] = d[Off(Plus(p, j - 1))]
  BY <1>1, <1>5, ElementsAreBytes
<1>7. PICK u : u = SubSeq(s, m + 1, n)
  OBVIOUS
<1>8. u \in Seq(Byte) /\ Len(u) = r /\ \A i \in 1..r : u[i] = s[m + i]
  <2>1. PICK a \in Int : a = m + 1
    OBVIOUS
  <2>2. \A i \in a..n : s[i] \in Byte
    BY <1>3, <1>4, <2>1
  <2>3. u = SubSeq(s, a, n) /\ n - a + 1 = r /\ \A i \in 1..r : a + i - 1 = m + i
    BY <1>1, <1>7, <2>1
  <2>4. a <= n <=> r # 0
    BY <1>1, <2>1
  <2>5. u \in Seq(Byte)
    BY <2>2, <2>3, SubSeqProperties
  <2>6. Len(u) = IF a <= n THEN n - a + 1 ELSE 0
    BY <2>2, <2>3, SubSeqProperties
  <2>7. Len(u) = r
    BY <1>1, <2>3, <2>4, <2>6
  <2>8. \A i \in 1..(n - a + 1) : u[i] = s[a + i - 1]
    BY <2>2, <2>3, SubSeqProperties
  <2>9. \A i \in 1..r : u[i] = s[m + i]
    BY <2>3, <2>8
  <2>. QED
    BY <2>5, <2>7, <2>9
<1>9. ASSUME NEW i \in 1..r PROVE t[i] = u[i]
  <2>1. PICK k \in 1..n : k = m + i
    BY <1>1
  <2>2. i - 1 \in Nat /\ m + (i - 1) < IndexRange /\ k - 1 = m + (i - 1)
    BY <1>1, <2>1, KfifoAssumption
  <2>3. Plus(p, i - 1) = Plus(o, k - 1)
    BY <1>2, <2>2, PlusPlus
  <2>4. u[i] = s[k] /\ s[k] = d[Off(Plus(o, k - 1))]
    BY <1>4, <1>8, <2>1
  <2>. QED
    BY <1>6, <2>3, <2>4
<1>10. t = u
  BY <1>5, <1>6, <1>8, <1>9, SeqEqual
<1>. QED
  BY <1>1, <1>2, <1>3, <1>5, <1>7, <1>10

\* The first m.
LEMMA ElementsTaken ==
  ASSUME Shape, NEW d, Cells(d), NEW o \in Index, NEW n \in Nat, n < IndexRange,
         NEW m \in Nat, m <= n
  PROVE  Elements(d, o, m) = SubSeq(Elements(d, o, n), 1, m)
<1>3. PICK s \in Seq(Byte) : s = Elements(d, o, n)
  BY ElementsAreBytes
<1>4. Len(s) = n /\ \A j \in 1..n : s[j] = d[Off(Plus(o, j - 1))]
  BY <1>3, ElementsAreBytes
<1>5. PICK t \in Seq(Byte) : t = Elements(d, o, m)
  BY ElementsAreBytes, KfifoAssumption
<1>6. Len(t) = m /\ \A j \in 1..m : t[j] = d[Off(Plus(o, j - 1))]
  BY SMTT(30), <1>5, ElementsAreBytes, KfifoAssumption
<1>7. PICK u : u = SubSeq(s, 1, m)
  OBVIOUS
<1>8. u \in Seq(Byte) /\ Len(u) = m /\ \A i \in 1..m : u[i] = s[i]
  BY <1>3, <1>4, <1>7
<1>9. ASSUME NEW i \in 1..m PROVE t[i] = u[i]
  BY SMTT(30), <1>4, <1>6, <1>8
<1>10. t = u
  BY <1>5, <1>6, <1>8, <1>9, SeqEqual
<1>. QED
  BY <1>3, <1>5, <1>7, <1>10

\* Those that are put at the end.
LEMMA ElementsPut ==
  ASSUME Typed, recsize = 0, NEW n \in Nat, n <= Len(writer.src), Used + n < IndexRange,
         NEW d, Cells(d), SameQueue(d, data), Written(d, n)
  PROVE  Elements(d, out, Used + n) = Elements(data, out, Used) \o SubSeq(writer.src, 1, n)
<1>1. /\ Shape /\ out \in Index /\ in \in Index /\ Cells(data) /\ writer.src \in Seq(Byte)
      /\ Used \in Nat /\ Used < IndexRange /\ in = Plus(out, Used)
  BY UsedRange DEF Typed
<1>2. PICK s \in Seq(Byte) : s = Elements(data, out, Used)
  BY <1>1, ElementsAreBytes
<1>3. Len(s) = Used /\ \A j \in 1..Used : s[j] = data[Off(Plus(out, j - 1))]
  BY <1>1, <1>2, ElementsAreBytes
<1>4. PICK all \in Nat : all = Used + n
  BY <1>1
<1>5. PICK t \in Seq(Byte) : t = Elements(d, out, all)
  BY <1>1, <1>4, ElementsAreBytes
<1>6. Len(t) = all /\ \A j \in 1..all : t[j] = d[Off(Plus(out, j - 1))]
  BY <1>1, <1>4, <1>5, ElementsAreBytes
<1>7. PICK part : part = SubSeq(writer.src, 1, n)
  OBVIOUS
<1>8. part \in Seq(Byte) /\ Len(part) = n /\ \A j \in 1..n : part[j] = writer.src[j]
  <2>1. PICK src \in Seq(Byte) : src = writer.src
    BY <1>1
  <2>2. n <= Len(src) /\ part = SubSeq(src, 1, n)
    BY <1>7, <2>1
  <2>3. part \in Seq(Byte) /\ Len(part) = n /\ \A j \in 1..n : part[j] = src[j]
    BY <2>2
  <2>. QED
    BY <2>1, <2>3
<1>9. PICK u \in Seq(Byte) : u = s \o part
  BY <1>8, ConcatProperties
<1>10. /\ Len(u) = all
       /\ \A i \in 1..all : u[i] = IF i <= Used THEN s[i] ELSE part[i - Used]
  <2>1. Len(s \o part) = Len(s) + Len(part)
    BY <1>8, ConcatProperties
  <2>2. \A i \in 1..(Len(s) + Len(part)) :
          (s \o part)[i] = IF i <= Len(s) THEN s[i] ELSE part[i - Len(s)]
    BY <1>8, ConcatProperties
  <2>3. Len(u) = all
    BY <1>3, <1>4, <1>8, <1>9, <2>1
  <2>4. ASSUME NEW i \in 1..all
        PROVE  u[i] = IF i <= Used THEN s[i] ELSE part[i - Used]
    <3>1. i \in 1..(Len(s) + Len(part)) /\ Len(s) = Used
      BY <1>3, <1>4, <1>8
    <3>. QED
      BY <1>9, <2>2, <3>1
  <2>. QED
    BY <2>3, <2>4
<1>11. ASSUME NEW i \in 1..all PROVE t[i] = u[i]
  <2>1. CASE i <= Used
    <3>1. PICK k \in Nat : k = i - 1 /\ k < Used
      BY <1>1, <1>4, <2>1
    <3>2. d[Off(Plus(out, k))] = data[Off(Plus(out, k))]
      BY <3>1 DEF SameQueue
    <3>3. s[i] = data[Off(Plus(out, k))] /\ t[i] = d[Off(Plus(out, k))]
      BY <1>1, <1>3, <1>6, <2>1, <3>1
    <3>. QED
      BY <1>10, <2>1, <3>2, <3>3
  <2>2. CASE ~(i <= Used)
    <3>1. PICK k \in 1..n : k = i - Used
      BY <1>1, <1>4, <2>2
    <3>2. /\ k - 1 \in Nat /\ Used + (k - 1) < IndexRange /\ i - 1 = Used + (k - 1)
      BY <1>1, <1>4, <3>1, KfifoAssumption
    <3>3. Plus(in, k - 1) = Plus(out, i - 1)
      BY <1>1, <3>2, PlusPlus
    <3>4. Target = in
      BY <1>1, KfifoAssumption DEF Target, Plus, Index
    <3>5. d[Off(Plus(in, k - 1))] = writer.src[k]
      BY <3>4 DEF Written
    <3>6. u[i] = writer.src[k] /\ t[i] = d[Off(Plus(out, i - 1))]
      BY <1>6, <1>8, <1>10, <2>2, <3>1
    <3>. QED
      BY <3>3, <3>5, <3>6
  <2>. QED
    BY <2>1, <2>2
<1>12. t = u
  BY <1>5, <1>6, <1>9, <1>10, <1>11, SeqEqual
<1>. QED
  BY <1>2, <1>4, <1>5, <1>7, <1>9, <1>12

\* What the fifo holds, before and after a step.
LEMMA ItemsAreElements ==
  ASSUME Typed, recsize = 0
  PROVE  /\ Items = Elements(data, out, Used) /\ Used \in Nat
         /\ Items \in Seq(Byte) /\ Len(Items) = Used
<1>1. Shape /\ out \in Index /\ Cells(data) /\ Used \in Nat /\ Used < IndexRange
  BY UsedRange DEF Typed
<1>2. Used - 1 + 1 = Used /\ \A j \in 1..Used : 1 + j - 2 = j - 1
  BY <1>1
<1>3. Items = Elements(data, out, Used)
  BY <1>2 DEF Items, CopyOut, Elements
<1>. QED
  BY <1>1, <1>3, ElementsAreBytes

LEMMA ItemsNext ==
  ASSUME UNCHANGED <<recsize, mask>>, recsize = 0, NEW n \in Nat, Used' = n
  PROVE  Items' = Elements(data', out', n)
<1>1. n - 1 + 1 = n /\ \A j \in 1..n : 1 + j - 2 = j - 1
  OBVIOUS
<1>2. \A i : Off(i)' = Off(i)
  BY DEF Off, Size
<1>3. \A i, j : Plus(i, j)' = Plus(i, j)
  BY DEF Plus
<1>4. Items' = CopyOut(out, 1, Used)'
  BY DEF Items
<1>5. CopyOut(out, 1, Used)' = [j \in 1..(n - 1 + 1) |-> data'[Off(Plus(out', 1 + j - 2))]]
  BY <1>2, <1>3 DEF CopyOut
<1>. QED
  BY <1>1, <1>4, <1>5 DEF Elements

LEMMA ItemsStay ==
  ASSUME UNCHANGED <<recsize, mask, in, out>>, recsize = 0, Typed, Cells(data'),
         SameQueue(data', data)
  PROVE  Items' = Items
<1>1. PICK n \in Nat : n = Used /\ Used' = n /\ n < IndexRange
  BY UsedRange DEF Typed, Used
<1>2. Items' = Elements(data', out, n) /\ Items = Elements(data, out, n)
  BY <1>1, ItemsNext, ItemsAreElements
<1>3. \A j \in 1..n : data'[Off(Plus(out, j - 1))] = data[Off(Plus(out, j - 1))]
  <2>1. \A j \in 1..n : j - 1 \in Nat /\ j - 1 < n
    OBVIOUS
  <2>. QED
    BY <1>1, <2>1 DEF SameQueue
<1>. QED
  BY <1>2, <1>3 DEF Elements
-----------------------------------------------------------------------------
(***************************************************************************)
(* Recursion over the naturals that steps down by more than one.           *)
(***************************************************************************)
\* The order of the naturals is well founded, as a relation.
LEMMA LessThanWellFounded ==
  IsWellFoundedOn({p \in Nat \X Nat : p[1] < p[2]}, Nat)
BY NatLessThanWellFounded DEF OpToRel

\* A set of naturals that has each number all of whose predecessors it has
\* holds them all.
LEMMA StrongInduction ==
  ASSUME NEW S, \A n \in Nat : (\A k \in Nat : k < n => k \in S) => n \in S
  PROVE  \A n \in Nat : n \in S
<1>. DEFINE R == {p \in Nat \X Nat : p[1] < p[2]}
            X == {n \in Nat : n \notin S}
<1>1. SUFFICES ASSUME X # {} PROVE FALSE
  OBVIOUS
<1>2. IsWellFoundedOn(R, Nat) /\ X \in SUBSET Nat
  BY LessThanWellFounded
<1>. HIDE DEF R, X
<1>3. PICK n \in X : \A k \in X : ~(<<k, n>> \in R)
  BY <1>1, <1>2, WFMin
<1>4. n \in Nat /\ n \notin S /\ \A k \in X : ~(k < n)
  BY <1>2, <1>3 DEF R, X
<1>5. \A k \in Nat : k < n => k \in S
  BY <1>4 DEF X
<1>. QED
  BY <1>4, <1>5

\* What a recursion over 0..m that steps down by U makes of n: nothing of 0, T
\* where it would step too far, and else R[n] before the rest.
Solution(f, m, U, R, T) ==
  /\ f = [n \in 0..m |-> f[n]]
  /\ \A n \in 0..m : f[n] = IF n = 0 THEN <<>>
                            ELSE IF U[n] > n THEN T ELSE R[n] \o f[n - U[n]]

\* A recursion over 0..m that steps down by U has a solution.
LEMMA RecursionSolved ==
  ASSUME NEW m \in Nat, NEW U, NEW R, NEW T, \A n \in 1..m : U[n] \in Nat \ {0}
  PROVE  \E f : Solution(f, m, U, R, T)
<1>. DEFINE Value(f, n) == IF n = 0 THEN <<>> ELSE IF U[n] > n THEN T ELSE R[n] \o f[n - U[n]]
            Solves(f, k) == f = [n \in 0..k |-> Value(f, n)]
            S == {k \in Nat : k <= m => \E f : Solves(f, k)}
<1>1. ASSUME NEW k \in Nat, \A j \in Nat : j < k => j \in S, k <= m
      PROVE  \E f : Solves(f, k)
  <2>1. CASE k = 0
    <3>1. Solves([n \in 0..0 |-> <<>>], 0)
      BY DEF Value
    <3>. HIDE DEF Solves
    <3>. QED
      BY <2>1, <3>1
  <2>2. CASE k # 0
    <3>1. k - 1 \in Nat /\ k - 1 < k /\ k - 1 <= m
      BY <1>1, <2>2
    <3>2. k - 1 \in S
      BY <1>1, <3>1
    <3>3. \E g : Solves(g, k - 1)
      BY <3>1, <3>2
    <3>4. PICK g : Solves(g, k - 1)
      BY <3>3
    <3>. DEFINE f == [n \in 0..k |-> IF n = k THEN Value(g, k) ELSE g[n]]
    <3>5. ASSUME NEW n \in 1..k, ~(U[n] > n)
          PROVE  n - U[n] \in 0..(k - 1) /\ f[n - U[n]] = g[n - U[n]]
      <4>1. U[n] \in Nat \ {0} /\ n \in Nat
        BY <1>1, <3>5
      <4>2. n - U[n] \in 0..(k - 1)
        BY <3>5, <4>1
      <4>3. n - U[n] \in 0..k /\ n - U[n] # k
        BY <4>2
      <4>. QED
        BY <4>2, <4>3
    <3>6. \A n \in 0..k : Value(f, n) = Value(g, n)
      <4>. HIDE DEF f
      <4>1. \A n \in 0..k : n # 0 => n \in 1..k
        OBVIOUS
      <4>. QED
        BY <3>5, <4>1 DEF Value
    <3>. HIDE DEF Value
    <3>7. \A n \in 0..k : f[n] = Value(g, n)
      <4>1. \A n \in 0..k : n # k => n \in 0..(k - 1)
        OBVIOUS
      <4>2. \A n \in 0..(k - 1) : g[n] = Value(g, n)
        BY <3>4
      <4>. QED
        BY <4>1, <4>2
    <3>8. f = [n \in 0..k |-> f[n]]
      OBVIOUS
    <3>9. PICK h : h = f
      OBVIOUS
    <3>. HIDE DEF f
    <3>10. Solves(h, k)
      BY <3>6, <3>7, <3>8, <3>9
    <3>. HIDE DEF Solves
    <3>. QED
      BY <3>10
  <2>. HIDE DEF Solves
  <2>. QED
    BY <2>1, <2>2
<1>2. \A k \in Nat : k \in S
  <2>1. \A n \in Nat : (\A j \in Nat : j < n => j \in S) => n \in S
    <3>. HIDE DEF Solves
    <3>. QED
      BY <1>1
  <2>. HIDE DEF S
  <2>. QED
    BY <2>1, StrongInduction
<1>3. \E f : Solves(f, m)
  <2>. HIDE DEF Solves
  <2>. QED
    BY <1>2
<1>4. PICK f : Solves(f, m)
  BY <1>3
<1>5. f = [n \in 0..m |-> f[n]] /\ \A n \in 0..m : f[n] = Value(f, n)
  BY <1>4
<1>. QED
  BY <1>5 DEF Solution

\* f and g, which is u ahead, are of the numbers of S what a recursion makes of
\* them that puts members R[n] of X before the rest.
Unfolds(S, U, R, X, f, g, u) ==
  \A n \in S : n # 0 => /\ U[n] \in Nat \ {0} /\ n - U[n] \in S /\ R[n] \in X
                        /\ f[n] = <<R[n]>> \o f[n - U[n]]
                        /\ g[n + u] = <<R[n]>> \o g[(n - U[n]) + u]

IsContinued(S, X, f, g, u) ==
  \A n \in S : f[n] \in Seq(X) /\ g[n + u] = f[n] \o g[u]

\* If g goes on where f ends, then all of it is in front of that.
LEMMA Continued ==
  ASSUME NEW X, NEW S \in SUBSET Nat, NEW U, NEW R, NEW f, NEW g, NEW u \in Nat,
         Unfolds(S, U, R, X, f, g, u), f[0] = <<>>, g[u] \in Seq(X)
  PROVE  IsContinued(S, X, f, g, u)
<1>. USE DEF Unfolds, IsContinued
<1>. PICK t \in Seq(X) : t = g[u]
  OBVIOUS
<1>. DEFINE Good == {n \in Nat : n \in S => f[n] \in Seq(X) /\ g[n + u] = f[n] \o t}
<1>1. ASSUME NEW n \in Nat, \A k \in Nat : k < n => k \in Good, n \in S
      PROVE  f[n] \in Seq(X) /\ g[n + u] = f[n] \o t
  <2>1. CASE n = 0
    <3>1. n + u = u /\ <<>> \in Seq(X)
      BY <2>1
    <3>2. <<>> \o t = t
      OBVIOUS
    <3>. QED
      BY <2>1, <3>1, <3>2
  <2>2. CASE n # 0
    <3>1. PICK k \in Nat, r \in X : k = n - U[n] /\ k < n /\ k \in S /\ r = R[n]
      <4>1. U[n] \in Nat \ {0} /\ n - U[n] \in S /\ n - U[n] \in Nat /\ R[n] \in X
        BY <1>1, <2>2
      <4>2. n - U[n] < n
        BY <4>1
      <4>. QED
        BY <4>1, <4>2
    <3>2. f[n] = <<r>> \o f[k] /\ g[n + u] = <<r>> \o g[k + u]
      BY <1>1, <2>2, <3>1
    <3>3. f[k] \in Seq(X) /\ g[k + u] = f[k] \o t
      BY <1>1, <3>1
    <3>4. <<r>> \in Seq(X)
      OBVIOUS
    <3>5. f[n] \in Seq(X)
      BY <3>2, <3>3, <3>4, ConcatProperties
    <3>6. PICK p \in Seq(X), q \in Seq(X) : p = <<r>> /\ q = f[k]
      BY <3>3, <3>4
    <3>7. (p \o q) \o t = p \o (q \o t)
      <4>1. p \in Seq(X) /\ q \in Seq(X) /\ t \in Seq(X)
        OBVIOUS
      <4>. QED
        BY ONLY <4>1, ConcatAssociative
    <3>. QED
      BY Zenon, <3>2, <3>3, <3>5, <3>6, <3>7
  <2>. QED
    BY <2>1, <2>2
<1>2. \A n \in Nat : (\A k \in Nat : k < n => k \in Good) => n \in Good
  BY <1>1
<1>. HIDE DEF Good
<1>3. \A n \in Nat : n \in Good
  BY <1>2, StrongInduction
<1>. QED
  BY <1>3 DEF Good
-----------------------------------------------------------------------------
(***************************************************************************)
(* What a fifo of records holds, read from a buffer d up to index e: f[n]  *)
(* is what is in the last n cells.                                         *)
(***************************************************************************)
RecordAt(d, at) == Elements(d, Plus(at, recsize), LengthAt(d, at))
Width(d, at) == recsize + LengthAt(d, at)

Reads(f, d, e) ==
  /\ f[0] = <<>>
  /\ \A n \in 1..(IndexRange - 1) :
       Width(d, Minus(e, n)) <= n =>
         f[n] = <<RecordAt(d, Minus(e, n))>> \o f[n - Width(d, Minus(e, n))]

OfRecords == Typed /\ recsize # 0
ReadsRecords == Reads(RecordsWithin, data, in)

\* The recursion of RecordsWithin has a solution.
LEMMA RecordsRead == OfRecords => ReadsRecords
<1>. SUFFICES ASSUME Typed, recsize # 0 PROVE ReadsRecords
  BY DEF OfRecords
<1>. DEFINE m == IndexRange - 1
            at(n) == Minus(in, n)
            U == [n \in 1..m |-> recsize + PeekN(at(n))]
            Content(n) == CopyOut(Plus(at(n), recsize), 1, U[n] - recsize)
            R == [n \in 1..m |-> <<Content(n)>>]
            torn == <<Torn>>
            Value(f, n) == IF n = 0 THEN <<>>
                           ELSE IF U[n] > n THEN torn ELSE R[n] \o f[n - U[n]]
<1>1. m \in Nat /\ recsize \in Nat /\ recsize # 0 /\ Shape /\ Cells(data) /\ in \in Index
  BY KfifoAssumption, Ranges DEF Typed
<1>2. ASSUME NEW n \in 1..m
      PROVE  /\ at(n) \in Index
             /\ U[n] = recsize + LengthAt(data, at(n)) /\ LengthAt(data, at(n)) \in Nat
             /\ R[n] = <<RecordAt(data, at(n))>>
  <2>1. at(n) \in Index
    BY <1>1, MinusPlus DEF Index
  <2>2. LengthAt(data, at(n)) \in Nat /\ PeekN(at(n)) = LengthAt(data, at(n))
    BY <1>1, <2>1, LengthIsNat DEF PeekN, LengthAt
  <2>3. PICK l \in Nat : l = LengthAt(data, at(n)) /\ U[n] - recsize = l
                         /\ U[n] = recsize + l
    BY <1>1, <2>2
  <2>4. l - 1 + 1 = l /\ \A j \in 1..l : 1 + j - 2 = j - 1
    OBVIOUS
  <2>5. Content(n) = RecordAt(data, at(n))
    <3>. HIDE DEF U, at
    <3>. QED
      BY <2>3, <2>4 DEF CopyOut, RecordAt, Elements
  <2>. QED
    BY <2>1, <2>2, <2>5
<1>3. ASSUME NEW n \in 1..m PROVE U[n] \in Nat \ {0}
  <2>. HIDE DEF U, at
  <2>1. PICK l \in Nat : l = LengthAt(data, at(n)) /\ U[n] = recsize + l
    BY <1>2
  <2>. QED
    BY <1>1, <2>1
<1>4. \E f : f = [n \in 0..m |-> Value(f, n)]
  <2>. HIDE DEF U, R, m, torn
  <2>1. \A n \in 1..m : U[n] \in Nat \ {0}
    BY <1>3
  <2>2. PICK f : Solution(f, m, U, R, torn)
    BY <1>1, <2>1, RecursionSolved
  <2>3. f = [n \in 0..m |-> Value(f, n)]
    BY <2>2 DEF Solution
  <2>. HIDE DEF Value
  <2>. QED
    BY <2>3
<1>5. RecordsWithin = [n \in 0..m |-> Value(RecordsWithin, n)]
  <2>. DEFINE Code(f, n) ==
                IF n = 0 THEN <<>>
                ELSE LET a    == Minus(in, n)
                         used == recsize + PeekN(a) IN
                     IF used > n THEN <<Torn>>
                     ELSE <<CopyOut(Plus(a, recsize), 1, used - recsize)>> \o f[n - used]
  <2>1. \A f : \A n \in 0..m : Code(f, n) = Value(f, n)
    <3>1. \A n \in 0..m : n # 0 => n \in 1..m
      OBVIOUS
    <3>2. \A n \in 1..m : U[n] = recsize + PeekN(Minus(in, n))
      OBVIOUS
    <3>3. \A n \in 1..m : R[n] = <<CopyOut(Plus(Minus(in, n), recsize), 1, U[n] - recsize)>>
      <4>. HIDE DEF U
      <4>. QED
        OBVIOUS
    <3>. HIDE DEF U, R, m
    <3>. QED
      BY <3>1, <3>2, <3>3
  <2>. HIDE DEF Value
  <2>2. \A f : [n \in 0..m |-> Code(f, n)] = [n \in 0..m |-> Value(f, n)]
    <3>. HIDE DEF Code, m
    <3>. QED
      BY <2>1
  <2>3. \E f : f = [n \in 0..m |-> Code(f, n)]
    <3>1. PICK f : f = [n \in 0..m |-> Value(f, n)]
      BY <1>4
    <3>. HIDE DEF Code, m
    <3>2. f = [n \in 0..m |-> Code(f, n)]
      BY Zenon, <2>2, <3>1
    <3>. QED
      BY <3>2
  <2>4. RecordsWithin = [n \in 0..m |-> Code(RecordsWithin, n)]
    BY Zenon, <2>3 DEF RecordsWithin
  <2>. HIDE DEF Code, m
  <2>. QED
    BY <2>2, <2>4
<1>. HIDE DEF U, R, m, at
<1>6. RecordsWithin[0] = <<>>
  <2>1. 0 \in 0..m
    BY <1>1
  <2>. QED
    BY <1>5, <2>1
<1>7. ASSUME NEW n \in 1..m, Width(data, at(n)) <= n
      PROVE  RecordsWithin[n] = <<RecordAt(data, at(n))>> \o RecordsWithin[n - Width(data, at(n))]
  <2>1. n \in 0..m /\ n # 0
    BY <1>1
  <2>2. U[n] = Width(data, at(n)) /\ ~(U[n] > n)
    BY <1>1, <1>2, <1>7 DEF Width
  <2>. QED
    BY <1>2, <1>5, <2>1, <2>2
<1>. QED
  BY <1>6, <1>7 DEF ReadsRecords, Reads, m, at

\* And so it has after a step, the kind and the size of the fifo being fixed.
LEMMA RecordsReadNext ==
  ASSUME Typed', UNCHANGED <<recsize, mask>>, recsize # 0
  PROVE  Reads(RecordsWithin', data', in')
<1>1. OfRecords'
  BY DEF OfRecords
<1>2. ReadsRecords'
  BY <1>1, RecordsRead, PTL
<1>3. /\ \A i : Off(i)' = Off(i)
      /\ \A i, j : Plus(i, j)' = Plus(i, j)
      /\ \A n : Minus(in, n)' = Minus(in', n)
  BY DEF Off, Size, Plus, Minus
<1>4. \A i : LengthAt(data, i)' = LengthAt(data', i)
  BY <1>3 DEF LengthAt
<1>5. \A i, n : Elements(data, i, n)' = Elements(data', i, n)
  BY <1>3 DEF Elements
<1>6. /\ \A n : RecordAt(data, Minus(in, n))' = RecordAt(data', Minus(in', n))
      /\ \A n : Width(data, Minus(in, n))' = Width(data', Minus(in', n))
  BY <1>3, <1>4, <1>5 DEF RecordAt, Width
<1>. QED
  BY <1>2, <1>6 DEF ReadsRecords, Reads

\* A record of the queue reads the same from a buffer that agrees on the queue.
LEMMA RecordKept ==
  ASSUME Typed, recsize # 0, NEW d, Cells(d), SameQueue(d, data),
         NEW b \in Nat, b < Used, b + Width(data, Plus(out, b)) <= Used
  PROVE  /\ Width(data, Plus(out, b)) \in Nat \ {0}
         /\ RecordAt(data, Plus(out, b)) \in Seq(Byte)
         /\ Width(d, Plus(out, b)) = Width(data, Plus(out, b))
         /\ RecordAt(d, Plus(out, b)) = RecordAt(data, Plus(out, b))
<1>1. /\ Shape /\ out \in Index /\ Cells(data) /\ Used \in Nat /\ Used < IndexRange
      /\ recsize \in Nat /\ IndexRange \in Nat
  BY UsedRange, Ranges DEF Typed
<1>2. PICK n \in Nat : n = Used
  BY <1>1
<1>3. PICK i \in Index : i = Plus(out, b)
  <2>1. b + 0 < IndexRange
    BY <1>1
  <2>. QED
    BY <1>1, <2>1, PlusPlus
<1>4. PICK l \in Nat : l = LengthAt(data, i)
  BY <1>1, <1>3, LengthIsNat
<1>5. Width(data, i) = recsize + l /\ recsize + l \in Nat \ {0} /\ b + recsize + l <= n
  BY <1>1, <1>2, <1>3, <1>4 DEF Width
<1>6. LengthAt(d, i) = l
  <2>1. n < IndexRange /\ b + recsize <= n
    BY <1>1, <1>2, <1>5
  <2>2. \A k \in Nat : k < n => d[Off(Plus(out, k))] = data[Off(Plus(out, k))]
    BY <1>2 DEF SameQueue
  <2>. QED
    BY <1>1, <1>3, <1>4, <2>1, <2>2, SameLength
<1>7. PICK o \in Index : o = Plus(i, recsize) /\ o = Plus(out, b + recsize)
  <2>1. b + recsize < IndexRange /\ b + recsize \in Nat /\ (b + recsize) + 0 < IndexRange
    BY <1>1, <1>2, <1>5
  <2>2. Plus(Plus(out, b), recsize) = Plus(out, b + recsize) /\ Plus(out, b + recsize) \in Index
    BY <1>1, <2>1, PlusPlus
  <2>. QED
    BY <1>3, <2>2
<1>8. ASSUME NEW j \in 1..l PROVE d[Off(Plus(o, j - 1))] = data[Off(Plus(o, j - 1))]
  <2>1. PICK k \in Nat : k = (b + recsize) + (j - 1) /\ k < n /\ k < IndexRange
    BY <1>1, <1>2, <1>5
  <2>2. b + recsize \in Nat /\ j - 1 \in Nat
    BY <1>1
  <2>3. Plus(o, j - 1) = Plus(out, k)
    BY <1>1, <1>7, <2>1, <2>2, PlusPlus
  <2>. QED
    BY <1>2, <2>1, <2>3 DEF SameQueue
<1>9. Elements(d, o, l) = Elements(data, o, l)
  BY <1>8 DEF Elements
<1>10. Elements(data, o, l) \in Seq(Byte)
  <2>1. l < IndexRange
    BY <1>1, <1>2, <1>5
  <2>. QED
    BY <1>1, <2>1, ElementsAreBytes
<1>11. RecordAt(data, i) = Elements(data, o, l) /\ RecordAt(d, i) = Elements(d, o, l)
  BY <1>4, <1>6, <1>7 DEF RecordAt
<1>12. Width(d, i) = recsize + l
  BY <1>6 DEF Width
<1>. QED
  BY <1>3, <1>5, <1>9, <1>10, <1>11, <1>12

\* What the last n cells of the queue hold, where a record begins, is read the
\* same from a buffer that agrees on the queue, before what is put after it.
ReadsOn(B, f, g, u) ==
  \A b \in B : /\ f[Used - b] \in Seq(Seq(Byte))
               /\ g[(Used - b) + u] = f[Used - b] \o g[u]

LEMMA QueueReads ==
  ASSUME Typed, recsize # 0, NEW B, Chain(data, Used, B), NEW f, Reads(f, data, in),
         NEW d, Cells(d), SameQueue(d, data),
         NEW u \in Nat, Used + u < IndexRange,
         NEW g, Reads(g, d, Plus(in, u)), g[u] \in Seq(Seq(Byte))
  PROVE  ReadsOn(B, f, g, u)
<1>1. /\ out \in Index /\ in \in Index /\ Used \in Nat /\ Used < IndexRange
      /\ IndexRange \in Nat /\ in = Plus(out, Used)
  BY UsedRange, KfifoAssumption DEF Typed
<1>2. PICK n0 \in Nat : n0 = Used
  BY <1>1
<1>3. B \subseteq 0..n0 /\ \A b \in B : b < n0 => b + Width(data, Plus(out, b)) \in B
  <2>1. ASSUME NEW b \in B, b < n0 PROVE b + Width(data, Plus(out, b)) \in B
    <3>1. b + recsize + LengthAt(data, Plus(out, b)) \in B /\ b \in Nat
      BY <1>2, <2>1 DEF Chain
    <3>2. b + 0 < IndexRange
      BY <1>1, <1>2, <2>1, <3>1
    <3>3. Plus(out, b) \in Index
      BY <1>1, <3>1, <3>2, PlusPlus
    <3>4. LengthAt(data, Plus(out, b)) \in Nat /\ recsize \in Nat
      BY SMTT(30), <3>3, LengthIsNat, Ranges DEF Typed
    <3>5. b + recsize + LengthAt(data, Plus(out, b)) = b + (recsize + LengthAt(data, Plus(out, b)))
      BY <3>1, <3>4
    <3>. QED
      BY <3>1, <3>5 DEF Width
  <2>. QED
    BY <1>2, <2>1 DEF Chain
<1>. PICK e : e = Plus(in, u)
  OBVIOUS
<1>. DEFINE S == {n \in 0..n0 : n0 - n \in B}
            U == [n \in S |-> Width(data, Minus(in, n))]
            R == [n \in S |-> RecordAt(data, Minus(in, n))]
<1>4. ASSUME NEW n \in S, n # 0
      PROVE  /\ U[n] \in Nat \ {0} /\ n - U[n] \in S /\ R[n] \in Seq(Byte)
             /\ f[n] = <<R[n]>> \o f[n - U[n]]
             /\ g[n + u] = <<R[n]>> \o g[(n - U[n]) + u]
  <2>1. PICK b \in Nat : b = n0 - n /\ b \in B /\ b < n0 /\ n = n0 - b
    BY <1>4
  <2>2. PICK i \in Index : i = Plus(out, b) /\ i = Minus(in, n) /\ Minus(e, n + u) = i
    <3>1. n \in Nat /\ n0 = n + b /\ b + 0 < IndexRange /\ b + (n + u) < IndexRange
          /\ b + n < IndexRange /\ n + u \in Nat
      BY <1>1, <1>2, <2>1
    <3>2. Plus(out, b) \in Index /\ Plus(Plus(out, b), n) = in
      BY <1>1, <1>2, <2>1, <3>1, PlusPlus
    <3>3. e = Plus(Plus(out, b), n + u)
      <4>1. n0 + u < IndexRange /\ n0 + u = b + (n + u)
        BY <1>2, <3>1
      <4>2. e = Plus(out, n0 + u)
        BY <1>1, <1>2, <4>1, PlusPlus
      <4>. QED
        BY <1>1, <3>1, <4>1, <4>2, PlusPlus
    <3>4. \A k \in Nat : k < IndexRange => Minus(Plus(Plus(out, b), k), k) = Plus(out, b)
      BY <1>1, <3>2 DEF Minus, Plus, Index
    <3>5. n + u < IndexRange /\ n < IndexRange
      BY <1>1, <3>1
    <3>. QED
      BY <3>1, <3>2, <3>3, <3>4, <3>5
  <2>3. PICK w : w = Width(data, i)
    OBVIOUS
  <2>4. b + w \in B /\ b + Width(data, Plus(out, b)) <= Used /\ b + w <= n0
    <3>1. b + w \in B /\ b + w = b + Width(data, Plus(out, b))
      BY <1>3, <2>1, <2>2, <2>3
    <3>2. b + w \in 0..n0
      BY <1>3, <3>1
    <3>. QED
      BY <1>2, <3>1, <3>2
  <2>5. /\ w \in Nat \ {0} /\ RecordAt(data, i) \in Seq(Byte)
        /\ Width(d, i) = w /\ RecordAt(d, i) = RecordAt(data, i)
    BY <1>2, <2>1, <2>2, <2>3, <2>4, RecordKept
  <2>6. U[n] = w /\ R[n] = RecordAt(data, i)
    BY <2>2, <2>3
  <2>. HIDE DEF U, R
  <2>7. n - w \in S
    BY <2>1, <2>4, <2>5
  <2>8. n \in 1..(IndexRange - 1) /\ n + u \in 1..(IndexRange - 1) /\ w <= n /\ w <= n + u
        /\ (n + u) - w = (n - w) + u
    BY <1>1, <1>2, <1>4, <2>1, <2>4, <2>5
  <2>9. f[n] = <<RecordAt(data, i)>> \o f[n - w]
    BY <2>2, <2>3, <2>8 DEF Reads
  <2>10. g[n + u] = <<RecordAt(d, i)>> \o g[(n + u) - w]
    BY <2>2, <2>5, <2>8 DEF Reads
  <2>. QED
    BY <2>5, <2>6, <2>7, <2>8, <2>9, <2>10
<1>5. S \in SUBSET Nat /\ f[0] = <<>>
  BY DEF Reads
<1>6. \A b \in B : n0 - b \in S
  BY <1>2, <1>3
<1>. HIDE DEF S, U, R
<1>7. \A n \in S : f[n] \in Seq(Seq(Byte)) /\ g[n + u] = f[n] \o g[u]
  <2>1. PICK X : X = Seq(Byte)
    OBVIOUS
  <2>2. g[u] \in Seq(X) /\ f[0] = <<>> /\ S \in SUBSET Nat /\ u \in Nat
    BY <1>5, <2>1
  <2>3. Unfolds(S, U, R, X, f, g, u)
    BY <1>4, <2>1 DEF Unfolds
  <2>4. \A n \in S : f[n] \in Seq(X) /\ g[n + u] = f[n] \o g[u]
    <3>1. IsContinued(S, X, f, g, u)
      BY ONLY <2>2, <2>3, Continued
    <3>. QED
      BY <3>1 DEF IsContinued
  <2>. QED
    BY <2>1, <2>4
<1>. QED
  BY <1>2, <1>6, <1>7 DEF ReadsOn

\* What the fifo holds: a record at out, and what the cells after it hold.
LEMMA RecordItems ==
  ASSUME IInv, recsize # 0
  PROVE  /\ Items = RecordsWithin[Used] /\ Items \in Seq(Seq(Byte))
         /\ Used = 0 => Items = <<>>
         /\ Used # 0 =>
              /\ Width(data, out) \in 1..Used
              /\ RecordAt(data, out) \in Seq(Byte)
              /\ RecordsWithin[Used - Width(data, out)] \in Seq(Seq(Byte))
              /\ Items = <<RecordAt(data, out)>> \o RecordsWithin[Used - Width(data, out)]
<1>1. /\ Typed /\ Cells(data) /\ Used \in Nat /\ Used < IndexRange /\ in \in Index
      /\ IndexRange \in Nat /\ out \in Index /\ recsize \in Nat /\ Plus(out, 0) = out
      /\ in = Plus(out, Used)
  BY SourceIndex, KfifoAssumption DEF IInv, Typed
<1>2. PICK B : Chain(data, Used, B)
  BY DEF IInv, Chained
<1>3. PICK f : f = RecordsWithin
  OBVIOUS
<1>4. Reads(f, data, in)
  BY <1>1, <1>3, RecordsRead DEF OfRecords, ReadsRecords
<1>5. f[0] = <<>> /\ f[0] \in Seq(Seq(Byte))
  BY <1>4 DEF Reads
<1>6. \A b \in B : f[Used - b] \in Seq(Seq(Byte))
  <2>1. SameQueue(data, data) /\ 0 \in Nat /\ Used + 0 < IndexRange /\ in = Plus(in, 0)
    BY <1>1, KfifoAssumption DEF SameQueue, Plus, Index
  <2>. QED
    BY <1>1, <1>2, <1>4, <1>5, <2>1, QueueReads DEF ReadsOn
<1>7. Items = f[Used]
  BY <1>3 DEF Items
<1>8. Items \in Seq(Seq(Byte))
  <2>1. 0 \in B /\ Used - 0 = Used
    BY <1>1, <1>2 DEF Chain
  <2>. QED
    BY <1>6, <1>7, <2>1
<1>9. ASSUME Used # 0
      PROVE  /\ Width(data, out) \in 1..Used
             /\ RecordAt(data, out) \in Seq(Byte)
             /\ f[Used - Width(data, out)] \in Seq(Seq(Byte))
             /\ Items = <<RecordAt(data, out)>> \o f[Used - Width(data, out)]
  <2>1. PICK w : w = Width(data, out)
    OBVIOUS
  <2>2. w \in B /\ w \in Nat /\ w <= Used
    BY <1>1, <1>2, <1>9, <2>1, FirstRecord DEF Width
  <2>3. w \in Nat \ {0} /\ RecordAt(data, out) \in Seq(Byte)
    <3>1. SameQueue(data, data) /\ 0 < Used /\ 0 + Width(data, Plus(out, 0)) <= Used
      BY <1>1, <1>9, <2>1, <2>2 DEF SameQueue
    <3>. QED
      BY <1>1, <2>1, <3>1, RecordKept
  <2>4. Minus(in, Used) = out
    BY <1>1 DEF Minus, Plus, Index
  <2>5. f[Used] = <<RecordAt(data, out)>> \o f[Used - w]
    <3>1. Used \in 1..(IndexRange - 1)
      BY <1>1, <1>9
    <3>2. Width(data, Minus(in, Used)) = w /\ w <= Used
      BY <2>1, <2>2, <2>4
    <3>. QED
      BY <1>4, <2>4, <3>1, <3>2 DEF Reads
  <2>6. w \in 1..Used
    BY <2>2, <2>3
  <2>. QED
    BY <1>6, <1>7, <2>1, <2>2, <2>3, <2>5, <2>6
<1>. QED
  BY <1>3, <1>5, <1>7, <1>8, <1>9

\* After a step that leaves the queue and moves in by u: what was in the fifo,
\* and in what is left of it past its first record, is before what is put in.
LEMMA RecordsMove ==
  ASSUME IInv, Typed', recsize # 0, UNCHANGED <<recsize, mask>>, SameQueue(data', data),
         NEW u \in Nat, Used + u < IndexRange, in' = Plus(in, u),
         NEW g, g = RecordsWithin', g[u] \in Seq(Seq(Byte))
  PROVE  /\ g[Used + u] = Items \o g[u]
         /\ Used # 0 => g[(Used - Width(data, out)) + u]
                        = RecordsWithin[Used - Width(data, out)] \o g[u]
<1>1. /\ Typed /\ Used \in Nat
  BY SourceIndex DEF IInv
<1>2. PICK d : d = data'
  OBVIOUS
<1>3. Cells(d) /\ SameQueue(d, data)
  BY <1>2 DEF Typed, Cells
<1>4. PICK B : Chain(data, Used, B)
  BY DEF IInv, Chained
<1>5. PICK f : f = RecordsWithin
  OBVIOUS
<1>6. Reads(f, data, in)
  BY <1>1, <1>5, RecordsRead DEF OfRecords, ReadsRecords
<1>7. PICK e : e = in' /\ e = Plus(in, u)
  OBVIOUS
<1>8. Reads(g, d, Plus(in, u))
  BY <1>2, <1>7, RecordsReadNext
<1>9. \A b \in B : g[(Used - b) + u] = f[Used - b] \o g[u]
  <2>1. /\ Typed /\ recsize # 0 /\ Chain(data, Used, B) /\ Reads(f, data, in) 
        /\ Cells(d) /\ SameQueue(d, data) /\ u \in Nat /\ Used + u < IndexRange
        /\ Reads(g, d, Plus(in, u)) /\ g[u] \in Seq(Seq(Byte))
    BY <1>1, <1>3, <1>4, <1>6, <1>8
  <2>2. ReadsOn(B, f, g, u)
    BY ONLY <2>1, QueueReads
  <2>. QED
    BY <2>2 DEF ReadsOn
<1>10. g[Used + u] = Items \o g[u]
  <2>1. 0 \in B /\ Used - 0 = Used
    BY <1>1, <1>4 DEF Chain
  <2>2. Items = f[Used]
    BY <1>5 DEF Items
  <2>. QED
    BY <1>9, <2>1, <2>2
<1>11. ASSUME Used # 0 PROVE Width(data, out) \in B
  BY <1>1, <1>4, <1>11, FirstRecord DEF Width
<1>. QED
  BY <1>5, <1>9, <1>10, <1>11

LEMMA RecordsNext ==
  ASSUME Typed', UNCHANGED <<recsize, mask>>, recsize # 0
  PROVE  Items' = RecordsWithin'[Used'] /\ RecordsWithin'[0] = <<>>
<1>1. Reads(RecordsWithin', data', in')
  BY RecordsReadNext
<1>2. RecordsWithin'[0] = <<>>
  BY <1>1 DEF Reads
<1>3. Items' = RecordsWithin'[Used']
  BY DEF Items
<1>. QED
  BY <1>2, <1>3

\* A step that moves neither index and leaves the queue leaves what the fifo
\* holds.
LEMMA ItemsKept ==
  ASSUME IInv, Typed', UNCHANGED <<recsize, mask, in, out>>, SameQueue(data', data)
  PROVE  Items' = Items
<1>1. CASE recsize = 0
  <2>1. Typed /\ Cells(data')
    BY DEF IInv, Typed, Cells
  <2>. QED
    BY <1>1, <2>1, ItemsStay
<1>2. CASE recsize # 0
  <2>1. Used \in Nat /\ Used < IndexRange /\ in \in Index
    BY SourceIndex DEF IInv, Typed
  <2>2. Used' = Used /\ in' = Plus(in, 0) /\ Used + 0 = Used /\ 0 \in Nat
    BY <2>1, KfifoAssumption DEF Used, Minus, Plus, Index
  <2>3. PICK g : g = RecordsWithin'
    OBVIOUS
  <2>4. g[0] = <<>> /\ Items' = g[Used]
    BY <1>2, <2>2, <2>3, RecordsNext
  <2>5. g[0] \in Seq(Seq(Byte)) /\ Used + 0 < IndexRange
    BY <2>1, <2>2, <2>4
  <2>6. g[Used + 0] = Items \o g[0]
    BY <1>2, <2>2, <2>3, <2>5, RecordsMove
  <2>7. Items \in Seq(Seq(Byte))
    BY <1>2, RecordItems
  <2>8. Items \o <<>> = Items
    BY <2>7, ConcatEmptySeq
  <2>. QED
    BY <2>2, <2>4, <2>6, <2>8
<1>. QED
  BY <1>1, <1>2

\* A step that puts a record at the end.
LEMMA RecordAppended ==
  ASSUME IInv, Typed', recsize # 0, UNCHANGED <<recsize, mask, out>>, SameQueue(data', data),
         NEW l \in Nat, Used + (l + recsize) <= Size, in' = Plus(in, l + recsize),
         LengthAt(data', in) = l
  PROVE  Items' = Append(Items, Elements(data', Target, l))
<1>1. /\ Used \in Nat /\ recsize \in Nat /\ Size \in Nat /\ 2 * Size <= IndexRange
      /\ Size >= 2 /\ IndexRange \in Nat /\ in \in Index /\ out \in Index /\ Shape
  BY SourceIndex, Ranges DEF IInv, Typed
<1>2. PICK u \in Nat : u = l + recsize /\ u # 0 /\ Used + u < IndexRange /\ in' = Plus(in, u)
                       /\ l < IndexRange
  BY <1>1
<1>3. PICK d : d = data'
  OBVIOUS
<1>4. LengthAt(d, in) = l /\ Cells(d)
  BY <1>3 DEF Typed, Cells
<1>5. PICK r \in Seq(Byte) : r = Elements(d, Target, l)
  <2>1. Target \in Index
    <3>1. recsize + 0 < IndexRange
      BY <1>1, <1>2
    <3>. QED
      BY <1>1, <3>1, PlusPlus DEF Target
  <2>. QED
    BY <1>1, <1>2, <1>4, <2>1, ElementsAreBytes
<1>6. PICK g : g = RecordsWithin'
  OBVIOUS
<1>7. g[0] = <<>> /\ Items' = g[Used'] /\ Reads(g, d, in')
  BY <1>3, <1>6, RecordsNext, RecordsReadNext
<1>8. Used' = Used + u
  BY <1>1, <1>2, MinusPlus DEF Used, Minus
<1>9. g[u] = <<r>>
  <2>1. Minus(in', u) = in
    BY <1>1, <1>2 DEF Minus, Plus, Index
  <2>2. Width(d, in) = u /\ RecordAt(d, in) = r
    BY <1>1, <1>2, <1>4, <1>5 DEF Width, RecordAt, Target
  <2>3. u \in 1..(IndexRange - 1) /\ u <= u /\ u - u = 0
    BY <1>1, <1>2
  <2>4. g[u] = <<r>> \o g[0]
    BY <1>7, <2>1, <2>2, <2>3 DEF Reads
  <2>5. <<r>> \in Seq(Seq(Byte))
    OBVIOUS
  <2>. QED
    BY <1>7, <2>4, <2>5, ConcatEmptySeq
<1>10. g[u] \in Seq(Seq(Byte))
  BY <1>9
<1>11. g[Used + u] = Items \o <<r>>
  BY ZenonT(60), <1>2, <1>6, <1>9, <1>10, RecordsMove
<1>12. Items \in Seq(Seq(Byte))
  BY RecordItems
<1>13. Append(Items, r) = Items \o <<r>>
  <2>1. PICK X : X = Seq(Byte)
    OBVIOUS
  <2>2. Items \in Seq(X) /\ r \in X
    BY <1>12, <2>1
  <2>. QED
    BY ONLY <2>2, AppendIsConcat
<1>. QED
  BY <1>3, <1>5, <1>7, <1>8, <1>11, <1>13

\* A step that takes the first one away.
LEMMA RecordDropped ==
  ASSUME IInv, Typed', recsize # 0, UNCHANGED <<recsize, mask, in, data>>, Used # 0,
         out' = Plus(out, Width(data, out))
  PROVE  /\ 1 \in 0..Len(Items) /\ Items # <<>> /\ Head(Items) = RecordAt(data, out)
         /\ Promise!Drop(1)
<1>1. /\ Used \in Nat /\ Used < IndexRange /\ in \in Index /\ out \in Index
      /\ IndexRange \in Nat
  BY SourceIndex, KfifoAssumption DEF IInv, Typed
<1>2. PICK X : X = Seq(Byte)
  OBVIOUS
<1>3. PICK w \in 1..Used, r \in X, rest \in Seq(X) :
        /\ w = Width(data, out) /\ r = RecordAt(data, out)
        /\ rest = RecordsWithin[Used - w] /\ Items = <<r>> \o rest
  BY <1>1, <1>2, RecordItems
<1>4. Used' = Used - w
  BY <1>1, <1>3, MinusPlus DEF Used, Minus
<1>5. PICK g : g = RecordsWithin'
  OBVIOUS
<1>6. g[0] = <<>> /\ Items' = g[Used - w]
  BY <1>4, <1>5, RecordsNext
<1>7. Items' = rest
  <2>1. SameQueue(data', data) /\ 0 \in Nat /\ Used + 0 < IndexRange /\ in' = Plus(in, 0)
    BY <1>1, KfifoAssumption DEF SameQueue, Plus, Index
  <2>2. g[0] \in Seq(Seq(Byte))
    BY <1>6
  <2>3. g[(Used - w) + 0] = rest \o g[0]
    BY <1>3, <1>5, <2>1, <2>2, RecordsMove
  <2>4. (Used - w) + 0 = Used - w
    BY <1>1, <1>3
  <2>5. rest \o <<>> = rest
    BY ConcatEmptySeq
  <2>. QED
    BY <1>6, <2>3, <2>4, <2>5
<1>8. PICK s \in Seq(X) : s = <<r>> /\ Len(s) = 1 /\ s[1] = r
  <2>1. r \in X => <<r>> \in Seq(X) /\ Len(<<r>>) = 1 /\ <<r>>[1] = r
    BY ONLY TRUE
  <2>. QED
    BY <2>1
<1>9. PICK n \in Nat : n = Len(rest)
  OBVIOUS
<1>10. PICK all \in Seq(X) : all = s \o rest /\ all = Items
  BY <1>3, <1>8, ConcatProperties
<1>11. Len(all) = n + 1 /\ all[1] = r /\ \A i \in 1..n : all[i + 1] = rest[i]
  <2>1. Len(all) = 1 + n
    BY <1>8, <1>9, <1>10, ConcatProperties
  <2>2. \A i \in 1..(1 + n) : all[i] = IF i <= 1 THEN s[i] ELSE rest[i - 1]
    BY <1>8, <1>9, <1>10, ConcatProperties
  <2>3. \A i \in 1..n : i + 1 \in 1..(1 + n) /\ ~(i + 1 <= 1) /\ (i + 1) - 1 = i
    OBVIOUS
  <2>4. 1 \in 1..(1 + n)
    BY <1>9
  <2>. QED
    BY <1>8, <2>1, <2>2, <2>3, <2>4
<1>12. rest = SubSeq(all, 2, n + 1)
  <2>1. PICK t : t = SubSeq(all, 2, n + 1)
    OBVIOUS
  <2>2. t \in Seq(X) /\ Len(t) = n /\ \A i \in 1..n : t[i] = all[i + 1]
    BY ONLY <2>1, <1>11, all \in Seq(X), n \in Nat
  <2>. QED
    BY <1>9, <1>11, <2>1, <2>2, SeqEqual
<1>13. 1 \in 0..Len(all) /\ all # <<>> /\ Head(all) = r
  BY <1>9, <1>11
<1>14. Items' = SubSeq(Items, 1 + 1, Len(Items))
  <2>1. 1 + 1 = 2 /\ Len(Items) = n + 1
    BY <1>10, <1>11
  <2>. QED
    BY <1>7, <1>10, <1>12, <2>1
<1>. QED
  BY <1>3, <1>10, <1>13, <1>14 DEF Promise!Drop
-----------------------------------------------------------------------------
(***************************************************************************)
(* A reader does not ask for more of a record than there is.               *)
(***************************************************************************)
Asked == recsize # 0 /\ reader.pc # "idle" => reader.len <= LengthAt(data, out)

\* Where the calls of the writer leave the queue.
LEMMA WriterLeavesQueue ==
  ASSUME IInv, WriteHead \/ WriteTail \/ Publish \/ FaultIn
  PROVE  SameQueue(data', data) /\ Cells(data')
<1>1. Typed /\ RegionsDisjoint /\ writer.pc # "idle" /\ Cells(data)
  BY DEF IInv, Typed, WriteHead, WriteTail, Publish, FaultIn
<1>2. Len(writer.src) \in Nat /\ Target \in Index /\ Shape
  BY <1>1, TargetCells DEF Typed
<1>3. PICK l \in Nat : l = BeforeEnd(Target, Len(writer.src)) /\ l <= Len(writer.src)
  BY <1>2, BeforeEndRange
<1>4. Cells(Headed) /\ SameQueue(Headed, data)
  BY <1>1, HeadedKeeps
<1>5. CASE WriteHead
  <2>1. PICK e : e = data' /\ e = CopyIn(Headed, Target, writer.src, 1..l)
    BY <1>3, <1>5 DEF WriteHead
  <2>2. 1 \in Nat \ {0} /\ 0 \in Nat /\ 0 = 1 - 1
    OBVIOUS
  <2>3. Cells(e) /\ SameQueue(e, Headed)
    BY <1>1, <1>3, <1>4, <2>1, <2>2, WriterCopies
  <2>. QED
    BY <1>4, <2>1, <2>3 DEF SameQueue
<1>6. CASE WriteTail
  <2>1. PICK e : e = data' /\ e = CopyIn(data, Target, writer.src, (l + 1)..Len(writer.src))
    BY <1>3, <1>6 DEF WriteTail
  <2>2. l + 1 \in Nat \ {0} /\ l = (l + 1) - 1 /\ Len(writer.src) <= Len(writer.src)
    BY <1>2
  <2>3. Cells(e) /\ SameQueue(e, data)
    BY <1>1, <1>2, <1>3, <2>1, <2>2, WriterCopies
  <2>. QED
    BY <2>1, <2>3
<1>7. CASE Publish
  <2>1. PICK n \in 0..Len(writer.src) :
          data' = IF writer.kind = "dma" THEN PokeN(data, n) ELSE data
    BY <1>7 DEF Publish
  <2>2. CASE writer.kind = "dma"
    <3>1. PICK e : e = data' /\ e = PokeN(data, n)
      BY <2>1, <2>2
    <3>2. Cells(e)
      BY <1>1, <1>2, <3>1, WriterHeads
    <3>3. SameQueue(e, data)
      BY <1>1, <1>2, <3>1, WriterHeads
    <3>. QED
      BY <3>1, <3>2, <3>3
  <2>3. CASE writer.kind # "dma"
    BY <1>1, <2>1, <2>3 DEF SameQueue
  <2>. QED
    BY <2>2, <2>3
<1>8. CASE FaultIn
  BY <1>8, FaultInCells
<1>. QED
  BY <1>5, <1>6, <1>7, <1>8

\* The first record of the queue has the length it had.
LEMMA AskedStays ==
  ASSUME IInv, Asked, UNCHANGED <<recsize, mask, out, reader>>, SameQueue(data', data)
  PROVE  Asked'
<1>. SUFFICES ASSUME recsize # 0, reader.pc # "idle" PROVE Asked'
  BY DEF Asked
<1>1. /\ Shape /\ out \in Index /\ recsize \in Nat /\ Used \in Nat /\ Used < IndexRange
      /\ Plus(out, 0) = out /\ reader.len \in Nat
  BY SourceIndex DEF IInv, Typed
<1>2. 0 + recsize <= Used
  BY <1>1 DEF IInv, RegionsDisjoint, ReaderClaim
<1>3. PICK n \in Nat : n = Used
  BY <1>1
<1>4. PICK d : d = data'
  OBVIOUS
<1>5. \A k \in Nat : k < n => d[Off(Plus(out, k))] = data[Off(Plus(out, k))]
  BY <1>3, <1>4 DEF SameQueue
<1>6. LengthAt(d, Plus(out, 0)) = LengthAt(data, Plus(out, 0))
  <2>1. n < IndexRange /\ 0 \in Nat /\ 0 + recsize <= n
    BY <1>1, <1>2, <1>3
  <2>. QED
    BY <1>1, <1>5, <2>1, SameLength
<1>7. LengthAt(data, out)' = LengthAt(d, out)
  BY <1>4 DEF LengthAt, Off, Size, Plus
<1>8. LengthAt(data, out)' = LengthAt(data, out)
  BY <1>1, <1>6, <1>7
<1>9. reader.len <= LengthAt(data, out)
  BY DEF Asked
<1>. QED
  BY <1>8, <1>9 DEF Asked

LEMMA AskedNext ==
  ASSUME IInv, Asked, [Next]_vars
  PROVE  Asked'
<1>1. ASSUME NEW kind \in {"in", "user", "dma"}, NEW content \in Contents, In(kind, content)
      PROVE  Asked'
  BY <1>1, AskedStays DEF In, SameQueue
<1>2. ASSUME NEW kind \in {"out", "peek", "user", "dma"}, NEW asked \in 1..MaxLen,
             Out(kind, asked)
      PROVE  Asked'
  <2>. SUFFICES ASSUME recsize # 0 PROVE Asked'
    BY <1>2 DEF Asked, Out
  <2>1. LengthAt(data, out) \in Nat /\ asked \in Nat
    BY LengthIsNat, KfifoAssumption DEF IInv, Typed
  <2>2. PeekN(out) = LengthAt(data, out)
    BY DEF PeekN, LengthAt
  <2>3. /\ reader'.len = Least(asked, LengthAt(data, out))
        /\ UNCHANGED <<recsize, mask, in, out, data>>
    BY <1>2, <2>2 DEF Out
  <2>4. LengthAt(data, out)' = LengthAt(data, out)
    BY <2>3 DEF LengthAt, Off, Size, Plus
  <2>5. Least(asked, LengthAt(data, out)) <= LengthAt(data, out)
    BY <2>1 DEF Least
  <2>. QED
    BY <2>3, <2>4, <2>5 DEF Asked
<1>3. CASE WriteHead \/ WriteTail \/ Publish \/ FaultIn
  <2>1. UNCHANGED <<recsize, mask, out, reader>>
    BY <1>3 DEF WriteHead, WriteTail, Publish, FaultIn
  <2>. QED
    BY <1>3, <2>1, AskedStays, WriterLeavesQueue
<1>4. CASE ReadHead \/ ReadTail
  <2>1. /\ UNCHANGED <<recsize, mask, out, data>>
        /\ reader.pc # "idle" /\ reader'.len = reader.len
    BY <1>4 DEF ReadHead, ReadTail, IInv, Typed
  <2>2. LengthAt(data, out)' = LengthAt(data, out)
    BY <2>1 DEF LengthAt, Off, Size, Plus
  <2>. QED
    BY <2>1, <2>2 DEF Asked
<1>5. CASE Return \/ FaultOut
  BY <1>5 DEF Return, FaultOut, RIdle, Asked
<1>6. CASE Skip \/ ResetOut \/ Reset
  BY <1>6 DEF Skip, ResetOut, Reset, Asked
<1>7. CASE UNCHANGED vars
  BY <1>7, AskedStays DEF vars, SameQueue
<1>. QED
  BY <1>1, <1>2, <1>3, <1>4, <1>5, <1>6, <1>7 DEF Next, Write, Read

LEMMA InductiveAsked ==
  ASSUME Respected
  PROVE  Spec => [](IInv /\ Asked)
<1>1. Init => Asked
  BY DEF Init, RIdle, Asked
<1>2. Asked /\ IInv /\ [Next]_vars => Asked'
  BY AskedNext
<1>. QED
  BY <1>1, <1>2, Inductive, PTL DEF Spec

\* What a fifo of records holds is whole records, so that kfifo_peek_len() may
\* be believed of each, and taking one leaves out at the start of the next.
THEOREM RecordsStayWhole ==
  ASSUME Respected
  PROVE  Spec => []RecordsWhole
<1>1. ASSUME IInv PROVE RecordsWhole
  <2>. SUFFICES ASSUME recsize # 0, NEW k \in DOMAIN Items, Items[k] = Torn PROVE FALSE
    BY DEF RecordsWhole
  <2>1. PICK X : X = Seq(Byte)
    OBVIOUS
  <2>2. Items \in Seq(X)
    BY <1>1, <2>1, RecordItems
  <2>3. Items[k] \in X
    BY <2>2
  <2>4. <<Base>> \in Seq(Byte)
    BY <2>1, <2>3 DEF Torn
  <2>5. <<Base>>[1] \in Byte
    BY ONLY <2>4
  <2>6. Base \in Byte
    BY ONLY <2>5
  <2>. QED
    BY ONLY <2>6, BaseIsNat DEF Byte
<1>. QED
  BY <1>1, Inductive, PTL
-----------------------------------------------------------------------------
(***************************************************************************)
(* Steps of either kind of fifo.                                           *)
(***************************************************************************)
LEMMA Offers ==
  ASSUME IInv, IInv', NEW kind \in {"in", "user", "dma"}, NEW content \in Contents,
         In(kind, content)
  PROVE  Promise!Offer
<1>1. writer.src = <<>> /\ writer'.src \in Seq(Byte) /\ got' = got /\ recsize' = recsize
  BY DEF In, IInv, Copied, Typed
<1>2. Items' = Items
  <2>1. UNCHANGED <<recsize, mask, in, out>> /\ SameQueue(data', data)
    BY DEF In, SameQueue
  <2>. QED
    BY <2>1, ItemsKept DEF IInv
<1>. QED
  BY <1>1, <1>2 DEF Promise!Offer

LEMMA Stutters ==
  ASSUME IInv, IInv', WriteHead \/ WriteTail \/ ReadHead \/ ReadTail \/ UNCHANGED vars
  PROVE  UNCHANGED Promise!vars
<1>1. UNCHANGED <<recsize, mask, in, out, got>> /\ writer'.src = writer.src
  BY DEF WriteHead, WriteTail, ReadHead, ReadTail, vars, IInv, Typed
<1>2. SameQueue(data', data)
  <2>1. CASE WriteHead \/ WriteTail
    BY <2>1, WriterLeavesQueue
  <2>2. CASE ReadHead \/ ReadTail \/ UNCHANGED vars
    BY <2>2 DEF ReadHead, ReadTail, vars, SameQueue
  <2>. QED
    BY <2>1, <2>2
<1>3. Items' = Items
  BY <1>1, <1>2, ItemsKept DEF IInv
<1>. QED
  BY <1>1, <1>3 DEF Promise!vars

LEMMA FirstItem ==
  ASSUME IInv, recsize # 0, Used # 0
  PROVE  Items # <<>> /\ Head(Items) = RecordAt(data, out)
<1>1. PICK X : X = Seq(Byte)
  OBVIOUS
<1>2. PICK r \in X, rest \in Seq(X) : r = RecordAt(data, out) /\ Items = <<r>> \o rest
  BY <1>1, RecordItems
<1>3. r \in X => <<r>> \in Seq(X) /\ Len(<<r>>) = 1 /\ <<r>>[1] = r
  BY ONLY TRUE
<1>4. PICK s \in Seq(X) : s = <<r>> /\ Len(s) = 1 /\ s[1] = r
  BY <1>3
<1>5. PICK all \in Seq(X) : all = s \o rest /\ all = Items
  BY <1>2, <1>4, ConcatProperties
<1>6. Len(all) = 1 + Len(rest) /\ all[1] = r
  BY <1>4, <1>5, ConcatProperties
<1>. QED
  BY <1>2, <1>5, <1>6

\* A step that hands out nothing, or something of a first record.
LEMMA Peeks ==
  ASSUME IInv, IInv', UNCHANGED <<recsize, mask, in, out, data, writer>>,
         \/ got' = <<>>
         \/ recsize # 0 /\ Used # 0 /\ got' \in Promise!Beginnings(RecordAt(data, out))
  PROVE  Promise!Peek
<1>1. Items' = Items
  BY ItemsKept DEF IInv, SameQueue
<1>2. \A s : s \in Seq(Byte) \/ s \in Seq(Seq(Byte)) => <<>> \in Promise!Beginnings(s)
  <2>1. ASSUME NEW s, Len(s) \in Nat PROVE <<>> \in Promise!Beginnings(s)
    <3>1. 0 \in 0..Len(s) /\ SubSeq(s, 1, 0) = <<>>
      BY <2>1
    <3>. QED
      BY <3>1 DEF Promise!Beginnings
  <2>. QED
    BY <2>1
<1>3. CASE recsize = 0
  <2>1. Items \in Seq(Byte)
    BY <1>3, ItemsAreElements DEF IInv
  <2>. QED
    BY <1>1, <1>2, <1>3, <2>1 DEF Promise!Peek
<1>4. CASE recsize # 0
  <2>1. CASE Used = 0
    BY <1>1, <1>4, <2>1, RecordItems DEF Promise!Peek
  <2>2. CASE Used # 0
    <3>2. RecordAt(data, out) \in Seq(Byte)
      BY <1>4, <2>2, RecordItems
    <3>4. Items # <<>> /\ Head(Items) = RecordAt(data, out)
      BY <1>4, <2>2, FirstItem
    <3>3. got' \in Promise!Beginnings(Head(Items))
      BY <1>2, <3>2, <3>4
    <3>. QED
      BY <1>1, <1>4, <3>3, <3>4 DEF Promise!Peek
  <2>. QED
    BY <2>1, <2>2
<1>. QED
  BY <1>3, <1>4

LEMMA Clears ==
  ASSUME IInv, IInv', ResetOut \/ Reset
  PROVE  Promise!Discard
<1>1. UNCHANGED <<recsize, mask, data, writer, got>> /\ in' = out'
  BY DEF ResetOut, Reset
<1>2. Used' = 0
  <2>1. in' \in Index
    BY DEF IInv, Typed
  <2>2. PICK i \in Int : i = in' /\ i = out'
    BY <1>1, <2>1, KfifoAssumption DEF Index
  <2>3. Used' = IF i <= i THEN i - i ELSE i - i + IndexRange
    BY <2>2 DEF Used, Minus
  <2>. QED
    BY <2>3
<1>3. Items' = <<>> /\ (Items \in Seq(Byte) \/ Items \in Seq(Seq(Byte)))
  <2>1. CASE recsize = 0
    <3>1. Items' = Elements(data', out', 0)
      BY <1>1, <1>2, <2>1, ItemsNext
    <3>. QED
      BY <2>1, <3>1, ItemsAreElements DEF IInv, Elements
  <2>2. CASE recsize # 0
    BY <1>1, <1>2, <2>2, RecordsNext, RecordItems DEF IInv
  <2>. QED
    BY <2>1, <2>2
<1>4. PICK n \in Nat : n = Len(Items)
  BY <1>3
<1>5. SubSeq(Items, n + 1, n) = <<>>
  BY <1>4, SubSeqEmpty
<1>6. n \in 0..Len(Items) /\ Promise!Drop(n)
  BY <1>3, <1>4, <1>5 DEF Promise!Drop
<1>. QED
  BY <1>1, <1>6 DEF Promise!Discard
-----------------------------------------------------------------------------
(***************************************************************************)
(* Steps of a fifo of elements.                                            *)
(***************************************************************************)
\* A call that ends with n elements in place.
LEMMA EndPuts ==
  ASSUME IInv, recsize = 0, UNCHANGED <<recsize, mask, out, got>>, writer' = WIdle,
         writer.pc # "idle", NEW n \in 0..Len(writer.src), in' = Plus(in, n),
         Cells(data'), SameQueue(data', data), Written(data', n)
  PROVE  Promise!Put
<1>1. /\ Typed /\ Len(writer.src) \in Nat /\ Used \in Nat /\ Size \in Nat
      /\ IndexRange \in Nat /\ 2 * Size <= IndexRange /\ Size >= 2
  BY UsedRange, Ranges DEF IInv, Typed
<1>2. n \in Nat /\ n <= Len(writer.src) /\ Used + n < IndexRange
  BY <1>1 DEF IInv, RegionsDisjoint, WriterClaim
<1>3. PICK m \in Nat : m = Used + n
  BY <1>1, <1>2
<1>4. Used' = m
  BY <1>1, <1>2, <1>3, MinusPlus DEF Used, Minus, Typed
<1>5. PICK e : e = data'
  OBVIOUS
<1>6. Elements(e, out, Used + n) = Elements(data, out, Used) \o SubSeq(writer.src, 1, n)
  BY <1>1, <1>2, <1>5, ElementsPut
<1>7. Items' = Elements(e, out, m)
  BY <1>4, <1>5, ItemsNext
<1>8. Items = Elements(data, out, Used)
  BY <1>1, ItemsAreElements
<1>9. Items' = Items \o SubSeq(writer.src, 1, n)
  BY <1>3, <1>6, <1>7, <1>8
<1>10. SubSeq(writer.src, 1, n) \in Promise!Beginnings(writer.src)
  BY DEF Promise!Beginnings
<1>11. writer'.src = <<>>
  BY DEF WIdle
<1>. QED
  BY <1>9, <1>10, <1>11 DEF Promise!Put

LEMMA PublishPuts ==
  ASSUME IInv, recsize = 0, Publish
  PROVE  Promise!Put
<1>1. PICK n \in 0..Len(writer.src) :
        /\ data' = IF writer.kind = "dma" THEN PokeN(data, n) ELSE data
        /\ in' = Plus(in, n + recsize)
  BY DEF Publish
<1>2. data' = data /\ in' = Plus(in, n)
  BY <1>1 DEF PokeN
<1>3. UNCHANGED <<recsize, mask, out, got>> /\ writer' = WIdle /\ writer.pc # "idle"
  BY DEF Publish
<1>4. Cells(data') /\ SameQueue(data', data)
  BY <1>2 DEF IInv, Typed, SameQueue
<1>5. Written(data', n)
  <2>1. Written(data, Len(writer.src)) /\ Len(writer.src) \in Nat
    BY DEF Publish, IInv, Copied, Typed
  <2>2. \A j \in 1..n : j \in 1..Len(writer.src)
    BY <2>1
  <2>. QED
    BY <1>2, <2>1, <2>2 DEF Written
<1>. QED
  BY <1>2, <1>3, <1>4, <1>5, EndPuts

LEMMA FaultInPuts ==
  ASSUME IInv, recsize = 0, FaultIn
  PROVE  Promise!Put
<1>1. writer.pc # "idle" /\ Cells(data') /\ SameQueue(data', data)
  BY FaultInCells
<1>2. PICK k \in Nat : /\ k < Len(writer.src)
                       /\ in' = IF recsize = 0 THEN Plus(in, k) ELSE in
                       /\ Written(data', k)
  BY FaultInCells
<1>3. k \in 0..Len(writer.src) /\ in' = Plus(in, k)
  BY <1>2 DEF IInv, Typed
<1>4. UNCHANGED <<recsize, mask, out, got>> /\ writer' = WIdle
  BY DEF FaultIn
<1>. QED
  BY <1>1, <1>2, <1>3, <1>4, EndPuts

\* A step that leaves the queue and hands out the first n elements of it.
LEMMA ShowsFirst ==
  ASSUME IInv, recsize = 0, UNCHANGED <<recsize, mask, in, out, data, writer>>,
         NEW n \in Nat, n <= Used, got' = Elements(data, out, n)
  PROVE  Promise!Peek
<1>1. Shape /\ out \in Index /\ Cells(data) /\ Used \in Nat /\ Used < IndexRange /\ Typed
  BY UsedRange DEF IInv, Typed
<1>2. Elements(data, out, n) = SubSeq(Elements(data, out, Used), 1, n)
  BY <1>1, ElementsTaken
<1>3. Items = Elements(data, out, Used) /\ Len(Items) = Used
  BY <1>1, ItemsAreElements
<1>4. got' = SubSeq(Items, 1, n) /\ n \in 0..Len(Items)
  BY <1>1, <1>2, <1>3
<1>5. Items' = Items
  <2>1. Typed /\ Cells(data') /\ SameQueue(data', data)
    BY <1>1 DEF SameQueue
  <2>. QED
    BY <2>1, ItemsStay
<1>. QED
  BY <1>4, <1>5 DEF Promise!Peek, Promise!Beginnings

\* A step that drops the first n.
LEMMA DropsFirst ==
  ASSUME IInv, recsize = 0, UNCHANGED <<recsize, mask, in, data, writer>>,
         NEW n \in Nat, n <= Used, out' = Plus(out, n)
  PROVE  n \in 0..Len(Items) /\ Promise!Drop(n)
<1>1. Shape /\ in \in Index /\ out \in Index /\ Cells(data)
      /\ Used \in Nat /\ Used < IndexRange /\ Typed
  BY UsedRange DEF IInv, Typed
<1>2. PICK r \in Nat : r = Used - n
  BY <1>1
<1>3. Used' = r
  BY <1>1, <1>2, MinusPlus DEF Used, Minus
<1>4. Items' = Elements(data, Plus(out, n), r)
  BY <1>3, ItemsNext
<1>5. Items = Elements(data, out, Used) /\ Len(Items) = Used
  BY <1>1, ItemsAreElements
<1>6. Elements(data, Plus(out, n), Used - n) = SubSeq(Elements(data, out, Used), n + 1, Used)
  BY <1>1, ElementsDropped
<1>7. n \in 0..Len(Items)
  BY <1>1, <1>5
<1>. QED
  BY <1>2, <1>4, <1>5, <1>6, <1>7 DEF Promise!Drop

\* A step that does both.
LEMMA TakesFirst ==
  ASSUME IInv, recsize = 0, UNCHANGED <<recsize, mask, in, data, writer>>,
         NEW n \in Nat, n <= Used, out' = Plus(out, n), got' = Elements(data, out, n)
  PROVE  Promise!Take \/ Promise!Peek
<1>1. Shape /\ out \in Index /\ Cells(data) /\ Used \in Nat /\ Used < IndexRange /\ Typed
      /\ Plus(out, 0) = out
  BY UsedRange, SourceIndex DEF IInv, Typed
<1>2. CASE n = 0
  <2>1. out' = out
    BY <1>1, <1>2
  <2>. QED
    BY <2>1, ShowsFirst
<1>3. CASE n # 0
  <2>1. n \in 0..Len(Items) /\ Promise!Drop(n)
    BY DropsFirst
  <2>2. Elements(data, out, n) = SubSeq(Elements(data, out, Used), 1, n)
    BY <1>1, ElementsTaken
  <2>3. Items = Elements(data, out, Used) /\ Len(Items) = Used
    BY <1>1, ItemsAreElements
  <2>4. n \in 1..Len(Items) /\ got' = SubSeq(Items, 1, n)
    BY <1>1, <1>3, <2>1, <2>2, <2>3
  <2>. QED
    BY <2>1, <2>4 DEF Promise!Take
<1>. QED
  BY <1>2, <1>3

\* What was copied from a fifo of elements.
LEMMA CopiedElements ==
  ASSUME IInv, recsize = 0, NEW n \in Nat
  PROVE  CopyOut(Source, 1, n) = Elements(data, out, n)
<1>1. Source = out
  BY SourceIndex DEF IInv, Source
<1>2. n - 1 + 1 = n /\ \A j \in 1..n : 1 + j - 2 = j - 1
  OBVIOUS
<1>. QED
  BY <1>1, <1>2 DEF CopyOut, Elements

LEMMA ReturnTakes ==
  ASSUME IInv, recsize = 0, Return
  PROVE  Promise!Take \/ Promise!Peek
<1>1. /\ Typed /\ RegionsDisjoint /\ reader.pc = "done" /\ reader.len \in Nat /\ Used \in Nat
      /\ Shape /\ out \in Index /\ Cells(data) /\ Used < IndexRange
  BY SourceIndex DEF IInv, Return, Typed
<1>2. PICK n \in 0..reader.len :
        /\ got' = Begins(reader.buf, n)
        /\ out' = IF reader.kind = "peek" THEN out ELSE Plus(out, Moved(n))
  BY DEF Return
<1>3. n \in Nat /\ n <= Used /\ n <= reader.len /\ reader.len <= Used /\ Moved(n) = n
  BY <1>1 DEF RegionsDisjoint, ReaderClaim, Moved
<1>4. UNCHANGED <<recsize, mask, in, data, writer>>
  BY DEF Return
<1>5. got' = Elements(data, out, n)
  <2>1. PICK m \in Nat : m = reader.len
    BY <1>1
  <2>2. m < IndexRange /\ n <= m
    BY <1>1, <1>3, <2>1, KfifoAssumption
  <2>3. Elements(data, out, n) = SubSeq(Elements(data, out, m), 1, n)
    BY <1>1, <1>3, <2>2, ElementsTaken
  <2>4. reader.buf = Elements(data, out, m)
    BY <1>1, <2>1, CopiedElements DEF IInv, Taken
  <2>. QED
    BY <1>2, <2>3, <2>4 DEF Begins
<1>6. CASE reader.kind = "peek"
  BY <1>2, <1>3, <1>4, <1>5, <1>6, ShowsFirst
<1>7. CASE reader.kind # "peek"
  BY <1>2, <1>3, <1>4, <1>5, <1>7, TakesFirst
<1>. QED
  BY <1>6, <1>7

LEMMA FaultOutTakes ==
  ASSUME IInv, recsize = 0, FaultOut
  PROVE  Promise!Take \/ Promise!Peek
<1>1. RegionsDisjoint /\ reader.pc # "idle" /\ reader.len \in Nat /\ Used \in Nat
  BY SourceIndex DEF IInv, FaultOut
<1>2. PICK k \in 0..(reader.len - 1) : got' = CopyOut(Source, 1, k) /\ out' = Plus(out, k)
  BY DEF FaultOut
<1>3. k \in Nat /\ k <= Used
  BY <1>1 DEF RegionsDisjoint, ReaderClaim
<1>4. got' = Elements(data, out, k)
  BY <1>2, <1>3, CopiedElements
<1>5. UNCHANGED <<recsize, mask, in, data, writer>>
  BY DEF FaultOut
<1>. QED
  BY <1>2, <1>3, <1>4, <1>5, TakesFirst

LEMMA SkipDiscards ==
  ASSUME IInv, recsize = 0, Skip
  PROVE  Promise!Discard
<1>1. Used \in Nat /\ Used # 0
  BY MinusPlus, UsedRange DEF IInv, Typed, Skip, Used
<1>2. PICK n \in Nat : n = 1 /\ n <= Used /\ out' = Plus(out, n)
  <2>1. Moved(1) = 1 /\ 1 \in Nat /\ 1 <= Used
    BY <1>1 DEF Moved
  <2>. QED
    BY <2>1 DEF Skip
<1>3. UNCHANGED <<recsize, mask, in, data, writer, got>>
  BY DEF Skip
<1>4. n \in 0..Len(Items) /\ Promise!Drop(n)
  BY <1>2, <1>3, DropsFirst
<1>. QED
  BY <1>3, <1>4 DEF Promise!Discard
-----------------------------------------------------------------------------
(***************************************************************************)
(* Steps of a fifo of records.                                             *)
(***************************************************************************)
LEMMA PublishAppends ==
  ASSUME IInv, IInv', recsize # 0, Publish
  PROVE  Promise!Put
<1>1. /\ Typed /\ Typed' /\ RegionsDisjoint /\ writer.pc = "publish" /\ writer.pc # "idle"
      /\ Cells(data) /\ Len(writer.src) \in Nat /\ recsize \in Nat
      /\ Used \in Nat /\ Size \in Nat
  BY Ranges, UsedRange DEF IInv, Publish, Typed
<1>2. PICK n \in 0..Len(writer.src) :
        /\ writer.kind # "dma" => n = Len(writer.src)
        /\ data' = IF writer.kind = "dma" THEN PokeN(data, n) ELSE data
        /\ in' = Plus(in, n + recsize)
  BY DEF Publish
<1>3. UNCHANGED <<recsize, mask, out, got>> /\ writer' = WIdle /\ n \in Nat
  BY DEF Publish
<1>4. PICK d : d = data'
  OBVIOUS
<1>5. SameQueue(data', data) /\ LengthAt(d, in) = n /\ Written(d, n)
  <2>1. Written(data, Len(writer.src))
    BY <1>1 DEF IInv, Copied
  <2>2. CASE writer.kind = "dma"
    <3>1. d = PokeN(data, n)
      BY <1>2, <1>4, <2>2
    <3>2. n <= Longest
      <4>1. Longest \in Nat /\ Len(writer.src) <= Longest
        BY LongestIsNat DEF Fits, IInv
      <4>. QED
        BY <1>1, <1>3, <4>1
    <3>3. LengthAt(d, in) = n
      BY <1>1, <1>3, <3>1, <3>2, WriterHeads
    <3>4. SameContent(d, data)
      BY <1>1, <1>3, <3>1, WriterHeads
    <3>5. \A j \in 1..n : j \in 1..Len(writer.src)
      BY <1>1, <1>3
    <3>6. Written(d, n)
      BY <2>1, <3>4, <3>5 DEF Written, SameContent
    <3>. QED
      BY <3>3, <3>6, WriterLeavesQueue
  <2>3. CASE writer.kind # "dma"
    <3>1. d = data /\ n = Len(writer.src)
      BY <1>2, <1>4, <2>3
    <3>2. LengthAt(data, in) = n
      BY <1>1, <2>3, <3>1 DEF HeadWritten, IInv
    <3>. QED
      BY <2>1, <3>1, <3>2, WriterLeavesQueue
  <2>. QED
    BY <2>2, <2>3
<1>6. Used + (n + recsize) <= Size
  BY <1>1, <1>3 DEF RegionsDisjoint, WriterClaim
<1>7. Items' = Append(Items, Elements(d, Target, n))
  BY <1>1, <1>2, <1>3, <1>4, <1>5, <1>6, RecordAppended
<1>8. Elements(d, Target, n) = SubSeq(writer.src, 1, n)
  <2>1. Elements(d, Target, n) = [j \in 1..n |-> writer.src[j]]
    BY <1>5 DEF Elements, Written
  <2>2. PICK src \in Seq(Byte) : src = writer.src
    BY <1>1 DEF Typed
  <2>3. n \in 0..Len(src) => SubSeq(src, 1, n) = [j \in 1..n |-> src[j]]
    BY ONLY src \in Seq(Byte)
  <2>. QED
    BY <2>1, <2>2, <2>3
<1>9. SubSeq(writer.src, 1, n) \in Promise!Beginnings(writer.src)
  BY DEF Promise!Beginnings
<1>10. writer'.src = <<>>
  BY <1>3 DEF WIdle
<1>. QED
  BY <1>3, <1>7, <1>8, <1>9, <1>10 DEF Promise!Put

LEMMA FaultInRefuses ==
  ASSUME IInv, IInv', recsize # 0, FaultIn
  PROVE  Promise!Refuse
<1>1. UNCHANGED <<recsize, mask, in, out, got>> /\ writer'.src = <<>>
  BY DEF FaultIn, WIdle
<1>2. Items' = Items
  BY <1>1, ItemsKept, WriterLeavesQueue DEF IInv
<1>. QED
  BY <1>1, <1>2 DEF Promise!Refuse

\* What the reader has of the first record.
LEMMA PartOfRecord ==
  ASSUME IInv, Asked, recsize # 0, reader.pc = "done"
  PROVE  /\ Used # 0
         /\ Begins(reader.buf, reader.len) \in Promise!Beginnings(RecordAt(data, out))
<1>1. /\ Shape /\ out \in Index /\ Cells(data) /\ recsize \in Nat /\ Used \in Nat
      /\ Used < IndexRange /\ Source \in Index /\ reader.len \in Nat
  BY SourceIndex DEF IInv, Typed
<1>2. Used # 0
  BY <1>1 DEF IInv, RegionsDisjoint, ReaderClaim
<1>3. PICK m \in Nat : m = reader.len
  BY <1>1
<1>4. PICK l \in Nat : l = LengthAt(data, out) /\ m <= l /\ l < IndexRange
  <2>1. Width(data, out) \in 1..Used
    BY <1>2, RecordItems
  <2>2. LengthAt(data, out) \in Nat
    BY <1>1, LengthIsNat
  <2>3. LengthAt(data, out) < IndexRange
    BY <1>1, <2>1, <2>2, KfifoAssumption DEF Width
  <2>. QED
    BY <1>3, <2>2, <2>3 DEF Asked
<1>5. PICK r \in Seq(Byte) : r = RecordAt(data, out) /\ r = Elements(data, Source, l) /\ Len(r) = l
  BY <1>1, <1>4, ElementsAreBytes DEF RecordAt, Source
<1>6. Elements(data, Source, m) = SubSeq(r, 1, m)
  BY <1>1, <1>4, <1>5, ElementsTaken
<1>7. reader.buf = Elements(data, Source, m)
  <2>1. reader.buf = CopyOut(Source, 1, m)
    BY <1>3 DEF IInv, Taken
  <2>2. m - 1 + 1 = m /\ \A j \in 1..m : 1 + j - 2 = j - 1
    OBVIOUS
  <2>. QED
    BY <2>1, <2>2 DEF CopyOut, Elements
<1>8. PICK b \in Seq(Byte) : b = reader.buf
  BY DEF IInv, Typed
<1>9. b = SubSeq(r, 1, m) /\ SubSeq(b, 1, m) = b
  <2>1. b = SubSeq(r, 1, m)
    BY <1>6, <1>7, <1>8
  <2>2. Len(b) = m
    BY <1>4, <1>5, <2>1
  <2>3. SubSeq(b, 1, Len(b)) = b
    BY SubSeqFull
  <2>. QED
    BY <2>1, <2>2, <2>3
<1>10. Begins(reader.buf, reader.len) = SubSeq(r, 1, m) /\ m \in 0..Len(r)
  BY <1>3, <1>4, <1>5, <1>8, <1>9 DEF Begins
<1>. QED
  BY <1>2, <1>5, <1>10 DEF Promise!Beginnings

LEMMA ReturnTakesRecord ==
  ASSUME IInv, IInv', Asked, recsize # 0, Return
  PROVE  Promise!Take \/ Promise!Peek
<1>1. /\ UNCHANGED <<recsize, mask, in, data, writer>> /\ reader.pc = "done"
      /\ got' = Begins(reader.buf, reader.len)
      /\ out' = IF reader.kind = "peek" THEN out ELSE Plus(out, PeekN(out) + recsize)
  BY DEF Return, Moved
<1>2. Used # 0 /\ got' \in Promise!Beginnings(RecordAt(data, out))
  BY <1>1, PartOfRecord
<1>3. CASE reader.kind = "peek"
  BY <1>1, <1>2, <1>3, Peeks
<1>4. CASE reader.kind # "peek"
  <2>1. out' = Plus(out, Width(data, out))
    <3>1. LengthAt(data, out) \in Nat /\ recsize \in Nat /\ PeekN(out) = LengthAt(data, out)
      BY SMTT(30), LengthIsNat, Ranges DEF IInv, Typed, PeekN, LengthAt
    <3>2. PeekN(out) + recsize = Width(data, out)
      BY <3>1 DEF Width
    <3>. QED
      BY <1>1, <1>4, <3>2
  <2>2. Items # <<>> /\ Head(Items) = RecordAt(data, out) /\ Promise!Drop(1)
    BY <1>1, <1>2, <2>1, RecordDropped DEF IInv
  <2>. QED
    BY <1>1, <1>2, <2>2 DEF Promise!Take
<1>. QED
  BY <1>3, <1>4

LEMMA FaultOutPeeks ==
  ASSUME IInv, IInv', recsize # 0, FaultOut
  PROVE  Promise!Peek
BY Peeks DEF FaultOut

LEMMA SkipDiscardsRecord ==
  ASSUME IInv, IInv', recsize # 0, Skip
  PROVE  Promise!Discard
<1>1. Used \in Nat /\ Used # 0
  BY MinusPlus, UsedRange DEF IInv, Typed, Skip, Used
<1>2. UNCHANGED <<recsize, mask, in, data, writer, got>> /\ out' = Plus(out, PeekN(out) + recsize)
  BY DEF Skip, Moved
<1>3. out' = Plus(out, Width(data, out))
  <2>1. LengthAt(data, out) \in Nat /\ recsize \in Nat /\ PeekN(out) = LengthAt(data, out)
    BY SMTT(30), LengthIsNat, Ranges DEF IInv, Typed, PeekN, LengthAt
  <2>2. PeekN(out) + recsize = Width(data, out)
    BY <2>1 DEF Width
  <2>. QED
    BY <1>2, <2>2
<1>4. 1 \in 0..Len(Items) /\ Promise!Drop(1)
  BY <1>1, <1>2, <1>3, RecordDropped DEF IInv
<1>. QED
  BY <1>2, <1>4 DEF Promise!Discard
-----------------------------------------------------------------------------
LEMMA InitPromise ==
  ASSUME Init
  PROVE  Promise!Init
<1>1. Used = 0 /\ IInv
  BY InitIInv DEF Init, Used, Minus
<1>2. Items = <<>>
  <2>1. CASE recsize = 0
    BY <1>1, <2>1 DEF Items, CopyOut
  <2>2. CASE recsize # 0
    BY <1>1, <2>2, RecordItems
  <2>. QED
    BY <2>1, <2>2
<1>3. (recsize # 0) \in BOOLEAN
  OBVIOUS
<1>. QED
  BY <1>2, <1>3 DEF Init, WIdle, Promise!Init

LEMMA StepPromise ==
  ASSUME IInv, IInv', Asked, [Next]_vars
  PROVE  [Promise!Next]_(Promise!vars)
<1>1. ASSUME NEW kind \in {"in", "user", "dma"}, NEW content \in Contents, In(kind, content)
      PROVE  Promise!Offer
  BY <1>1, Offers
<1>2. ASSUME NEW kind \in {"out", "peek", "user", "dma"}, NEW asked \in 1..MaxLen,
             Out(kind, asked)
      PROVE  Promise!Peek
  BY <1>2, Peeks DEF Out
<1>3. CASE WriteHead \/ WriteTail \/ ReadHead \/ ReadTail \/ UNCHANGED vars
  BY <1>3, Stutters
<1>4. CASE Publish
  BY <1>4, PublishPuts, PublishAppends DEF Promise!Next
<1>5. CASE FaultIn
  BY <1>5, FaultInPuts, FaultInRefuses DEF Promise!Next
<1>6. CASE Return
  BY <1>6, ReturnTakes, ReturnTakesRecord DEF Promise!Next
<1>7. CASE FaultOut
  BY <1>7, FaultOutTakes, FaultOutPeeks DEF Promise!Next
<1>8. CASE Skip
  BY <1>8, SkipDiscards, SkipDiscardsRecord DEF Promise!Next
<1>9. CASE ResetOut \/ Reset
  BY <1>9, Clears DEF Promise!Next
<1>. QED
  BY <1>1, <1>2, <1>3, <1>4, <1>5, <1>6, <1>7, <1>8, <1>9 DEF Next, Write, Read, Promise!Next

\* A kfifo is a fifo, of elements or of records and of any size, whatever the
\* calls of its writer and its reader find in each other's way: what is read is
\* what was put in, in order and nothing twice, a record as a whole, and it is
\* there for the reader only once its bytes are.
THEOREM KfifoIsAFifo ==
  ASSUME Respected
  PROVE  Spec => ImplementsFifo
<1>1. Init => Promise!Init
  BY InitPromise
<1>2. (IInv /\ Asked) /\ (IInv /\ Asked)' /\ [Next]_vars => [Promise!Next]_(Promise!vars)
  BY StepPromise
<1>3. Spec => [](IInv /\ Asked)
  BY InductiveAsked
<1>. QED
  BY <1>1, <1>2, <1>3, PTL DEF Spec, ImplementsFifo, Promise!Spec
=============================================================================
