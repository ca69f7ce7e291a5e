------------------------------- MODULE Words --------------------------------
(***************************************************************************)
(* Words in memory and in registers: the unaligned accessors of            *)
(* include/linux/unaligned and the choice compat-2.6.26.h makes among them *)
(* for each architecture, the rotations and bit searches of bitops.h, and  *)
(* the tables of crc8.c.  Bytes are scaled to Base values, registers to    *)
(* Width bits.                                                             *)
(***************************************************************************)
EXTENDS Integers, Sequences, FiniteSets, FiniteSetsExt, SequencesExt

CONSTANTS Base,      \* values of a byte
          Width      \* bits of a register, and of a byte of a CRC

\* le_byteshift.h: bytes shifted together, halves of 64 bits apart.
GetLeShift(p) ==
    IF Len(p) = 8
    THEN LET half(q) == q[1] + q[2] * Base + q[3] * Base^2 + q[4] * Base^3
         IN half(SubSeq(p, 5, 8)) * Base^4 + half(SubSeq(p, 1, 4))
    ELSE FoldRight(LAMBDA b, v : v * Base + b, p, 0)

PutShift2(v) == <<v % Base, (v \div Base) % Base>>
PutShift4(v) == PutShift2(v) \o PutShift2(v \div Base^2)
PutLeShift(v, n) == CASE n = 2 -> PutShift2(v)
                      [] n = 4 -> PutShift4(v)
                      [] n = 8 -> PutShift4(v) \o PutShift4(v \div Base^4)

\* be_byteshift.h: the same from the other end.
GetBeShift(p) == GetLeShift(Reverse(p))
PutBeShift(v, n) == Reverse(PutLeShift(v, n))

\* The order the machine keeps a word in memory.
Load(p, machine) == IF machine = "le" THEN GetLeShift(p) ELSE GetBeShift(p)
Store(v, n, machine) == IF machine = "le" THEN PutLeShift(v, n) ELSE PutBeShift(v, n)

\* access_ok.h converts from the machine's order.
access_ok(order, p, machine) == Load(IF order = machine THEN p ELSE Reverse(p), machine)

\* The other headers take the word as the machine keeps it, whatever order
\* their name says.
le_struct(p, machine) == Load(p, machine)
be_struct(p, machine) == Load(p, machine)
le_memmove(p, machine) == Load(p, machine)
be_memmove(p, machine) == Load(p, machine)

\* generic.h: the accessor of the size; a byte needs none.
GetAs(impl, order, p, machine) ==
    CASE Len(p) = 1 -> p[1]
      [] impl = "byteshift" -> IF order = "le" THEN GetLeShift(p) ELSE GetBeShift(p)
      [] impl = "access_ok" -> access_ok(order, p, machine)
      [] impl = "struct"    -> IF order = "le" THEN le_struct(p, machine)
                               ELSE be_struct(p, machine)
      [] impl = "memmove"   -> IF order = "le" THEN le_memmove(p, machine)
                               ELSE be_memmove(p, machine)

PutAs(impl, order, v, n, machine) ==
    CASE n = 1 -> <<v % Base>>
      [] impl = "byteshift" -> IF order = "le" THEN PutLeShift(v, n) ELSE PutBeShift(v, n)
      [] impl = "access_ok" -> IF order = machine THEN Store(v, n, machine)
                               ELSE Reverse(Store(v, n, machine))
      [] impl \in {"struct", "memmove"} -> Store(v, n, machine)

\* The header an architecture takes for each order, and its machine order.
Arch(name, machine, le, be) == [name |-> name, machine |-> machine, le |-> le, be |-> be]

Architectures ==
    {Arch("ALPHA", "le", "byteshift", "struct")}
    \cup {Arch(a, m, "byteshift", "byteshift") : <<a, m>> \in {<<"ARM", "le">>, <<"ARM", "be">>,
            <<"FRV", "be">>, <<"V850", "le">>}}
    \cup {Arch(a, "be", "byteshift", "struct") : a \in {"AVR32", "COLDFIRE", "MIPSEB",
            "PARISC", "SUPERH", "SPARC"}}
    \cup {Arch(a, "le", "struct", "byteshift") : a \in {"BLACKFIN", "IA64", "MIPSEL", "SUPERH"}}
    \cup {Arch(a, m, "access_ok", "access_ok") : <<a, m>> \in {<<"CRIS", "le">>, <<"M68K", "be">>,
            <<"MN10300", "le">>, <<"PPC", "be">>, <<"S390", "be">>, <<"X86", "le">>}}
    \cup {Arch(a, "be", "byteshift", "memmove") : a \in {"H8300", "M32R", "XTENSA"}}
    \cup {Arch(a, "le", "memmove", "byteshift") : a \in {"M32R", "XTENSA"}}

\* What a value is in memory: the least significant byte first, or last.
InOrder(v, n, order) ==
    [k \in 1..n |-> (v \div Base^(IF order = "le" THEN k - 1 ELSE n - k)) % Base]

\* Every architecture reads and writes words of every size in the order asked
\* for, but for big endian words on alpha, a little endian machine that is
\* given be_struct.h (compat-2.6.26.h:198-202).
UnalignedExact(v, n) ==
    \A a \in Architectures, order \in {"le", "be"} :
       LET impl == IF order = "le" THEN a.le ELSE a.be
           right == /\ GetAs(impl, order, InOrder(v, n, order), a.machine) = v
                    /\ PutAs(impl, order, v, n, a.machine) = InOrder(v, n, order)
       IN right \/ (a.name = "ALPHA" /\ order = "be")

-----------------------------------------------------------------------------
\* Registers are sets of the bits that are set.
Bit == 0..(Width - 1)
Shl(w, k) == {b + k : b \in w} \cap Bit
Shr(w, k) == {b - k : b \in w} \cap Bit
Xor(a, b) == (a \ b) \cup (b \ a)
NumberOf(w) == MapThenSumSet(LAMBDA b : 2^b, w)

rol(w, k) == Shl(w, k) \cup Shr(w, Width - k)
ror(w, k) == Shr(w, k) \cup Shl(w, Width - k)

\* The arithmetic shift right repeats the sign.
sign_extend(w, index) ==
    LET shift == Width - 1 - index
        left == Shl(w, shift)
    IN Shr(left, shift) \cup IF Width - 1 \in left THEN (index + 1)..(Width - 1) ELSE {}

fls(w) == IF w = {} THEN 0 ELSE Max(w) + 1
get_bitmask_order(w) == fls(w)

\* w & (w - 1) clears the lowest bit.
get_count_order(w) == (fls(w) - 1) + IF w # {} /\ w \ {Min(w)} # {} THEN 1 ELSE 0

\* A pair of halves is searched from the low one.
__ffs64(low, high) == IF low = {} THEN Min(high) + Width ELSE Min(low)

for_each_set_bit(w) ==
    LET next(from) == Min({b \in w : b >= from} \cup {Width})
        visit[from \in 0..Width] ==
            IF next(from) = Width THEN << >> ELSE <<next(from)>> \o visit[next(from) + 1]
    IN visit[0]

\* What the rotations, extensions and searches mean (the shift of a rotation
\* is less than the width).
BitsExact(w) ==
    /\ \A k \in Bit : /\ rol(w, k) = {(b + k) % Width : b \in w}
                      /\ ror(rol(w, k), k) = w
                      /\ LET n == NumberOf(w \cap 0..k)
                         IN NumberOf(sign_extend(w, k))
                            = IF k \in w THEN 2^Width - 2^(k + 1) + n ELSE n
    /\ w # {} => /\ NumberOf(w) < 2^get_bitmask_order(w)
                 /\ get_count_order(w) = Min({k \in 0..Width : NumberOf(w) <= 2^k})
                 /\ __ffs64({}, w) = Min(w) + Width /\ __ffs64(w, Bit) = Min(w)
    /\ for_each_set_bit(w) = SetToSortSeq(w, <)

-----------------------------------------------------------------------------
\* crc8_populate_msb: entry i + j, for the power of two i = 2^k above j.
StepMsb(t, poly) == Xor(Shl(t, 1), IF Width - 1 \in t THEN poly ELSE {})
crc8_populate_msb(poly) ==
    LET t[k \in -1..(Width - 1)] == IF k = -1 THEN {Width - 1} ELSE StepMsb(t[k - 1], poly)
        table[w \in SUBSET Bit] == IF w = {} THEN {}
                                   ELSE Xor(table[w \ {Max(w)}], t[Max(w)])
    IN table

\* crc8_populate_lsb, from the highest power of two down.
StepLsb(t, poly) == Xor(Shr(t, 1), IF 0 \in t THEN poly ELSE {})
crc8_populate_lsb(poly) ==
    LET t[k \in 0..Width] == IF k = Width THEN {0} ELSE StepLsb(t[k + 1], poly)
        table[w \in SUBSET Bit] == IF w = {} THEN {}
                                   ELSE Xor(table[w \ {Min(w)}], t[Min(w)])
    IN table

crc8(table, data, crc) == FoldLeft(LAMBDA c, byte : table[Xor(c, byte)], crc, data)

\* The remainder, a bit at a time.
ByBits(Step(_, _), poly, data) ==
    LET n[k \in 0..Width, w \in SUBSET Bit] == IF k = 0 THEN w ELSE Step(n[k - 1, w], poly)
    IN FoldLeft(LAMBDA c, byte : n[Width, Xor(c, byte)], {}, data)

\* The tables give the remainder of the division by the polynomial.
CrcExact(poly, data) ==
    /\ crc8(crc8_populate_msb(poly), data, {}) = ByBits(StepMsb, poly, data)
    /\ crc8(crc8_populate_lsb(poly), data, {}) = ByBits(StepLsb, poly, data)
=============================================================================
