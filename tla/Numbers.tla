------------------------------ MODULE Numbers -------------------------------
(***************************************************************************)
(* Parsing of numbers: kstrto*() of kstrtox.c and strict_strto*() of       *)
(* compat-2.6.25.c.  A string is a sequence of characters.  The C types    *)
(* are scaled to fewer values.                                             *)
(***************************************************************************)
EXTENDS Integers, Sequences

CONSTANTS LongLongMod, LongMod, IntMod, ShortMod, CharMod   \* 2^width, scaled

\* The characters that the parsers tell apart; X stands for any other one.
DigitOf == [c \in {"0", "1", "2", "7", "9", "a", "f"} |->
            CASE c = "0" -> 0 [] c = "1" -> 1 [] c = "2" -> 2 [] c = "7" -> 7 
              [] c = "9" -> 9 [] c = "a" -> 10 [] c = "f" -> 15]
Newline == "nl"
Chars == DOMAIN DigitOf \cup {"x", "+", "-", Newline, "X"}
Bases == {0, 2, 8, 10, 16}

EINVAL == "EINVAL"
ERANGE == "ERANGE"
Refused(error) == [error |-> error, res |-> 0]
Accepted(n) == [error |-> "none", res |-> n]

CharAt(s, k) == IF k \in DOMAIN s THEN s[k] ELSE "end"
DropFirst(s, n) == SubSeq(s, n + 1, Len(s))

IsHex(s) == CharAt(s, 1) = "0" /\ CharAt(s, 2) = "x"

BaseOf(s, base) ==
    IF base # 0 THEN base
    ELSE IF CharAt(s, 1) # "0" THEN 10
    ELSE IF IsHex(s) /\ CharAt(s, 3) \in DOMAIN DigitOf THEN 16 ELSE 8

\* Mutant of TooLarge: the digit to come is forgotten.
TooLarge_NoDigit(acc, val, b) == acc > (LongLongMod - 1) \div b

TooLarge(acc, val, b) == acc > (LongLongMod - 1 - val) \div b

\* The loop of _kstrtoull from one character on; ok is set by the first digit.
\* Strings are short: the recursion is over the position.
_kstrtoull(s0, base) ==
    LET b == BaseOf(s0, base)
        s == IF b = 16 /\ IsHex(s0) THEN DropFirst(s0, 2) ELSE s0
        Val(k) == DigitOf[s[k]]
        EndsAt(k) == k = Len(s) + 1 \/ (k = Len(s) /\ s[k] = Newline)
        from[k \in 1..Len(s) + 1, acc \in 0..LongLongMod - 1] ==
            IF EndsAt(k) THEN IF k = 1 THEN Refused(EINVAL) ELSE Accepted(acc)
            ELSE IF s[k] \notin DOMAIN DigitOf \/ Val(k) >= b THEN Refused(EINVAL)
            ELSE IF TooLarge(acc, Val(k), b) THEN Refused(ERANGE)
            ELSE from[k + 1, (acc * b + Val(k)) % LongLongMod]
    IN from[1, 0]

kstrtoull(s, base) == _kstrtoull(IF CharAt(s, 1) = "+" THEN DropFirst(s, 1) ELSE s, base)

\* An unsigned value as a signed one.
AsSigned(n, size) == LET m == n % size IN IF m >= size \div 2 THEN m - size ELSE m

\* A negative number is one whose negation is negative: "-0" is refused.
kstrtoll(s, base) ==
    LET minus == CharAt(s, 1) = "-"
        r == IF minus THEN _kstrtoull(DropFirst(s, 1), base) ELSE kstrtoull(s, base)
        signed == AsSigned(IF minus THEN -r.res ELSE r.res, LongLongMod)
    IN IF r.error # "none" THEN r
       ELSE IF (minus /\ signed >= 0) \/ (~minus /\ signed < 0) THEN Refused(ERANGE)
       ELSE Accepted(signed)

\* The narrower types: a value must come through the conversion unchanged.
Unsigned(s, base, size) ==
    LET r == kstrtoull(s, base)
    IN IF r.error = "none" /\ r.res # r.res % size THEN Refused(ERANGE) ELSE r

Signed(s, base, size) ==
    LET r == kstrtoll(s, base)
    IN IF r.error = "none" /\ r.res # AsSigned(r.res, size) THEN Refused(ERANGE) ELSE r

_kstrtoul(s, base) == Unsigned(s, base, LongMod)
_kstrtol(s, base) == Signed(s, base, LongMod)
kstrtouint(s, base) == Unsigned(s, base, IntMod)
kstrtoint(s, base) == Signed(s, base, IntMod)
kstrtou16(s, base) == Unsigned(s, base, ShortMod)
kstrtos16(s, base) == Signed(s, base, ShortMod)
kstrtou8(s, base) == Unsigned(s, base, CharMod)
kstrtos8(s, base) == Signed(s, base, CharMod)

-----------------------------------------------------------------------------
\* simple_strtoul of the kernel: the value of the longest prefix of digits, an
\* unsigned long, which wraps, and the number of characters used.
SimpleStrtoul(s0, base) ==
    LET b == BaseOf(s0, base)
        skip == IF b = 16 /\ IsHex(s0) THEN 2 ELSE 0
        s == DropFirst(s0, skip)
        from[k \in 1..Len(s) + 1, acc \in 0..LongMod - 1] ==
            IF CharAt(s, k) \in DOMAIN DigitOf /\ DigitOf[s[k]] < b
            THEN from[k + 1, (acc * b + DigitOf[s[k]]) % LongMod]
            ELSE [val |-> acc, used |-> skip + k - 1]
    IN from[1, 0]

strict_strtoul(s, base) ==
    LET p == SimpleStrtoul(s, base)
    IN IF s # << >> /\ DropFirst(s, p.used) \in {<< >>, <<Newline>>}
       THEN Accepted(p.val) ELSE Refused(EINVAL)

strict_strtol(s, base) ==
    IF CharAt(s, 1) = "-"
    THEN LET r == strict_strtoul(DropFirst(s, 1), base)
         IN [r EXCEPT !.res = AsSigned(-r.res, LongMod)]
    ELSE LET r == strict_strtoul(s, base)
         IN [r EXCEPT !.res = AsSigned(r.res, LongMod)]

-----------------------------------------------------------------------------
\* What a string of digits means.
Positional(s, b) ==
    LET v[k \in 0..Len(s)] == IF k = 0 THEN 0 ELSE v[k - 1] * b + DigitOf[s[k]]
    IN v[Len(s)]

Body(s) == IF s # << >> /\ s[Len(s)] = Newline THEN SubSeq(s, 1, Len(s) - 1) ELSE s
Unprefixed(s, base) == IF BaseOf(s, base) = 16 /\ IsHex(s) THEN DropFirst(s, 2) ELSE s
Signs(s) == IF CharAt(s, 1) \in {"+", "-"} THEN 1 ELSE 0

\* The digits of a numeral, and the number it denotes in Z.
NumeralDigits(s, base) == Body(Unprefixed(DropFirst(s, Signs(s)), base))
IsNumeral(s, base) ==
    LET d == NumeralDigits(s, base)
    IN /\ d # << >>
       /\ \A k \in DOMAIN d : /\ d[k] \in DOMAIN DigitOf
                              /\ DigitOf[d[k]] < BaseOf(DropFirst(s, Signs(s)), base)
Denotes(s, base) ==
    (IF CharAt(s, 1) = "-" THEN -1 ELSE 1)
    * Positional(NumeralDigits(s, base), BaseOf(DropFirst(s, Signs(s)), base))

\* A parser for the values of [lo, hi] returns the number the numeral denotes,
\* and nothing else.
Parses(r, s, base, lo, hi) ==
    IF IsNumeral(s, base) /\ lo <= Denotes(s, base) /\ Denotes(s, base) <= hi
    THEN r = Accepted(Denotes(s, base)) ELSE r.error # "none"

MinusZero(s, base) == CharAt(s, 1) = "-" /\ IsNumeral(s, base) /\ Denotes(s, base) = 0

\* kstrto*() accept exactly the numerals that fit into the type, with their
\* value, whatever the accumulator does on the way; only "-0" is refused.
\* strict_strto*() give a numeral that fits its value, and refuse a string with
\* other characters.  Nothing is said of a newline or a prefix alone, which they
\* take for 0, and of a numeral that does not fit, which they wrap though
\* compat-2.6.25.c:232-243 says otherwise.
NumbersParsed(s, base) ==
    /\ CharAt(s, 1) # "-" => /\ Parses(kstrtoull(s, base), s, base, 0, LongLongMod - 1)
                             /\ Parses(_kstrtoul(s, base), s, base, 0, LongMod - 1)
                             /\ Parses(kstrtouint(s, base), s, base, 0, IntMod - 1)
                             /\ Parses(kstrtou16(s, base), s, base, 0, ShortMod - 1)
                             /\ Parses(kstrtou8(s, base), s, base, 0, CharMod - 1)
    /\ IF MinusZero(s, base) THEN kstrtoll(s, base) = Refused(ERANGE)
       ELSE /\ Parses(kstrtoll(s, base), s, base, -(LongLongMod \div 2), LongLongMod \div 2 - 1)
            /\ Parses(_kstrtol(s, base), s, base, -(LongMod \div 2), LongMod \div 2 - 1)
            /\ Parses(kstrtoint(s, base), s, base, -(IntMod \div 2), IntMod \div 2 - 1)
            /\ Parses(kstrtos16(s, base), s, base, -(ShortMod \div 2), ShortMod \div 2 - 1)
            /\ Parses(kstrtos8(s, base), s, base, -(CharMod \div 2), CharMod \div 2 - 1)
    /\ LET u == strict_strtoul(s, base)
           d == strict_strtol(s, base)
           digits == NumeralDigits(s, base)
       IN CharAt(s, 1) # "+" =>
          /\ IsNumeral(s, base) /\ Denotes(s, base) \in -(LongMod \div 2)..LongMod \div 2 - 1 =>
               d = Accepted(Denotes(s, base))
          /\ IsNumeral(s, base) /\ CharAt(s, 1) # "-" /\ Denotes(s, base) < LongMod =>
               u = Accepted(Denotes(s, base))
          /\ ~IsNumeral(s, base) /\ (digits # << >> \/ s \in {<< >>, <<"-">>}) =>
               d = Refused(EINVAL)
=============================================================================
