---------------------------- MODULE Conversions -----------------------------
(***************************************************************************)
(* Arithmetic of the helpers: calendar time and rounded timeouts           *)
(* (compat-2.6.32.c, compat-2.6.28.c), rotation by an angle (cordic.c),    *)
(* the divisions of the headers, and the ids of uidgid.h.  C divides       *)
(* towards zero.                                                           *)
(***************************************************************************)
EXTENDS Integers, Sequences, SequencesExt

Quot(a, b) == IF a >= 0 THEN a \div b ELSE -((-a) \div b)
Rem(a, b) == a - b * Quot(a, b)

__isleap(year) == Rem(year, 4) = 0 /\ (Rem(year, 100) # 0 \/ Rem(year, 400) = 0)

math_div(a, b) == Quot(a, b) - IF Rem(a, b) < 0 THEN 1 ELSE 0

LeapsBefore(y) == math_div(y - 1, 4) - math_div(y - 1, 100) + math_div(y - 1, 400)
leaps_between(y1, y2) == LeapsBefore(y2) - LeapsBefore(y1)

__mon_yday == [leap \in BOOLEAN |->
    <<0, 31>> \o [m \in 1..11 |-> <<59, 90, 120, 151, 181, 212, 243, 273, 304, 334, 365>>[m]
                                  + IF leap THEN 1 ELSE 0]]

SecsPerDay == 86400
DaysIn(y) == IF __isleap(y) THEN 366 ELSE 365

\* The loop of guesses, from 1970 on.
RECURSIVE YearOf(_, _)
YearOf(y, days) ==
    IF days >= 0 /\ days < DaysIn(y) THEN <<y, days>>
    ELSE LET yg == y + math_div(days, 365)
         IN YearOf(yg, days - ((yg - y) * 365 + leaps_between(y, yg)))

\* The seconds of a day are normalised first; day 0 is 1970-01-01.
BrokenDown(day, secs) ==
    LET rem == secs % SecsPerDay
        days == day + secs \div SecsPerDay
        y == YearOf(1970, days)
        months == __mon_yday[__isleap(y[1])]
        mon == CHOOSE m \in 1..12 : months[m] <= y[2] /\ y[2] < months[m + 1]
        wday == Rem(4 + days, 7)
    IN [hour |-> rem \div 3600, min |-> (rem % 3600) \div 60, sec |-> rem % 60,
        wday |-> IF wday < 0 THEN wday + 7 ELSE wday,
        year |-> y[1] - 1900, yday |-> y[2], mon |-> mon - 1,
        mday |-> y[2] - months[mon] + 1]

time_to_tm(totalsecs, offset) ==
    BrokenDown(Quot(totalsecs, SecsPerDay), Rem(totalsecs, SecsPerDay) + offset)

\* The number of days from 1970 to a year, year by year.
RECURSIVE DaysTo(_)
DaysTo(y) == IF y = 1970 THEN 0
             ELSE IF y > 1970 THEN DaysTo(y - 1) + DaysIn(y - 1)
             ELSE DaysTo(y + 1) - DaysIn(y)

\* The broken-down time names the second it was made from, also before 1970
\* and over leap years and centuries, and the day of the week runs on.
TimeExact(days, secs, offset) ==
    LET tm == BrokenDown(days, secs + offset)
        next == BrokenDown(days + 1, secs + offset)
    IN /\ (DaysTo(tm.year + 1900) + tm.yday - days) * SecsPerDay
            + tm.hour * 3600 + tm.min * 60 + tm.sec = secs + offset
       /\ tm.yday \in 0..(DaysIn(tm.year + 1900) - 1)
       /\ tm.hour \in 0..23 /\ tm.min \in 0..59 /\ tm.sec \in 0..59
       /\ next.wday = (tm.wday + 1) % 7
       /\ \/ next.mon = tm.mon /\ next.mday = tm.mday + 1
          \/ next.mon = (tm.mon + 1) % 12 /\ next.mday = 1 /\ tm.mday \in 28..31
       /\ days = 0 /\ secs + offset = 0 => tm.wday = 4 /\ tm.mday = 1
       /\ days \in -20000..20000 =>
              \A d \in {days, days + 1} :
                 LET t == d * SecsPerDay + secs
                 IN time_to_tm(t, offset) = BrokenDown(t \div SecsPerDay, (t % SecsPerDay) + offset)

-----------------------------------------------------------------------------
\* round_jiffies_common, and round_jiffies_up, in unsigned longs of size n.
round_jiffies_common(j, cpu, force_up, now, hz, n) ==
    LET skewed == (j + cpu * 3) % n
        rem == skewed % hz
        up == ~(rem < hz \div 4 /\ ~force_up)
        rounded == (skewed - rem + (IF up THEN hz ELSE 0) - cpu * 3) % n
    IN IF rounded <= now THEN j ELSE rounded

\* A timeout in the future stays there, is put off by a second at most, and
\* then falls on the tick of its processor.
JiffiesRounded(j, cpu, now, hz, n) ==
    LET r == round_jiffies_common(j, cpu, TRUE, now, hz, n)
    IN j > now /\ j + cpu * 3 + hz < n =>
          r >= j /\ r <= j + hz /\ (r # j => (r + cpu * 3) % hz = 0)

-----------------------------------------------------------------------------
One == 65536                       \* CORDIC_PRECISION_SHIFT
arctan_table == <<2949120, 1740967, 919879, 466945, 234379, 117304, 58666, 29335,
                  14668, 7334, 3667, 1833, 917, 458, 229, 115, 57, 29>>
ToFloat(x) == IF x >= 0 THEN (x \div 32768 + 1) \div 2 ELSE -(((-x) \div 32768 + 1) \div 2)

\* One turn of the loop; shifts of negative numbers round down.
Turn(theta, c, iter) ==
    LET s == IF theta > c.angle THEN 1 ELSE -1
    IN [i |-> c.i - s * (c.q \div 2^(iter - 1)), q |-> c.q + s * (c.i \div 2^(iter - 1)),
        angle |-> c.angle + s * arctan_table[iter]]

cordic_calc_iq(degrees) ==
    LET sign == IF degrees < 0 THEN -1 ELSE 1
        theta == Rem(degrees * One + 180 * One * sign, 360 * One) - 180 * One * sign
        far == ToFloat(theta) > 90 \/ ToFloat(theta) < -90
        near == IF ~far THEN theta ELSE IF theta > 0 THEN theta - 180 * One ELSE theta + 180 * One
        c == FoldLeft(LAMBDA v, iter : Turn(near, v, iter),
                      [i |-> 39797, q |-> 0, angle |-> 0], [k \in 1..18 |-> k])
    IN IF far THEN [i |-> -c.i, q |-> -c.q] ELSE [i |-> c.i, q |-> c.q]

Close(a, b) == a - b < 64 /\ b - a < 64

\* The point lies on the circle, a quarter turn takes it to its neighbour on
\* the axes, a full turn back to itself, and it moves on with the angle.
CordicExact(t) ==
    LET p == cordic_calc_iq(t)  quarter == cordic_calc_iq(t + 90)
        far == (p.i \div 256) * (p.i \div 256) + (p.q \div 256) * (p.q \div 256)
    IN /\ far - One \in -1100..1100
       /\ Close(quarter.i, -p.q) /\ Close(quarter.q, p.i)
       /\ cordic_calc_iq(t + 360) = p
       /\ t \in -90..89 => cordic_calc_iq(t + 1).q > p.q
-----------------------------------------------------------------------------
\* User and group ids of uidgid.h and user_namespace.c for kernels that have no
\* id type of their own.  There is one namespace in effect: ids are mapped to
\* themselves.  Ids are unsigned: -1 is the greatest.
CONSTANTS IdMod,       \* 2^32, scaled
          Overflow     \* overflowuid and overflowgid

KUIDT_INIT(value) == value % IdMod
__kuid_val(uid) == uid
INVALID_UID == KUIDT_INIT(-1)
GLOBAL_ROOT_UID == KUIDT_INIT(0)

uid_eq(left, right) == __kuid_val(left) = __kuid_val(right)
uid_gt(left, right) == __kuid_val(left) > __kuid_val(right)
uid_gte(left, right) == __kuid_val(left) >= __kuid_val(right)
uid_lt(left, right) == __kuid_val(left) < __kuid_val(right)
uid_lte(left, right) == __kuid_val(left) <= __kuid_val(right)
uid_valid(uid) == ~uid_eq(uid, INVALID_UID)

make_kuid(ns, uid) == KUIDT_INIT(uid)
from_kuid(ns, kuid) == __kuid_val(kuid)

from_kuid_munged(ns, kuid) ==
    IF from_kuid(ns, kuid) = (-1) % IdMod THEN Overflow ELSE from_kuid(ns, kuid)

\* The two builds, with CONFIG_USER_NS and without.
kuid_has_mapping(ns, uid, user_ns) == user_ns => from_kuid(ns, uid) # (-1) % IdMod

\* A user sees the id it gave, and never -1; an id is what is mapped to it;
\* the order is one of unsigned numbers, with the invalid id above them all.
IdsKept(a, b) ==
    LET x == make_kuid("ns", a)  y == make_kuid("other", b)
    IN /\ from_kuid("other", x) = a /\ (uid_eq(x, y) <=> a = b)
       /\ from_kuid_munged("ns", x) # (-1) % IdMod
       /\ uid_valid(x) => from_kuid_munged("ns", x) = a
       /\ uid_valid(x) <=> kuid_has_mapping("ns", x, TRUE)
       /\ uid_gt(x, y) <=> uid_lt(y, x)
       /\ uid_gte(x, y) <=> uid_lte(y, x)
       /\ uid_gte(x, y) <=> (uid_gt(x, y) \/ uid_eq(x, y))
       /\ uid_lte(GLOBAL_ROOT_UID, x) /\ uid_lte(x, INVALID_UID)
       /\ kuid_has_mapping("ns", x, FALSE)
=============================================================================
