------------------------------- MODULE Codel --------------------------------
(***************************************************************************)
(* The CoDel plugin of a packet scheduler (include/net/codel.h): the       *)
(* 1024 ns clock that wraps, the drop decision of one packet, and the      *)
(* dequeue that drops or marks heads until one may go out.  It keeps no    *)
(* variable: like the C header, it works on what the caller passes.  A     *)
(* "view" v holds what codel_dequeue reaches through its pointers: the     *)
(* queue of the flow (queue, and bytes, its entry of the backlog table),   *)
(* vars, stats, the counters of the scheduler (sch), and two results, skb  *)
(* and drop.  Counters nobody but a dump reads (ecn_mark, drops) are left  *)
(* out.                                                                    *)
(***************************************************************************)
EXTENDS Integers, Sequences

CONSTANTS
    TimeBits,          \* bits of codel_time_t and of count: 32 in the code
    MinPacket,         \* what codel_stats_init sets maxpacket to: 256
    NoSkb              \* the NULL packet

TimeMod == 2 ^ TimeBits

\* rec_inv_sqrt keeps the upper half of a fraction of TimeBits bits.
RecShift == TimeBits \div 2
RecMod == 2 ^ (TimeBits - RecShift)

\* The signed reading of a difference of two times.
Signed(x) == LET m == x % TimeMod
             IN IF m >= TimeMod \div 2 THEN m - TimeMod ELSE m

codel_time_after(a, b)    == Signed(a - b) > 0
codel_time_after_eq(a, b) == Signed(a - b) >= 0
codel_time_before(a, b)   == Signed(a - b) < 0

CodelVars0 == [count |-> 0, lastcount |-> 0, dropping |-> FALSE,
               rec_inv_sqrt |-> 0, first_above_time |-> 0, drop_next |-> 0]

CodelStats0 == [maxpacket |-> MinPacket, drop_count |-> 0]

\* One step towards 1/sqrt(count), in the unsigned arithmetic of the code:
\* the 64-bit product wraps, the result is cut to the width of rec_inv_sqrt.
codel_Newton_step(vars) ==
    LET wide == TimeMod * TimeMod
        invsqrt == vars.rec_inv_sqrt * 2 ^ RecShift
        invsqrt2 == (invsqrt * invsqrt) \div TimeMod
        val == ((3 * TimeMod - vars.count * invsqrt2) % wide) \div 4
        res == ((val * invsqrt) % wide) \div 2 ^ (TimeBits - 2 + 1)
    IN [vars EXCEPT !.rec_inv_sqrt = (res \div 2 ^ RecShift) % RecMod]

codel_control_law(t, interval, rec_inv_sqrt) ==
    (t + (interval * rec_inv_sqrt * 2 ^ RecShift) \div TimeMod) % TimeMod

\* The function of the scheduler codel_dequeue calls for a packet: the head
\* of the queue leaves it, and the lengths with it.  The backlog of the
\* scheduler goes down in codel_should_drop.  (codel has no table of backlogs:
\* it does not look at bytes.)
dequeue(v) ==
    IF v.queue = << >>
    THEN [v EXCEPT !.skb = NoSkb]
    ELSE [v EXCEPT !.skb = Head(v.queue), !.queue = Tail(v.queue),
                   !.bytes = @ - Head(v.queue).len, !.sch.qlen = @ - 1]

\* Mutant of LastPacket: CoDel may drop all there is.
LastPacket_Never(backlog, largest) == FALSE

\* At most one packet of the largest size would be left.
LastPacket(backlog, largest) == backlog <= largest

\* Takes v.skb out of the backlog of the scheduler and decides whether the
\* law allows dropping it: only after a whole interval above the target, and
\* never the last packets.
codel_should_drop(v, params, now) ==
    IF v.skb = NoSkb
    THEN [v EXCEPT !.vars.first_above_time = 0, !.drop = FALSE]
    ELSE LET ldelay == (now - v.skb.time) % TimeMod
             backlog == v.sch.backlog - v.skb.len
             largest == IF v.skb.len > v.stats.maxpacket
                        THEN v.skb.len ELSE v.stats.maxpacket
             above == v.vars.first_above_time
             below == \/ codel_time_before(ldelay, params.target)
                      \/ LastPacket(backlog, largest)
         IN [v EXCEPT
               !.sch.backlog = backlog,
               !.stats.maxpacket = largest,
               !.vars.first_above_time =
                   IF below THEN 0
                   ELSE IF above = 0 THEN (now + params.interval) % TimeMod
                   ELSE above,
               !.drop = ~below /\ above # 0 /\ codel_time_after(now, above)]

\* qdisc_drop of v.skb, then the next head and what the law says of it.
DropAndNext(v, params, now) ==
    codel_should_drop(dequeue([v EXCEPT !.stats.drop_count = @ + 1]),
                      params, now)

\* INET_ECN_set_ce marks a packet instead of dropping it.
Marked(v, params) == params.ecn /\ v.skb.ect

ScheduleDrop(v, from, params) ==
    [v EXCEPT !.vars.drop_next =
         codel_control_law(from, params.interval, v.vars.rec_inv_sqrt)]

\* A round of the while loop of the dropping state.  It changes nothing once
\* the loop has been left: when the packet in hand may go out (drop is false,
\* a marked one included), or is not due to be dropped yet.
DropRound(v, params, now) ==
    IF ~(v.drop /\ v.vars.dropping /\ codel_time_after_eq(now, v.vars.drop_next))
    THEN v
    ELSE LET c == [v EXCEPT !.vars = codel_Newton_step(
                         [v.vars EXCEPT !.count = (@ + 1) % TimeMod])]
         IN IF Marked(c, params)
            THEN [ScheduleDrop(c, c.vars.drop_next, params) EXCEPT !.drop = FALSE]
            ELSE LET n == DropAndNext(c, params, now)
                 IN IF n.drop THEN ScheduleDrop(n, n.vars.drop_next, params)
                    ELSE [n EXCEPT !.vars.dropping = FALSE]

DropRounds(v, params, now, n) ==
    LET r[k \in 0..n] == IF k = 0 THEN v ELSE DropRound(r[k - 1], params, now)
    IN r

\* The while loop of the dropping state: every round takes a packet or is the
\* last one.
DropLoop(v, params, now) ==
    LET n == Len(v.queue) + 1 IN DropRounds(v, params, now, n)[n]

\* Entering the dropping state: the head is marked or dropped, and the rate
\* starts from that of the last cycle when this was not long ago.
EnterDropping(v, params, now) ==
    LET n == IF Marked(v, params) THEN v ELSE DropAndNext(v, params, now)
        near == codel_time_before(now - n.vars.drop_next,
                                  16 * params.interval)
        count == (n.vars.count - n.vars.lastcount) % TimeMod
        odd == IF count % 2 = 0 THEN count + 1 ELSE count
        rate == IF near
                THEN codel_Newton_step([n.vars EXCEPT !.count = odd])
                ELSE [n.vars EXCEPT !.count = 1, !.rec_inv_sqrt = RecMod - 1]
    IN ScheduleDrop([n EXCEPT !.vars = [rate EXCEPT !.dropping = TRUE,
                                                   !.lastcount = rate.count]],
                    now, params)

codel_dequeue(v, params, now) ==
    LET h == dequeue(v)
        s == codel_should_drop(h, params, now)
    IN IF h.skb = NoSkb THEN [h EXCEPT !.vars.dropping = FALSE]
       ELSE IF s.vars.dropping
            THEN IF s.drop THEN DropLoop(s, params, now)
                 ELSE [s EXCEPT !.vars.dropping = FALSE]
       ELSE IF s.drop THEN EnterDropping(s, params, now)
       ELSE s

=============================================================================
