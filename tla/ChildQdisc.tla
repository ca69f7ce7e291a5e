----------------------------- MODULE ChildQdisc -----------------------------
(***************************************************************************)
(* What codel and fq_codel have in common as the child of a class of a     *)
(* parent scheduler: configuration, counters, the class, and the clock.    *)
(* Every handler runs under the lock of the root of the tree, so it is one *)
(* action.  The class itself, such as HTB's, is outside this repository.   *)
(***************************************************************************)
EXTENDS Codel

CONSTANTS
    flows_cnt,     \* slots of the table of flows
    Traffic,       \* the packets of a flow: length, and able to be marked
    Limits,        \* values the limit is configured to
    Params,        \* the CoDel parameters: [target, interval, ecn]
    Start, Ticks,  \* first reading of the clock, and how far it moves
    Horizon,       \* bound: how far it moves in all
    TimedFlows,    \* bound: the flows of packets in a timed behaviour
    Forever,       \* packets arrive for ever, and the clock stands still
    Quiet,         \* out after any call but a dequeue
    Oops           \* out when .drop met no packet, which crashed it

VARIABLES
    limit, cparams,         \* configuration
    cstats,                 \* maxpacket, and the drops not yet reported
    sch,                    \* qlen and backlog of the scheduler
    parent,                 \* the class of the parent scheduler
    drift,                  \* history: what the parent's count is off by
    out,                    \* the flow the last dequeue served, NoSkb if none
    now, left               \* the clock, and the packets still to arrive

Flows == 1..flows_cnt

Kinds == [len : Nat \ {0}, ect : BOOLEAN]

\* 2 ^ TimeBits is a positive number, said for the provers.
ASSUME ChildAssumption ==
    /\ flows_cnt \in Nat \ {0} /\ TimedFlows \subseteq Flows
    /\ Traffic \in [Flows -> SUBSET Kinds]
    /\ Limits \subseteq Nat /\ MinPacket \in Nat
    /\ Start \in Int /\ Ticks \subseteq Int
    /\ TimeMod \in Nat \ {0}
    /\ {Quiet, Oops} \cap (Flows \cup {NoSkb}) = {} /\ Oops # Quiet

Packet == [flow : Flows, len : Nat \ {0}, ect : BOOLEAN, time : Int]

ASSUME NoSkbAssumption == NoSkb \notin Packet /\ NoSkb \notin Flows

\* g[1] + ... + g[n], and with it the bytes of a queue and a total over flows.
Sums(g, n) == LET s[k \in 0..n] == IF k = 0 THEN 0 ELSE s[k - 1] + g[k] IN s
Sum(g, n)  == Sums(g, n)[n]
Bytes(q)   == Sum([k \in 1..Len(q) |-> q[k].len], Len(q))
Total(f)   == Sum(f, flows_cnt)

-----------------------------------------------------------------------------
\* The class p of the parent: qlen is its own count of the packets of its
\* child, active says whether it takes part in sending, twice that it was
\* deactivated when it was not active, which such a parent does not survive.
ParentIdle == [qlen |-> 0, active |-> FALSE, twice |-> FALSE]

\* The child has qlen packets left: the class goes when there are none.
Deactivated(p, qlen) == [p EXCEPT !.active = @ /\ qlen # 0,
                                  !.twice = @ \/ (qlen = 0 /\ ~p.active)]

ParentEnqueued(p) == [p EXCEPT !.qlen = @ + 1, !.active = TRUE]

ParentTook(p, qlen) == Deactivated([p EXCEPT !.qlen = @ - 1], qlen)

\* qdisc_tree_decrease_qlen: n packets of the child are gone.
TreeDecrease(p, n, qlen) ==
    IF n = 0 THEN p ELSE Deactivated([p EXCEPT !.qlen = @ - n], qlen)

-----------------------------------------------------------------------------
\* codel_init and fq_codel_init.
ChildInit ==
    /\ limit \in Limits /\ cparams \in Params
    /\ cstats = CodelStats0
    /\ sch = [qlen |-> 0, backlog |-> 0]
    /\ parent = ParentIdle
    /\ drift = 0
    /\ out = Quiet
    /\ now = Start

\* Time passes; the behaviours with Forever show the scheduling alone.
Tick ==
    /\ left # Forever
    /\ (now - Start) % TimeMod < Horizon
    /\ sch.qlen > 0
    /\ \E d \in Ticks : now' = (now + d) % TimeMod
    /\ out' = Quiet
    /\ UNCHANGED <<limit, cparams, cstats, sch, parent, drift, left>>

=============================================================================
