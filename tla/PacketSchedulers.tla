-------------------------- MODULE PacketSchedulers --------------------------
(***************************************************************************)
(* A class of a parent scheduler whose child is fq_codel or codel, chosen  *)
(* at the start, and what the two promise to the parent and to flows.      *)
(***************************************************************************)
EXTENDS FqCodel, SchCodel

CONSTANT SmallLimit    \* bound: the limit when packets arrive for ever

VARIABLE kind

fq_vars == <<flows, new_flows, old_flows, quantum>>
sc_vars == <<queue, cvars>>
vars == <<kind, fq_vars, sc_vars, limit, cparams, cstats, sch, parent, drift,
          out, now, left>>

Init == \/ /\ kind = "fq_codel" /\ FqInit
           /\ left = Forever => limit = SmallLimit
           /\ queue = << >> /\ cvars = CodelVars0
        \/ /\ kind = "codel" /\ ScInit
           /\ flows = [i \in Flows |-> EmptyFlow]
           /\ new_flows = << >> /\ old_flows = << >> /\ quantum = MinQuantum

FqStep == kind = "fq_codel" /\ FqNext /\ UNCHANGED <<kind, sc_vars>>
ScStep == kind = "codel" /\ ScNext /\ UNCHANGED <<kind, fq_vars>>

Next == FqStep \/ ScStep

\* The parent goes on sending: while its class is active it asks for the next
\* packet.  (Weak fairness of the two dequeues, with the condition that enables
\* them written out.)
Sends == []<>(~parent.active \/ out = Oops) \/ []<><<out' # Quiet>>_vars

Spec == Init /\ [][Next]_vars /\ Sends

-----------------------------------------------------------------------------
\* The counters kept by hand in every handler agree with the queues: the
\* length and the backlog of the scheduler, and the backlog of every flow,
\* which fq_codel_drop trusts to find a packet (sch_fq_codel_core.c:158-168).
QueuesCounted ==
    /\ \A i \in Flows : flows[i].backlog = Bytes(flows[i].queue)
    /\ kind = "codel" => sch = [qlen |-> Len(queue), backlog |-> Bytes(queue)]
    /\ kind = "fq_codel" =>
         LET shown == [i \in Flows |-> fq_codel_dump_class_stats(i)]
         IN sch = [qlen |-> Total([i \in Flows |-> shown[i].qlen]),
                   backlog |-> Total([i \in Flows |-> shown[i].backlog])]

\* A flow is on at most one of the lists, once, and every flow with packets
\* is on one: else its packets would wait for ever (lines 196-202, 257-278).
FlowsLinkedOnce ==
    LET all == new_flows \o old_flows
    IN /\ \A j, k \in 1..Len(all) : j # k => all[j] # all[k]
       /\ {i \in Flows : flows[i].queue # << >>} \subseteq fq_codel_walk(0)

\* The parent's count is the child's length and the drops still to report,
\* but for what two calls leave behind for good: a reset keeps the unreported
\* drops of before, and a drop from the first flow is answered by 0
\* (sch_fq_codel_core.c:143-171, 285-288, 292-298).
ParentCounts == parent.qlen = sch.qlen + cstats.drop_count + drift

\* A scheduler with packets hands one out, however many CoDel drops on the
\* way: fq_codel_change frees what it gets without testing it (lines 354-363).
WorkConserving == [][out' = NoSkb => sch.qlen = 0]_vars

\* New flows have priority, yet no flow starves while packets arrive for
\* other flows for ever ("force a pass through old_flows", lines 274-278).
NoFlowStarves ==
    \A i \in Flows : []<>(flows[i].queue = << >> \/ out = i)

\* "We cant call qdisc_tree_decrease_qlen() if our qlen is 0, or HTB crashes"
\* (sch_fq_codel_core.c:282-284): a class is deactivated twice by one call
\* only, a fq_codel_change that reports the drops of a queue that ran empty.
TwiceOnlyByChange ==
    [][parent'.twice => \/ parent.twice
                        \/ /\ kind = "fq_codel" /\ sch.qlen = 0 /\ out' = Quiet
                           /\ cstats.drop_count > 0 /\ cstats'.drop_count = 0]_vars

\* A drop follows no NULL head while there are packets, whatever was dropped
\* or sent before (sch_fq_codel_core.c:152-165).  It does on an empty queue of
\* a class that is still active, and a class is left so in one way: its last
\* packet is dropped from the first flow, and the answer is 0.
DropsFindPackets ==
    [][/\ out' = Oops => parent.active /\ sch.qlen = 0
       /\ parent'.active /\ sch'.qlen = 0 =>
            \/ parent.active /\ sch.qlen = 0
            \/ /\ flows[1].queue # << >> /\ flows'[1].queue = << >>
               /\ drift' = drift + 1]_vars

-----------------------------------------------------------------------------
\* An instance to check: three flows, of which timed behaviours use two; only
\* the packets of the second can be marked instead of dropped.
MCTraffic == <<{[len |-> 1, ect |-> FALSE]}, {[len |-> 2, ect |-> TRUE]},
               {[len |-> 1, ect |-> FALSE]}>>

\* A target of one unit of time and an interval of four: 16 intervals are less
\* than half the range of the clock.
MCParams == {[target |-> 1, interval |-> 4, ecn |-> TRUE]}

=============================================================================
