------------------------------ MODULE FqCodel -------------------------------
(***************************************************************************)
(* The fq_codel packet scheduler (sch_fq_codel_core.c) as the child of a   *)
(* class of a parent scheduler.  Packets are hashed onto flows; a flow     *)
(* with packets is on the list of new or of old flows, served by deficit   *)
(* round robin; CoDel drops heads of a flow at dequeue.  The parent counts *)
(* the packets of its child by itself: a drop it did not ask for has to be *)
(* reported to it (qdisc_tree_decrease_qlen).                              *)
(***************************************************************************)
EXTENDS ChildQdisc

CONSTANTS
    MinQuantum,    \* the least quantum fq_codel_change takes: 256
    Quanta,        \* values asked for the quantum
    FqPackets      \* bound: packets that arrive in a timed behaviour

ASSUME FqAssumption == MinQuantum \in Nat \ {0} /\ Quanta \subseteq Nat

VARIABLES
    flows,                  \* the table: queue, backlog, deficit, vars
    new_flows, old_flows,   \* the lists, as sequences of slots
    quantum                 \* configuration

EmptyFlow == [queue |-> << >>, backlog |-> 0, deficit |-> 0,
              vars |-> CodelVars0]

Quantums == {IF n > MinQuantum THEN n ELSE MinQuantum : n \in Quanta}

\* Mutant of Idle: looks at the queue of the flow, not at its list entry.
Idle_ByQueue(i) == flows[i].queue = << >>

\* The flow is on neither list (list_empty of its flowchain).
Idle(i) == /\ \A k \in 1..Len(new_flows) : new_flows[k] # i
           /\ \A k \in 1..Len(old_flows) : old_flows[k] # i

-----------------------------------------------------------------------------
\* fq_codel_init, with the parameters a fq_codel_change of it may have set.
FqInit ==
    /\ ChildInit
    /\ flows = [i \in Flows |-> EmptyFlow]
    /\ new_flows = << >> /\ old_flows = << >>
    /\ quantum \in Quantums
    /\ left \in {FqPackets, Forever}

\* The slot with the largest backlog, the first of them (slot 1 when none).
Fattest(fl) ==
    CHOOSE i \in Flows :
        /\ \A j \in Flows : fl[j].backlog <= fl[i].backlog
        /\ \A j \in Flows : fl[j].backlog = fl[i].backlog => i <= j

\* Mutant of fq_codel_drop: forgets the backlog of the scheduler.
fq_codel_drop_NoBacklog(fl, s) ==
    LET i == Fattest(fl)
        len == Head(fl[i].queue).len
    IN [flows |-> [fl EXCEPT ![i].queue = Tail(@), ![i].backlog = @ - len],
        sch |-> [qlen |-> s.qlen - 1, backlog |-> s.backlog],
        idx |-> i]

\* Mutant of fq_codel_drop: forgets the backlog of the flow.
fq_codel_drop_KeepsFat(fl, s) ==
    LET i == Fattest(fl)
        len == Head(fl[i].queue).len
    IN [flows |-> [fl EXCEPT ![i].queue = Tail(@)],
        sch |-> [qlen |-> s.qlen - 1, backlog |-> s.backlog - len],
        idx |-> i]

\* fq_codel_drop: the head of the fattest flow.
fq_codel_drop(fl, s) ==
    LET i == Fattest(fl)
        len == Head(fl[i].queue).len
    IN [flows |-> [fl EXCEPT ![i].queue = Tail(@), ![i].backlog = @ - len],
        sch |-> [qlen |-> s.qlen - 1, backlog |-> s.backlog - len],
        idx |-> i]

\* fq_codel_classify: the priority of the packet, the hash or a filter gives
\* the slot; a filter may also refuse the packet, which then changes nothing.
fq_codel_classify == Flows

\* The table after skb came for its flow, which was idle or on a list.
Queued(skb, idle) ==
    LET f == flows[skb.flow]
    IN [flows EXCEPT ![skb.flow] =
           [queue |-> Append(f.queue, skb), backlog |-> f.backlog + skb.len,
            deficit |-> IF idle THEN quantum ELSE f.deficit,
            vars |-> IF idle THEN CodelVars0 ELSE f.vars]]

fq_codel_enqueue ==
    /\ left # 0
    /\ left' = IF left = Forever THEN left ELSE left - 1
    /\ \E idx \in fq_codel_classify : \E p \in Traffic[idx] :
       /\ left = Forever \/ idx \in TimedFlows
       /\ LET added == Queued([flow |-> idx, len |-> p.len, ect |-> p.ect,
                               time |-> now], Idle(idx))
              s == [qlen |-> sch.qlen + 1, backlog |-> sch.backlog + p.len]
              over == fq_codel_drop(added, s)
          IN /\ new_flows' = IF Idle(idx) THEN Append(new_flows, idx)
                             ELSE new_flows
             /\ IF s.qlen < limit
                THEN /\ flows' = added /\ sch' = s
                     /\ parent' = ParentEnqueued(parent)
                ELSE /\ flows' = over.flows /\ sch' = over.sch
                     /\ parent' = IF over.idx = idx   \* NET_XMIT_CN
                                  THEN parent
                                  ELSE ParentEnqueued(TreeDecrease(parent, 1,
                                                             over.sch.qlen))
    /\ out' = Quiet
    /\ UNCHANGED <<old_flows, limit, quantum, cparams, cstats, drift, now>>

-----------------------------------------------------------------------------
\* fq_codel_walk shows the slots that are on a list, from the slot skip + 1.
fq_codel_walk(skip) == {i \in Flows : ~Idle(i) /\ i > skip}

\* fq_codel_dump_class_stats: what a dump says of a slot.
fq_codel_dump_class_stats(i) == [qlen |-> Len(flows[i].queue),
                                 backlog |-> flows[i].backlog]

\* What fq_codel_dequeue works on.
Q == [flows |-> flows, new |-> new_flows, old |-> old_flows,
      cparams |-> cparams, quantum |-> quantum, cstats |-> cstats,
      sch |-> sch, parent |-> parent, skb |-> NoSkb]

\* Mutant of PassesOld: a new flow found empty is always unlinked.
PassesOld_Never(q) == FALSE

\* A new flow found empty stays for a pass when there are old flows.
PassesOld(q) == q.new # << >> /\ q.old # << >>

\* Mutant of ReportDrops: reports while the queue is empty, too.
ReportDrops_Always(q) == TRUE

\* Drops are reported to the parent only while there are packets left.
ReportDrops(q) == q.sch.qlen # 0

\* The end of fq_codel_dequeue, with a packet in hand.
Reported(q) ==
    IF ~ReportDrops(q) THEN q
    ELSE [q EXCEPT !.parent = TreeDecrease(@, q.cstats.drop_count, q.sch.qlen),
                   !.cstats.drop_count = 0]

NoneListed(q) == q.new = << >> /\ q.old = << >>

\* The flow to serve: the first of the new flows, else of the old ones.
First(q) == IF q.new # << >> THEN Head(q.new) ELSE Head(q.old)

Unlinked(q) == IF q.new # << >> THEN [q EXCEPT !.new = Tail(@)]
               ELSE [q EXCEPT !.old = Tail(@)]

ToOld(q) == [Unlinked(q) EXCEPT !.old = Append(@, First(q))]

\* Slot i of q is given to CoDel ...
FlowView(q, i) == [queue |-> q.flows[i].queue, bytes |-> q.flows[i].backlog,
                   vars |-> q.flows[i].vars, stats |-> q.cstats, sch |-> q.sch,
                   skb |-> NoSkb, drop |-> FALSE]

\* ... and what q becomes when the answer is v.
Served(q, i, v) ==
    [q EXCEPT !.flows[i] = [queue |-> v.queue, backlog |-> v.bytes,
                            deficit |-> IF v.skb = NoSkb THEN @.deficit
                                        ELSE @.deficit - v.skb.len,
                            vars |-> v.vars],
              !.cstats = v.stats, !.sch = v.sch, !.skb = v.skb]

\* A round of fq_codel_dequeue, from its label begin: a flow that used up its
\* deficit gets a quantum and goes to the end of the old flows; a flow that
\* CoDel finds empty leaves the lists, but a new flow passes through the old
\* ones first.  No round is left once there is a packet, or no flow.
Round(q) ==
    IF q.skb # NoSkb \/ NoneListed(q) THEN q
    ELSE LET i == First(q)
             v == codel_dequeue(FlowView(q, i), q.cparams, now)
         IN IF q.flows[i].deficit <= 0
            THEN [ToOld(q) EXCEPT !.flows[i].deficit = @ + q.quantum]
            ELSE Served(IF v.skb # NoSkb THEN q
                        ELSE IF PassesOld(q) THEN ToOld(q)
                        ELSE Unlinked(q), i, v)

Rounds(q, n) == LET r[k \in 0..n] == IF k = 0 THEN q ELSE Round(r[k - 1]) IN r

\* The rounds it can take: what the flows owe, and their passes through the
\* lists.
Debts(q) == [i \in Flows |-> IF q.flows[i].deficit <= 0
                             THEN 1 - q.flows[i].deficit ELSE 0]

Places(q) == 2 * Len(q.new) + Len(q.old)

RoundsLeft(q) == Total(Debts(q)) + Places(q)

fq_codel_dequeue(q) ==
    LET n == RoundsLeft(q)
        r == Rounds([q EXCEPT !.skb = NoSkb], n)[n]
    IN IF r.skb = NoSkb THEN r ELSE Reported(r)

Becomes(q) ==
    /\ flows' = q.flows /\ new_flows' = q.new /\ old_flows' = q.old
    /\ sch' = q.sch

\* The parent, or the device below it, asks for a packet.
Dequeue ==
    /\ parent.active
    /\ \E q \in {fq_codel_dequeue(Q)} :
          /\ Becomes(q) /\ cstats' = q.cstats
          /\ out' = IF q.skb = NoSkb THEN NoSkb ELSE q.skb.flow
          /\ parent' = IF q.skb = NoSkb
                       THEN [q.parent EXCEPT !.active = FALSE]
                       ELSE ParentTook(q.parent, q.sch.qlen)
    /\ UNCHANGED <<limit, quantum, cparams, drift, now, left>>

\* No flow has a backlog, and the first slot, taken then, has no head.
NothingToDrop == flows[Fattest(flows)].queue = << >>

\* The parent of an active class asks its child to drop a packet (.drop).  It
\* takes the answer for a length, and counts the drop only if it is not 0: the
\* answer is the index of the slot, 0 for the first.  So a class can be active
\* over an empty queue; a drop asked of that follows a NULL head.
ParentDrop ==
    LET d == fq_codel_drop(flows, sch)
        told == d.idx # 1
    IN /\ parent.active
       /\ left # Forever
       /\ IF NothingToDrop
          THEN out' = Oops /\ UNCHANGED <<flows, sch, parent, drift>>
          ELSE /\ flows' = d.flows /\ sch' = d.sch
               /\ parent' = IF told THEN ParentTook(parent, d.sch.qlen) ELSE parent
               /\ drift' = IF told THEN drift ELSE drift + 1
               /\ out' = Quiet
       /\ UNCHANGED <<new_flows, old_flows, limit, quantum, cparams, cstats,
                      now, left>>

\* fq_codel_reset: dequeues until nothing comes, so CoDel may drop on the
\* way; the reset of the parent sets its count to 0 afterwards.
Drains(q, n) ==
    LET r[k \in 0..n] == IF k = 0 THEN q
                         ELSE IF NoneListed(r[k - 1]) THEN r[k - 1]
                         ELSE fq_codel_dequeue(r[k - 1])
    IN r

\* Every packet comes out once at most, then there is none.
Drained(q) == LET n == q.sch.qlen + 1 IN Drains(q, n)[n]

Reset ==
    /\ left # Forever
    /\ \E q \in {Drained(Q)} :
          /\ Becomes(q) /\ cstats' = q.cstats
          /\ parent' = [q.parent EXCEPT !.qlen = 0, !.active = FALSE]
          /\ drift' = 0 - q.cstats.drop_count
    /\ out' = Quiet
    /\ UNCHANGED <<limit, quantum, cparams, now, left>>

\* Mutant of Freed: the packet taken out is not counted as a drop.
Freed_Uncounted(q) == fq_codel_dequeue(q)

\* A packet is taken out to be freed, and counted as a drop.
Freed(q) == [fq_codel_dequeue(q) EXCEPT !.cstats.drop_count = @ + 1]

\* fq_codel_change of a running scheduler: new parameters, then packets are
\* taken until the limit holds, and all drops are reported at once.
Trims(q, lim, n) ==
    LET r[k \in 0..n] == IF k = 0 THEN q
                         ELSE IF r[k - 1].sch.qlen <= lim THEN r[k - 1]
                         ELSE Freed(r[k - 1])
    IN r

Trimmed(q, lim) ==
    LET n == IF q.sch.qlen <= lim THEN 0 ELSE q.sch.qlen - lim
    IN Trims(q, lim, n)[n]

Change ==
    /\ left # Forever
    /\ limit' \in Limits /\ cparams' \in Params /\ quantum' \in Quantums
    /\ \E q \in {Trimmed([Q EXCEPT !.cparams = cparams', !.quantum = quantum'],
                         limit')} :
          /\ Becomes(q)
          /\ cstats' = [q.cstats EXCEPT !.drop_count = 0]
          /\ parent' = TreeDecrease(q.parent, q.cstats.drop_count, q.sch.qlen)
    /\ out' = Quiet
    /\ UNCHANGED <<drift, now, left>>

FqTick == Tick /\ UNCHANGED <<flows, new_flows, old_flows, quantum>>

\* Nothing comes after the crash.
FqNext == /\ out # Oops
          /\ \/ fq_codel_enqueue \/ Dequeue \/ ParentDrop \/ Reset \/ Change
             \/ FqTick

=============================================================================
