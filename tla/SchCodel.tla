------------------------------ MODULE SchCodel ------------------------------
(***************************************************************************)
(* The codel packet scheduler (sch_codel.c): one queue with a limit, CoDel *)
(* at its head, as the child of a class of a parent scheduler.             *)
(***************************************************************************)
EXTENDS ChildQdisc

CONSTANT MaxPackets    \* bound: packets that arrive

VARIABLES queue, cvars

\* codel_init
ScInit == ChildInit /\ queue = << >> /\ cvars = CodelVars0 /\ left = MaxPackets

\* A packet over the limit is dropped, and the parent told by the result.
codel_qdisc_enqueue ==
    /\ left > 0 /\ left' = left - 1
    /\ \E i \in TimedFlows : \E p \in Traffic[i] :
          IF sch.qlen < limit
          THEN /\ queue' = Append(queue, [flow |-> i, len |-> p.len,
                                          ect |-> p.ect, time |-> now])
               /\ sch' = [qlen |-> sch.qlen + 1, backlog |-> sch.backlog + p.len]
               /\ parent' = ParentEnqueued(parent)
          ELSE UNCHANGED <<queue, sch, parent>>
    /\ out' = Quiet
    /\ UNCHANGED <<cvars, limit, cparams, cstats, drift, now>>

ScView == [queue |-> queue, bytes |-> 0, vars |-> cvars, stats |-> cstats,
           sch |-> sch, skb |-> NoSkb, drop |-> FALSE]

\* codel_qdisc_dequeue, called by a parent with an active class.
ScDequeue ==
    /\ parent.active
    /\ \E v \in {codel_dequeue(ScView, cparams, now)} :
       LET report == v.sch.qlen # 0
           p == IF report
                THEN TreeDecrease(parent, v.stats.drop_count, v.sch.qlen)
                ELSE parent
       IN /\ queue' = v.queue /\ cvars' = v.vars /\ sch' = v.sch
          /\ cstats' = IF report THEN [v.stats EXCEPT !.drop_count = 0]
                       ELSE v.stats
          /\ out' = IF v.skb = NoSkb THEN NoSkb ELSE v.skb.flow
          /\ parent' = IF v.skb = NoSkb THEN [p EXCEPT !.active = FALSE]
                       ELSE ParentTook(p, v.sch.qlen)
    /\ UNCHANGED <<limit, cparams, drift, now, left>>

\* codel_reset, then that of the parent: the drops that were not reported
\* stay in the statistics.
ScReset ==
    /\ queue' = << >> /\ cvars' = CodelVars0
    /\ sch' = [qlen |-> 0, backlog |-> 0]
    /\ parent' = [parent EXCEPT !.qlen = 0, !.active = FALSE]
    /\ drift' = 0 - cstats.drop_count
    /\ out' = Quiet
    /\ UNCHANGED <<limit, cparams, cstats, now, left>>

\* codel_change: the heads over the new limit are dropped and reported.
ScChange ==
    /\ \E lim \in Limits, par \in Params :
       LET n == IF sch.qlen > lim THEN sch.qlen - lim ELSE 0
       IN /\ limit' = lim /\ cparams' = par
          /\ queue' = SubSeq(queue, n + 1, Len(queue))
          /\ sch' = [qlen |-> sch.qlen - n,
                     backlog |-> sch.backlog - Bytes(SubSeq(queue, 1, n))]
          /\ parent' = TreeDecrease(parent, n, sch.qlen - n)
    /\ out' = Quiet
    /\ UNCHANGED <<cvars, cstats, drift, now, left>>

ScTick == Tick /\ UNCHANGED <<queue, cvars>>

ScNext == \/ codel_qdisc_enqueue \/ ScDequeue \/ ScReset \/ ScChange \/ ScTick

=============================================================================
