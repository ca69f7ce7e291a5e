--------------------------- MODULE SystemWorkqueue ---------------------------
(***************************************************************************)
(* A delayed work on the queue system_wq that compat makes for kernels     *)
(* before 2.6.36, through schedule_delayed_work, mod_delayed_work          *)
(* (compat-3.7.c), flush_delayed_work (compat-2.6.32.h) and                *)
(* flush_scheduled_work, called by drivers at any time.  The kernel's part *)
(* is the pending bit, the timer and the queue of the work.                *)
(***************************************************************************)
EXTENDS Integers

CONSTANTS Drivers, MaxDepth     \* bound: calls of flush_scheduled_work by itself

VARIABLES
    life,        \* of the module: "absent", "ready", "oops" or "gone"
    flush_work,  \* what the name stands for, by the version of the kernel
    pending, place, running,    \* the work; place: none, timer or queue
    driver,      \* where each driver is: [at, hit, depth]
    asked,       \* history: asked for, and not begun since
    stopped      \* history: a flush took it off its timer or its queue

wqvars == <<life, flush_work, pending, place, running, driver, asked, stopped>>

Away == [at |-> "away", hit |-> FALSE, depth |-> 0]

WqInit ==
    /\ life = "absent" /\ flush_work \in {"flush_work", "cancel_work_sync"}
    /\ pending = FALSE /\ place = "none" /\ running = FALSE
    /\ driver = [d \in Drivers |-> Away]
    /\ asked = FALSE /\ stopped = FALSE

Goes(d, r) == driver' = [driver EXCEPT ![d] = r]
At(d, at) == driver[d].at = at

\* The queues are made, or the kernel stops at the BUG_ON; a failure to
\* register the devices of PM QoS is passed over.
backport_init ==
    /\ life = "absent" /\ life' \in {"ready", "oops"}
    /\ UNCHANGED <<flush_work, pending, place, running, driver, asked, stopped>>

\* No module that uses the queues is left: they have cancelled their work.
backport_exit ==
    /\ life = "ready" /\ \A d \in Drivers : At(d, "away")
    /\ place = "none" /\ ~running
    /\ life' = "gone"
    /\ UNCHANGED <<flush_work, pending, place, running, driver, asked, stopped>>

-----------------------------------------------------------------------------
\* The kernel: a pending work is not queued again.
queue_work(where) ==
    /\ pending' = TRUE /\ asked' = TRUE
    /\ place' = IF pending THEN place ELSE where

del_timer == place' = IF place = "timer" THEN "none" ELSE place

TimerFires ==
    /\ place = "timer" /\ place' = "queue"
    /\ UNCHANGED <<life, flush_work, pending, running, driver, asked, stopped>>

Runs ==
    /\ place = "queue" /\ ~running
    /\ place' = "none" /\ pending' = FALSE /\ running' = TRUE /\ asked' = FALSE
    /\ UNCHANGED <<life, flush_work, driver, stopped>>

Ends ==
    /\ running /\ running' = FALSE
    /\ UNCHANGED <<life, flush_work, pending, place, driver, asked, stopped>>

-----------------------------------------------------------------------------
schedule_work(d) ==
    /\ life = "ready" /\ At(d, "away")
    /\ queue_work("queue")
    /\ UNCHANGED <<life, flush_work, running, driver, stopped>>

schedule_delayed_work(d) ==
    /\ life = "ready" /\ At(d, "away")
    /\ queue_work("timer")
    /\ UNCHANGED <<life, flush_work, running, driver, stopped>>

Calls(d) ==
    /\ life = "ready" /\ At(d, "away")
    /\ \E at \in {"mod", "flush_dw", "flush_all"} : Goes(d, [Away EXCEPT !.at = at])
    /\ UNCHANGED <<life, flush_work, pending, place, running, asked, stopped>>

\* cancel_delayed_work deletes the timer, and clears the bit if it did.
CancelTimer(d) ==
    /\ At(d, "mod") /\ del_timer
    /\ Goes(d, [driver[d] EXCEPT !.at = "clear", !.hit = place = "timer"])
    /\ UNCHANGED <<life, flush_work, pending, running, asked, stopped>>

\* Mutant of mod_delayed_work: the work is taken for queued if it was pending.
mod_delayed_work_Kept(d) ==
    /\ At(d, "queue") /\ Goes(d, Away)
    /\ IF driver[d].hit THEN UNCHANGED <<pending, place, asked>> ELSE queue_work("timer")
    /\ UNCHANGED <<life, flush_work, running, stopped>>

ClearPending(d) ==
    /\ At(d, "clear") /\ pending' = (pending /\ ~driver[d].hit)
    /\ Goes(d, [driver[d] EXCEPT !.at = "queue"])
    /\ UNCHANGED <<life, flush_work, place, running, asked, stopped>>

\* The end of mod_delayed_work.
mod_delayed_work(d) ==
    /\ At(d, "queue") /\ Goes(d, Away)
    /\ queue_work("timer")
    /\ UNCHANGED <<life, flush_work, running, stopped>>

\* flush_delayed_work deletes the timer, but does not queue the work ...
flush_delayed_work(d) ==
    /\ At(d, "flush_dw") /\ del_timer
    /\ stopped' = (stopped \/ place = "timer")
    /\ Goes(d, [driver[d] EXCEPT !.at = "flush"])
    /\ UNCHANGED <<life, flush_work, pending, running, asked>>

\* ... and flushes, or cancels: a work that is pending and nowhere to be found
\* is looked for until it is found.
FlushWork(d) ==
    /\ At(d, "flush") /\ ~running /\ Goes(d, Away)
    /\ IF flush_work = "flush_work"
       THEN place # "queue" /\ UNCHANGED <<pending, place, stopped>>
       ELSE /\ pending => place = "queue"
            /\ pending' = FALSE /\ place' = "none"
            /\ stopped' = (stopped \/ pending)
    /\ UNCHANGED <<life, flush_work, running, asked>>

\* flush_scheduled_work waits for the queue, and calls itself.
flush_scheduled_work(d) ==
    /\ At(d, "flush_all") /\ place # "queue" /\ ~running
    /\ driver[d].depth < MaxDepth
    /\ Goes(d, [driver[d] EXCEPT !.depth = @ + 1])
    /\ UNCHANGED <<life, flush_work, pending, place, running, asked, stopped>>

work_busy == IF pending THEN {"WORK_BUSY_PENDING"} ELSE {}

WqNext ==
    \/ backport_init \/ backport_exit
    \/ TimerFires \/ Runs \/ Ends
    \/ \E d \in Drivers :
         \/ schedule_work(d) \/ schedule_delayed_work(d) \/ Calls(d)
         \/ CancelTimer(d) \/ ClearPending(d) \/ mod_delayed_work(d)
         \/ flush_delayed_work(d) \/ FlushWork(d) \/ flush_scheduled_work(d)

-----------------------------------------------------------------------------
\* A work that was asked for is on its timer or its queue until it runs, or a
\* mod_delayed_work is about to put it there, whatever calls overlap: unless a
\* flush took it away, after which it stays pending for ever, or is cancelled
\* (compat-2.6.32.h:80-93, compat-2.6.27.h:57).  A work that is not busy is
\* nowhere queued.
WorkNotLost ==
    /\ asked /\ ~stopped =>
         \/ place # "none"
         \/ \E d \in Drivers : driver[d].at \in {"clear", "queue"}
    /\ work_busy = {} => place = "none"
=============================================================================
