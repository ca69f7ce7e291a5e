------------------------------ MODULE DevAddr -------------------------------
(***************************************************************************)
(* Multicast address lists of two network devices and their                *)
(* synchronisation: the addresses of a layered device (from) are pushed to *)
(* the device below it (to).  An address counts its users.  2.6.32.c marks *)
(* what it pushed (da_synced); 2.6.23.c has no mark and compares with the  *)
(* destination, whose loop stops after the first entry, an address of the  *)
(* destination's own included.  All calls hold the locks of both devices.  *)
(***************************************************************************)
EXTENDS Integers, Sequences

CONSTANTS Addrs,
          MaxUsers,     \* bound: joins of one device to one address
          MaxPushed     \* bound: users of an address of the destination

VARIABLES version, from, to,    \* the lists: [addr, users, gusers, synced]
          mine, below,          \* history: the users of each device itself
          mistaken,             \* history: the destination's own address was taken
                              \* for a pushed one
          called                \* the last call: "sync" or another one

davars == <<version, from, to, mine, below, mistaken, called>>

At(list, a) == {k \in 1..Len(list) : list[k].addr = a}

Has(list, a) == At(list, a) # {}

UsersOf(list, a) == IF Has(list, a)
                    THEN list[CHOOSE k \in At(list, a) : TRUE].users ELSE 0

Removed(list, k) == SubSeq(list, 1, k - 1) \o SubSeq(list, k + 1, Len(list))

\* A known address gets a user (a global user counts once), a new one is put
\* in front.
__dev_addr_add(list, a, glbl) ==
    IF Has(list, a)
    THEN LET k == CHOOSE k \in At(list, a) : TRUE
         IN IF glbl /\ list[k].gusers = 1 THEN list
            ELSE [list EXCEPT ![k].users = @ + 1,
                              ![k].gusers = IF glbl THEN 1 ELSE @]
    ELSE <<[addr |-> a, users |-> 1, gusers |-> IF glbl THEN 1 ELSE 0,
            synced |-> FALSE]>> \o list

\* The address loses a user and goes with the last one.
__dev_addr_delete(list, a, glbl) ==
    IF ~Has(list, a) THEN list
    ELSE LET k == CHOOSE k \in At(list, a) : TRUE
         IN IF glbl /\ list[k].gusers = 0 THEN list
            ELSE IF list[k].users = 1 THEN Removed(list, k)
            ELSE [list EXCEPT ![k].users = @ - 1,
                              ![k].gusers = IF glbl THEN 0 ELSE @]

Marked(list, a, mark) ==
    [k \in DOMAIN list |-> IF list[k].addr = a
                           THEN [list[k] EXCEPT !.synced = mark] ELSE list[k]]

\* What the sync functions take for "already pushed": the mark, or the
\* comparison with the first entry of the destination.
Synced(s, a) ==
    IF version = "2.6.32"
    THEN \E k \in At(s.from, a) : s.from[k].synced
    ELSE s.to # << >> /\ Head(s.to).addr = a

DeletedFromBoth(s, a) ==
    [s EXCEPT !.to = __dev_addr_delete(@, a, FALSE),
              !.from = __dev_addr_delete(@, a, FALSE)]

\* Mutant of SyncOne: the pushed address gets no user for the push.
SyncOne_NoUser(s, a) ==
    IF ~Synced(s, a)
    THEN [s EXCEPT !.to = __dev_addr_add(@, a, FALSE),
                   !.from = Marked(@, a, TRUE)]
    ELSE IF UsersOf(s.from, a) = 1 THEN DeletedFromBoth(s, a) ELSE s

\* One round of the loop of __dev_addr_sync and of dev_mc_sync.
SyncOne(s, a) ==
    IF ~Synced(s, a)
    THEN [s EXCEPT !.to = __dev_addr_add(@, a, FALSE),
                   !.from = __dev_addr_add(Marked(@, a, version = "2.6.32"),
                                           a, FALSE)]
    ELSE IF UsersOf(s.from, a) = 1 THEN DeletedFromBoth(s, a) ELSE s

\* One round of __dev_addr_unsync and of dev_mc_unsync.
UnsyncOne(s, a) ==
    IF ~Synced(s, a) THEN s
    ELSE [DeletedFromBoth(s, a) EXCEPT !.from = Marked(@, a, FALSE)]

Round(push, s, a) == IF push THEN SyncOne(s, a) ELSE UnsyncOne(s, a)

\* The lists after each round: the entries of the source are walked in their
\* order.
Walked(push) ==
    LET w[k \in 0..Len(from)] == IF k = 0 THEN [from |-> from, to |-> to]
                                 ELSE Round(push, w[k - 1], from[k].addr)
    IN w

\* In the first n rounds an address counts as pushed that nobody pushed: all its
\* users are the destination's.
Mistakes(push, n) ==
    \E k \in 1..n : LET s == Walked(push)[k - 1]  a == from[k].addr
                    IN Synced(s, a) /\ UsersOf(s.to, a) <= below[a]

\* A sync stops where the allocation of an entry fails.
dev_mc_sync ==
    \E n \in 0..Len(from) :
      LET s == Walked(TRUE)[n]
          fails == /\ n < Len(from)
                   /\ ~Synced(s, from[n + 1].addr) /\ ~Has(s.to, from[n + 1].addr)
      IN /\ n = Len(from) \/ fails
         /\ from' = s.from /\ to' = s.to
         /\ mistaken' = (mistaken \/ Mistakes(TRUE, n))
         /\ called' = IF fails THEN "failed" ELSE "sync"
         /\ \A k \in DOMAIN to' : to'[k].users <= MaxPushed
         /\ UNCHANGED <<version, mine, below>>

dev_mc_unsync ==
    LET s == Walked(FALSE)[Len(from)]
    IN /\ from' = s.from /\ to' = s.to /\ called' = "unsync"
       /\ mistaken' = (mistaken \/ Mistakes(FALSE, Len(from)))
       /\ UNCHANGED <<version, mine, below>>

\* The users of the layered device join and leave an address (dev_mc_add and
\* dev_mc_delete of the kernel), as global users or not.
Join(a, glbl) ==
    /\ mine[a] < MaxUsers
    /\ from' = __dev_addr_add(from, a, glbl)
    /\ mine' = [mine EXCEPT ![a] = IF glbl /\ (\E k \in At(from, a) : from[k].gusers = 1)
                                   THEN @ ELSE @ + 1]
    /\ called' = "join"
    /\ UNCHANGED <<version, to, below, mistaken>>

Globals(a) == IF \E k \in At(from, a) : from[k].gusers = 1 THEN 1 ELSE 0

Leave(a, glbl) ==
    /\ IF glbl THEN Globals(a) = 1 ELSE mine[a] > Globals(a)
    /\ from' = __dev_addr_delete(from, a, glbl)
    /\ mine' = [mine EXCEPT ![a] = @ - 1]
    /\ called' = "leave"
    /\ UNCHANGED <<version, to, below, mistaken>>

\* Users of the lower device itself.
JoinBelow(a) ==
    /\ below[a] < 1
    /\ to' = __dev_addr_add(to, a, FALSE)
    /\ below' = [below EXCEPT ![a] = @ + 1] /\ called' = "join"
    /\ UNCHANGED <<version, from, mine, mistaken>>

LeaveBelow(a) ==
    /\ below[a] > 0
    /\ to' = __dev_addr_delete(to, a, FALSE)
    /\ below' = [below EXCEPT ![a] = @ - 1] /\ called' = "leave"
    /\ UNCHANGED <<version, from, mine, mistaken>>

DevAddrInit ==
    /\ version \in {"2.6.23", "2.6.32"}
    /\ from = << >> /\ to = << >>
    /\ mine = [a \in Addrs |-> 0] /\ below = [a \in Addrs |-> 0]
    /\ mistaken = FALSE /\ called = "none"

DevAddrNext ==
    \/ dev_mc_sync \/ dev_mc_unsync
    \/ \E a \in Addrs :
         \/ \E glbl \in BOOLEAN : Join(a, glbl) \/ Leave(a, glbl)
         \/ JoinBelow(a) \/ LeaveBelow(a)

-----------------------------------------------------------------------------
\* Both lists agree on what was pushed: an address has as many users beyond
\* those of the source as it has beyond those of the destination.  With the marks
\* of 2.6.32.c that is always so; 2.6.23.c may take the destination's own address
\* for a pushed one, and from then on nothing is said of it.
SyncBalanced ==
    /\ version = "2.6.32" => ~mistaken
    /\ ~mistaken => \A a \in Addrs : UsersOf(from, a) - mine[a] = UsersOf(to, a) - below[a]

\* After a sync the destination of 2.6.32.c has exactly the addresses somebody
\* uses; that of 2.6.23.c, before it was mistaken, has at least those.
SyncMirrors ==
    called = "sync" /\ ~mistaken =>
        \A a \in Addrs :
            /\ mine[a] + below[a] > 0 => Has(to, a)
            /\ version = "2.6.32" /\ Has(to, a) => mine[a] + below[a] > 0
=============================================================================
