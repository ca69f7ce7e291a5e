----------------------------- MODULE UsbAnchors ------------------------------
(***************************************************************************)
(* URBs on an anchor (compat-2.6.36.c, 2.6.28.c, 2.6.29.c): an anchored    *)
(* URB is referenced by the list until its completion, an unlinking or a   *)
(* scuttling takes it off, in any order.  The kernel submits, completes    *)
(* and poisons.                                                            *)
(***************************************************************************)
EXTENDS Integers, Sequences, FiniteSets, SequencesExt

CONSTANTS Urbs, Unlinkers, Nobody

VARIABLES
    urb_list,     \* of the anchor
    refs, own,    \* references of each URB; those the driver holds: 0 or 1
    hcd,          \* of each URB: "idle", "inflight" or "completing"
    reject,       \* of each URB: poisonings not undone
    victim,       \* what each caller of usb_unlink_anchored_urbs took off
    asleep,       \* somebody waits for the anchor to be empty
    used          \* history: an URB was used after its last reference was put

anvars == <<urb_list, refs, own, hcd, reject, victim, asleep, used>>

AnInit ==
    /\ urb_list = << >> /\ refs = [u \in Urbs |-> 1] /\ own = [u \in Urbs |-> 1]
    /\ hcd = [u \in Urbs |-> "idle"] /\ reject = [u \in Urbs |-> 0]
    /\ victim = [c \in Unlinkers |-> Nobody] /\ asleep = FALSE /\ used = FALSE

Anchored(u) == u \in ToSet(urb_list)
Uses(S) == used' = (used \/ \E u \in S : refs[u] = 0)
Adds(changes) == refs' = [u \in Urbs |-> refs[u] + IF u \in DOMAIN changes THEN changes[u] ELSE 0]
One(u, n) == [v \in {u} |-> n]

\* __usb_unanchor_urb, without the put: wakes when the list becomes empty.
__usb_unanchor_urb(list) == urb_list' = list /\ asleep' = (asleep /\ list # << >>)

\* The kernel: usb_anchor_urb and usb_submit_urb of an URB that is accepted.
Submit(u) ==
    /\ own[u] = 1 /\ hcd[u] = "idle" /\ ~Anchored(u) /\ reject[u] = 0
    /\ urb_list' = Append(urb_list, u) /\ Adds(One(u, 2))
    /\ hcd' = [hcd EXCEPT ![u] = "inflight"]
    /\ UNCHANGED <<own, reject, victim, asleep, used>>

Completes(u) ==
    /\ hcd[u] = "inflight" /\ hcd' = [hcd EXCEPT ![u] = "completing"]
    /\ UNCHANGED <<urb_list, refs, own, reject, victim, asleep, used>>

\* usb_unanchor_urb tests under the lock whether it still is anchored.
GivesBack(u) ==
    /\ hcd[u] = "completing" /\ hcd' = [hcd EXCEPT ![u] = "idle"]
    /\ Uses({u})
    /\ IF Anchored(u)
       THEN __usb_unanchor_urb(RemoveFirst(urb_list, u)) /\ Adds(One(u, -2))
       ELSE Adds(One(u, -1)) /\ UNCHANGED <<urb_list, asleep>>
    /\ UNCHANGED <<own, reject, victim>>

\* The driver drops its own reference; usb_poison_urb of an URB.
usb_free_urb(u) ==
    /\ own[u] = 1 /\ own' = [own EXCEPT ![u] = 0] /\ Adds(One(u, -1))
    /\ UNCHANGED <<urb_list, hcd, reject, victim, asleep, used>>

Poison(u) ==
    /\ own[u] = 1 /\ reject[u] = 0
    /\ reject' = [reject EXCEPT ![u] = 1]
    /\ UNCHANGED <<urb_list, refs, own, hcd, victim, asleep, used>>

WaitEmpty ==
    /\ urb_list # << >> /\ ~asleep /\ asleep' = TRUE
    /\ UNCHANGED <<urb_list, refs, own, hcd, reject, victim, used>>

-----------------------------------------------------------------------------
\* Mutant of usb_get_from_anchor: no reference is kept for the caller.
usb_get_from_anchor_NoGet(c) ==
    /\ urb_list # << >> /\ victim[c] = Nobody
    /\ LET u == Head(urb_list)
       IN /\ victim' = [victim EXCEPT ![c] = u]
          /\ __usb_unanchor_urb(Tail(urb_list)) /\ Adds(One(u, -1)) /\ Uses({u})
    /\ UNCHANGED <<own, hcd, reject>>

\* The oldest URB goes from the list to the caller, with a reference.
usb_get_from_anchor(c) ==
    /\ urb_list # << >> /\ victim[c] = Nobody
    /\ LET u == Head(urb_list)
       IN /\ victim' = [victim EXCEPT ![c] = u]
          /\ __usb_unanchor_urb(Tail(urb_list)) /\ Adds(One(u, 1 - 1)) /\ Uses({u})
    /\ UNCHANGED <<own, hcd, reject>>

\* The rest of a round of usb_unlink_anchored_urbs: usb_unlink_urb makes an
\* URB in flight complete.
usb_unlink_anchored_urbs(c) ==
    LET u == victim[c]
    IN /\ u # Nobody /\ victim' = [victim EXCEPT ![c] = Nobody]
       /\ hcd' = [hcd EXCEPT ![u] = IF @ = "inflight" THEN "completing" ELSE @]
       /\ Uses({u}) /\ Adds(One(u, -1))
       /\ UNCHANGED <<urb_list, own, reject, asleep>>

usb_scuttle_anchored_urbs ==
    /\ urb_list # << >>
    /\ __usb_unanchor_urb(<< >>)
    /\ Adds([u \in ToSet(urb_list) |-> -1]) /\ Uses(ToSet(urb_list))
    /\ UNCHANGED <<own, hcd, reject, victim>>

\* Only the URBs still on the list can be used again.
usb_unpoison_urb(u) == reject[u] - 1
usb_unpoison_anchored_urbs ==
    /\ \A u \in ToSet(urb_list) : reject[u] > 0
    /\ urb_list # << >>
    /\ reject' = [u \in Urbs |-> IF Anchored(u) THEN usb_unpoison_urb(u) ELSE reject[u]]
    /\ UNCHANGED <<urb_list, refs, own, hcd, victim, asleep, used>>

usb_anchor_empty == urb_list = << >>

AnNext ==
    \/ \E u \in Urbs : \/ Submit(u) \/ Completes(u) \/ GivesBack(u)
                       \/ usb_free_urb(u) \/ Poison(u)
    \/ \E c \in Unlinkers : usb_get_from_anchor(c) \/ usb_unlink_anchored_urbs(c)
    \/ usb_scuttle_anchored_urbs \/ usb_unpoison_anchored_urbs \/ WaitEmpty

-----------------------------------------------------------------------------
\* Every reference is the driver's, the list's, the controller's or that of
\* a caller unlinking it, so nothing is used after its last one; and nobody
\* sleeps on an empty anchor, whoever emptied it.
AnchorsBalanced ==
    /\ \A u \in Urbs :
          refs[u] = own[u] + (IF Anchored(u) THEN 1 ELSE 0)
                    + (IF hcd[u] = "idle" THEN 0 ELSE 1)
                    + Cardinality({c \in Unlinkers : victim[c] = u})
    /\ ~used
    /\ usb_anchor_empty => ~asleep
=============================================================================
