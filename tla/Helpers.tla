------------------------------- MODULE Helpers -------------------------------
(***************************************************************************)
(* The helpers that keep state and share nothing but the module they are   *)
(* linked into: `part' says which one a behaviour is about.  A machine     *)
(* runs from its initial states while the others rest in theirs.           *)
(***************************************************************************)
EXTENDS Integers, Sequences, FiniteSets

CONSTANTS Users, Areas, Size, PageMod, Other, Buf, Addrs, MaxUsers, MaxPushed,
          Callers, Timers, None, Retries, BlockMax, Transfers, Families, Cmds, Drivers,
          ListHead, MaxDepth, Urbs, Unlinkers, Nobody, Clients, Top, Leaf, Setters

\* The actors that are counted are finitely many; None and Nobody are nobody,
\* and the head of a list is no member of it.
\* The files of a buffer and of a driver differ, and a buffer has fewer pages
\* than an unsigned long counts: its size in bytes fits into one.
ASSUME HelpersAssumption ==
    /\ IsFiniteSet(Users) /\ IsFiniteSet(Areas) /\ Buf # Other
    /\ Size \in Nat /\ PageMod \in Nat /\ Size < PageMod
    /\ None \notin Timers \cup Callers \cup Setters \cup Families \cup Cmds \cup {ListHead}
    /\ ListHead \notin Families
    /\ IsFiniteSet(Unlinkers) /\ Nobody \notin Urbs
    /\ Top \in Nat
    /\ BlockMax \in Nat /\ Transfers \subseteq Seq([flags : SUBSET STRING, len : Nat])

VARIABLES
    part,
    f_count, own, fds, held, attachments, vmapping_counter, vmap_ptr, mapped, leaving,
    vma, bug,                                                          \* DmaBuf
    version, from, to, mine, below, mistaken, called,                  \* DevAddr
    listed, timer, brightness, led_driver, caller, overlapped, fault,  \* LedBlink
    msgs, i, xfer_at, tries, stage, count, scl, sda, ret, stretched, timedout, busy, fresh,
    sending, bytes, broken,                                            \* I2cBit
    family_at, kernel, fam_next, fam_prev, saved, request, oops, failed,
    raced,                                                             \* Genetlink
    life, flush_work, pending, place, running, wq_driver, work_asked,
    work_stopped,                                                      \* SystemWorkqueue
    urb_list, refs, urb_own, hcd, reject, victim, asleep, used,        \* UsbAnchors
    ida, set_aside, client,                                            \* SimpleIda
    stopped, flow_stopped, atomic_write_lock, call_at, was_stopped, send_xchar, asked,
    overtaken, undone, tty_held,
    packet, ctrl_status, termios, termios_locked, termios_mutex, setter_at,
    old_termios, loaded, master_at, seen, revived                      \* Terminal

Dma     == INSTANCE DmaBuf
Addr    == INSTANCE DevAddr
Led     == INSTANCE LedBlink WITH driver <- led_driver
I2c     == INSTANCE I2cBit WITH at <- xfer_at
Genl    == INSTANCE Genetlink WITH at <- family_at, next <- fam_next, prev <- fam_prev
Wq      == INSTANCE SystemWorkqueue
             WITH driver <- wq_driver, asked <- work_asked, stopped <- work_stopped
Anchor  == INSTANCE UsbAnchors WITH own <- urb_own
Ida     == INSTANCE SimpleIda
Tty     == INSTANCE Terminal WITH at <- call_at, held <- tty_held

dmavars    == <<f_count, own, fds, held, attachments, vmapping_counter, vmap_ptr, mapped,
                leaving, vma, bug>>
addrvars   == <<version, from, to, mine, below, mistaken, called>>
ledvars    == <<listed, timer, brightness, led_driver, caller, overlapped, fault>>
i2cvars    == <<msgs, i, xfer_at, tries, stage, count, scl, sda, ret, stretched, timedout, busy,
                fresh, sending, bytes, broken>>
genlvars   == <<family_at, kernel, fam_next, fam_prev, saved, request, oops, failed,
                raced>>
wqvars     == <<life, flush_work, pending, place, running, wq_driver, work_asked, work_stopped>>
anchorvars == <<urb_list, refs, urb_own, hcd, reject, victim, asleep, used>>
idavars    == <<ida, set_aside, client>>
ttyvars    == <<stopped, flow_stopped, atomic_write_lock, call_at, was_stopped, send_xchar,
                asked, overtaken, undone, tty_held>>
pktvars    == <<packet, ctrl_status, termios, termios_locked, termios_mutex, setter_at,
                old_termios, loaded, master_at, seen, revived>>

helpervars == <<part, dmavars, addrvars, ledvars, i2cvars, genlvars, wqvars, anchorvars,
                idavars, ttyvars, pktvars>>

-----------------------------------------------------------------------------
Machines == {"dmabuf", "addresses", "led", "i2c", "genl", "workqueue", "anchors", "ida",
             "tty", "packet"}

MachinesInit ==
    /\ Dma!DmaBufInit /\ Addr!DevAddrInit /\ Led!LedInit /\ I2c!I2cInit /\ Genl!GenlInit
    /\ Wq!WqInit /\ Anchor!AnInit /\ Ida!IdaInit /\ Tty!FlowInit /\ Tty!PacketInit

OthersRest ==
    /\ UNCHANGED part
    /\ IF part = "dmabuf" THEN TRUE ELSE UNCHANGED dmavars
    /\ IF part = "addresses" THEN TRUE ELSE UNCHANGED addrvars
    /\ IF part = "led" THEN TRUE ELSE UNCHANGED ledvars
    /\ IF part = "i2c" THEN TRUE ELSE UNCHANGED i2cvars
    /\ IF part = "genl" THEN TRUE ELSE UNCHANGED genlvars
    /\ IF part = "workqueue" THEN TRUE ELSE UNCHANGED wqvars
    /\ IF part = "anchors" THEN TRUE ELSE UNCHANGED anchorvars
    /\ IF part = "ida" THEN TRUE ELSE UNCHANGED idavars
    /\ IF part = "tty" THEN TRUE ELSE UNCHANGED ttyvars
    /\ IF part = "packet" THEN TRUE ELSE UNCHANGED pktvars

MachinesNext ==
    /\ \/ part = "dmabuf" /\ Dma!DmaBufNext
       \/ part = "addresses" /\ Addr!DevAddrNext
       \/ part = "led" /\ Led!LedNext
       \/ part = "i2c" /\ I2c!I2cNext
       \/ part = "genl" /\ Genl!GenlNext
       \/ part = "workqueue" /\ Wq!WqNext
       \/ part = "anchors" /\ Anchor!AnNext
       \/ part = "ida" /\ Ida!IdaNext
       \/ part = "tty" /\ Tty!FlowNext
       \/ part = "packet" /\ Tty!PacketNext
    /\ OthersRest

HelpersSpec == MachinesInit /\ [][MachinesNext]_helpervars

-----------------------------------------------------------------------------
\* Every reference to a buffer is some holder's, and no BUG_ON of its release
\* or its kernel mapping fires (dma-buf.c).
BufferAccounted == Dma!BufferAccounted

\* No area reaches behind the end of its buffer (dma-buf.c).
AreasInBuffer == Dma!AreasInBuffer

\* After a sync the destination has the addresses of the source, and both
\* lists agree on what was pushed: always with the marks of compat-2.6.32.c, and
\* with compat-2.6.23.c until it takes an address of the destination's own for a
\* pushed one.
AddressesSynced == Addr!SyncBalanced /\ Addr!SyncMirrors

\* As long as calls do not overlap, a LED has one timer, and a blink that was
\* stopped stays stopped (compat-2.6.37.c).
BlinkStops == Led!BlinkStops

\* A transfer that succeeds moved every byte, and the bus is free after it
\* unless the slave holds the clock (compat-3.4.c).
BusTransfers == I2c!BusTransfers

\* Requests reach the family they name, and the list of families leads to all
\* that are registered as long as changes of it do not race (compat-2.6.37.c).
FamiliesAnswer == Genl!FamiliesAnswer

\* A work that was asked for runs unless a flush took it away (compat-2.6.36.c,
\* compat-2.6.32.h).
WorkNotLost == Wq!WorkNotLost

\* Every reference to an URB is accounted for and no waiter misses the last
\* one (compat-2.6.28.c, compat-2.6.23.c).
AnchorsBalanced == Anchor!AnchorsBalanced

\* Every id in use is one client's (compat-3.1.c).
IdsUnique == Ida!IdsUnique

\* A terminal that was asked to stop is stopped, however calls overlap
\* (compat-2.6.28.c).
StopsKept == Tty!FlowKept

\* The reader of the master in packet mode knows the flow control of the slave,
\* unless a change of its status crossed TIOCPKT (compat-2.6.39.c).
ReaderKnows == Tty!PacketAgrees

=============================================================================
