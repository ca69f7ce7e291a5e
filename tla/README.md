# A verification project for compat

`compat` backports newer Linux kernel interfaces to older kernels: one module
(`compat.ko`, some parts as modules of their own) with the functions that a
driver written for a new kernel misses on an old one. This directory models the
parts that keep state, checks the models with TLC and proves theorems about
them with TLAPS. Paths below are relative to the repository.

## 1. Inventory

### Parts that keep state and meet other actors

| Part | State | Operations | Meets | Hard about it |
|---|---|---|---|---|
| **Firmware loader** `compat/compat_firmware_class.c` | one instance per device (`firmware_priv`: status bits, page array, completion, timer), `struct firmware`, the timeout | `request_firmware`, `release_firmware`, stores to `loading` and `timeout`, reads and writes of `data`, the timer | drivers, the udev agent, an administrator | stores of 0 and -1 take no lock; the timer and the agent race; agents outlive requests; any step of setting up an instance may fail |
| **Firmware agent** `udev/compat_firmware.sh` | where the script is | `echo 1`, `cat`, `echo 0`, `echo -1` | the loader, through sysfs | started by a message that may be lost; runs on after its request is gone |
| **Asynchronous requests** (same C file) | a work item and a module reference for each call | `request_firmware_nowait`, its thread | the driver being unloaded | the continuation must be called once, in text that is still loaded |
| **PM QoS** `compat/pm_qos_params.c` | per class a list of named requirements, a target, a notifier chain; open files | add, update, remove; open, write, release; add and remove a notifier | kernel clients, processes, watchers | the lock is dropped between list, target and notification |
| **kfifo** `compat/kfifo.c`, `include/linux/kfifo.h` | two indices and a buffer | in, out, peek, skip, from and to user memory, DMA, reset; elements or records | one writer and one reader without a lock | order of copies and indices, wrapping, faults half way |
| **CoDel, FQ-CoDel** `include/net/codel.h`, `compat/sch_*codel*.c` | queues, flows, deficits, drop state | enqueue, dequeue, drop, reset, change | the parent class, the clock | counts kept in step by hand, drops reported late, wrapping time, starvation |
| **DMA buffers** `compat/dma-buf.c` | references, attachments, mappings, areas of user memory | export, fd, get, put, attach, mmap, vmap | exporter, importers, processes | reference counts, failures half way, offsets that overflow |
| **Device addresses** `compat/compat-2.6.23.c`, `-2.6.32.c` | lists with user counts | add, delete, sync, unsync | stacked devices | counts of two lists must agree |
| **LED blinking** `compat/compat-2.6.37.c` | a list of timers | blink, set, unregister | timer interrupt, callers | timers found under a lock, used after it |
| **Generic netlink** (same file) | a list of families | register with operations, unregister, the wrapper of `doit` | requests | a request before the family is listed, a failed registration |
| **Work queues** `compat/compat-2.6.36.c`, `-3.7.c`, `include/linux/compat-2.6.32.h` | queues of compat's own | schedule, cancel, mod, flush | workers, timers, `main.c` | a work that runs between two steps of a call |
| **USB anchors** `compat/compat-2.6.36.c`, `-2.6.28.c`, `-2.6.29.c` | lists of URBs | unlink, scuttle, unpoison, wait | completions | the list changes between two rounds |
| **Terminals** `compat/compat-2.6.28.c`, `-2.6.39.c` | flow control, packet status, termios | TCXONC, TIOCPKT, `tty_set_termios` | the line, both ends of a pseudo terminal | two locks, state read before a lock |
| **I2C bit banging** `compat/compat-3.4.c` | the two lines | start, stop, send, receive | slaves | clock stretching, timeouts, retries |
| **Id allocation** `compat/compat-3.1.c` | an `ida` | get, remove | callers | retry, bound |
| **Module life cycle** `compat/main.c` | the three subsystems it starts | init, exit | all | failures ignored |

### Parts without state

Parsing of numbers (`kstrtox.c`, `compat-2.6.25.c`), unaligned words, bit
operations and CRC-8 (`unaligned/*.h`, `bitops.h`, `crc8.c`), dates, rounded
timers and rotation (`compat-2.6.32.c`, `-2.6.28.c`, `cordic.c`), the flow
dissector, info frames (`hdmi.c`), packet lists and copies (`compat-2.6.28.h`,
`-3.3.c`, `-2.6.24.c`), scatter tables (`compat-2.6.25.c`), ids (`uidgid.h`), PCI
capabilities (`compat-3.7.c`), SDIO sizes and trees of files (`compat-2.6.27.c`),
searches through the tuples of a PC card (`compat-2.6.28.c`, `-2.6.33.c`): pure
functions, compared with the plain definition of what they compute. The rest
(renamings, macros, constant tables, build scripts) is listed in `PROJECT.json`
with the reason it is left out.

### How the parts interact

A driver calls `request_firmware` and sleeps on a completion. The loader
publishes an instance in sysfs and a uevent; udev runs the agent, which writes
`loading` and `data` until the loader, or the timer, completes the request. The
asynchronous form wraps the same request in a thread and pins the driver's
module. PM QoS and the work queues are started and stopped by `main.c`; the PM
QoS notifier chain calls back into its watchers. FQ-CoDel charges its drops to a
parent discipline. The other helpers share nothing but the module they are linked
into: a driver, a bus or the network layer calls each of them.

### What makes each correct

* Loader: a request is answered once; a success is the whole image of the file
  it named, frozen until it is released; no page is lost or freed twice; the
  instance outlives its timer and its writers; every request is answered.
* Asynchronous requests: one continuation per accepted call whose request ends, in
  a loaded module.
* PM QoS: a target is the extreme of what is asked for as soon as nobody is
  about to recompute it; a file counts for as long as it is open.
* kfifo: a queue, with neither side in the other's cells.
* CoDel: lengths and backlogs agree with the queues and with the parent; a packet
  comes out while there is one; no flow starves.
* DMA buffers: a buffer lives while it is used. Addresses: both lists' counts
  agree. LEDs: a blink that was stopped stays stopped, no timer outlives the LED.
  Families: requests reach the one they name. Works: none is lost. Anchors:
  every reference is somebody's. Terminals: stopped as asked, and the other end
  knows. I2C: all bytes, or an error. Ids: one owner each.
* Algorithms: the value the format defines. Where the code is known to give another
  one, the inputs are named (section 4).

`PROJECT.json` lists the hazards by line, with the properties that cover them or
the reason none does yet.

## 2. Plan

The models are complete as far as the parts above go: first the loader with its
agent, asynchronous requests, PM QoS and the kfifo; then the packet schedulers
under a parent class; then the small machines and the algorithms, checked by one
run because they share nothing.

The proofs went in the order of what a failure would cost: PM QoS, asynchronous
requests and the loader with its refinement of `FirmwareService`; the kfifo; the
machines of `Helpers`, each with an invariant of its own; then the packet
schedulers, whose loops became recursive functions with a bound that is proved to
cut nothing off.

What is left to the model checker: liveness, and the algorithms, whose recursive
operators keep them from the provers.

## 3. Modules

A definition whose name ends in `_Something` and whose comment says "Mutant of"
is not part of the model: it is a plausible bug, kept to show that a property
would notice it.

The proofs about a module `M` are in `MProofs` (section 5).

### Firmware: `FirmwareLoader`, `FirmwareUdev`, `FirmwareAnyAgent`, `FirmwareService`

`FirmwareLoader` is the kernel side for kernels from 2.6.35 on (pages owned by
`struct firmware`). `pc` is the program counter of `_request_firmware`; each
registration, its failure and its unwinding is an action. `inst` is `struct
firmware_priv`, `fw` the `struct firmware`, `timer` the timer and its handler
(split between setting ABORT and completing), `handler[a]` the place of agent
`a`'s store in `firmware_loading_store`. A section under `fw_lock` is one step.
Stores of 0 and -1 take no lock: they are split between their accesses to shared
state, except that the two assignments that move the page array are one step.
A store to `timeout` takes no lock either: `StoreTimeout` assigns the number as it is
given, `TestNegative` and `ClearTimeout` put 0 in the place of a negative one (lines
135-137), for each of the `Admins`; a request reads it twice, in `TestTimeout` (592)
and `SetTimer` (595), and a timer set for 0 or a negative time is `"due"`.
Pages are byte sequences of a multiple of `PageSize`; `pagesOut` counts pages
allocated and not freed, so losing or freeing twice shows. `oops` is set by an
access through a cleared pointer, and nothing happens after it.

`FirmwareUdev` adds the agent's script, command by command, with the uevent that
may be lost, `sh -e`, failing commands, and an agent that outlives its request.
`OverlapAgents` says whether a request may start while an agent of an earlier
one runs. `FirmwareAnyAgent` replaces the script by writers that use the files
in any order. `FirmwareService` is what a driver is promised: one answer per
call, the whole image or nothing. `FirmwareUdev` implements it (`ImplementsService`).

### `FirmwareNowait`

`backport_request_firmware_nowait` and its thread, against `try_module_get` and
the unloading of the driver. The request inside ends, if it does, with an image or
NULL, as `FirmwareService` says; nothing makes it end.

### `PmQos`, `MCPmQos`

`requirements[c]` is the list of class `c`, newest first; `op[t]` is what thread
`t` still has to do: recompute the target (`UpdateTarget`), then call the chain
(`CallNotifiers`). Each section under `pm_qos_lock` is one step. The comparitors
are folded over the list as `update_target` does. `held` is history: what each
client or file last asked for. `AnyHandles` lets a process use a file that
another opened, or hold two files of a class. A failed allocation and a misused
write have no effect and are left out, and so is the registration of devices.

### `Kfifo`, `Fifo`

`in`, `out`, `mask` and `data` are the fields of `struct __kfifo`. A writer's
call is `In` (read `out`, clamp or refuse), `WriteHead` (length field and copy up
to the end of the buffer), `WriteTail` (copy from its start, if anything is
left), `Publish` (move `in`), or `FaultIn` when `copy_from_user` stops half way. A
reader's call is `Out`, `ReadHead`, `ReadTail`, `Return` or `FaultOut`. `recsize`
0 is a fifo of elements of one byte, 1 and 2 fifos of records. `Fifo` is the
promise; `Items` reads the buffer the way the reader will. Taken from callers:
one writer and one reader, `kfifo_reset` with both kept out, `kfifo_skip` only of
what is there, a DMA out of a record no longer than `kfifo_peek_len`, and, unless
`Oversized`, records no longer than the field can tell.

### Packet schedulers: `Codel`, `ChildQdisc`, `FqCodel`, `SchCodel`, `PacketSchedulers`

`Codel` is `codel.h`: functions of a "view", a record of what `codel_dequeue` reaches
through its pointers (a queue, the counters, CoDel's variables), with time of
`TimeBits` bits and the Newton step on a fraction of the same width. `codel_dequeue`
is one definition whose parts are named for its branches. `ChildQdisc` has what both
schedulers keep: configuration, counters, the class of the parent, the clock.
`SchCodel` and `FqCodel` add one action per operation of their `Qdisc_ops` (the root
lock makes each one step). `flows` is the hash table, `new_flows` and `old_flows` are
the lists. `parent` is the class above, external code, counting as HTB does: the
packets it has passed down, and whether it is active; it asks an active class for a
drop (`.drop`) whether or not packets are left, and `Oops` is what comes out of a drop
that met none. `drift` is history: how far calls have put the parent's count off for
good. `PacketSchedulers` chooses one of the two at the start and states the
properties; the instance that is checked is at its end.

The loops of the code are functions of the number of rounds (`DropRounds`,
`Rounds`, `Drains`, `Trims`): a round computes what an iteration does and changes
nothing once the loop has been left, and the loop's result is its state after a
number of rounds that depends on the state (`RoundsLeft`: what the flows owe and
their places on the lists; for the others, the packets queued). That these are
enough in every reachable state is the theorem `LoopsEnd`, and for the dropping
loop the lemma `DropLoopKeeps`.

### Small machines

Each is a module of its own with one action for every stretch of code that
nothing can interrupt; histories record what the properties relate.

| Module | Stands for | State and steps |
|---|---|---|
| `DmaBuf` | `dma-buf.c` | `f_count` counts references of descriptors, importers and areas. `dma_buf_vunmap` is two steps: its tests run before the lock. Areas have any offset and any length. `AreaOpened`, `Munmap` and the calls' order are the importers' side: guards make importers put their reference last |
| `DevAddr` | both versions of `dev_mc_sync` and `dev_mc_unsync` | two lists, with users of both devices; `version` chooses the code. `mine` and `below` are history: whose users there are; `mistaken`: an address of the destination's own was taken for a pushed one |
| `LedBlink` | software blinking | timer objects armed, running, freed; a call finds its timer in one step and uses it in later ones; unregistration in four steps |
| `Genetlink` | families and their wrapper | `kernel` is what the kernel knows of a family. The list has no lock: `next` and `prev` are its links, and each load and store of a link by `list_add`, `list_del` and the walk of a request is a step. `raced` is history: two changes overlapped, or the links of a family were cleared under a walk |
| `SystemWorkqueue` | one delayed work on a queue of compat, `main.c` | pending bit and place as the kernel keeps them; `mod_delayed_work` in three steps; `flush_work` is one of the two functions it stands for, by version |
| `UsbAnchors` | one anchor | references by holder; a round of unlinking in two steps |
| `Terminal` | `n_tty_ioctl_helper`, `tty_set_termios` | flow control: the look at the terminal, the write lock and what is done under it are steps; `overtaken` and `undone` are history: whose look is out of date, and whether such a caller stopped the terminal. Packet mode: the two ends hold two locks, so that TIOCPKT is two steps and each change of the status a load and a store |
| `I2cBit` | `bit_xfer` | START, address, bytes, STOP; the slave's answer to each is a choice, and so is how the clock rises in a start or stop condition: in time, after the master has given up, or not at all. `Transfers` are the sequences of messages `bit_xfer` may be given |
| `SimpleIda` | `ida_simple_get` and `_remove` | ids in use, and the block of memory set aside for the next leaf |

### Algorithms

`Numbers` (strings), `Words` (unaligned words, bits, CRC-8), `Conversions` (dates,
jiffies, angles, user and group ids), `FlowDissector`, `Infoframes`, `Buffers` (lists
and copies of packets, Ethernet headers, scatter tables), `Devices` (PCI Express
registers, SDIO sizes, trees of files, tuples of a card) and the table of operations
at the end of `DmaBuf` have no state: functions named as in the code, and properties
that compare them with the plain definition of what they compute, on one input. An
input on which the code is known to differ is not required to differ: the property
says nothing of it (section 4).

`Helpers` composes the small machines: `part` says which one a behaviour is about,
and the others rest. `MCHelpers` adds the algorithms, a part of which is one state
with its `input`; its run checks both.

## 4. Runs

| Run | Shows | Bounds, and why they are enough |
|---|---|---|
| `fw_udev` | memory, pinning, refinement of `FirmwareService`, and answers, with the shipped script | two names (one exists), a file of two pages less one byte, one agent, two administrators, who store the timeouts 60 s and -1 (seen as it is until it is replaced by 0: forever), every allocation may fail. Requests repeat without bound. `OverlapAgents` is FALSE because of the finding `fw_stale_agent` |
| `fw_any_agent` | `InstancePinned`, `HandedOverIsFrozen` under writers in any order | two writers in the unlocked section at once, two pages an image, three pages outstanding |
| `fw_nowait` | exactly one continuation for each call that is over, none for a refused one; in a loaded module; called if the request ends | three calls around one unload |
| `qos_calls` | target, accounting, and that a recomputation always comes | two processes, two files, a kernel client, a watcher, three requirements: two threads suffice for every interleaving of the three sections; values are the default (-1), 3 and 5 under a default of 9 |
| `kfifo` | disjoint regions, refinement of `Fifo` | size asked 5, hence 4 cells; indices of 3 bits, so that they wrap after two rounds; lengths to 2 with bytes of one bit, so that a two-byte length field uses both bytes and a one-byte field has its limit at 1 |
| `codel` | counts, lists, work conservation, no starvation, when a class is deactivated twice, when a drop meets no packet | three flows of one or two packet kinds, limits of 4 and 7, six packets in timed behaviours; an interval of four ticks and a clock of 8 bits that starts at 250, so that it wraps; packets for ever for the liveness, with the clock standing still |
| `helpers` | the small machines and the algorithms | see below |
| `fw_late_agent`, `fw_stale_agent`, `qos_handles`, `qos_watchers`, `kfifo_oversized` | the findings below | the smallest instance that shows each |

The deadlock check is off where the system really stops: after a crash
(`fw_udev`, `fw_any_agent`, `fw_stale_agent`, `codel`, `helpers`), when every call and
thread is over (`fw_nowait`), when the packets and the time of a bounded behaviour are
used up (`codel`), when a transfer is done and for an algorithm, which is one state
(`helpers`).

The types of `FirmwareNowait` and `Kfifo` are in no run's list: their `TypeOK` is
proved (`TypeCorrect`, section 5).

Bounds of `helpers`:

* Two of every actor (importers, callers, timers, drivers, families, URBs,
  unlinkers, clients, setters): two interleave in every way two threads can. One
  area and a buffer of two pages, with all offsets and lengths modulo 8; two
  addresses with two users each above and one below; two commands of each family,
  and one request at a time, as the kernel's lock has it; one retry of an I2C
  address and up to two messages of two bytes; three ids in leaves of two, so that
  a leaf ends between them. Families and commands are interchangeable (`Symmetric`):
  no definition tells one from another, and the run has invariants only.
* Strings of up to three of twelve characters in five bases, with types of 128,
  64, 32, 16 and 8 values: every type overflows in two or three digits. Words of
  up to eight bytes with bytes of four values; all registers of four bits and all
  CRC polynomials of four bits. Days around the epoch, every kind of leap year and
  the ends of 1899, 2000 and 2100. Forty jiffies on four processors. All angles
  from -400 to 400 degrees. Packets of up to four headers, whole and cut short, IP
  headers with sizes of 0, 1, 4, 5, 6 and 15 words.
* Scatter tables of up to 20 entries with chunks of four and a failure at each of
  six allocations. Registers of four port types in both versions. SDIO sizes of
  up to 40 bytes. Trees of five directories. Cards of two tuples.

### Findings

What a run shows to be against a comment of the source, or a bug by any reading:

* `fw_late_agent`: a store of 0 in `loading` may pass the LOADING test and go
  through `fw_priv->fw` after the timed-out requester has cleared it.
  `CrashOnlyAfterAbort` shows that this takes an abort.
* `fw_stale_agent`: the agent of a request that timed out writes its file into
  the next request of the device, which succeeds with the wrong image.
* `qos_handles`: two files of one class opened by one process have one name;
  writing through, or closing, one acts on the other's requirement.
* `qos_watchers`: two updates may call the chain in the opposite order of their
  targets; the watchers keep the older value.
* `kfifo_oversized`: `kfifo_in` of a record longer than its length field can
  tell stores the low bits of the length, and the rest is read as records.

### What the code does beside its documentation

Met while modelling. None of it is required by a property: a property says nothing
of the inputs or the states concerned, says what follows from them, or the model has
the behaviour and its comment names it.

* Loader: between lines 135 and 137 a reader of `timeout` may see a negative number
  (`TypeOK` bounds it to a store under way). A request tests the timeout at 592 and
  reads it again at 595: a 0 or a negative number stored in between, which asks it to
  wait for ever (126-131), sets the timer for now and aborts it at once (`"due"`).
* Packet schedulers: `fq_codel_change` reports drops although the queue may be empty,
  against the comment of `sch_fq_codel_core.c:282-284`: the parent's class is
  deactivated twice (`TwiceOnlyByChange`). `.drop` answers with the number of a flow,
  0 for the first, which HTB takes for "nothing dropped": its count stays too high
  (`ParentCounts`, with `drift`), and when that was the last packet the class stays
  active, so that the next `.drop` finds no packet and goes through a NULL `flow->head`
  (162-163; `DropsFindPackets`, `Oops`). A reset keeps the drops of before.
* DMA buffers: `dma_buf_mmap` restores the file of an area when the exporter fails,
  not its offset (`dma-buf.c:500` says "restore old parameters").
* LEDs: calls of `led_blink_set` that overlap may leave a LED with two timers or use a
  freed one; `BlinkStops` is about calls that do not (`overlapped`).
* Families: when the operations cannot be registered, the error path removes the
  family from a list it is not on (`compat-2.6.37.c:142`): its links are NULL, or
  poisoned when it was registered before, and the kernel crashes. The list has no lock
  (67, 137, 151): changes of it that overlap tear it. `FamiliesAnswer` says what holds
  all the same and that nothing else leads nowhere (`failed`, `raced`).
* Works: `flush_scheduled_work` calls itself and never returns
  (`compat-2.6.36.c:144`); `flush_delayed_work` stops the timer of a work and does not
  queue it, so that it stays pending (`compat-2.6.32.h:80-93`); before 2.6.27
  `flush_work` cancels (`compat-2.6.27.h:57`). `work_busy` never tells that a work runs.
* Anchors: one is unlinked from its oldest URB on, while its comment says from the
  back; unpoisoning reaches only the URBs still on the list.
* I2C: a start or stop condition does not look at the answer of `sclhi`
  (`compat-3.4.c:124`, `135`). When the slave holds the clock it may be left without
  its STOP, the error is not reported, and the next byte may start with the clock high,
  a change of the data line that the slave takes for a condition (`timedout`, `busy`).
* Terminals: `was_stopped` is read before the write lock (`compat-2.6.28.c:343`), so
  that a START which overlaps is undone (`StopsKept`, `undone`). The two ends of a pseudo
  terminal change the packet status under two locks (`compat-2.6.28.c:421`,
  `compat-2.6.39.c:83`): a change that is not about flow control may bring back the
  status that TIOCPKT has just cleared (`ReaderKnows`, `revived`). A terminal that the line stops while a priority character
  waits for the lock stays stopped for it, and the character with it (336, 343).
* Addresses: the loop of the old `dev_mc_sync` stops after the first address of the
  destination (`compat-2.6.23.c:107-112`), against the comment at 86-87. It may be one
  of the destination's own, which is taken for a pushed one and deleted from both lists
  though it has users, and pushed addresses without users stay: `AddressesSynced` says
  nothing from then on (`mistaken`).
* Numbers: `kstrtoll` refuses "-0"; `strict_strto*` take a newline or a bare "0x" for
  0. `strict_strtoul` accepts a numeral that does not fit, with the value it wraps to,
  against `compat-2.6.25.c:232-243`, and `strict_strtol` follows it: `NumbersExact` says
  nothing of such a numeral.
* Words: alpha, a little endian machine, is given the big endian accessors that read
  in machine order (`compat-2.6.26.h:198-202`).
* Flows: IP in IP behind IPv6 or PPPoE is taken for the protocol of the frame
  (`flow_dissector.c:119-126`). `ihl` is not checked (46): a header that says it is too
  short puts all behind it in the wrong place, and IP in IP with an `ihl` of 0 is
  parsed for ever (125-126). When the parse fails the keys found so far stay.
* Copies: with offsets for pointers a copied packet keeps its headers' offsets though
  its headroom changed (`compat-3.3.c:76-91`).
* Scatter tables: one that is refused for its size is not cleared before it is freed
  (`compat-2.6.25.c:109-125`, `195-198`), so that a table in use loses its memory.
* Cards: `pcmcia_loop_config` loses its memory on every call and leaves a device
  configured for the last entry it refused.
* PCI: `compat-3.7.c:96` names the mask `PCI_EXP_FLAGS_TYPE` (240) where the position of
  the flags (2) belongs: register 2 reads 0 and takes no writes. The presence bit of a
  port without a slot shows in the control half of a double word (150-156, 186-189).
  `pci_pme_capable` tests a register that it never reads (`compat-2.6.27.c:34`, 40-55)
  and `pci_wake_from_d3` asks it: neither is modelled.

### Fairness

* `KernelFairness` (loader): the requester's thread, the timer interrupt and a
  store that has entered the kernel go on. A timer that is armed fires, threads
  are scheduled; nothing is assumed of agents, drivers or administrators.
* `AgentsKeepRunning` is a hypothesis of `AgentAnswers` only: with the timeout 0
  nothing but the agent can answer.
* `FirmwareNowait`: a call goes on, and a thread once its request is over. Nothing is
  assumed of the request: with the timeout 0 and no agent it waits for ever
  (`fw_udev` shows an answer for an armed timer or a living agent only), and that it
  ends is a hypothesis of `ContCalled`.
* `FairSpec` (PM QoS): a call goes on to its end once it has changed a list; it
  takes only a spinlock. Nobody has to make a call.
* The kfifo has no liveness property: no call waits.
* `Sends` (`codel`): the parent asks for the next packet as long as its class is
  active and nothing has crashed, which is what HTB does when it is asked to send. It
  is weak fairness of the two dequeues with the condition that enables them written
  out.
* The machines of `helpers` have safety properties only.

## 5. Theorems

Each theorem holds for every value of the constants that the module's assumption
allows: any number of actors, any size, no bound on the number of calls. The
bounds that make TLC's runs finite (`MaxRequirements`, `MaxPagesOut`, `MaxDepth`)
are constants too, so a theorem holds whatever they are.

| Module of proofs | Theorem | States |
|---|---|---|
| `PmQosProofs` | `TypeCorrect`, `TargetIsCurrent`, `HandlesCount` | `TypeOK`, `TargetCurrent`, and `HandlesAccounted` if `~AnyHandles` |
| | `ExtremeValueIsExtreme` | the fold of `update_target` over any list gives the extreme of the default and the list's values |
| `FirmwareNowaitProofs` | `TypeCorrect`, `TextStaysLoaded`, `CalledOnce` | `TypeOK`, `ContInLoadedModule`, `ContOnce` |
| `FirmwareAnyAgentProofs` | `InstanceOutlivesItsUsers`, `ImageFrozen` | `InstancePinned` and the action property `HandedOverIsFrozen`, under writers in any order |
| `FirmwareUdevProofs` | `InstanceOutlivesItsUsers` | `InstancePinned` with the script, agents of earlier requests included |
| | `TypeCorrect`, `PagesAccounted`, `NothingLeaks`, `CrashesAreLate`, `GetsTheFile` | if `~OverlapAgents`: `TypeOK`, `PagesOwned`, `NoPageLeak`, `CrashOnlyAfterAbort`, `RightFile` |
| | `Implements` | if `~OverlapAgents`: the loader with its agent implements `FirmwareService` |
| `KfifoProofs` | `TypeCorrect`, `RegionsStayDisjoint`, `QueueIsRecords` | if `Respected`: `TypeOK`, `RegionsDisjoint`, and that whole records lie between `out` and `in` |
| | `RecordsStayWhole` | if `Respected`: `RecordsWhole` |
| | `KfifoIsAFifo` | if `Respected`: a fifo, of elements or of records, implements `Fifo` |
| `CodelProofs` | `Counts`, `LinkedOnce`, `ParentIsTold` | `QueuesCounted`, `FlowsLinkedOnce`, `ParentCounts` |
| | `ConservesWork`, `OnceDeactivated`, `DropsFind` | the action properties `WorkConserving`, `TwiceOnlyByChange` and `DropsFindPackets` |
| | `LoopsEnd` | the loops of fq_codel end within the rounds the model gives them |
| `HelpersProofs` | `WorkIsNotLost`, `AnchorsBalance`, `IdsAreUnique`, `RequestsReachFamilies`, `StopsAreKept`, `ReadersKnow`, `BuffersAreAccounted`, `AreasStayInBuffers`, `StoppedBlinksStay`, `TransfersAreWhole`, `AddressesStaySynced` | `WorkNotLost`, `AnchorsBalanced`, `IdsUnique`, `FamiliesAnswer`, `StopsKept`, `ReaderKnows`, `BufferAccounted`, `AreasInBuffer`, `BlinkStops`, `BusTransfers`, `AddressesSynced` |

`FirmwareLoaderProofs` has the lemmas that both kinds of agents share.

`TypeCorrect` of the loader includes that a negative timeout is there only while a
store of one is under way. `CalledOnce` says that a call which is over, and was not
refused, had its continuation called, not only that none was called twice.

### Hypotheses

Some theorems exclude a case for which section 4 shows a counterexample; without
the hypothesis they are false, and the finding is the reason.

* `~AnyHandles`: a process uses the files it opened itself, one for a class
  (`qos_handles`).
* `~OverlapAgents`: the agents of a request end before the next one starts
  (`fw_stale_agent`).
* `Respected`: records are no longer than their length field can tell, or there
  are only elements (`kfifo_oversized`).

### Assumptions on constants

`PmQosAssumption`: defaults and values are integers, threads, clients and files have
different names, `None` is no handle. `NowaitAssumption`: finitely many calls, since
their references are counted. `FirmwareAssumption`, `UdevAssumption`: a page has
bytes, an installed file has a size that fits the pages a request may have, timeouts
are integers. `KfifoAssumption`: a size asked for is rounded down to at least 2 and no
more than what was asked, and the indices wrap after an even number of rounds of the
buffer, as powers of two do in C; lengths are told in base `Base`.
`HelpersAssumption`: users, areas and unlinkers are finitely many, since they are
counted; `None` and `Nobody` are nobody, and no family is the head of the list; a
buffer has fewer pages than an unsigned long counts, because its size in bytes fits
into one; the greatest id and length of a block are numbers; a transfer is a sequence
of messages with flags and a length. `ChildAssumption`: there are flows, packets have
bytes, limits are numbers, the clock's values are integers, `Quiet` and `Oops` are
neither flows nor `NoSkb`, and 2 ^ TimeBits is positive, which the provers do not
know; nothing is assumed of the CoDel parameters. `NoSkbAssumption`: NULL is no
packet. `FqAssumption`: a quantum is positive (the code takes at least 256). TLC
evaluates each of them.

### The arguments

* **PM QoS.** `IInv` is `TypeOK /\ TargetCurrent`: a step that changes a list
  leaves its thread about to recompute, a recomputation makes the target the
  extreme of the list it finds. `TargetCurrent` alone is not inductive: a list has
  an extreme only while `TypeOK` holds. The fold is a recursive function; its
  equation comes from a well-founded definition and its properties from the
  least index at which they would fail (`LeastNat`). `HandlesCount` needs
  `Accounts` as well: the elements of a class's list are exactly the entries of its
  clients and open files, and no name occurs twice. Only with unique names does an
  update or a removal, which takes the first element of its name, meet its own
  requirement; `FilesHeld` keeps the names of files apart and is what `AnyHandles`
  breaks.
* **Asynchronous requests.** The reference count is the number of calls between
  `try_module_get` and `module_put`, and a module that is going has none
  (`RefsCounted`); how often a continuation was called follows from how far its call
  is (`CallProgress`).
* **Loader, whatever its agents do.** `Shape` says in which steps of the request
  the instance lives, is attached and has its files, and that a timer or a store
  is under way only within them. `InstancePinned` follows at once, and
  `HandedOverIsFrozen` from the fact that a store after the verdict finds the
  instance detached or gone.
* **Loader with its script.** One agent at a time runs for a request that is not
  over (`OneAgent`). It has copied a prefix of the file, page by page
  (`AgentProgress`); a store of 0 is past the test only for a whole file
  (`StoreProgress`); the requester wakes up for an abort or for the image (`Woken`);
  the pages are with the instance or with `struct firmware` (`Owned`) and each is
  counted once (`Counted`). All this holds until the access through the cleared
  pointer; when it happens there was an abort (`Crashed`). `Implements` maps each step
  to one of `FirmwareService` or to a stutter, with these facts at hand.
* **kfifo.** Neither side reads the other's state except its index, so
  `RegionsDisjoint` needs what an index vouches for: that the queue is a chain of
  whole records, each head leading to the next (`Chained`, for a set of ends that
  is chosen, not computed); that a writer has written its head and what it has
  copied so far (`HeadWritten`, `Copied`), a record that fits its field (`Fits`);
  that a reader holds what its end of the queue holds (`Taken`). `SameQueue`
  says when two buffers hold the same queue: a writer's copies change no queued
  cell. The refinement maps publishing to `Put`, the end of a read to `Take`, and the
  copies to stutters. The records it maps to are read from the buffer by a recursive
  function (`RecordsWithin`). That its equation has a solution is proved by strong
  induction with a set for the predicate (`RecordsRead`); then, over the ends of the
  chain, that two buffers which agree on the queue read the same records, followed by
  whatever the second has published behind them (`QueueReads`). A reader needs
  one fact more: it asks no more of the first record than its length (`Asked`).
* **The machines of `Helpers`.** A step is one of a single machine (`StepsApart`), so
  each has an invariant of its own. *Works* (`WqInv`): of two `mod_delayed_work` at
  most one is between taking the pending bit and queueing. *Anchors* (`AnchorInv`): a
  URB is on the list once, so that unlinking drops one reference. *Ids* (`IdaInv`): a
  client that retries still has its range. *Families* (`GenlInv`): whatever the list
  looks like, its walk answers only for the family it was asked for; and while nothing
  has raced, one family at a time changes the list, the families can be given an order
  in which every link of the list leads to the next one (`Leads`) but for the one that
  the change has still to store (`Torn`, `PhaseOf`), and a walk has not passed the
  family that it looks for. *Terminals* (`TtyInv`, `PktInv`): the lock is held by the
  caller in its section; a terminal that was asked to stop is stopped or will be by a
  sender in its section (`StopKept`), and a sender whose look is not out of date acts
  on what the terminal is (`LooksRight`); a setter between its load and its store has
  the status as it is, but for what TIOCPKT has cleared since (`StatusAt`), and the
  reader believes the old flow control or the new until it is stored (`Believes`).
  *Buffers* (`DmaInv`): an importer that has attached or mapped holds a reference.
  *LEDs* (`LedInv`): until calls overlap, a call and the driver hold the one timer
  listed, or none. *I2C* (`BusInv`): bytes transferred and bytes left make the length
  of the current message, also while a block read lengthens it; as long as no clock
  timed out, in a byte or in a condition, it is low between the bits and a stop
  condition is seen. *Addresses* (`AddrInv`): an address has as many users in the
  source beyond its own as in the destination beyond the users there (`Balanced`),
  with 2.6.23.c until it is mistaken; with marks that is one or none, and just the
  marked ones have it, which keeps 2.6.32.c from ever being mistaken. A round changes
  the rows of its address only (`RoundKeeps`), so each round of a walk finds its
  address as the walk found it (`WalkKeeps`, by the least round at which it would not,
  as for the fold of PM QoS).
* **Packet schedulers.** What the law says of time is not used: the proofs hold for
  any decisions that drop a packet only while bytes remain behind it (`DropAllowed`).
  From there in layers. A step of `codel_dequeue` takes packets off the head of its
  queue only and keeps the difference between each counter and the queue; packets
  handed out, dropped and queued add up (`Follows`). A round of `fq_codel_dequeue`
  keeps the table counted and the lists in order (`IsQ`), drops no last packet
  (`Kept`), and takes one from `RoundsLeft`: a quantum lowers a debt, an empty flow
  loses a place. Hence a dequeue without a packet leaves no flow on a list, so no
  packets at all (`PacketsAreListed`), and the drops are with the parent or in
  `drop_count` (`Answers`). The loops of `fq_codel_reset` and `fq_codel_change` keep
  what the class counts too many (`Drawn`, `Surplus`). `IInv` adds that a class whose
  child has packets is active, which `TwiceOnlyByChange` and `DropsFindPackets` need;
  `FattestFlow` says that a drop finds a packet while there is one, because the
  backlogs are those of the queues. Every sum is a recursive function; its laws are
  proved by induction with a set in the place of a predicate (`SetInduction`).

### Only model-checked

* Liveness (`TargetSettles`, `ContCalled`, `TimeoutAnswers`, `AgentAnswers`,
  `NoFlowStarves`): it needs fairness and ENABLED.
* What a recursive definition computes for every input, in general: the theorems
  of induction take a predicate as a parameter, which the provers cannot instantiate.
  Recursive functions of a number are covered all the same, by the least number at
  which a claim would fail: the fold of PM QoS, the walks over device addresses, the
  sums and loops of the packet schedulers, the queue of records of a kfifo.
* The modules with RECURSIVE operators, which the provers cannot use: `Conversions`,
  `FlowDissector`, `Buffers` and `Devices`, which makes `NumbersExact`, `PacketsExact`
  and `DevicesExact`, in one module with them, TLC's as well.
* Of the properties that need `~OverlapAgents`, nothing is shown when agents
  overlap, except `InstancePinned`.

## 6. Assumptions and what is not modelled

* Memory is sequentially consistent. The kfifo's readers have no barrier between
  an index and the data, nor has `__kfifo_dma_in_finish_r` between the length
  and `in`: what weaker machines do is a listed hazard without a property.
* Loader: kernels before 2.6.35, the built-in firmware branch that is compiled
  out, class registration, the text of uevents, and the unloading of compat
  itself under its threads.
* PM QoS: registering and deregistering the four devices, and its failures.
* kfifo: elements of several bytes, scatterlists, freeing.
* CoDel: filters, allocation failures of init, hash perturbation, statistics and
  netlink.
* The small machines keep to the callers' side of each interface, as guards of the
  callers' actions: importers put their reference last (what becomes of a buffer whose
  last reference goes while it is attached or mapped is not modelled), a driver
  cancels its work before it is unloaded, callers hold the locks the interface asks
  for.
* Statistics counters and 64-bit atomics: their promise is about memory ordering.
* Constant tables, renamings and one-line shims (`wireless.h`, `hid-ids.h`,
  `compat-2.6.h` and most of the per-version headers): nothing computed.
* `PROJECT.json` lists every other component with its reason.
