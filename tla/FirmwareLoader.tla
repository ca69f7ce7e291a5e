--------------------------- MODULE FirmwareLoader ---------------------------
(***************************************************************************)
(* The kernel side of the userspace firmware loader,                       *)
(* src/compat/compat_firmware_class.c: one requester at a time runs        *)
(* _request_firmware() for a device, a timer may abort the request, and    *)
(* userspace agents write the sysfs files `loading' and `data' of the      *)
(* request's instance.  What the agents write, and when, is left to the    *)
(* modules that extend this one (FirmwareUdev, FirmwareAnyAgent).          *)
(*                                                                         *)
(* Every section under fw_lock is one step: nothing in it sleeps on        *)
(* another actor.  Storing 0 or -1 in `loading' does not take fw_lock, and *)
(* is split between its accesses to shared state; only the two assignments *)
(* that move the page array from the instance to the firmware are one.     *)
(* Nor is there a lock around loading_timeout, which a store in `timeout'  *)
(* tests and corrects after it has stored it, and the requester reads      *)
(* twice.                                                                  *)
(***************************************************************************)
EXTENDS Integers, Sequences

CONSTANTS
  Agents,        \* userspace agents (each with at most one write under way)
  Admins,        \* administrators who store in `timeout', and may do so at once
  Names,         \* names of firmware files
  PageSize,      \* bytes in a page
  MaxPages,      \* bound: pages an image may take
  TimeoutStores, \* values an administrator stores in `timeout'
  AllocFails,    \* whether allocations and registrations may fail
  Junk           \* content of a page nobody has written

ASSUME FirmwareAssumption ==
  /\ PageSize \in Nat \ {0}
  /\ MaxPages \in Nat
  /\ TimeoutStores \subseteq Int /\ TimeoutStores # {}
  /\ AllocFails \in BOOLEAN

VARIABLES
  loading_timeout, \* seconds; 0 waits forever
  admin,           \* [Admins -> where its store to `timeout' is]
  pc,              \* where the requester is
  name,            \* the file it asks for
  uevent,          \* whether it announces the request to userspace
  result,          \* "none", "ok" or "error": what _request_firmware returns
  fw,              \* struct firmware: size, pages mapped at data, own pages
  inst,            \* struct firmware_priv (the instance)
  timer,           \* "off", "armed", "due" (armed for no time at all), or
                   \* "aborting" (handler half done)
  handler,         \* [Agents -> where its store to `loading' is]
  pagesOut,        \* pages allocated and not freed
  oops             \* the kernel has dereferenced or freed a bad pointer

vars == <<loading_timeout, admin, pc, name, uevent, result, fw, inst, timer,
          handler, pagesOut, oops>>
requestVars == <<loading_timeout, admin, name, uevent, result>>

(***************************************************************************)
(* Pages.  A sequence of bytes stands for an array of pages; its length is *)
(* a multiple of PageSize.                                                 *)
(***************************************************************************)
PFN_UP(n)    == (n + PageSize - 1) \div PageSize
PageCount(p) == Len(p) \div PageSize

\* The pages after writing the bytes `content' at offset `off'.
Overlay(p, off, content) ==
  [i \in 1..Len(p) |-> IF i \in off + 1..off + Len(content)
                       THEN content[i - off] ELSE p[i]]

\* The pages after growing them to n pages.
Grown(p, n) == [i \in 1..n * PageSize |-> IF i <= Len(p) THEN p[i] ELSE Junk]

NoFirmware == [size |-> 0, mapped |-> 0, pages |-> <<>>]

\* A zeroed instance.  attached: fw_priv->fw is not NULL; nr: nr_pages.
NoInstance == [alive |-> FALSE, attached |-> FALSE, loading |-> FALSE,
               done |-> FALSE, abort |-> FALSE, completed |-> FALSE,
               pages |-> <<>>, nr |-> 0,
               loadingFile |-> FALSE, dataFile |-> FALSE]

\* firmware_free_data(): it frees PFN_UP(size) entries of the page array,
\* whatever the length of that array.
FreedPages(f)   == IF f.pages = <<>> THEN 0 ELSE PFN_UP(f.size)
FreesPastEnd(f) == f.pages # <<>> /\ PFN_UP(f.size) > PageCount(f.pages)

MayFail == AllocFails

(***************************************************************************)
(* firmware_timeout_store(): the number is stored as it was read, then     *)
(* tested, then set to 0 when it is negative.                              *)
(***************************************************************************)
AdminGoes(a, from, to) == admin[a] = from /\ admin' = [admin EXCEPT ![a] = to]

unlessTimeout == <<pc, name, uevent, result, fw, inst, timer, handler, pagesOut, oops>>

StoreTimeout(a, v) ==
  /\ AdminGoes(a, "idle", "test")
  /\ loading_timeout' = v
  /\ UNCHANGED unlessTimeout

\* Mutant of TestNegative: 0 is taken for a negative number, and no other.
TestNegative_Zero(a) ==
  /\ AdminGoes(a, "test", IF loading_timeout = 0 THEN "clear" ELSE "idle")
  /\ UNCHANGED <<loading_timeout, unlessTimeout>>

TestNegative(a) ==
  /\ AdminGoes(a, "test", IF loading_timeout < 0 THEN "clear" ELSE "idle")
  /\ UNCHANGED <<loading_timeout, unlessTimeout>>

ClearTimeout(a) ==
  /\ AdminGoes(a, "clear", "idle")
  /\ loading_timeout' = 0
  /\ UNCHANGED unlessTimeout

TimeoutStep ==
  \E a \in Admins : \/ \E v \in TimeoutStores : StoreTimeout(a, v)
                    \/ TestNegative(a) \/ ClearTimeout(a)

(***************************************************************************)
(* The requester: _request_firmware() and release_firmware()               *)
(***************************************************************************)
At(here, next) == pc = here /\ pc' = next

Call(n, u) ==
  /\ pc = "idle" \/ (pc = "returned" /\ result = "error")
  /\ pc' = "allocFirmware"
  /\ name' = n /\ uevent' = u /\ result' = "none"
  /\ UNCHANGED <<loading_timeout, admin, fw, inst, timer, handler, pagesOut, oops>>

\* kzalloc(struct firmware); release_firmware(NULL) does nothing.
AllocFirmware ==
  /\ \/ At("allocFirmware", "allocInstance") /\ UNCHANGED result
     \/ MayFail /\ At("allocFirmware", "returned") /\ result' = "error"
  /\ fw' = NoFirmware
  /\ UNCHANGED <<loading_timeout, admin, name, uevent, inst, timer, handler, pagesOut, oops>>

\* fw_create_instance() up to __module_get()
AllocInstance ==
  /\ \/ /\ At("allocInstance", "addDevice")
        /\ inst' = [NoInstance EXCEPT !.alive = TRUE, !.attached = TRUE]
     \/ MayFail /\ At("allocInstance", "failed") /\ UNCHANGED inst
  /\ UNCHANGED <<requestVars, fw, timer, handler, pagesOut, oops>>

\* Mutant of PutDevice: the release forgets the pages of the array.
PutDevice_KeepsPages ==
  /\ inst' = NoInstance
  /\ UNCHANGED pagesOut

\* put_device() of the last reference runs fw_dev_release().
PutDevice ==
  /\ inst' = NoInstance
  /\ pagesOut' = pagesOut - inst.nr

AddDevice ==
  /\ \/ At("addDevice", "createData") /\ UNCHANGED <<inst, pagesOut>>
     \/ MayFail /\ At("addDevice", "failed") /\ PutDevice
  /\ UNCHANGED <<requestVars, fw, timer, handler, oops>>

CreateDataFile ==
  /\ \/ /\ At("createData", "createLoading")
        /\ inst' = [inst EXCEPT !.dataFile = TRUE]
        /\ UNCHANGED pagesOut
     \/ MayFail /\ At("createData", "failed") /\ PutDevice
  /\ UNCHANGED <<requestVars, fw, timer, handler, oops>>

CreateLoadingFile ==
  /\ \/ /\ At("createLoading", IF uevent THEN "arm" ELSE "wait")
        /\ inst' = [inst EXCEPT !.loadingFile = TRUE]
        /\ UNCHANGED pagesOut
     \/ MayFail /\ At("createLoading", "failed") /\ PutDevice
  /\ UNCHANGED <<requestVars, fw, timer, handler, oops>>

\* The timeout is tested,
TestTimeout ==
  /\ At("arm", IF loading_timeout > 0 THEN "setTimer" ELSE "notify")
  /\ UNCHANGED <<requestVars, fw, inst, timer, handler, pagesOut, oops>>

\* and read again for mod_timer(): it may have become 0 or negative, and a
\* timer set for now or for the past goes off at once.
SetTimer ==
  /\ At("setTimer", "notify")
  /\ timer' = IF loading_timeout > 0 THEN "armed" ELSE "due"
  /\ UNCHANGED <<requestVars, fw, inst, handler, pagesOut, oops>>

ArmTimer == TestTimeout \/ SetTimer

Pending(t) == t \in {"armed", "due"}

\* kobject_uevent(KOBJ_ADD)
Notify ==
  /\ At("notify", "wait")
  /\ UNCHANGED <<requestVars, fw, inst, timer, handler, pagesOut, oops>>

\* wait_for_completion() returns.
WakeUp ==
  /\ inst.completed
  /\ At("wait", "setDone")
  /\ UNCHANGED <<requestVars, fw, inst, timer, handler, pagesOut, oops>>

SetDone ==
  /\ At("setDone", "delTimer")
  /\ inst' = [inst EXCEPT !.done = TRUE]
  /\ UNCHANGED <<requestVars, fw, timer, handler, pagesOut, oops>>

\* Mutant of DelTimer: del_timer() instead of del_timer_sync().
DelTimer_NoSync ==
  /\ At("delTimer", "settle")
  /\ timer' = IF Pending(timer) THEN "off" ELSE timer
  /\ UNCHANGED <<requestVars, fw, inst, handler, pagesOut, oops>>

\* del_timer_sync() waits for a running handler.
DelTimer ==
  /\ timer # "aborting"
  /\ At("delTimer", "settle")
  /\ timer' = "off"
  /\ UNCHANGED <<requestVars, fw, inst, handler, pagesOut, oops>>

\* Mutant of Settle: only an empty image is an error.
Settle_NoAbort ==
  /\ At("settle", "removeLoading")
  /\ result' = IF fw.size = 0 THEN "error" ELSE "ok"
  /\ inst' = [inst EXCEPT !.attached = FALSE]
  /\ UNCHANGED <<loading_timeout, admin, name, uevent, fw, timer, handler, pagesOut, oops>>

\* Under fw_lock: take the verdict and detach the firmware.
Settle ==
  /\ At("settle", "removeLoading")
  /\ result' = IF fw.size = 0 \/ inst.abort THEN "error" ELSE "ok"
  /\ inst' = [inst EXCEPT !.attached = FALSE]
  /\ UNCHANGED <<loading_timeout, admin, name, uevent, fw, timer, handler, pagesOut, oops>>

\* fw_destroy_instance(): removing a sysfs file first refuses new writes,
RemoveLoadingFile ==
  /\ At("removeLoading", "drainLoading")
  /\ inst' = [inst EXCEPT !.loadingFile = FALSE]
  /\ UNCHANGED <<requestVars, fw, timer, handler, pagesOut, oops>>

\* Mutant of DrainLoadingFile: writes under way are not waited for.
DrainLoadingFile_NoWait ==
  /\ At("drainLoading", "removeData")
  /\ UNCHANGED <<requestVars, fw, inst, timer, handler, pagesOut, oops>>

\* then waits for the writes under way.
DrainLoadingFile ==
  /\ \A a \in Agents : handler[a] = "idle"
  /\ At("drainLoading", "removeData")
  /\ UNCHANGED <<requestVars, fw, inst, timer, handler, pagesOut, oops>>

RemoveDataFile ==
  /\ At("removeData", "unregister")
  /\ inst' = [inst EXCEPT !.dataFile = FALSE]
  /\ UNCHANGED <<requestVars, fw, timer, handler, pagesOut, oops>>

\* device_unregister(), and the return of a request that succeeded.
Unregister ==
  /\ At("unregister", IF result = "ok" THEN "returned" ELSE "failed")
  /\ PutDevice
  /\ UNCHANGED <<requestVars, fw, timer, handler, oops>>

\* release_firmware(): on the error path, and by the driver.
FreeFirmware ==
  /\ oops' = FreesPastEnd(fw)
  /\ pagesOut' = pagesOut - FreedPages(fw)
  /\ fw' = NoFirmware

ReturnError ==
  /\ At("failed", "returned")
  /\ FreeFirmware
  /\ result' = "error"
  /\ UNCHANGED <<loading_timeout, admin, name, uevent, inst, timer, handler>>

Release ==
  /\ result = "ok"
  /\ At("returned", "idle")
  /\ FreeFirmware
  /\ result' = "none"
  /\ UNCHANGED <<loading_timeout, admin, name, uevent, inst, timer, handler>>

(***************************************************************************)
(* firmware_class_timeout(): fw_load_abort() sets ABORT, then completes.   *)
(***************************************************************************)
TimerFires ==
  /\ Pending(timer)
  /\ timer' = "aborting"
  /\ inst' = [inst EXCEPT !.abort = TRUE]
  /\ UNCHANGED <<requestVars, pc, fw, handler, pagesOut, oops>>

\* Mutant of TimerCompletes: the handler sets ABORT and wakes nobody.
TimerCompletes_NoWake ==
  /\ timer = "aborting"
  /\ timer' = "off"
  /\ UNCHANGED <<requestVars, pc, fw, inst, handler, pagesOut, oops>>

TimerCompletes ==
  /\ timer = "aborting"
  /\ timer' = "off"
  /\ inst' = [inst EXCEPT !.completed = TRUE]
  /\ UNCHANGED <<requestVars, pc, fw, handler, pagesOut, oops>>

(***************************************************************************)
(* firmware_loading_store()                                                *)
(***************************************************************************)
Goto(a, step) == handler' = [handler EXCEPT ![a] = step]

MayStoreLoading(a) == inst.loadingFile /\ handler[a] = "idle"

\* 1: start a load.  One step under fw_lock.
StoreOne(a) ==
  /\ MayStoreLoading(a)
  /\ IF inst.attached
     THEN /\ oops' = \/ FreesPastEnd(fw)
                     \/ inst.nr > PageCount(inst.pages)
          /\ fw' = NoFirmware
          /\ inst' = [inst EXCEPT !.pages = <<>>, !.nr = 0, !.loading = TRUE]
          /\ pagesOut' = pagesOut - FreedPages(fw) - inst.nr
     ELSE UNCHANGED <<oops, fw, inst, pagesOut>>
  /\ UNCHANGED <<requestVars, pc, timer, handler>>

\* Mutant of StoreZero: the requester is woken before the hand-over.
StoreZero_WakesFirst(a) ==
  /\ MayStoreLoading(a)
  /\ Goto(a, IF inst.loading THEN "vunmap" ELSE "setAbort")
  /\ inst' = [inst EXCEPT !.completed = TRUE]
  /\ UNCHANGED <<requestVars, pc, fw, timer, pagesOut, oops>>

\* 0: conclude.  The switch only tests LOADING; anything else aborts.
StoreZero(a) ==
  /\ MayStoreLoading(a)
  /\ Goto(a, IF inst.loading THEN "vunmap" ELSE "setAbort")
  /\ UNCHANGED <<requestVars, pc, fw, inst, timer, pagesOut, oops>>

StoreMinusOne(a) ==
  /\ MayStoreLoading(a)
  /\ Goto(a, "setAbort")
  /\ UNCHANGED <<requestVars, pc, fw, inst, timer, pagesOut, oops>>

\* vunmap(fw_priv->fw->data)
Vunmap(a) ==
  /\ handler[a] = "vunmap"
  /\ oops' = ~inst.attached
  /\ fw' = [fw EXCEPT !.mapped = 0]
  /\ Goto(a, "vmap")
  /\ UNCHANGED <<requestVars, pc, inst, timer, pagesOut>>

\* fw_priv->fw->data = vmap(...), which fails for no pages, and its check
Vmap(a) ==
  /\ handler[a] = "vmap"
  /\ oops' = (~inst.attached \/ inst.nr > PageCount(inst.pages))
  /\ \/ /\ inst.nr > 0
        /\ fw' = [fw EXCEPT !.mapped = inst.nr]
        /\ Goto(a, "hand")
     \/ /\ inst.nr = 0 \/ MayFail
        /\ fw' = [fw EXCEPT !.mapped = 0]
        /\ Goto(a, "setAbort")
  /\ UNCHANGED <<requestVars, pc, inst, timer, pagesOut>>

\* Mutant of HandPages: fw_priv->pages is not reset to NULL.
HandPages_Shared(a) ==
  /\ handler[a] = "hand"
  /\ oops' = ~inst.attached
  /\ fw' = [fw EXCEPT !.pages = inst.pages]
  /\ Goto(a, "reset")
  /\ UNCHANGED <<requestVars, pc, inst, timer, pagesOut>>

\* Pages are now owned by 'struct firmware'
HandPages(a) ==
  /\ handler[a] = "hand"
  /\ oops' = ~inst.attached
  /\ fw' = [fw EXCEPT !.pages = inst.pages]
  /\ inst' = [inst EXCEPT !.pages = <<>>]
  /\ Goto(a, "reset")
  /\ UNCHANGED <<requestVars, pc, timer, pagesOut>>

ResetPages(a) ==
  /\ handler[a] = "reset"
  /\ inst' = [inst EXCEPT !.nr = 0]
  /\ Goto(a, "complete")
  /\ UNCHANGED <<requestVars, pc, fw, timer, pagesOut, oops>>

Complete(a) ==
  /\ handler[a] = "complete"
  /\ inst' = [inst EXCEPT !.completed = TRUE]
  /\ Goto(a, "clearLoading")
  /\ UNCHANGED <<requestVars, pc, fw, timer, pagesOut, oops>>

ClearLoading(a) ==
  /\ handler[a] = "clearLoading"
  /\ inst' = [inst EXCEPT !.loading = FALSE]
  /\ Goto(a, "idle")
  /\ UNCHANGED <<requestVars, pc, fw, timer, pagesOut, oops>>

SetAbort(a) ==
  /\ handler[a] = "setAbort"
  /\ inst' = [inst EXCEPT !.abort = TRUE]
  /\ Goto(a, "abort")
  /\ UNCHANGED <<requestVars, pc, fw, timer, pagesOut, oops>>

\* Mutant of CompleteAbort: fw_load_abort() without complete().
CompleteAbort_NoWake(a) ==
  /\ handler[a] = "abort"
  /\ Goto(a, "idle")
  /\ UNCHANGED <<requestVars, pc, fw, inst, timer, pagesOut, oops>>

CompleteAbort(a) ==
  /\ handler[a] = "abort"
  /\ inst' = [inst EXCEPT !.completed = TRUE]
  /\ Goto(a, "idle")
  /\ UNCHANGED <<requestVars, pc, fw, timer, pagesOut, oops>>

HandlerStep(a) ==
  \/ Vunmap(a) \/ Vmap(a) \/ HandPages(a) \/ ResetPages(a)
  \/ Complete(a) \/ ClearLoading(a) \/ SetAbort(a) \/ CompleteAbort(a)

(***************************************************************************)
(* firmware_data_write() and firmware_data_read(), each under fw_lock.  A  *)
(* write of nothing changes nothing and is left out.                       *)
(***************************************************************************)
\* Mutant of DataOpen: the writes do not look for a detached firmware.
DataOpen_Always == inst.alive

DataOpen   == inst.attached /\ ~inst.done    \* else -ENODEV
PagesStale == inst.nr > PageCount(inst.pages)

WriteData(off, content) ==
  LET needed == PFN_UP(off + Len(content))
      pages  == Grown(inst.pages, IF needed > inst.nr THEN needed ELSE inst.nr)
      size   == IF off + Len(content) > fw.size THEN off + Len(content) ELSE fw.size
  IN  /\ inst.dataFile /\ DataOpen
      /\ needed <= MaxPages
      /\ oops' = PagesStale
      /\ inst' = [inst EXCEPT !.pages = Overlay(pages, off, content),
                              !.nr = PageCount(pages)]
      /\ pagesOut' = pagesOut + PageCount(pages) - inst.nr
      /\ fw' = [fw EXCEPT !.size = size]
      /\ UNCHANGED <<requestVars, pc, timer, handler>>

\* fw_realloc_buffer() fails with -ENOMEM after adding some of the pages.
WriteDataNoMem(off, count) ==
  /\ MayFail /\ inst.dataFile /\ DataOpen /\ ~PagesStale
  /\ PFN_UP(off + count) <= MaxPages
  /\ \E n \in inst.nr..PFN_UP(off + count) - 1 :
       /\ inst' = [inst EXCEPT !.pages = Grown(inst.pages, n), !.nr = n,
                               !.abort = TRUE, !.completed = TRUE]
       /\ pagesOut' = pagesOut + n - inst.nr
  /\ UNCHANGED <<requestVars, pc, fw, timer, handler, oops>>

\* A read below size takes its page from fw_priv->pages.
ReadData(off) ==
  /\ inst.dataFile /\ DataOpen
  /\ off < fw.size
  /\ oops' = (off \div PageSize >= PageCount(inst.pages))
  /\ UNCHANGED <<requestVars, pc, fw, inst, timer, handler, pagesOut>>

(***************************************************************************)
(* The kernel's own steps.  Nothing is modelled past an oops.              *)
(***************************************************************************)
Init ==
  /\ loading_timeout = 60 /\ admin = [a \in Admins |-> "idle"]
  /\ pc = "idle" /\ name \in Names /\ uevent = TRUE /\ result = "none"
  /\ fw = NoFirmware /\ inst = NoInstance
  /\ timer = "off" /\ handler = [a \in Agents |-> "idle"]
  /\ pagesOut = 0 /\ oops = FALSE

CreateStep ==
  AllocFirmware \/ AllocInstance \/ AddDevice \/ CreateDataFile \/ CreateLoadingFile

FinishStep ==
  \/ WakeUp \/ SetDone \/ DelTimer \/ Settle
  \/ RemoveLoadingFile \/ DrainLoadingFile \/ RemoveDataFile

TimerStep == TimerFires \/ TimerCompletes

Succeeded == pc = "returned" /\ result = "ok"
=============================================================================
