------------------------ MODULE FirmwareLoaderProofs ------------------------
(***************************************************************************)
(* What holds of the firmware loader whatever its agents write: which      *)
(* parts of an instance exist at which step of the request.  The modules   *)
(* about the two kinds of agents build on it.                              *)
(***************************************************************************)
EXTENDS FirmwareLoader, SequenceTheorems, TLAPS

-----------------------------------------------------------------------------
(***************************************************************************)
(* The shape of the state.  An instance lives, is attached to its          *)
(* firmware, and has its sysfs files, during intervals of the request; a   *)
(* timer and a store to `loading' are under way only within them.          *)
(***************************************************************************)
Attaching == {"addDevice", "createData", "createLoading", "arm", "setTimer", "notify",
              "wait", "setDone", "delTimer", "settle"}
Loading   == {"arm", "setTimer", "notify", "wait", "setDone", "delTimer", "settle",
              "removeLoading"}
Having    == {"createLoading", "drainLoading", "removeData"} \cup Loading
Living    == Attaching \cup {"removeLoading", "drainLoading", "removeData", "unregister"}
Done      == {"delTimer", "settle", "removeLoading", "drainLoading", "removeData", "unregister"}
Outside   == {"idle", "allocFirmware", "allocInstance", "failed", "returned"}

Handlers == {"idle", "vunmap", "vmap", "hand", "reset", "complete",
             "clearLoading", "setAbort", "abort"}

\* The types, for pages made of members of B.
Firmwares(B) == [size : Nat, mapped : Nat, pages : Seq(B)]
Instances(B) ==
  [alive : BOOLEAN, attached : BOOLEAN, loading : BOOLEAN, done : BOOLEAN,
   abort : BOOLEAN, completed : BOOLEAN, pages : Seq(B), nr : Nat,
   loadingFile : BOOLEAN, dataFile : BOOLEAN]

Types(B) ==
  /\ loading_timeout \in Int /\ admin \in [Admins -> {"idle", "test", "clear"}]
  /\ name \in Names /\ uevent \in BOOLEAN
  /\ pc \in Living \cup Outside
  /\ result \in {"none", "ok", "error"}
  /\ fw \in Firmwares(B) /\ inst \in Instances(B)
  /\ timer \in {"off", "armed", "due", "aborting"}
  /\ handler \in [Agents -> Handlers]
  /\ oops \in BOOLEAN

Shape ==
  /\ inst.alive <=> pc \in Living
  /\ inst.attached <=> pc \in Attaching
  /\ inst.loadingFile <=> pc \in Loading
  /\ inst.dataFile <=> pc \in Having
  /\ inst.done <=> pc \in Done
  /\ ~inst.alive => inst = NoInstance
  /\ loading_timeout < 0 => \E a \in Admins : admin[a] # "idle"
  /\ timer # "off" => pc \in {"notify", "wait", "setDone", "delTimer"}
  /\ \A a \in Agents : handler[a] # "idle" => pc \in Loading \cup {"drainLoading"}

-----------------------------------------------------------------------------
(***************************************************************************)
(* All that can happen to the loader: its own steps, and the stores and    *)
(* writes of agents, the bytes of which are members of B.                  *)
(***************************************************************************)
RequestStep ==
  \/ \E n \in Names, u \in BOOLEAN : Call(n, u)
  \/ CreateStep \/ ArmTimer \/ Notify \/ FinishStep
  \/ Unregister \/ ReturnError \/ Release

StoreOf(a) == StoreOne(a) \/ StoreZero(a) \/ StoreMinusOne(a) \/ HandlerStep(a)

DataStep(B) ==
  \E off \in Nat :
    \/ \E content \in Seq(B) : WriteData(off, content)
    \/ \E count \in Nat : WriteDataNoMem(off, count)
    \/ ReadData(off)

LoaderStep(B) ==
  \/ RequestStep \/ TimerStep \/ DataStep(B)
  \/ \E a \in Agents : StoreOf(a)
  \/ TimeoutStep

-----------------------------------------------------------------------------
(***************************************************************************)
(* Pages.                                                                  *)
(***************************************************************************)
\* A product divided by one factor is the other.
LEMMA DivOfProduct ==
  ASSUME NEW k \in Nat, NEW p \in Nat \ {0}
  PROVE  (k * p) \div p = k
OBVIOUS

\* PFN_UP(n) is the least number of pages that hold n bytes.
LEMMA EnoughPages ==
  ASSUME NEW n \in Nat
  PROVE  /\ PFN_UP(n) \in Nat
         /\ n <= PFN_UP(n) * PageSize
         /\ PFN_UP(n) * PageSize < n + PageSize
BY FirmwareAssumption DEF PFN_UP

\* More bytes take no fewer pages.
LEMMA PagesMonotone ==
  ASSUME NEW m \in Nat, NEW n \in Nat, m <= n
  PROVE  PFN_UP(m) <= PFN_UP(n)
<1>1. /\ PFN_UP(m) \in Nat /\ PFN_UP(n) \in Nat
      /\ PFN_UP(m) * PageSize < m + PageSize /\ n <= PFN_UP(n) * PageSize
  BY EnoughPages
<1>2. PFN_UP(m) * PageSize < (PFN_UP(n) + 1) * PageSize
  BY <1>1, FirmwareAssumption
<1>. QED
  BY <1>1, <1>2, FirmwareAssumption

\* An array of k whole pages counts k.
LEMMA CountOfPages ==
  ASSUME NEW B, NEW p \in Seq(B), NEW k \in Nat, Len(p) = k * PageSize
  PROVE  PageCount(p) = k
BY DivOfProduct, FirmwareAssumption DEF PageCount

\* Growing an array gives whole pages and keeps its bytes.
LEMMA GrownPages ==
  ASSUME NEW B, Junk \in B, NEW p \in Seq(B), NEW n \in Nat
  PROVE  /\ Grown(p, n) \in Seq(B)
         /\ Len(Grown(p, n)) = n * PageSize
         /\ PageCount(Grown(p, n)) = n
         /\ \A i \in 1..n * PageSize :
              Grown(p, n)[i] = IF i <= Len(p) THEN p[i] ELSE Junk
<1>1. n * PageSize \in Nat
  BY FirmwareAssumption
<1>2. \A i \in 1..n * PageSize : (IF i <= Len(p) THEN p[i] ELSE Junk) \in B
  OBVIOUS
<1>3. Grown(p, n) \in Seq(B) /\ Len(Grown(p, n)) = n * PageSize
  BY <1>1, <1>2 DEF Grown
<1>. QED
  BY <1>3, CountOfPages DEF Grown

\* Writing into an array keeps its length.
LEMMA OverlaidPages ==
  ASSUME NEW B, NEW p \in Seq(B), NEW off \in Nat, NEW content \in Seq(B)
  PROVE  /\ Overlay(p, off, content) \in Seq(B)
         /\ Len(Overlay(p, off, content)) = Len(p)
         /\ \A i \in 1..Len(p) :
              Overlay(p, off, content)[i] = IF i \in off + 1..off + Len(content)
                                            THEN content[i - off] ELSE p[i]
<1>1. Len(p) \in Nat /\ Len(content) \in Nat
  OBVIOUS
<1>2. ASSUME NEW i \in 1..Len(p)
      PROVE  (IF i \in off + 1..off + Len(content) THEN content[i - off] ELSE p[i]) \in B
  <2>1. CASE i \in off + 1..off + Len(content)
    <3>1. i - off \in 1..Len(content)
      BY <1>1, <2>1
    <3>. QED
      BY <2>1, <3>1
  <2>. QED
    BY <2>1
<1>. QED
  BY <1>1, <1>2 DEF Overlay

\* What firmware_data_write() leaves behind, whatever it writes.
LEMMA WrittenPages ==
  ASSUME NEW B, Junk \in B, Types(B), NEW off \in Nat, NEW content \in Seq(B),
         WriteData(off, content)
  PROVE  LET needed == PFN_UP(off + Len(content))
             most   == IF needed > inst.nr THEN needed ELSE inst.nr
             bytes  == off + Len(content)
         IN  /\ inst.attached /\ ~inst.done /\ inst.dataFile
             /\ most \in Nat
             /\ oops' = PagesStale
             /\ inst' \in Instances(B)
             /\ inst' = [inst EXCEPT !.pages = inst'.pages, !.nr = most]
             /\ inst'.pages = Overlay(Grown(inst.pages, most), off, content)
             /\ Len(inst'.pages) = most * PageSize
             /\ pagesOut' = pagesOut + most - inst.nr
             /\ fw' = [fw EXCEPT !.size = IF bytes > fw.size THEN bytes ELSE fw.size]
             /\ fw' \in Firmwares(B)
<1>. DEFINE bytes  == off + Len(content)
            needed == PFN_UP(bytes)
            most   == IF needed > inst.nr THEN needed ELSE inst.nr
            pages  == Grown(inst.pages, most)
<1>1. bytes \in Nat /\ inst.nr \in Nat /\ inst.pages \in Seq(B)
  BY DEF Types, Instances
<1>2. most \in Nat
  BY <1>1, EnoughPages
<1>3. /\ pages \in Seq(B) /\ Len(pages) = most * PageSize
      /\ PageCount(pages) = most
  BY <1>1, <1>2, GrownPages
<1>. HIDE DEF most
<1>4. /\ Overlay(pages, off, content) \in Seq(B)
      /\ Len(Overlay(pages, off, content)) = most * PageSize
  <2>. HIDE DEF pages
  <2>. QED
    BY <1>3, OverlaidPages
<1>5. /\ inst.attached /\ ~inst.done /\ inst.dataFile
      /\ oops' = PagesStale
      /\ inst' = [inst EXCEPT !.pages = Overlay(pages, off, content), !.nr = most]
      /\ pagesOut' = pagesOut + most - inst.nr
      /\ fw' = [fw EXCEPT !.size = IF bytes > fw.size THEN bytes ELSE fw.size]
  BY <1>3 DEF WriteData, DataOpen, most
<1>. HIDE DEF pages
<1>6. inst' \in Instances(B) /\ inst'.pages = Overlay(pages, off, content)
  BY <1>2, <1>4, <1>5 DEF Types, Instances
<1>7. fw' \in Firmwares(B)
  BY <1>1, <1>5 DEF Types, Firmwares
<1>8. inst' = [inst EXCEPT !.pages = inst'.pages, !.nr = most]
  BY <1>5, <1>6
<1>. QED
  BY <1>2, <1>4, <1>5, <1>6, <1>7, <1>8 DEF most, pages

-----------------------------------------------------------------------------
(***************************************************************************)
(* Every step of the loader keeps the types and the shape.                 *)
(***************************************************************************)
Shaped(B) == Types(B) /\ Shape

\* The empty firmware and instance have the types.
LEMMA Empty ==
  ASSUME NEW B
  PROVE  /\ NoFirmware \in Firmwares(B) /\ NoInstance \in Instances(B)
         /\ ~NoInstance.alive /\ ~NoInstance.attached /\ ~NoInstance.done
         /\ ~NoInstance.loadingFile /\ ~NoInstance.dataFile
         /\ ~NoInstance.abort /\ ~NoInstance.completed /\ ~NoInstance.loading
         /\ NoInstance.nr = 0 /\ NoInstance.pages = <<>>
BY DEF NoFirmware, NoInstance, Firmwares, Instances

LEMMA InitShaped ==
  ASSUME NEW B, Init
  PROVE  Shaped(B)
<1>1. loading_timeout \in Int /\ ~(loading_timeout < 0)
  BY DEF Init
<1>2. Types(B)
  BY <1>1, Empty DEF Init, Types, Outside, Handlers
<1>3. Shape
  BY <1>1, Empty DEF Init, Shape, Living, Attaching, Loading, Having, Done
<1>. QED
  BY <1>2, <1>3 DEF Shaped

\* The requester's steps, and those of the driver.
LEMMA RequestKeepsShape ==
  ASSUME NEW B, Shaped(B), RequestStep
  PROVE  Shaped(B)'
<1>. USE Empty DEF Shaped, Types, Shape, Living, Attaching, Loading, Having, Done, Outside,
                   Handlers, requestVars, At
<1>1. ASSUME NEW n \in Names, NEW u \in BOOLEAN, Call(n, u) PROVE Shaped(B)'
  BY <1>1 DEF Call
<1>2. CASE AllocFirmware
  BY <1>2 DEF AllocFirmware
<1>3. CASE AllocInstance
  BY ZenonT(40), <1>3 DEF AllocInstance, Instances, NoInstance
<1>4. CASE AddDevice
  BY <1>4 DEF AddDevice, PutDevice
<1>5. CASE CreateDataFile
  BY ZenonT(40), <1>5 DEF CreateDataFile, PutDevice, Instances
<1>6. CASE CreateLoadingFile
  BY ZenonT(40), <1>6 DEF CreateLoadingFile, PutDevice, Instances
<1>7. CASE ArmTimer
  BY <1>7 DEF ArmTimer, TestTimeout, SetTimer
<1>8. CASE Notify
  BY <1>8 DEF Notify
<1>9. CASE WakeUp
  BY <1>9 DEF WakeUp
<1>10. CASE SetDone
  BY <1>10 DEF SetDone, Instances
<1>11. CASE DelTimer
  BY <1>11 DEF DelTimer
<1>12. CASE Settle
  BY <1>12 DEF Settle, Instances
<1>13. CASE RemoveLoadingFile
  BY <1>13 DEF RemoveLoadingFile, Instances
<1>14. CASE DrainLoadingFile
  BY <1>14 DEF DrainLoadingFile
<1>15. CASE RemoveDataFile
  BY <1>15 DEF RemoveDataFile, Instances
<1>16. CASE Unregister
  BY <1>16 DEF Unregister, PutDevice
<1>17. CASE ReturnError
  BY <1>17 DEF ReturnError, FreeFirmware, FreesPastEnd
<1>18. CASE Release
  BY <1>18 DEF Release, FreeFirmware, FreesPastEnd
<1>. QED
  BY <1>1, <1>2, <1>3, <1>4, <1>5, <1>6, <1>7, <1>8, <1>9, <1>10, <1>11, <1>12, <1>13, <1>14, <1>15, <1>16, <1>17, <1>18
     DEF RequestStep, CreateStep, FinishStep

LEMMA TimerKeepsShape ==
  ASSUME NEW B, Shaped(B), TimerStep
  PROVE  Shaped(B)'
<1>. USE DEF Shaped, Types, Shape, Living, Attaching, Loading, Having, Done, Outside,
             Handlers, requestVars, Instances
<1>1. CASE TimerFires
  BY <1>1 DEF TimerFires, Pending
<1>2. CASE TimerCompletes
  BY <1>2 DEF TimerCompletes
<1>. QED
  BY <1>1, <1>2 DEF TimerStep

\* A store in `loading' by an agent.
LEMMA StoreKeepsShape ==
  ASSUME NEW B, Shaped(B), NEW a \in Agents, StoreOf(a)
  PROVE  Shaped(B)'
<1>. USE Empty DEF Shaped, Types, Shape, Living, Attaching, Loading, Having, Done, Outside,
                   Handlers, requestVars, Instances, Firmwares, Goto, MayStoreLoading
<1>1. CASE StoreOne(a)
  <2>1. CASE ~inst.attached
    BY <1>1, <2>1 DEF StoreOne
  <2>2. CASE inst.attached
    <3>1. /\ fw' \in Firmwares(B) /\ oops' \in BOOLEAN
          /\ inst' = [inst EXCEPT !.pages = <<>>, !.nr = 0, !.loading = TRUE]
          /\ UNCHANGED <<requestVars, pc, timer, handler>>
      BY <1>1, <2>2 DEF StoreOne, FreesPastEnd
    <3>2. inst' \in Instances(B)
      BY <3>1
    <3>3. Types(B)'
      BY <3>1, <3>2
    <3>4. /\ inst'.alive = inst.alive /\ inst'.attached = inst.attached
          /\ inst'.loadingFile = inst.loadingFile /\ inst'.dataFile = inst.dataFile
          /\ inst'.done = inst.done
      BY <3>1
    <3>5. inst.alive
      BY <2>2
    <3>6. Shape'
      BY <3>1, <3>4, <3>5
    <3>. QED
      BY Zenon, <3>3, <3>6
  <2>. QED
    BY <2>1, <2>2
<1>2. CASE StoreZero(a)
  BY <1>2 DEF StoreZero
<1>3. CASE StoreMinusOne(a)
  BY <1>3 DEF StoreMinusOne
<1>4. CASE Vunmap(a)
  <2>1. fw' \in Firmwares(B)
    BY <1>4 DEF Vunmap
  <2>2. oops' \in BOOLEAN /\ handler' \in [Agents -> Handlers]
    BY ZenonT(40), <1>4 DEF Vunmap
  <2>. QED
    BY SMTT(30), <1>4, <2>1, <2>2 DEF Vunmap
<1>5. CASE Vmap(a)
  <2>1. PICK m \in Nat : fw' = [fw EXCEPT !.mapped = m]
    BY <1>5 DEF Vmap
  <2>2. fw' \in Firmwares(B)
    BY <2>1
  <2>3. oops' \in BOOLEAN /\ handler' \in [Agents -> Handlers]
    BY ZenonT(40), <1>5 DEF Vmap
  <2>. QED
    BY SMTT(30), <1>5, <2>2, <2>3 DEF Vmap
<1>6. CASE HandPages(a)
  BY ZenonT(40), <1>6 DEF HandPages
<1>7. CASE ResetPages(a)
  BY ZenonT(40), <1>7 DEF ResetPages
<1>8. CASE Complete(a)
  BY ZenonT(40), <1>8 DEF Complete
<1>9. CASE ClearLoading(a)
  BY ZenonT(40), <1>9 DEF ClearLoading
<1>10. CASE SetAbort(a)
  BY ZenonT(40), <1>10 DEF SetAbort
<1>11. CASE CompleteAbort(a)
  BY ZenonT(40), <1>11 DEF CompleteAbort
<1>. QED
  BY <1>1, <1>2, <1>3, <1>4, <1>5, <1>6, <1>7, <1>8, <1>9, <1>10, <1>11
     DEF StoreOf, HandlerStep

\* A step of a store in `timeout' touches nothing else.
LEMMA TimeoutLeaves ==
  ASSUME TimeoutStep
  PROVE  UNCHANGED <<pc, name, uevent, result, fw, inst, timer, handler, pagesOut, oops>>
BY DEF TimeoutStep, StoreTimeout, TestNegative, ClearTimeout, unlessTimeout

\* It keeps the shape: the administrator who leaves has seen
\* that the number is not negative, or has stored 0.
LEMMA TimeoutKeepsShape ==
  ASSUME NEW B, Shaped(B), TimeoutStep
  PROVE  Shaped(B)'
<1>1. PICK a \in Admins : \/ \E v \in TimeoutStores : StoreTimeout(a, v)
                         \/ TestNegative(a) \/ ClearTimeout(a)
  BY DEF TimeoutStep
<1>2. /\ loading_timeout' \in Int
      /\ admin' \in [Admins -> {"idle", "test", "clear"}]
      /\ loading_timeout' < 0 => admin'[a] # "idle"
  BY <1>1, FirmwareAssumption
     DEF StoreTimeout, TestNegative, ClearTimeout, AdminGoes, Shaped, Types
<1>. QED
  BY <1>2, TimeoutLeaves DEF Shaped, Types, Shape

\* A write or a read of `data' by an agent.
LEMMA DataKeepsShape ==
  ASSUME NEW B, Junk \in B, Shaped(B), DataStep(B)
  PROVE  Shaped(B)'
<1>. USE DEF Shaped
<1>1. ASSUME NEW off \in Nat, NEW content \in Seq(B), WriteData(off, content)
      PROVE  Shaped(B)'
  <2>1. /\ inst' \in Instances(B) /\ fw' \in Firmwares(B)
        /\ oops' = PagesStale
        /\ \E p, n : inst' = [inst EXCEPT !.pages = p, !.nr = n]
        /\ UNCHANGED <<requestVars, pc, timer, handler>>
    BY <1>1, WrittenPages DEF WriteData
  <2>. QED
    BY <1>1, <2>1 DEF Types, Shape, Instances, WriteData, DataOpen, PagesStale, requestVars,
                      NoInstance, Attaching, Living
<1>2. ASSUME NEW off \in Nat, NEW count \in Nat, WriteDataNoMem(off, count)
      PROVE  Shaped(B)'
  <2>1. PICK n \in inst.nr..PFN_UP(off + count) - 1 :
          inst' = [inst EXCEPT !.pages = Grown(inst.pages, n), !.nr = n,
                               !.abort = TRUE, !.completed = TRUE]
    BY <1>2 DEF WriteDataNoMem
  <2>2. n \in Nat /\ Grown(inst.pages, n) \in Seq(B)
    <3>1. /\ off + count \in Nat /\ PFN_UP(off + count) \in Nat
          /\ inst.nr \in Nat /\ inst.pages \in Seq(B)
      <4>1. off + count \in Nat
        OBVIOUS
      <4>2. PFN_UP(off + count) \in Nat
        BY ONLY <4>1, EnoughPages
      <4>. QED
        BY <4>1, <4>2 DEF Types, Instances
    <3>2. n \in Nat
      BY <3>1
    <3>. QED
      BY <3>1, <3>2, GrownPages
  <2>3. inst' \in Instances(B)
    BY <2>1, <2>2 DEF Types, Instances
  <2>. QED
    BY <1>2, <2>1, <2>3 DEF Types, Shape, Instances, WriteDataNoMem, DataOpen, requestVars,
                            NoInstance, Attaching, Living
<1>3. ASSUME NEW off \in Nat, ReadData(off) PROVE Shaped(B)'
  BY <1>3 DEF ReadData, Types, Shape, requestVars
<1>. QED
  BY <1>1, <1>2, <1>3 DEF DataStep

LEMMA StepKeepsShape ==
  ASSUME NEW B, Junk \in B, Shaped(B), LoaderStep(B) \/ UNCHANGED vars
  PROVE  Shaped(B)'
<1>1. CASE UNCHANGED vars
  BY <1>1 DEF vars, Shaped, Types, Shape
<1>. QED
  BY <1>1, RequestKeepsShape, TimerKeepsShape, TimeoutKeepsShape, StoreKeepsShape, DataKeepsShape
     DEF LoaderStep

\* A timer that may still go off, and a write that has entered the kernel,
\* have their instance.
LEMMA ShapePins ==
  ASSUME Shape
  PROVE  timer # "off" \/ (\E a \in Agents : handler[a] # "idle") => inst.alive
BY DEF Shape, Living, Attaching, Loading
=============================================================================
