----------------------- MODULE FirmwareAnyAgentProofs -----------------------
(***************************************************************************)
(* Theorems about the firmware loader under agents that write anything.    *)
(***************************************************************************)
EXTENDS FirmwareAnyAgent, FirmwareLoaderProofs

AnyBytes == {Byte, Junk}

\* What the agents do is within the steps the shape is proved for.
LEMMA AnyIsLoaderStep ==
  ASSUME AnyNext
  PROVE  LoaderStep(AnyBytes)
<1>1. CASE DataAccess
  <2>1. PICK off \in 0..MaxPages * PageSize - 1 :
          \/ \E count \in 1..PageSize :
               \/ WriteData(off, [i \in 1..count |-> Byte])
               \/ WriteDataNoMem(off, count)
          \/ ReadData(off)
    BY <1>1 DEF DataAccess
  <2>2. off \in Nat
    BY FirmwareAssumption
  <2>3. ASSUME NEW count \in 1..PageSize
        PROVE  count \in Nat /\ [i \in 1..count |-> Byte] \in Seq(AnyBytes)
    BY FirmwareAssumption DEF AnyBytes
  <2>. QED
    BY <2>1, <2>2, <2>3 DEF LoaderStep, DataStep
<1>2. ASSUME NEW a \in Agents, AgentStore(a) \/ HandlerStep(a)
      PROVE  LoaderStep(AnyBytes)
  BY <1>2 DEF LoaderStep, StoreOf, AgentStore
<1>3. CASE RequesterStep \/ DriverStep
  BY <1>3 DEF RequesterStep, DriverStep, LoaderStep, RequestStep
<1>. QED
  BY <1>1, <1>2, <1>3 DEF AnyNext, AgentStep, LoaderStep

LEMMA AnyShaped == AnySpec => []Shaped(AnyBytes)
<1>1. Init => Shaped(AnyBytes)
  BY InitShaped
<1>2. Shaped(AnyBytes) /\ [AnyNext]_vars => Shaped(AnyBytes)'
  BY AnyIsLoaderStep, StepKeepsShape DEF AnyBytes
<1>. QED
  BY <1>1, <1>2, PTL DEF AnySpec

\* Whatever the agents write, and however many there are, the instance is not
\* freed while a timer is armed or a store to `loading' is under way: what
\* del_timer_sync() and the removal of the sysfs files are for.
THEOREM InstanceOutlivesItsUsers == AnySpec => []InstancePinned
<1>1. Shaped(AnyBytes) => InstancePinned
  BY ShapePins DEF Shaped, InstancePinned
<1>. QED
  BY <1>1, AnyShaped, PTL

-----------------------------------------------------------------------------
(***************************************************************************)
(* From the verdict on, the struct firmware does not change.               *)
(***************************************************************************)
Frozen == fw' = fw \/ oops' \/ (Succeeded /\ pc' = "idle")

\* Once the firmware is detached, or handed to the driver, the requester no
\* longer touches it before the driver releases it.
LEMMA RequesterLeavesIt ==
  ASSUME Shape, (inst.alive /\ ~inst.attached) \/ Succeeded, RequestStep
  PROVE  Frozen
<1>. USE DEF Shape, Living, Attaching, Succeeded, Frozen, At
<1>1. pc \in Living \ Attaching \/ pc = "returned"
  OBVIOUS
<1>2. CASE CreateStep
  BY <1>1, <1>2 DEF CreateStep, AllocFirmware, AllocInstance, AddDevice, CreateDataFile,
                    CreateLoadingFile
<1>3. CASE FinishStep
  BY <1>1, <1>3 DEF FinishStep, WakeUp, SetDone, DelTimer, Settle, RemoveLoadingFile,
                    DrainLoadingFile, RemoveDataFile
<1>4. CASE Release \/ ReturnError
  BY <1>1, <1>4 DEF Release, ReturnError
<1>. QED
  BY <1>1, <1>2, <1>3, <1>4 DEF RequestStep, Call, ArmTimer, TestTimeout, SetTimer, Notify, Unregister

\* An agent's store finds the firmware detached, or goes through the null
\* pointer; after the instance is gone there is nothing to store to.
LEMMA AgentsLeaveIt ==
  ASSUME Shape, (inst.alive /\ ~inst.attached) \/ Succeeded,
         (\E a \in Agents : StoreOf(a)) \/ DataStep(AnyBytes)
  PROVE  Frozen
<1>1. /\ ~inst.attached
      /\ Succeeded => ~inst.loadingFile /\ \A a \in Agents : handler[a] = "idle"
  BY DEF Shape, Succeeded, Loading, Attaching
<1>2. ASSUME NEW a \in Agents, StoreOf(a)
      PROVE  Frozen
  BY <1>1, <1>2 DEF StoreOf, HandlerStep, StoreOne, StoreZero, StoreMinusOne, MayStoreLoading,
                    Vunmap, Vmap, HandPages, ResetPages, Complete, ClearLoading, SetAbort,
                    CompleteAbort, Frozen
<1>3. CASE DataStep(AnyBytes)
  BY <1>1, <1>3 DEF DataStep, WriteData, WriteDataNoMem, ReadData, DataOpen, Frozen
<1>. QED
  BY <1>2, <1>3

\* Whatever the agents write and whenever, a driver's struct firmware is the
\* one the verdict was about, until it releases it: a write that comes after
\* the verdict is refused, or crashes the kernel, but never alters an image
\* that was handed over.
THEOREM ImageFrozen == AnySpec => HandedOverIsFrozen
<1>1. ASSUME Shaped(AnyBytes), [AnyNext]_vars
      PROVE  (inst.alive /\ ~inst.attached) \/ Succeeded => Frozen
  <2>1. CASE UNCHANGED vars
    BY <2>1 DEF vars, Frozen
  <2>2. CASE LoaderStep(AnyBytes)
    <3>1. CASE TimerStep \/ TimeoutStep
      BY <3>1, TimeoutLeaves DEF TimerStep, TimerFires, TimerCompletes, Frozen
    <3>. QED
      BY <1>1, <2>2, <3>1, RequesterLeavesIt, AgentsLeaveIt DEF LoaderStep, Shaped
  <2>. QED
    BY <1>1, <2>1, <2>2, AnyIsLoaderStep
<1>. QED
  BY <1>1, AnyShaped, PTL DEF AnySpec, HandedOverIsFrozen, Frozen
=============================================================================
