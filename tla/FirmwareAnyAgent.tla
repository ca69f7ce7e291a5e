-------------------------- MODULE FirmwareAnyAgent --------------------------
(***************************************************************************)
(* The firmware loader under agents that write the sysfs files in any      *)
(* order, as the files allow any privileged process to: any value in       *)
(* `loading', any bytes at any offset in `data', also by hand for requests *)
(* without a uevent.                                                       *)
(***************************************************************************)
EXTENDS FirmwareLoader

CONSTANT MaxPagesOut   \* bound: pages allocated at a time, lost ones included

ASSUME AnyAgentAssumption == MaxPagesOut \in Nat

Byte == "byte"

AgentStore(a) == StoreOne(a) \/ StoreZero(a) \/ StoreMinusOne(a)

DataAccess ==
  /\ \E off \in 0..MaxPages * PageSize - 1 :
       \/ \E count \in 1..PageSize :
            \/ WriteData(off, [i \in 1..count |-> Byte])
            \/ WriteDataNoMem(off, count)
       \/ ReadData(off)
  /\ pagesOut' <= MaxPagesOut

DriverStep == (\E n \in Names, u \in BOOLEAN : Call(n, u)) \/ Release

RequesterStep ==
  CreateStep \/ ArmTimer \/ Notify \/ FinishStep \/ Unregister \/ ReturnError

AgentStep == DataAccess \/ \E a \in Agents : AgentStore(a) \/ HandlerStep(a)

AnyNext ==
  /\ ~oops
  /\ \/ RequesterStep \/ DriverStep \/ TimerStep \/ AgentStep
     \/ TimeoutStep

AnySpec == Init /\ [][AnyNext]_vars

(***************************************************************************)
(* Properties                                                              *)
(***************************************************************************)
\* Freeing the instance never leaves behind a timer or a write under way in
\* firmware_loading_store() that would use it, whatever the agents do.
InstancePinned ==
  timer # "off" \/ (\E a \in Agents : handler[a] # "idle") => inst.alive

\* From the verdict to release_firmware() nobody changes the struct firmware
\* the driver is about to get or holds: the agents' writes check that the
\* instance is still attached, or crash.
HandedOverIsFrozen ==
  [][((inst.alive /\ ~inst.attached) \/ Succeeded)
       => (fw' = fw \/ oops' \/ (Succeeded /\ pc' = "idle"))]_vars
=============================================================================
