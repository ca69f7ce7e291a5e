---------------------------- MODULE FirmwareUdev ----------------------------
(***************************************************************************)
(* The firmware loader with its udev agent, src/udev/compat_firmware.sh.   *)
(* Every uevent starts an agent; an agent may outlive the request it was   *)
(* started for, and may stop at any of its steps.  `sh -e' ends it at the  *)
(* first command that fails.                                               *)
(***************************************************************************)
EXTENDS FirmwareLoader

CONSTANTS
  FileSize,     \* the size of each file that exists
  OverlapAgents \* whether a request may start while an agent of an earlier
                \* one is still running

ASSUME UdevAssumption ==
  /\ DOMAIN FileSize \subseteq Names
  /\ OverlapAgents \in BOOLEAN
  /\ \A n \in DOMAIN FileSize :
       FileSize[n] \in Nat /\ PFN_UP(FileSize[n]) <= MaxPages

VARIABLE agent  \* [Agents -> [pc, name, off]]

udevVars == <<vars, agent>>

Installed == DOMAIN FileSize

\* The byte of file n at offset i, and the whole file.
Byte(n, i) == <<n, i>>
File(n)    == [i \in 1..FileSize[n] |-> Byte(n, i)]

IdleAgent == [pc |-> "none", name |-> Junk, off |-> 0]

UdevInit == Init /\ agent = [a \in Agents |-> IdleAgent]

(***************************************************************************)
(* The agent's script                                                      *)
(***************************************************************************)
\* A uevent starts an agent, or is lost (no memory, no udev, no free slot).
Announce ==
  /\ Notify
  /\ \/ UNCHANGED agent
     \/ \E a \in Agents :
          /\ agent[a].pc = "none"
          /\ agent' = [agent EXCEPT ![a] = [pc |-> "start", name |-> name, off |-> 0]]

AgentAt(a, here) == agent[a].pc = here /\ handler[a] = "idle"
AgentGoes(a, step) == agent' = [agent EXCEPT ![a].pc = step]

AgentExits(a) == agent' = [agent EXCEPT ![a] = IdleAgent]

\* [ ! -e loading ], and the search for the file
Start(a) ==
  /\ AgentAt(a, "start")
  /\ IF ~inst.loadingFile THEN AgentExits(a)
     ELSE AgentGoes(a, IF agent[a].name \in Installed THEN "load" ELSE "giveUp")
  /\ UNCHANGED vars

\* echo 1 > loading
EchoOne(a) ==
  /\ AgentAt(a, "load")
  /\ StoreOne(a)
  /\ AgentGoes(a, "open")

\* cat FILE > data opens `data' once and writes at most a page at a time.
OpenData(a) ==
  /\ AgentAt(a, "open") /\ inst.dataFile
  /\ AgentGoes(a, "copy")
  /\ UNCHANGED vars

Chunk(a) ==
  LET left == FileSize[agent[a].name] - agent[a].off
  IN  IF left < PageSize THEN left ELSE PageSize

Copy(a) ==
  LET off == agent[a].off
  IN  /\ AgentAt(a, "copy") /\ Chunk(a) > 0
      /\ WriteData(off, [i \in 1..Chunk(a) |-> Byte(agent[a].name, off + i)])
      /\ agent' = [agent EXCEPT ![a].off = off + Chunk(a)]

CopyFails(a) ==
  /\ AgentAt(a, "copy") /\ Chunk(a) > 0
  /\ \/ ~DataOpen /\ UNCHANGED vars
     \/ WriteDataNoMem(agent[a].off, Chunk(a))
  /\ AgentExits(a)

CopyEnds(a) ==
  /\ AgentAt(a, "copy") /\ Chunk(a) = 0
  /\ AgentGoes(a, "conclude")
  /\ UNCHANGED vars

\* echo 0 > loading; exit 0
EchoZero(a) ==
  /\ AgentAt(a, "conclude")
  /\ StoreZero(a)
  /\ AgentGoes(a, "exit")

\* echo -1 > loading; ...; exit 1
EchoMinusOne(a) ==
  /\ AgentAt(a, "giveUp")
  /\ StoreMinusOne(a)
  /\ AgentGoes(a, "exit")

\* A redirection to a file that is gone fails.
OpenFails(a) ==
  /\ \/ AgentAt(a, "open") /\ ~inst.dataFile
     \/ \E s \in {"load", "conclude", "giveUp"} : AgentAt(a, s) /\ ~inst.loadingFile
  /\ AgentExits(a)
  /\ UNCHANGED vars

Exit(a) ==
  /\ AgentAt(a, "exit")
  /\ AgentExits(a)
  /\ UNCHANGED vars

AgentStep(a) ==
  \/ Start(a) \/ EchoOne(a) \/ OpenData(a) \/ Copy(a) \/ CopyFails(a) \/ CopyEnds(a)
  \/ EchoZero(a) \/ EchoMinusOne(a) \/ OpenFails(a) \/ Exit(a)

(***************************************************************************)
(* The whole system                                                        *)
(***************************************************************************)
\* Removing `data' makes every later write through an open descriptor fail,
\* and with it the cat that holds the descriptor.
AgentsWithoutData ==
  [a \in Agents |-> IF agent[a].pc = "copy" THEN IdleAgent ELSE agent[a]]

RequesterStep ==
  \/ /\ CreateStep \/ ArmTimer \/ FinishStep \/ Unregister \/ ReturnError
     /\ agent' = IF inst'.dataFile THEN agent ELSE AgentsWithoutData
  \/ Announce

DriverStep ==
  /\ \/ /\ OverlapAgents \/ \A a \in Agents : agent[a].pc = "none"
        /\ \E n \in Names : Call(n, TRUE)
     \/ Release
  /\ UNCHANGED agent

KernelStep == RequesterStep \/ (TimerStep /\ UNCHANGED agent)

StoreStep == \E a \in Agents : HandlerStep(a) /\ UNCHANGED agent

AdminStep == TimeoutStep /\ UNCHANGED agent

UdevNext ==
  /\ ~oops
  /\ \/ KernelStep \/ StoreStep \/ DriverStep \/ AdminStep
     \/ \E a \in Agents : AgentStep(a)

UdevSpec == UdevInit /\ [][UdevNext]_udevVars

\* The kernel keeps running: the requester's thread, the timer interrupt and
\* a write that has entered the kernel all go on.
KernelFairness ==
  /\ WF_udevVars(~oops /\ RequesterStep)
  /\ WF_udevVars(~oops /\ TimerStep /\ UNCHANGED agent)
  /\ \A a \in Agents : WF_udevVars(~oops /\ HandlerStep(a) /\ UNCHANGED agent)

FairSpec == UdevSpec /\ KernelFairness

\* The agents keep running too: nothing stops the script between two commands.
AgentsKeepRunning == \A a \in Agents : WF_udevVars(~oops /\ AgentStep(a))

(***************************************************************************)
(* Properties                                                              *)
(***************************************************************************)
Bytes == {Byte(n, i) : n \in Installed, i \in 1..MaxPages * PageSize} \cup {Junk}

\* Types of the loader's state.  The timeout is negative only while a store of
\* it is under way, which will set it to 0 (compat_firmware_class.c:135-137).
TypeOK ==
  /\ loading_timeout \in Int /\ admin \in [Admins -> {"idle", "test", "clear"}]
  /\ loading_timeout < 0 => \E a \in Admins : admin[a] # "idle"
  /\ name \in Names /\ uevent \in BOOLEAN
  /\ result \in {"none", "ok", "error"}
  /\ timer \in {"off", "armed", "due", "aborting"}
  /\ fw.size \in Nat /\ fw.mapped \in Nat /\ inst.nr \in Nat /\ pagesOut \in Nat
  /\ Len(fw.pages) % PageSize = 0 /\ Len(inst.pages) % PageSize = 0
  /\ \A i \in DOMAIN fw.pages : fw.pages[i] \in Bytes
  /\ \A i \in DOMAIN inst.pages : inst.pages[i] \in Bytes
  /\ oops \in BOOLEAN

\* What a driver can read through fw->data.
Handed == SubSeq(fw.pages, 1, IF fw.mapped * PageSize < fw.size
                              THEN fw.mapped * PageSize ELSE fw.size)

Service ==
  INSTANCE FirmwareService WITH
    Image   <- [n \in Installed |-> File(n)],
    NoImage <- <<>>,
    request <- name,
    answer  <- IF pc = "idle" THEN "none"
               ELSE IF pc = "returned" THEN result ELSE "pending",
    image   <- IF Succeeded THEN Handed ELSE <<>>

\* request_firmware() answers each call once, and a success is the whole
\* image of the file named by that call, unchanged until it is released.
ImplementsService == Service!Spec

\* Freeing the instance never leaves a timer behind that would write to it,
\* nor a write under way in firmware_loading_store() (fw_destroy_instance()
\* after del_timer_sync(), and the draining of the sysfs file).
InstancePinned ==
  timer # "off" \/ (\E a \in Agents : handler[a] # "idle") => inst.alive

\* "@firmware_p will be used to return a firmware image by the name of @name":
\* a driver that got an image got the whole of the file it asked for.
RightFile == Succeeded => name \in Installed /\ Handed = File(name)

\* Every page allocated for an image is owned by the instance or by the
\* struct firmware, never by both or by neither, except while a store of 0
\* is between handing the pages over and resetting nr_pages.
PagesOwned ==
  (\A a \in Agents : handler[a] # "reset") =>
    pagesOut = PageCount(inst.pages) + PageCount(fw.pages)

\* No page is left behind by a request that failed or was released.
NoPageLeak ==
  pc = "idle" \/ (pc = "returned" /\ result = "error") => pagesOut = 0

\* With its timer set, a request returns whatever its agent does, unless an
\* agent's store has crashed the kernel.
TimeoutAnswers == (pc = "wait" /\ Pending(timer)) ~> (pc = "returned" \/ oops)

\* An agent that was started and keeps running answers its request, even
\* when the timeout is 0, `wait forever'.
AgentAnswers ==
  AgentsKeepRunning =>
    ((\E a \in Agents : pc = "wait" /\ agent[a].pc = "start" /\ agent[a].name = name)
       ~> (pc = "returned" \/ oops))

\* The only thing that can make the loader go through a pointer that has been
\* cleared is an abort that overtakes an agent's store; until then the order
\* of the agent's stores and of the requester's steps keeps all pointers good.
CrashOnlyAfterAbort == oops => inst.abort

\* fw_lock "is just guarding for corner cases": no access to the firmware of
\* an instance goes through a pointer that has been cleared.
NoOops == ~oops
=============================================================================
