------------------------- MODULE FirmwareUdevProofs -------------------------
(***************************************************************************)
(* Theorems about the firmware loader with its udev agent.  That the       *)
(* instance outlives its users holds for every agent; the others are about *)
(* agents that end before the next request starts (~OverlapAgents), for    *)
(* any number of agents, files, pages and timeouts.                        *)
(***************************************************************************)
EXTENDS FirmwareUdev, FirmwareLoaderProofs

AgentPcs == {"none", "start", "load", "open", "copy", "conclude", "giveUp", "exit"}
Copying  == {"load", "open", "copy", "conclude"}

AgentRecords == [pc : AgentPcs, name : Names \cup {Junk}, off : Nat]

\* An agent that copies a file has found it, and has copied no more than it;
\* hasData: whether the file `data' is there to be written.
GoodAgent(r, hasData) ==
  /\ r.pc # "none" => r.name \in Names
  /\ r.pc \in Copying => r.name \in Installed /\ r.off <= FileSize[r.name]
  /\ r.pc = "copy" => hasData
  /\ r.pc \in {"start", "load", "open"} => r.off = 0

AgentsTyped ==
  /\ agent \in [Agents -> AgentRecords]
  /\ \A a \in Agents : GoodAgent(agent[a], inst.dataFile)

Typed == Shaped(Bytes) /\ AgentsTyped

-----------------------------------------------------------------------------
(***************************************************************************)
(* The inductive invariant for agents that do not overlap.                 *)
(***************************************************************************)
Announced == {"wait", "setDone", "delTimer", "settle", "removeLoading", "drainLoading",
              "removeData", "unregister", "failed", "returned", "idle"}
Verdict   == {"removeLoading", "drainLoading", "removeData", "unregister"}

\* One agent at most runs, for the request that announced itself last; its
\* store to `loading' that concludes is its last step.
OneAgent ==
  /\ \A a, b \in Agents : agent[a].pc # "none" /\ agent[b].pc # "none" => a = b
  /\ \A a \in Agents :
       /\ agent[a].pc # "none" => agent[a].name = name /\ pc \in Announced
       /\ handler[a] # "idle" => agent[a].pc = "exit"

\* The result at each step of the request.
ResultByStep ==
  /\ pc \in Verdict \cup {"returned"} => result \in {"ok", "error"}
  /\ pc = "failed" => result \in {"none", "error"}
  /\ pc \notin Verdict \cup {"failed", "returned"} => result = "none"

\* The struct firmware owns no page; the instance owns nr pages.
Gathering ==
  /\ fw.pages = <<>>
  /\ Len(inst.pages) = inst.nr * PageSize

\* nr pages hold the first k bytes of the file n.
IsPrefix(pages, nr, n, k) ==
  /\ n \in Installed /\ k \in 0..FileSize[n]
  /\ nr = PFN_UP(k) /\ Len(pages) = nr * PageSize
  /\ \A i \in 1..k : pages[i] = Byte(n, i)

\* The instance holds the first k bytes of the file asked for.
Prefix(k) == fw.size = k /\ IsPrefix(inst.pages, inst.nr, name, k)

Whole == Prefix(FileSize[name])

\* The struct firmware f holds the file n.
IsImage(f, n) ==
  /\ f.size > 0 /\ f.size = FileSize[n]
  /\ IsPrefix(f.pages, f.mapped, n, f.size)

HoldsImage == IsImage(fw, name)

\* No page is allocated before the agents hear of the request.
Fresh ==
  /\ pc \in {"idle", "allocFirmware"} \/ (pc = "returned" /\ result = "error")
       => fw = NoFirmware
  /\ pc \in {"allocInstance", "addDevice", "createData", "createLoading", "arm", "setTimer",
            "notify"}
       => fw = NoFirmware /\ inst.pages = <<>> /\ inst.nr = 0

\* What an agent has done, while the instance is attached.
AgentProgress ==
  \A a \in Agents :
    /\ agent[a].pc \in {"start", "load", "open", "copy", "conclude", "giveUp"} => Gathering
    /\ inst.attached /\ agent[a].pc = "open" => agent[a].off = 0
    /\ inst.attached /\ agent[a].pc \in {"open", "copy"} => Prefix(agent[a].off)
    /\ inst.attached /\ agent[a].pc = "conclude" => Whole

\* What a store of 0 has done.
StoreProgress ==
  \A a \in Agents :
    /\ handler[a] \in {"vunmap", "vmap", "hand", "setAbort"} => Gathering
    /\ handler[a] \in {"vunmap", "vmap", "hand"} /\ inst.attached => Whole
    /\ handler[a] = "hand" => fw.mapped = inst.nr /\ inst.nr > 0
    /\ handler[a] \in {"reset", "complete", "clearLoading"} => HoldsImage
    /\ handler[a] = "reset" => inst.pages = <<>> /\ inst.nr = fw.mapped
    /\ handler[a] = "abort" => inst.abort

\* The requester wakes up for an abort or for the image.
Woken ==
  /\ timer = "aborting" => inst.abort
  /\ inst.completed => inst.abort \/ HoldsImage
  /\ pc \in Verdict \cup {"setDone", "delTimer", "settle"} => inst.completed
  /\ result = "ok" => HoldsImage

\* The pages are with the instance, or with the struct firmware and are the
\* image.
Owned ==
  \/ Gathering
  \/ HoldsImage /\ inst.pages = <<>>
       /\ ((\A a \in Agents : handler[a] # "reset") => inst.nr = 0)

\* Every page is counted once.
Counted ==
  /\ Len(fw.pages) = PageCount(fw.pages) * PageSize
  /\ Len(inst.pages) = PageCount(inst.pages) * PageSize
  /\ pagesOut = PageCount(inst.pages) + PageCount(fw.pages)

\* What holds until the kernel crashes, and what holds when it does.
Sound   == OneAgent /\ AgentProgress /\ StoreProgress /\ Woken /\ Owned
Crashed == inst.abort /\ inst.alive

Rest == Counted /\ ResultByStep /\ Fresh /\ IF oops THEN Crashed ELSE Sound

IInv == Typed /\ Rest

-----------------------------------------------------------------------------
(***************************************************************************)
(* Types, for any agents.                                                  *)
(***************************************************************************)
\* What cat writes at a time: at most a page, of a file it has found.
LEMMA ChunkTyped ==
  ASSUME Typed, NEW a \in Agents, AgentAt(a, "copy")
  PROVE  /\ agent[a].off \in Nat /\ Chunk(a) \in Nat /\ agent[a].name \in Installed
         /\ agent[a].off + Chunk(a) <= FileSize[agent[a].name]
         /\ Chunk(a) = 0 => agent[a].off = FileSize[agent[a].name]
         /\ [i \in 1..Chunk(a) |-> Byte(agent[a].name, agent[a].off + i)] \in Seq(Bytes)
<1>1. /\ agent[a].off \in Nat /\ agent[a].name \in Installed
      /\ agent[a].off <= FileSize[agent[a].name]
  BY DEF Typed, AgentsTyped, AgentRecords, GoodAgent, Copying, AgentAt
<1>2. FileSize[agent[a].name] \in Nat /\ PFN_UP(FileSize[agent[a].name]) <= MaxPages
  BY <1>1, UdevAssumption DEF Installed
<1>3. /\ Chunk(a) \in Nat
      /\ agent[a].off + Chunk(a) <= FileSize[agent[a].name]
      /\ Chunk(a) = 0 => agent[a].off = FileSize[agent[a].name]
  BY <1>1, <1>2, FirmwareAssumption DEF Chunk
<1>4. FileSize[agent[a].name] <= MaxPages * PageSize
  <2>1. FileSize[agent[a].name] <= PFN_UP(FileSize[agent[a].name]) * PageSize
    BY <1>2, EnoughPages
  <2>2. PFN_UP(FileSize[agent[a].name]) \in Nat
    BY <1>2, EnoughPages
  <2>. QED
    BY <1>2, <2>1, <2>2, FirmwareAssumption
<1>5. ASSUME NEW i \in 1..Chunk(a)
      PROVE  Byte(agent[a].name, agent[a].off + i) \in Bytes
  <2>1. agent[a].off + i \in 1..MaxPages * PageSize
    BY <1>1, <1>2, <1>3, <1>4, FirmwareAssumption
  <2>. QED
    BY <1>1, <2>1 DEF Bytes
<1>. QED
  BY <1>1, <1>3, <1>5

LEMMA JunkIsByte == Junk \in Bytes
BY DEF Bytes

\* What the system does is within the steps the shape is proved for.
LEMMA UdevIsLoaderStep ==
  ASSUME Typed, UdevNext
  PROVE  LoaderStep(Bytes) \/ UNCHANGED vars
<1>1. CASE KernelStep
  BY <1>1 DEF KernelStep, RequesterStep, Announce, LoaderStep, RequestStep
<1>2. CASE StoreStep
  BY <1>2 DEF StoreStep, LoaderStep, StoreOf
<1>3. CASE DriverStep
  BY <1>3 DEF DriverStep, LoaderStep, RequestStep
<1>4. CASE AdminStep
  BY <1>4 DEF AdminStep, LoaderStep
<1>5. ASSUME NEW a \in Agents, AgentStep(a)
      PROVE  LoaderStep(Bytes) \/ UNCHANGED vars
  <2>1. CASE EchoOne(a) \/ EchoZero(a) \/ EchoMinusOne(a)
    BY <2>1 DEF EchoOne, EchoZero, EchoMinusOne, LoaderStep, StoreOf
  <2>2. CASE Copy(a)
    BY <2>2, ChunkTyped DEF Copy, LoaderStep, DataStep
  <2>3. CASE CopyFails(a)
    BY <2>3, ChunkTyped DEF CopyFails, LoaderStep, DataStep
  <2>. QED
    BY <1>5, <2>1, <2>2, <2>3 DEF AgentStep, Start, OpenData, CopyEnds, OpenFails, Exit
<1>. QED
  BY <1>1, <1>2, <1>3, <1>4, <1>5 DEF UdevNext

LEMMA IdleIsGood ==
  ASSUME NEW hasData
  PROVE  IdleAgent \in AgentRecords /\ GoodAgent(IdleAgent, hasData)
BY DEF IdleAgent, AgentRecords, AgentPcs, GoodAgent, Copying

LEMMA InitTyped ==
  ASSUME UdevInit
  PROVE  Typed
<1>1. Shaped(Bytes)
  BY InitShaped DEF UdevInit
<1>2. AgentsTyped
  BY IdleIsGood DEF UdevInit, AgentsTyped
<1>. QED
  BY <1>1, <1>2 DEF Typed

\* A step of one agent.
LEMMA OneAgentMoves ==
  ASSUME AgentsTyped, NEW a \in Agents, NEW r \in AgentRecords,
         inst'.dataFile = inst.dataFile, GoodAgent(r, inst.dataFile),
         agent' = [agent EXCEPT ![a] = r]
  PROVE  AgentsTyped'
BY DEF AgentsTyped

\* An agent goes on to another of its steps, or ends.
LEMMA AgentGoesOn ==
  ASSUME AgentsTyped, NEW a \in Agents, NEW step \in AgentPcs, AgentGoes(a, step),
         inst'.dataFile = inst.dataFile, agent[a].pc # "none",
         step = "copy" => inst.dataFile,
         step \in {"start", "load", "open"} => agent[a].off = 0,
         step \in Copying => agent[a].pc \in Copying \cup {"start"} /\ agent[a].name \in Installed
  PROVE  AgentsTyped'
<1>. DEFINE r == [agent[a] EXCEPT !.pc = step]
<1>1. agent[a] \in AgentRecords /\ GoodAgent(agent[a], inst.dataFile)
  BY DEF AgentsTyped
<1>2. r \in AgentRecords
  BY <1>1 DEF AgentRecords
<1>3. \A n \in Installed : 0 <= FileSize[n]
  BY UdevAssumption DEF Installed
<1>4. GoodAgent(r, inst.dataFile)
  <2>1. r.pc = step /\ r.name = agent[a].name /\ r.off = agent[a].off
    BY <1>1 DEF AgentRecords
  <2>. HIDE DEF r
  <2>. QED
    BY <1>1, <1>3, <2>1 DEF GoodAgent, Copying
<1>5. agent' = [agent EXCEPT ![a] = r]
  BY DEF AgentGoes
<1>. HIDE DEF r
<1>. QED
  BY <1>2, <1>4, <1>5, OneAgentMoves

LEMMA AgentEnds ==
  ASSUME AgentsTyped, NEW a \in Agents, AgentExits(a), inst'.dataFile = inst.dataFile
  PROVE  AgentsTyped'
BY IdleIsGood, OneAgentMoves DEF AgentExits

\* The agents keep their types; an open descriptor needs the file.
LEMMA StepKeepsAgents ==
  ASSUME Typed, [UdevNext]_udevVars
  PROVE  AgentsTyped'
<1>. USE DEF Typed, Shaped, Types, Instances
<1>1. ASSUME UNCHANGED agent, inst'.dataFile = inst.dataFile
      PROVE  AgentsTyped'
  BY <1>1 DEF AgentsTyped
<1>2. CASE Announce
  <2>1. ASSUME NEW a \in Agents,
               agent' = [agent EXCEPT ![a] = [pc |-> "start", name |-> name, off |-> 0]]
        PROVE  AgentsTyped'
    <3>. DEFINE r == [pc |-> "start", name |-> name, off |-> 0]
    <3>1. r \in AgentRecords /\ GoodAgent(r, inst.dataFile)
      BY DEF AgentRecords, AgentPcs, GoodAgent, Copying
    <3>. HIDE DEF r
    <3>. QED
      BY <1>2, <2>1, <3>1, OneAgentMoves DEF Announce, Notify, r
  <2>. QED
    BY <1>1, <1>2, <2>1 DEF Announce, Notify
<1>3. CASE RequesterStep /\ ~Announce
  <2>1. agent' = IF inst'.dataFile THEN agent ELSE AgentsWithoutData
    BY <1>3 DEF RequesterStep
  <2>2. CASE inst'.dataFile
    BY <2>1, <2>2 DEF AgentsTyped, GoodAgent
  <2>3. CASE ~inst'.dataFile
    <3>1. ASSUME NEW a \in Agents
          PROVE  agent'[a] \in AgentRecords /\ GoodAgent(agent'[a], inst'.dataFile)
      BY <2>1, <2>3, IdleIsGood DEF AgentsTyped, AgentsWithoutData, GoodAgent
    <3>. QED
      BY <2>1, <2>3, <3>1 DEF AgentsTyped, AgentsWithoutData
  <2>. QED
    BY <2>2, <2>3
<1>4. CASE TimerStep /\ UNCHANGED agent
  BY <1>1, <1>4 DEF TimerStep, TimerFires, TimerCompletes
<1>5. CASE DriverStep
  BY <1>1, <1>5 DEF DriverStep, Call, Release
<1>6. CASE AdminStep
  BY <1>1, <1>6, TimeoutLeaves DEF AdminStep
<1>7. CASE StoreStep
  BY <1>1, <1>7 DEF StoreStep, HandlerStep, Vunmap, Vmap, HandPages, ResetPages, Complete,
                    ClearLoading, SetAbort, CompleteAbort
<1>8. ASSUME NEW a \in Agents, AgentStep(a)
      PROVE  AgentsTyped'
  <2>. USE DEF AgentAt, AgentPcs, Copying
  <2>1. CASE Start(a)
    <3>1. agent[a].off = 0
      BY <2>1 DEF Start, AgentsTyped, GoodAgent
    <3>. QED
      BY <2>1, <3>1, AgentGoesOn, AgentEnds DEF Start, vars
  <2>2. CASE OpenData(a) \/ CopyEnds(a)
    <3>1. agent[a].name \in Installed
      BY <2>2 DEF OpenData, CopyEnds, AgentsTyped, GoodAgent
    <3>. QED
      BY <2>2, <3>1, AgentGoesOn DEF OpenData, CopyEnds, vars
  <2>3. CASE OpenFails(a) \/ Exit(a)
    BY <2>3, AgentEnds DEF OpenFails, Exit, vars
  <2>4. CASE EchoOne(a)
    <3>1. inst'.dataFile = inst.dataFile
      BY <2>4 DEF EchoOne, StoreOne
    <3>2. agent[a].name \in Installed /\ agent[a].off = 0
      BY <2>4 DEF EchoOne, AgentsTyped, GoodAgent
    <3>. QED
      BY <2>4, <3>1, <3>2, AgentGoesOn DEF EchoOne
  <2>5. CASE EchoZero(a) \/ EchoMinusOne(a)
    BY <2>5, AgentGoesOn DEF EchoZero, StoreZero, EchoMinusOne, StoreMinusOne
  <2>6. CASE Copy(a)
    <3>. DEFINE r == [agent[a] EXCEPT !.off = agent[a].off + Chunk(a)]
    <3>1. r \in AgentRecords /\ GoodAgent(r, inst.dataFile)
      <4>1. /\ agent[a] \in AgentRecords /\ GoodAgent(agent[a], inst.dataFile)
            /\ agent[a].pc = "copy"
        BY <2>6 DEF Copy, AgentsTyped
      <4>2. agent[a].off + Chunk(a) \in Nat
        BY <2>6, ChunkTyped DEF Copy
      <4>3. r \in AgentRecords /\ r.pc = "copy" /\ r.name = agent[a].name
            /\ r.off = agent[a].off + Chunk(a)
        BY <4>1, <4>2 DEF AgentRecords
      <4>. HIDE DEF r
      <4>. QED
        BY <2>6, <4>1, <4>3, ChunkTyped DEF Copy, GoodAgent
    <3>2. inst'.dataFile = inst.dataFile
      BY <2>6 DEF Copy, WriteData
    <3>3. agent' = [agent EXCEPT ![a] = r]
      BY <2>6 DEF Copy
    <3>. HIDE DEF r
    <3>. QED
      BY <3>1, <3>2, <3>3, OneAgentMoves
  <2>7. CASE CopyFails(a)
    BY <2>7, AgentEnds DEF CopyFails, WriteDataNoMem, vars
  <2>. QED
    BY <1>8, <2>1, <2>2, <2>3, <2>4, <2>5, <2>6, <2>7 DEF AgentStep
<1>. QED
  BY <1>1, <1>2, <1>3, <1>4, <1>5, <1>6, <1>7, <1>8
     DEF UdevNext, KernelStep, udevVars, vars

LEMMA StepKeepsTyped ==
  ASSUME Typed, [UdevNext]_udevVars
  PROVE  Typed'
<1>1. LoaderStep(Bytes) \/ UNCHANGED vars
  BY UdevIsLoaderStep DEF udevVars
<1>. QED
  BY <1>1, StepKeepsShape, StepKeepsAgents, JunkIsByte DEF Typed

\* An agent may outlive its request and write into the next one: even so the
\* instance is not freed while a timer is armed or a store to `loading' is
\* under way.
THEOREM InstanceOutlivesItsUsers == UdevSpec => []InstancePinned
<1>1. Typed => InstancePinned
  BY ShapePins DEF Typed, Shaped, InstancePinned
<1>. QED
  BY <1>1, InitTyped, StepKeepsTyped, PTL DEF UdevSpec

-----------------------------------------------------------------------------
(***************************************************************************)
(* Facts about the pages.                                                  *)
(***************************************************************************)
LEMMA NoPages == PageCount(<<>>) = 0 /\ PFN_UP(0) = 0
BY FirmwareAssumption DEF PageCount, PFN_UP

LEMMA CountIsNat ==
  ASSUME NEW B, NEW p \in Seq(B)
  PROVE  PageCount(p) \in Nat
BY FirmwareAssumption DEF PageCount

LEMMA PagesOutIsNat ==
  ASSUME Typed, Counted
  PROVE  /\ PageCount(fw.pages) \in Nat /\ PageCount(inst.pages) \in Nat
         /\ pagesOut \in Nat
BY CountIsNat DEF Counted, Typed, Shaped, Types, Firmwares, Instances

\* An image that is not empty has pages, as many as are mapped.
LEMMA ImageHasPages ==
  ASSUME NEW f \in Firmwares(Bytes), NEW n, IsImage(f, n)
  PROVE  /\ f.pages # <<>> /\ PageCount(f.pages) = f.mapped /\ f.mapped = PFN_UP(f.size)
         /\ f.mapped > 0
<1>1. /\ f.size \in Nat /\ f.size > 0 /\ f.mapped \in Nat /\ f.pages \in Seq(Bytes)
      /\ f.mapped = PFN_UP(f.size) /\ Len(f.pages) = f.mapped * PageSize
  BY DEF IsImage, IsPrefix, Firmwares
<1>2. f.mapped > 0
  <2>1. f.size <= f.mapped * PageSize
    BY <1>1, EnoughPages
  <2>. QED
    BY <1>1, <2>1, FirmwareAssumption
<1>3. Len(f.pages) > 0
  BY <1>1, <1>2, FirmwareAssumption
<1>4. PageCount(f.pages) = f.mapped
  BY <1>1, CountOfPages
<1>. QED
  BY <1>1, <1>2, <1>3, <1>4

\* release_firmware() frees the pages there are, no more and no fewer.
LEMMA FreesItsPages ==
  ASSUME Typed, Owned
  PROVE  FreedPages(fw) = PageCount(fw.pages) /\ ~FreesPastEnd(fw)
<1>1. fw \in Firmwares(Bytes)
  BY DEF Typed, Shaped, Types
<1>2. fw.pages = <<>> \/ IsImage(fw, name)
  BY DEF Owned, Gathering, HoldsImage
<1>3. CASE fw.pages = <<>>
  BY <1>3, NoPages DEF FreedPages, FreesPastEnd
<1>4. CASE IsImage(fw, name)
  <2>1. PageCount(fw.pages) = fw.mapped /\ fw.mapped = PFN_UP(fw.size) /\ fw.mapped \in Nat
        /\ fw.pages # <<>>
    BY <1>1, <1>4, ImageHasPages DEF Firmwares
  <2>. QED
    BY <2>1 DEF FreedPages, FreesPastEnd
<1>. QED
  BY <1>2, <1>3, <1>4

\* An instance with its nr pages counts nr.
LEMMA GatheredPages ==
  ASSUME Typed, Gathering
  PROVE  PageCount(inst.pages) = inst.nr
<1>1. inst.pages \in Seq(Bytes) /\ inst.nr \in Nat
  BY DEF Typed, Shaped, Types, Instances
<1>. QED
  BY <1>1, CountOfPages DEF Gathering

-----------------------------------------------------------------------------
(***************************************************************************)
(* Steps that move no page: the requester's, the timer's, and those of the *)
(* agents outside the kernel.                                              *)
(***************************************************************************)
Quiet ==
  /\ UNCHANGED <<name, fw, pagesOut, oops, handler>>
  /\ inst'.pages = inst.pages /\ inst'.nr = inst.nr

LEMMA QuietStep ==
  ASSUME IInv, ~oops, Quiet, OneAgent', AgentProgress', ResultByStep', Fresh', Woken',
         \A a \in Agents : handler[a] = "abort" => inst'.abort,
         inst'.attached => inst.attached \/ \A a \in Agents : handler[a] = "idle"
  PROVE  Rest'
<1>1. Counted'
  BY DEF IInv, Rest, Counted, Quiet
<1>2. StoreProgress'
  BY DEF IInv, Rest, Sound, StoreProgress, Quiet, Gathering, Whole, Prefix, HoldsImage
<1>3. Owned'
  BY DEF IInv, Rest, Sound, Owned, Quiet, Gathering, HoldsImage
<1>. QED
  BY <1>1, <1>2, <1>3 DEF Rest, Sound, Quiet

\* The requester's steps up to the uevent: no agent yet.
LEMMA CreateKeepsRest ==
  ASSUME IInv, ~oops, Typed', CreateStep \/ ArmTimer,
         agent' = IF inst'.dataFile THEN agent ELSE AgentsWithoutData
  PROVE  Rest'
<1>. USE DEF Announced, Verdict
<1>1. \A a \in Agents : agent[a].pc = "none" /\ handler[a] = "idle" /\ agent'[a].pc = "none"
  BY DEF IInv, Rest, Sound, OneAgent, CreateStep, ArmTimer, TestTimeout, SetTimer, AllocFirmware, AllocInstance, AddDevice,
         CreateDataFile, CreateLoadingFile, At, AgentsWithoutData, IdleAgent
<1>2. inst.pages = <<>> /\ inst.nr = 0 /\ fw = NoFirmware
  BY DEF IInv, Rest, Sound, Fresh, CreateStep, ArmTimer, TestTimeout, SetTimer, AllocFirmware, AllocInstance, AddDevice,
         CreateDataFile, CreateLoadingFile, At, Typed, Shaped, Shape, Living, Attaching, NoInstance
<1>3. pagesOut - inst.nr = pagesOut /\ result = "none" /\ timer = "off"
  BY <1>2, PagesOutIsNat DEF IInv, Rest, ResultByStep, Typed, Shaped, Shape, CreateStep, ArmTimer,
         TestTimeout, SetTimer, AllocFirmware, AllocInstance, AddDevice, CreateDataFile, CreateLoadingFile, At
<1>4. /\ UNCHANGED <<name, fw, pagesOut, oops, handler>>
      /\ inst'.pages = <<>> /\ inst'.nr = 0
      /\ inst'.completed => (inst.completed /\ inst'.abort = inst.abort)
      /\ timer' # "aborting"
      /\ pc' \notin Verdict \cup {"idle", "setDone", "delTimer", "settle"}
      /\ result' = "none" \/ (result' = "error" /\ pc' = "returned")
      /\ result' = "none" => pc' # "returned"
  <2>. USE <1>2, <1>3, Empty DEF IInv, Typed, Shaped, Types, Instances,
                   PutDevice, requestVars, At
  <2>1. CASE AllocFirmware
    BY <2>1 DEF AllocFirmware
  <2>2. CASE AllocInstance
    BY <2>2 DEF AllocInstance, NoInstance
  <2>3. CASE AddDevice
    BY <2>3 DEF AddDevice
  <2>4. CASE CreateDataFile
    BY <2>4 DEF CreateDataFile
  <2>5. CASE CreateLoadingFile
    BY <2>5 DEF CreateLoadingFile
  <2>6. CASE ArmTimer
    BY <2>6 DEF ArmTimer, TestTimeout, SetTimer
  <2>. QED
    BY <2>1, <2>2, <2>3, <2>4, <2>5, <2>6 DEF CreateStep
<1>5. OneAgent' /\ AgentProgress'
  BY <1>1, <1>4 DEF OneAgent, AgentProgress
<1>6. Woken'
  BY <1>2, <1>3, <1>4 DEF IInv, Rest, Sound, Woken, HoldsImage
<1>7. Quiet /\ Fresh'
  BY <1>2, <1>4 DEF Quiet, Fresh
<1>8. ResultByStep'
  BY <1>4 DEF ResultByStep
<1>. QED
  BY <1>1, <1>5, <1>6, <1>7, <1>8, QuietStep

\* The requester's steps end agents, and start none.
LEMMA AgentsEnd ==
  ASSUME IInv, ~oops, Quiet, inst'.attached => inst.attached, pc' \in Announced,
         agent' = agent \/ agent' = IF inst'.dataFile THEN agent ELSE AgentsWithoutData
  PROVE  OneAgent' /\ AgentProgress'
<1>1. \A a \in Agents : /\ agent'[a] = agent[a] \/ agent'[a].pc = "none"
                        /\ handler[a] # "idle" => agent'[a].pc = "exit"
  BY DEF IInv, Rest, Sound, OneAgent, AgentsWithoutData, IdleAgent
<1>2. OneAgent'
  BY <1>1 DEF IInv, Rest, Sound, OneAgent, Quiet
<1>3. AgentProgress'
  BY <1>1 DEF IInv, Rest, Sound, AgentProgress, Quiet, Gathering, Prefix, Whole
<1>. QED
  BY <1>2, <1>3

\* The requester waits, takes the verdict and destroys the instance.
LEMMA FinishKeepsRest ==
  ASSUME IInv, ~oops, Typed', FinishStep,
         agent' = IF inst'.dataFile THEN agent ELSE AgentsWithoutData
  PROVE  Rest'
<1>. USE DEF IInv, Rest, Sound, Verdict, Announced
<1>1. /\ Quiet /\ timer' \in {timer, "off"}
      /\ inst'.attached => inst.attached
      /\ inst'.abort = inst.abort /\ inst'.completed = inst.completed
      /\ pc' \in {"setDone", "delTimer", "settle", "removeLoading", "drainLoading",
                  "removeData", "unregister"}
      /\ pc \in Verdict \cup {"wait", "setDone", "delTimer", "settle"}
      /\ inst.completed
  BY DEF FinishStep, WakeUp, SetDone, DelTimer, Settle, RemoveLoadingFile, DrainLoadingFile,
         RemoveDataFile, At, Quiet, requestVars, Typed, Shaped, Types, Instances, Woken
<1>2. ResultByStep' /\ (result' = "ok" => HoldsImage)
  BY <1>1 DEF FinishStep, WakeUp, SetDone, DelTimer, Settle, RemoveLoadingFile, DrainLoadingFile,
         RemoveDataFile, At, requestVars, ResultByStep, Woken
<1>3. Woken'
  BY <1>1, <1>2 DEF Woken, Quiet, HoldsImage
<1>4. Fresh'
  BY <1>1 DEF Fresh
<1>5. OneAgent' /\ AgentProgress'
  BY <1>1, AgentsEnd
<1>. QED
  BY <1>1, <1>2, <1>3, <1>4, <1>5, QuietStep DEF StoreProgress

\* The timer's handler.
LEMMA TimerKeepsRest ==
  ASSUME IInv, ~oops, Typed', TimerStep, UNCHANGED agent
  PROVE  Rest'
<1>. USE DEF IInv, Rest, Sound
<1>1. /\ Quiet /\ UNCHANGED <<pc, result>>
      /\ inst'.attached = inst.attached
      /\ inst.abort => inst'.abort
      /\ timer' = "aborting" => inst'.abort
      /\ inst'.completed => inst.completed \/ inst'.abort
      /\ inst.completed => inst'.completed
  BY DEF TimerStep, TimerFires, TimerCompletes, Quiet, requestVars, Typed, Shaped, Types,
         Instances, Woken
<1>2. ResultByStep' /\ Fresh' /\ Woken'
  BY <1>1 DEF ResultByStep, Fresh, Woken, Quiet, HoldsImage
<1>3. OneAgent' /\ AgentProgress'
  BY <1>1 DEF OneAgent, AgentProgress, Quiet, Gathering, Prefix, Whole
<1>. QED
  BY <1>1, <1>2, <1>3, QuietStep DEF StoreProgress

\* The administrator stores a timeout.
LEMMA AdminKeepsRest ==
  ASSUME IInv, ~oops, AdminStep
  PROVE  Rest'
<1>. USE DEF IInv, Rest, Sound
<1>1. Quiet /\ UNCHANGED <<pc, result, inst, timer, agent>>
  BY TimeoutLeaves DEF AdminStep, Quiet
<1>2. ResultByStep' /\ Fresh' /\ Woken'
  BY <1>1 DEF ResultByStep, Fresh, Woken, Quiet, HoldsImage
<1>3. OneAgent' /\ AgentProgress'
  BY <1>1 DEF OneAgent, AgentProgress, Quiet, Gathering, Prefix, Whole
<1>. QED
  BY <1>1, <1>2, <1>3, QuietStep DEF StoreProgress

\* The uevent starts the only agent.
LEMMA AnnounceKeepsRest ==
  ASSUME IInv, ~oops, Typed', Announce
  PROVE  Rest'
<1>. USE DEF IInv, Rest, Sound, Announced, Verdict
<1>1. /\ Quiet /\ UNCHANGED <<inst, timer, result>> /\ pc = "notify" /\ pc' = "wait"
  BY DEF Announce, Notify, At, Quiet, requestVars
<1>2. \A a \in Agents : agent[a].pc = "none" /\ handler[a] = "idle"
  BY <1>1 DEF OneAgent
<1>3. \A a, b \in Agents :
        /\ agent'[a].pc # "none" => agent'[a].pc = "start" /\ agent'[a].name = name
        /\ agent'[a].pc # "none" /\ agent'[b].pc # "none" => a = b
  BY <1>2 DEF Announce, Typed, AgentsTyped
<1>4. Gathering'
  BY <1>1, FirmwareAssumption DEF Gathering, Fresh, NoFirmware, Quiet
<1>5. ResultByStep' /\ Fresh' /\ Woken'
  BY <1>1 DEF ResultByStep, Fresh, Woken, Quiet, HoldsImage
<1>6. OneAgent' /\ AgentProgress'
  BY <1>1, <1>2, <1>3, <1>4 DEF OneAgent, AgentProgress, Quiet
<1>. QED
  BY <1>1, <1>2, <1>5, <1>6, QuietStep

-----------------------------------------------------------------------------
(***************************************************************************)
(* Steps of the requester and of the driver that free pages, and the call. *)
(***************************************************************************)
\* device_unregister() frees the pages the instance still has.
LEMMA UnregisterKeepsRest ==
  ASSUME IInv, ~oops, Typed', Unregister,
         agent' = IF inst'.dataFile THEN agent ELSE AgentsWithoutData
  PROVE  Rest'
<1>. USE Empty DEF IInv, Rest, Sound, Announced, Verdict
<1>1. /\ pc = "unregister" /\ inst' = NoInstance /\ pagesOut' = pagesOut - inst.nr
      /\ UNCHANGED <<name, result, fw, timer, handler, oops>>
      /\ pc' \in {"returned", "failed"} /\ (pc' = "returned" <=> result = "ok")
      /\ agent' = AgentsWithoutData
  BY DEF Unregister, PutDevice, At, requestVars
<1>2. /\ timer = "off" /\ result \in {"ok", "error"}
      /\ \A a \in Agents : handler[a] = "idle"
  BY <1>1 DEF Typed, Shaped, Shape, Loading, ResultByStep
<1>3. \A a \in Agents : agent'[a] = agent[a] \/ agent'[a].pc = "none"
  BY <1>1 DEF AgentsWithoutData, IdleAgent
<1>4. PageCount(inst.pages) = inst.nr
  BY <1>2, GatheredPages, NoPages DEF Owned
<1>5. Counted'
  <2>1. PageCount(fw.pages) \in Nat /\ PageCount(inst.pages) \in Nat
    BY PagesOutIsNat
  <2>2. pagesOut' = PageCount(fw.pages)
    BY <1>1, <1>4, <2>1 DEF Counted
  <2>3. Len(fw'.pages) = PageCount(fw'.pages) * PageSize /\ fw' = fw
    BY <1>1 DEF Counted
  <2>4. inst'.pages = <<>>
    BY <1>1
  <2>. HIDE DEF IInv, Rest, Sound
  <2>5. Len(inst'.pages) = 0 /\ PageCount(inst'.pages) = 0 /\ 0 * PageSize = 0
    BY <2>4, NoPages, FirmwareAssumption
  <2>. QED
    BY <2>1, <2>2, <2>3, <2>5 DEF Counted
<1>7. ResultByStep' /\ Fresh' /\ Woken' /\ StoreProgress'
  BY <1>1, <1>2 DEF ResultByStep, Fresh, Woken, StoreProgress, HoldsImage
<1>8. Owned' /\ (Gathering => Gathering')
  BY <1>1, <1>2, FirmwareAssumption DEF Owned, Gathering, HoldsImage
<1>9. OneAgent' /\ AgentProgress'
  BY <1>1, <1>2, <1>3, <1>8 DEF OneAgent, AgentProgress
<1>. QED
  BY <1>1, <1>5, <1>7, <1>8, <1>9

\* release_firmware() frees the pages of the image, on the error path and
\* for the driver.
LEMMA FreeKeepsRest ==
  ASSUME IInv, ~oops, Typed', ReturnError \/ Release,
         agent' = agent \/ agent' = IF inst'.dataFile THEN agent ELSE AgentsWithoutData
  PROVE  Rest'
<1>. USE Empty DEF IInv, Rest, Sound, Announced, Verdict
<1>1. /\ fw' = NoFirmware /\ pagesOut' = pagesOut - FreedPages(fw) /\ oops' = FreesPastEnd(fw)
      /\ UNCHANGED <<name, timer, handler, inst>>
      /\ pc \in {"failed", "returned"}
      /\ \/ pc' = "returned" /\ result' = "error"
         \/ pc' = "idle" /\ result' = "none"
  BY DEF ReturnError, Release, FreeFirmware, At
<1>2. /\ timer = "off" /\ inst = NoInstance /\ \A a \in Agents : handler[a] = "idle"
  BY <1>1 DEF Typed, Shaped, Shape, Living, Attaching, Loading
<1>3. FreedPages(fw) = PageCount(fw.pages) /\ ~FreesPastEnd(fw)
  BY FreesItsPages
<1>4. \A a \in Agents : agent'[a] = agent[a] \/ agent'[a].pc = "none"
  BY <1>1 DEF AgentsWithoutData, IdleAgent
<1>5. Counted'
  <2>1. PageCount(inst.pages) = 0 /\ PageCount(fw.pages) \in Nat
    BY <1>2, NoPages, PagesOutIsNat
  <2>2. pagesOut' = 0
    BY <1>1, <1>3, <2>1 DEF Counted
  <2>3. fw'.pages = <<>> /\ inst'.pages = <<>>
    BY <1>1, <1>2 DEF NoFirmware
  <2>. HIDE DEF IInv, Rest, Sound
  <2>4. 0 * PageSize = 0
    BY FirmwareAssumption
  <2>. QED
    BY <2>2, <2>3, <2>4, NoPages DEF Counted
<1>6. Gathering'
  BY <1>1, <1>2, FirmwareAssumption DEF Gathering, NoFirmware
<1>7. ResultByStep' /\ Fresh' /\ Woken' /\ StoreProgress'
  BY <1>1, <1>2 DEF ResultByStep, Fresh, Woken, StoreProgress
<1>8. OneAgent' /\ AgentProgress'
  BY <1>1, <1>2, <1>4, <1>6 DEF OneAgent, AgentProgress
<1>. QED
  BY <1>1, <1>3, <1>5, <1>6, <1>7, <1>8 DEF Owned

\* The next request starts when no agent of the last one is left.
LEMMA CallKeepsRest ==
  ASSUME IInv, ~oops, Typed', NEW n \in Names, Call(n, TRUE), UNCHANGED agent,
         \A a \in Agents : agent[a].pc = "none"
  PROVE  Rest'
<1>. USE Empty DEF IInv, Rest, Sound, Announced, Verdict
<1>1. /\ UNCHANGED <<fw, inst, timer, handler, pagesOut, oops, agent>>
      /\ pc' = "allocFirmware" /\ result' = "none"
      /\ pc = "idle" \/ (pc = "returned" /\ result = "error")
  BY DEF Call
<1>2. /\ fw = NoFirmware /\ timer = "off" /\ inst = NoInstance
      /\ \A a \in Agents : handler[a] = "idle"
  BY <1>1 DEF Fresh, Typed, Shaped, Shape, Living, Attaching, Loading
<1>3. Gathering'
  BY <1>1, <1>2, FirmwareAssumption DEF Gathering, NoFirmware
<1>4. Counted' /\ ResultByStep' /\ Fresh' /\ Woken' /\ StoreProgress'
  BY <1>1, <1>2 DEF Counted, ResultByStep, Fresh, Woken, StoreProgress
<1>5. OneAgent' /\ AgentProgress'
  BY <1>1, <1>2 DEF OneAgent, AgentProgress
<1>. QED
  BY <1>1, <1>3, <1>4, <1>5 DEF Owned

-----------------------------------------------------------------------------
(***************************************************************************)
(* Steps of the agents.                                                    *)
(***************************************************************************)
\* A step of the agent's script that calls no handler.
LEMMA ScriptKeepsRest ==
  ASSUME IInv, ~oops, NEW a \in Agents, UNCHANGED vars,
         Start(a) \/ OpenData(a) \/ CopyFails(a) \/ CopyEnds(a) \/ OpenFails(a) \/ Exit(a)
  PROVE  Rest'
<1>. USE DEF IInv, Rest, Sound
<1>1. /\ Quiet /\ UNCHANGED <<pc, result, inst, timer>>
  BY DEF vars, Quiet
<1>2. ResultByStep' /\ Fresh' /\ Woken'
  BY <1>1 DEF ResultByStep, Fresh, Woken, Quiet, HoldsImage
<1>3. /\ agent \in [Agents -> AgentRecords] /\ agent[a] \in AgentRecords
      /\ handler[a] = "idle" /\ agent[a].pc # "none"
  BY DEF Typed, AgentsTyped, Start, OpenData, CopyFails, CopyEnds, OpenFails, Exit, AgentAt
<1>4. PICK r \in AgentRecords :
        /\ agent' = [agent EXCEPT ![a] = r]
        /\ \/ r.pc = "none"
           \/ /\ r.name = agent[a].name /\ r.off = agent[a].off
              /\ \/ agent[a].pc = "start" /\ r.pc \in {"load", "giveUp"}
                 \/ agent[a].pc = "open" /\ r.pc = "copy"
                 \/ agent[a].pc = "copy" /\ r.pc = "conclude" /\ Chunk(a) = 0
  <2>1. ASSUME AgentExits(a)
        PROVE  /\ agent' = [agent EXCEPT ![a] = IdleAgent]
               /\ IdleAgent.pc = "none" /\ IdleAgent \in AgentRecords
    BY <2>1 DEF AgentExits, IdleAgent, AgentRecords, AgentPcs
  <2>2. ASSUME NEW step \in AgentPcs, AgentGoes(a, step)
        PROVE  LET r == [agent[a] EXCEPT !.pc = step]
               IN  /\ agent' = [agent EXCEPT ![a] = r] /\ r \in AgentRecords
                   /\ r.pc = step /\ r.name = agent[a].name /\ r.off = agent[a].off
    BY <1>3, <2>2 DEF AgentGoes, AgentRecords
  <2>3. CASE AgentExits(a)
    BY <2>1, <2>3
  <2>4. CASE Start(a) /\ ~AgentExits(a)
    BY <2>2, <2>4 DEF Start, AgentAt, AgentPcs
  <2>5. CASE OpenData(a)
    BY <2>2, <2>5 DEF OpenData, AgentAt, AgentPcs
  <2>6. CASE CopyEnds(a)
    BY <2>2, <2>6 DEF CopyEnds, AgentAt, AgentPcs
  <2>. QED
    BY <2>3, <2>4, <2>5, <2>6 DEF CopyFails, OpenFails, Exit
<1>5. \A b \in Agents : agent'[b] = IF b = a THEN r ELSE agent[b]
  BY <1>3, <1>4
<1>6. OneAgent'
  BY <1>1, <1>3, <1>4, <1>5 DEF OneAgent, Quiet
<1>7. AgentProgress'
  <2>1. ASSUME agent[a].pc = "copy", Chunk(a) = 0
        PROVE  agent[a].off = FileSize[name]
    BY <1>3, <2>1, ChunkTyped DEF AgentAt, OneAgent
  <2>. QED
    BY <1>1, <1>3, <1>4, <1>5, <2>1 DEF AgentProgress, Quiet, Gathering, Prefix, Whole
<1>. QED
  BY <1>1, <1>2, <1>6, <1>7, QuietStep DEF StoreProgress

\* The stores of 0 and -1 only enter the kernel.
LEMMA EchoKeepsRest ==
  ASSUME IInv, ~oops, NEW a \in Agents, EchoZero(a) \/ EchoMinusOne(a)
  PROVE  Rest'
<1>. USE DEF IInv, Rest, Sound
<1>1. /\ UNCHANGED <<name, fw, pagesOut, oops, pc, result, inst, timer>>
      /\ agent \in [Agents -> AgentRecords] /\ handler \in [Agents -> Handlers]
      /\ agent[a] \in AgentRecords
      /\ agent[a].pc \in {"conclude", "giveUp"} /\ handler[a] = "idle"
      /\ agent' = [agent EXCEPT ![a].pc = "exit"]
  BY DEF EchoZero, EchoMinusOne, StoreZero, StoreMinusOne, AgentAt, AgentGoes, requestVars,
         Typed, Shaped, Types, AgentsTyped
<1>2. PICK h \in {"vunmap", "setAbort"} :
        /\ handler' = [handler EXCEPT ![a] = h]
        /\ h = "vunmap" => agent[a].pc = "conclude"
  BY DEF EchoZero, EchoMinusOne, StoreZero, StoreMinusOne, AgentAt, Goto
<1>3. \A b \in Agents : /\ handler'[b] = IF b = a THEN h ELSE handler[b]
                        /\ b # a => agent'[b] = agent[b]
                        /\ agent'[a].pc = "exit" /\ agent'[a].name = agent[a].name
  BY <1>1, <1>2 DEF AgentRecords
<1>4. \A b \in Agents : handler[b] = "idle"
  BY <1>1 DEF OneAgent
<1>5. Counted' /\ ResultByStep' /\ Fresh' /\ Woken'
  BY <1>1 DEF Counted, ResultByStep, Fresh, Woken, HoldsImage
<1>6. Gathering /\ (agent[a].pc = "conclude" /\ inst.attached => Whole)
  BY <1>1 DEF AgentProgress
<1>7. OneAgent' /\ Gathering'
  BY <1>1, <1>3, <1>6 DEF OneAgent, Gathering
<1>8. AgentProgress'
  BY <1>1, <1>3 DEF AgentProgress, Gathering, Prefix, Whole
<1>9. StoreProgress'
  BY <1>1, <1>2, <1>3, <1>4, <1>6 DEF StoreProgress, Gathering, Prefix, Whole
<1>. QED
  BY <1>1, <1>5, <1>7, <1>8, <1>9 DEF Owned

LEMMA GatheringIsNoImage ==
  ASSUME Typed, Gathering
  PROVE  ~HoldsImage
BY ImageHasPages DEF Typed, Shaped, Types, Gathering, HoldsImage

\* Storing 1 frees what was gathered and starts again with nothing.
LEMMA EchoOneKeepsRest ==
  ASSUME IInv, ~oops, NEW a \in Agents, EchoOne(a)
  PROVE  Rest'
<1>. USE DEF IInv, Rest, Sound
<1>1. /\ agent \in [Agents -> AgentRecords] /\ agent[a] \in AgentRecords
      /\ agent[a].pc = "load" /\ agent[a].off = 0 /\ agent[a].name \in Installed
      /\ agent[a].name = name /\ handler[a] = "idle" /\ inst.loadingFile
      /\ agent' = [agent EXCEPT ![a].pc = "open"]
      /\ UNCHANGED <<name, pc, result, timer, handler>>
  BY DEF EchoOne, StoreOne, MayStoreLoading, AgentAt, AgentGoes, requestVars, Typed,
         AgentsTyped, GoodAgent, Copying, OneAgent
<1>2. \A b \in Agents : /\ b # a => agent'[b] = agent[b] /\ agent[b].pc = "none"
                        /\ agent'[a].pc = "open" /\ agent'[a].name = name /\ agent'[a].off = 0
                        /\ handler[b] = "idle"
  BY <1>1 DEF OneAgent, AgentRecords
<1>3. Gathering /\ ~HoldsImage /\ PageCount(inst.pages) = inst.nr
  BY <1>1, GatheringIsNoImage, GatheredPages DEF AgentProgress
<1>4. OneAgent' /\ StoreProgress'
  BY <1>1, <1>2 DEF OneAgent, StoreProgress
<1>5. ResultByStep'
  BY <1>1 DEF ResultByStep
<1>6. CASE ~inst.attached
  <2>1. UNCHANGED <<oops, fw, inst, pagesOut>>
    BY <1>6 DEF EchoOne, StoreOne
  <2>2. Counted' /\ Fresh' /\ Woken' /\ Owned'
    BY <1>1, <2>1 DEF Counted, Fresh, Woken, Owned, HoldsImage, Gathering
  <2>3. AgentProgress'
    BY <1>2, <1>3, <1>6, <2>1 DEF AgentProgress, Gathering
  <2>. QED
    BY <1>4, <1>5, <2>1, <2>2, <2>3
<1>7. CASE inst.attached
  <2>1. /\ fw' = NoFirmware /\ pagesOut' = pagesOut - FreedPages(fw) - inst.nr
        /\ oops' = (FreesPastEnd(fw) \/ inst.nr > PageCount(inst.pages))
        /\ inst' = [inst EXCEPT !.pages = <<>>, !.nr = 0, !.loading = TRUE]
    BY <1>7 DEF EchoOne, StoreOne
  <2>2. /\ inst'.pages = <<>> /\ inst'.nr = 0 /\ inst'.completed = inst.completed
        /\ inst'.abort = inst.abort /\ inst.nr \in Nat
    BY <2>1 DEF Typed, Shaped, Types, Instances
  <2>3. ~oops' /\ pagesOut' = 0
    <3>1. FreedPages(fw) = PageCount(fw.pages) /\ ~FreesPastEnd(fw)
      BY FreesItsPages
    <3>2. PageCount(fw.pages) \in Nat
      BY PagesOutIsNat
    <3>3. ~(inst.nr > PageCount(inst.pages))
      BY <1>3, <2>2
    <3>4. ~oops'
      BY <2>1, <3>1, <3>3
    <3>. QED
      BY <1>3, <2>1, <2>2, <3>1, <3>2, <3>4 DEF Counted
  <2>4. Counted' /\ Gathering'
    BY <2>1, <2>2, <2>3, NoPages, FirmwareAssumption DEF Counted, Gathering, NoFirmware
  <2>5. Fresh' /\ Woken' /\ Owned'
    BY <1>1, <1>3, <2>1, <2>2, <2>4 DEF Fresh, Woken, Owned
  <2>6. Prefix(0)'
    <3>1. FileSize[name] \in Nat
      BY <1>1, UdevAssumption DEF Installed
    <3>2. IsPrefix(<<>>, 0, name, 0)
      BY <1>1, <3>1, NoPages, FirmwareAssumption DEF IsPrefix
    <3>. QED
      BY <1>1, <2>1, <2>2, <3>2 DEF Prefix, NoFirmware
  <2>7. AgentProgress'
    BY <1>2, <2>4, <2>6 DEF AgentProgress, Prefix
  <2>. QED
    BY <1>4, <1>5, <2>3, <2>4, <2>5, <2>7
<1>. QED
  BY <1>6, <1>7

\* What a copying agent and its instance are.
LEMMA CopyingAgent ==
  ASSUME IInv, ~oops, NEW a \in Agents, AgentAt(a, "copy")
  PROVE  /\ agent \in [Agents -> AgentRecords] /\ agent[a] \in AgentRecords
         /\ agent[a].pc = "copy" /\ agent[a].name = name /\ name \in Installed
         /\ Gathering /\ ~HoldsImage /\ PageCount(inst.pages) = inst.nr
         /\ inst.attached => Prefix(agent[a].off)
         /\ \A b \in Agents : /\ b # a => agent[b].pc = "none"
                              /\ handler[b] = "idle"
<1>. USE DEF IInv, Rest, Sound, AgentAt
<1>1. /\ agent \in [Agents -> AgentRecords] /\ agent[a] \in AgentRecords
      /\ agent[a].pc = "copy" /\ agent[a].name = name /\ name \in Installed
  BY DEF Typed, AgentsTyped, GoodAgent, Copying, OneAgent
<1>2. Gathering /\ ~HoldsImage /\ PageCount(inst.pages) = inst.nr
  BY <1>1, GatheringIsNoImage, GatheredPages DEF AgentProgress
<1>3. inst.attached => Prefix(agent[a].off)
  BY <1>1 DEF AgentProgress
<1>4. \A b \in Agents : /\ b # a => agent[b].pc = "none"
                        /\ handler[b] = "idle"
  BY <1>1 DEF OneAgent
<1>. QED
  BY <1>1, <1>2, <1>3, <1>4

\* A write of the next chunk makes a longer prefix.
LEMMA WritesPrefix ==
  ASSUME NEW B, Junk \in B, NEW p \in Seq(B), NEW n, NEW k \in Nat, NEW m \in Nat,
         NEW content \in Seq(B), Len(content) = m,
         \A i \in 1..m : content[i] = Byte(n, k + i),
         FileSize[n] \in Nat, IsPrefix(p, PFN_UP(k), n, k), k + m <= FileSize[n]
  PROVE  IsPrefix(Overlay(Grown(p, PFN_UP(k + m)), k, content), PFN_UP(k + m), n, k + m)
<1>. DEFINE N == PFN_UP(k + m)
            G == Grown(p, N)
            O == Overlay(G, k, content)
<1>1. N \in Nat /\ PFN_UP(k) \in Nat /\ k + m <= N * PageSize /\ k <= PFN_UP(k) * PageSize
  <2>1. k + m \in Nat
    OBVIOUS
  <2>. QED
    BY ONLY <2>1, k \in Nat, EnoughPages DEF N
<1>2. G \in Seq(B) /\ Len(G) = N * PageSize
      /\ \A i \in 1..N * PageSize : G[i] = IF i <= Len(p) THEN p[i] ELSE Junk
  BY <1>1, GrownPages
<1>3. Len(O) = N * PageSize
      /\ \A i \in 1..N * PageSize :
           O[i] = IF i \in k + 1..k + m THEN content[i - k] ELSE G[i]
  <2>. HIDE DEF G, N
  <2>1. /\ Len(Overlay(G, k, content)) = Len(G)
        /\ \A i \in 1..Len(G) :
              Overlay(G, k, content)[i] = IF i \in k + 1..k + Len(content)
                                          THEN content[i - k] ELSE G[i]
    BY ONLY <1>2, OverlaidPages
  <2>. QED
    BY <1>2, <2>1
<1>. HIDE DEF O, G, N
<1>4. N * PageSize \in Nat /\ Len(p) = PFN_UP(k) * PageSize
      /\ \A i \in 1..k : p[i] = Byte(n, i)
  BY <1>1, FirmwareAssumption DEF IsPrefix
<1>5. ASSUME NEW i \in 1..k + m
      PROVE  O[i] = Byte(n, i)
  <2>1. i \in 1..N * PageSize
    BY <1>1, <1>4
  <2>2. CASE i \in k + 1..k + m
    <3>1. i - k \in 1..m /\ k + (i - k) = i
      BY <2>2
    <3>. QED
      BY <1>3, <2>1, <2>2, <3>1
  <2>3. CASE i \in 1..k
    <3>1. i <= Len(p) /\ i \notin k + 1..k + m
      BY <1>1, <1>4, <2>3
    <3>. QED
      BY <1>2, <1>3, <1>4, <2>1, <2>3, <3>1
  <2>. QED
    BY <2>2, <2>3
<1>6. n \in Installed
  BY DEF IsPrefix
<1>7. IsPrefix(O, N, n, k + m)
  <2>1. N = PFN_UP(k + m) /\ k + m \in 0..FileSize[n]
    BY DEF N
  <2>2. Len(O) = N * PageSize
    BY <1>3
  <2>3. \A i \in 1..k + m : O[i] = Byte(n, i)
    BY <1>5
  <2>. QED
    BY <1>6, <2>1, <2>2, <2>3 DEF IsPrefix
<1>. QED
  BY <1>7 DEF O, G, N

\* cat writes its next chunk: the prefix grows.
LEMMA CopyKeepsRest ==
  ASSUME IInv, ~oops, NEW a \in Agents, Copy(a)
  PROVE  Rest'
<1>. USE DEF IInv, Rest, Sound
<1>. DEFINE off     == agent[a].off
            content == [i \in 1..Chunk(a) |-> Byte(agent[a].name, off + i)]
            bytes   == off + Chunk(a)
            needed  == PFN_UP(bytes)
<1>1. /\ AgentAt(a, "copy") /\ Chunk(a) > 0 /\ WriteData(off, content)
      /\ agent' = [agent EXCEPT ![a].off = bytes]
      /\ UNCHANGED <<name, pc, result, timer, handler>>
  BY DEF Copy, WriteData, requestVars
<1>2. /\ agent \in [Agents -> AgentRecords] /\ agent[a] \in AgentRecords
      /\ agent[a].pc = "copy" /\ agent[a].name = name /\ name \in Installed
      /\ Gathering /\ ~HoldsImage /\ PageCount(inst.pages) = inst.nr
      /\ inst.attached => Prefix(off)
      /\ \A b \in Agents : /\ b # a => agent[b].pc = "none"
                           /\ handler[b] = "idle"
  BY <1>1, CopyingAgent
<1>3. /\ off \in Nat /\ Chunk(a) \in Nat /\ bytes \in Nat /\ bytes <= FileSize[name]
      /\ content \in Seq(Bytes) /\ Len(content) = Chunk(a)
      /\ \A i \in 1..Chunk(a) : content[i] = Byte(name, off + i)
      /\ FileSize[name] \in Nat
  BY <1>1, <1>2, ChunkTyped, UdevAssumption DEF Installed
<1>. HIDE DEF off, content, bytes
<1>4. LET need == PFN_UP(off + Len(content))
          most == IF need > inst.nr THEN need ELSE inst.nr
      IN  /\ inst.attached
          /\ oops' = PagesStale
          /\ inst' = [inst EXCEPT !.pages = inst'.pages, !.nr = most]
          /\ inst'.pages = Overlay(Grown(inst.pages, most), off, content)
          /\ Len(inst'.pages) = most * PageSize
          /\ inst' \in Instances(Bytes)
          /\ pagesOut' = pagesOut + most - inst.nr
          /\ fw' = [fw EXCEPT !.size = IF off + Len(content) > fw.size
                                       THEN off + Len(content) ELSE fw.size]
  <2>1. Types(Bytes)
    BY DEF Typed, Shaped
  <2>. HIDE DEF IInv
  <2>. QED
    BY <1>1, <1>3, <2>1, WrittenPages, JunkIsByte
<1>5. /\ fw.size = off /\ inst.nr = PFN_UP(off) /\ inst.nr \in Nat
      /\ IsPrefix(inst.pages, PFN_UP(off), name, off)
  BY <1>2, <1>4 DEF Prefix, IsPrefix, Typed, Shaped, Types, Instances
<1>6. needed \in Nat /\ inst.nr <= needed
  BY <1>3, <1>5, EnoughPages, PagesMonotone DEF bytes
<1>7. /\ inst'.pages = Overlay(Grown(inst.pages, needed), off, content)
      /\ Len(inst'.pages) = needed * PageSize /\ inst'.pages \in Seq(Bytes)
      /\ inst'.nr = needed /\ inst'.completed = inst.completed /\ inst'.abort = inst.abort
      /\ pagesOut' = pagesOut + needed - inst.nr
      /\ fw'.size = bytes /\ fw'.pages = fw.pages
  <2>1. off + Len(content) = bytes /\ PFN_UP(off + Len(content)) = needed
    BY <1>3 DEF bytes
  <2>2. (IF needed > inst.nr THEN needed ELSE inst.nr) = needed
    BY <1>5, <1>6
  <2>3. (IF bytes > fw.size THEN bytes ELSE fw.size) = bytes
    BY <1>3, <1>5 DEF bytes
  <2>. HIDE DEF needed
  <2>4. /\ inst' = [inst EXCEPT !.pages = inst'.pages, !.nr = needed]
        /\ inst'.pages = Overlay(Grown(inst.pages, needed), off, content)
        /\ Len(inst'.pages) = needed * PageSize /\ inst' \in Instances(Bytes)
        /\ pagesOut' = pagesOut + needed - inst.nr
        /\ fw' = [fw EXCEPT !.size = bytes]
    BY <1>4, <2>1, <2>2, <2>3
  <2>5. inst \in Instances(Bytes) /\ fw \in Firmwares(Bytes)
    BY DEF Typed, Shaped, Types
  <2>. HIDE DEF IInv
  <2>. QED
    BY <2>4, <2>5 DEF Instances, Firmwares
<1>. HIDE DEF needed
<1>8. ~oops'
  <2>1. ~PagesStale
    BY <1>2, <1>5 DEF PagesStale
  <2>. QED
    BY <1>4, <2>1
<1>9. Gathering' /\ Counted'
  <2>1. PageCount(inst'.pages) = needed
    BY <1>6, <1>7, CountOfPages
  <2>2. PageCount(fw.pages) \in Nat /\ PageCount(inst.pages) \in Nat
    BY PagesOutIsNat
  <2>. QED
    BY <1>2, <1>5, <1>6, <1>7, <2>1, <2>2 DEF Counted, Gathering
<1>10. fw'.size = bytes /\ IsPrefix(inst'.pages, inst'.nr, name', bytes)
  <2>1. inst.pages \in Seq(Bytes)
    BY DEF Typed, Shaped, Types, Instances
  <2>2. IsPrefix(Overlay(Grown(inst.pages, needed), off, content), needed, name, bytes)
    BY <1>3, <1>5, <2>1, WritesPrefix, JunkIsByte DEF bytes, needed
  <2>. QED
    BY <1>1, <1>7, <2>2
<1>11. \A b \in Agents : IF b = a THEN agent'[b] = [agent[b] EXCEPT !.off = bytes]
                                  ELSE agent'[b] = agent[b]
  BY <1>1, <1>2
<1>12. agent'[a].pc = "copy" /\ agent'[a].name = name /\ agent'[a].off = bytes
  BY <1>2, <1>11 DEF AgentRecords
<1>13. OneAgent' /\ StoreProgress'
  BY <1>1, <1>2, <1>11, <1>12 DEF OneAgent, StoreProgress
<1>14. AgentProgress'
  BY ZenonT(40), <1>2, <1>9, <1>10, <1>11, <1>12 DEF AgentProgress, Prefix
<1>15. ResultByStep' /\ Woken'
  BY <1>1, <1>2, <1>7 DEF ResultByStep, Woken
<1>16. Fresh'
  BY <1>1, <1>2 DEF Fresh, OneAgent, Announced, Typed, Shaped, Shape, WriteData, DataOpen, Having, Loading
<1>. QED
  BY <1>8, <1>9, <1>13, <1>14, <1>15, <1>16 DEF Owned

\* There is no memory for all the pages of a chunk: the request is aborted.
LEMMA NoMemKeepsRest ==
  ASSUME IInv, ~oops, NEW a \in Agents, AgentAt(a, "copy"), AgentExits(a),
         WriteDataNoMem(agent[a].off, Chunk(a))
  PROVE  Rest'
<1>. USE DEF IInv, Rest, Sound
<1>1. /\ UNCHANGED <<name, pc, result, fw, timer, handler, oops>>
      /\ inst.attached /\ inst.dataFile
      /\ agent' = [agent EXCEPT ![a] = IdleAgent]
  BY DEF WriteDataNoMem, DataOpen, requestVars, AgentExits
<1>2. /\ agent \in [Agents -> AgentRecords] /\ agent[a].pc = "copy"
      /\ Gathering /\ ~HoldsImage /\ PageCount(inst.pages) = inst.nr
      /\ \A b \in Agents : /\ b # a => agent[b].pc = "none"
                           /\ handler[b] = "idle"
  BY CopyingAgent
<1>3. \A b \in Agents : agent'[b].pc = "none"
  BY <1>1, <1>2 DEF IdleAgent
<1>4. inst.nr \in Nat /\ inst.pages \in Seq(Bytes)
      /\ agent[a].off \in Nat /\ Chunk(a) \in Nat
  BY ChunkTyped DEF Typed, Shaped, Types, Instances
<1>5. PFN_UP(agent[a].off + Chunk(a)) \in Nat
  <2>1. agent[a].off + Chunk(a) \in Nat
    BY <1>4
  <2>. QED
    BY ONLY <2>1, EnoughPages
<1>6. PICK n \in inst.nr..PFN_UP(agent[a].off + Chunk(a)) - 1 :
        /\ inst' = [inst EXCEPT !.pages = Grown(inst.pages, n), !.nr = n,
                                !.abort = TRUE, !.completed = TRUE]
        /\ pagesOut' = pagesOut + n - inst.nr
  BY DEF WriteDataNoMem
<1>7. n \in Nat
  BY <1>4, <1>5
<1>8. /\ inst'.pages = Grown(inst.pages, n) /\ inst'.nr = n /\ inst'.abort /\ inst'.completed
      /\ Len(inst'.pages) = n * PageSize /\ PageCount(inst'.pages) = n
  BY <1>4, <1>6, <1>7, GrownPages, JunkIsByte DEF Typed, Shaped, Types, Instances
<1>9. Gathering' /\ Counted'
  <2>1. PageCount(fw.pages) \in Nat /\ PageCount(inst.pages) \in Nat
    BY PagesOutIsNat
  <2>. QED
    BY <1>1, <1>2, <1>4, <1>6, <1>7, <1>8, <2>1 DEF Counted, Gathering
<1>10. OneAgent' /\ StoreProgress' /\ AgentProgress' /\ ResultByStep' /\ Woken'
  BY <1>1, <1>2, <1>3, <1>8 DEF OneAgent, StoreProgress, AgentProgress, ResultByStep, Woken
<1>11. Fresh'
  BY <1>1, <1>2 DEF Fresh, OneAgent, Announced, Typed, Shaped, Shape, Having, Loading
<1>. QED
  BY <1>1, <1>9, <1>10, <1>11 DEF Owned

-----------------------------------------------------------------------------
(***************************************************************************)
(* Steps of a store of 0 or -1 within the kernel.                          *)
(***************************************************************************)
\* Who is at them, and where the requester is; a store of 0 that finds the
\* firmware detached is one that an abort has overtaken.
LEMMA StoringAgent ==
  ASSUME IInv, ~oops, NEW a \in Agents, handler[a] # "idle"
  PROVE  /\ \A b \in Agents : /\ agent[b].pc \in {"none", "exit"}
                              /\ b # a => handler[b] = "idle"
         /\ inst.alive
         /\ pc \in {"wait", "setDone", "delTimer", "settle", "removeLoading", "drainLoading"}
         /\ ~inst.attached /\ Gathering => inst.abort
<1>. USE DEF IInv, Rest, Sound
<1>1. \A b \in Agents : /\ agent[b].pc \in {"none", "exit"}
                        /\ b # a => handler[b] = "idle"
  BY DEF OneAgent
<1>2. pc \in {"wait", "setDone", "delTimer", "settle", "removeLoading", "drainLoading"}
  BY DEF OneAgent, Announced, Typed, Shaped, Shape, Loading
<1>3. inst.alive
  BY <1>2 DEF Typed, Shaped, Shape, Living, Attaching
<1>4. ~inst.attached /\ Gathering => inst.abort
  BY <1>2, GatheringIsNoImage DEF Typed, Shaped, Shape, Attaching, Woken, Verdict
<1>. QED
  BY <1>1, <1>2, <1>3, <1>4

LEMMA StoreKeepsOthers ==
  ASSUME IInv, ~oops, NEW a \in Agents, handler[a] # "idle", NEW h, Goto(a, h),
         UNCHANGED <<agent, pc, name, result>>
  PROVE  /\ OneAgent' /\ AgentProgress' /\ ResultByStep' /\ Fresh'
         /\ handler'[a] = h /\ \A b \in Agents : b # a => handler'[b] = "idle"
<1>1. /\ \A b \in Agents : /\ agent[b].pc \in {"none", "exit"}
                           /\ b # a => handler[b] = "idle"
      /\ pc \in {"wait", "setDone", "delTimer", "settle", "removeLoading", "drainLoading"}
  BY StoringAgent
<1>2. handler'[a] = h /\ \A b \in Agents : b # a => handler'[b] = "idle"
  BY <1>1 DEF Goto, IInv, Typed, Shaped, Types
<1>3. agent[a].pc = "exit"
  BY DEF IInv, Rest, Sound, OneAgent
<1>4. OneAgent' /\ AgentProgress'
  BY <1>1, <1>2, <1>3 DEF IInv, Rest, Sound, OneAgent, AgentProgress
<1>5. ResultByStep' /\ Fresh'
  BY <1>1 DEF IInv, Rest, ResultByStep, Fresh
<1>. QED
  BY <1>2, <1>4, <1>5

\* The steps that map the pages and hand them over.
LEMMA ConcludeKeepsRest ==
  ASSUME IInv, ~oops, NEW a \in Agents, Vunmap(a) \/ Vmap(a) \/ HandPages(a), UNCHANGED agent
  PROVE  Rest'
<1>. USE DEF IInv, Rest, Sound
<1>1. /\ handler[a] \in {"vunmap", "vmap", "hand"}
      /\ UNCHANGED <<name, pc, result, timer, pagesOut>>
      /\ oops' = ~inst.attached \/ (handler[a] = "vmap" /\ oops' = (~inst.attached \/ inst.nr > PageCount(inst.pages)))
  BY DEF Vunmap, Vmap, HandPages, requestVars
<1>2. PICK h \in {"vmap", "hand", "setAbort", "reset"} :
        /\ Goto(a, h)
        /\ handler[a] = "vunmap" => h = "vmap"
        /\ handler[a] = "vmap" => h \in {"hand", "setAbort"}
        /\ handler[a] = "hand" => h = "reset"
        /\ h = "hand" => fw' = [fw EXCEPT !.mapped = inst.nr] /\ inst.nr > 0
        /\ handler[a] \in {"vunmap", "vmap"} =>
             inst' = inst /\ \E m \in Nat : fw' = [fw EXCEPT !.mapped = m]
        /\ handler[a] = "hand" =>
             fw' = [fw EXCEPT !.pages = inst.pages] /\ inst' = [inst EXCEPT !.pages = <<>>]
  BY DEF Vunmap, Vmap, HandPages, Typed, Shaped, Types, Instances
<1>3. /\ OneAgent' /\ AgentProgress' /\ ResultByStep' /\ Fresh'
      /\ handler'[a] = h /\ \A b \in Agents : b # a => handler'[b] = "idle"
  BY <1>1, <1>2, StoreKeepsOthers DEF requestVars
<1>4. Gathering /\ ~HoldsImage /\ PageCount(inst.pages) = inst.nr
  BY <1>1, GatheringIsNoImage, GatheredPages DEF StoreProgress
<1>5. fw \in Firmwares(Bytes) /\ inst \in Instances(Bytes)
  BY DEF Typed, Shaped, Types
<1>6. oops' = ~inst.attached
  <2>1. ~(inst.nr > PageCount(inst.pages))
    BY <1>4, <1>5 DEF Instances
  <2>. QED
    BY <1>1, <2>1
<1>7. inst'.abort = inst.abort /\ inst'.alive = inst.alive /\ inst'.completed = inst.completed
      /\ inst'.attached = inst.attached /\ inst'.nr = inst.nr
  BY <1>1, <1>2, <1>5 DEF Instances
<1>8. oops' => Crashed'
  BY <1>1, <1>4, <1>6, <1>7, StoringAgent DEF Crashed
<1>9. CASE handler[a] \in {"vunmap", "vmap"}
  <2>1. fw'.pages = fw.pages /\ fw'.size = fw.size /\ inst' = inst
        /\ (h = "hand" => fw'.mapped = inst.nr)
    BY <1>2, <1>5, <1>9 DEF Firmwares
  <2>2. Counted' /\ Gathering'
    BY <1>1, <1>4, <2>1 DEF Counted, Gathering
  <2>3. Woken'
    BY <1>1, <1>4, <2>1 DEF Woken
  <2>4. StoreProgress'
    BY <1>1, <1>2, <1>3, <1>9, <2>1, <2>2 DEF StoreProgress, Whole, Prefix
  <2>. QED
    BY <1>3, <1>8, <2>2, <2>3, <2>4 DEF Owned
<1>10. CASE handler[a] = "hand"
  <2>1. /\ fw'.pages = inst.pages /\ fw'.size = fw.size /\ fw'.mapped = fw.mapped
        /\ inst'.pages = <<>> /\ h = "reset" /\ fw.pages = <<>>
    BY <1>2, <1>4, <1>5, <1>10 DEF Firmwares, Instances, Gathering
  <2>2. Counted'
    <3>1. PageCount(fw.pages) = 0 /\ PageCount(inst.pages) \in Nat
      BY <2>1, NoPages, PagesOutIsNat
    <3>. QED
      BY <1>1, <2>1, <3>1, NoPages, FirmwareAssumption DEF Counted
  <2>3. CASE ~inst.attached
    BY <1>3, <1>6, <1>8, <2>2, <2>3
  <2>4. CASE inst.attached
    <3>1. fw.mapped = inst.nr /\ inst.nr > 0 /\ Whole
      BY <1>10, <2>4 DEF StoreProgress
    <3>2. fw.size > 0
      BY <1>5, <3>1, NoPages DEF Whole, Prefix, IsPrefix, Firmwares
    <3>3. HoldsImage'
      <4>1. IsImage(fw', name)
        BY <2>1, <3>1, <3>2 DEF Whole, Prefix, IsImage
      <4>. QED
        BY <1>1, <4>1 DEF HoldsImage
    <3>4. StoreProgress' /\ Woken' /\ Owned'
      BY <1>1, <1>3, <1>7, <2>1, <3>1, <3>3 DEF StoreProgress, Woken, Owned
    <3>. QED
      BY <1>3, <1>6, <2>2, <2>4, <3>4
  <2>. QED
    BY <2>3, <2>4
<1>. QED
  BY <1>1, <1>9, <1>10

\* The steps that complete the request, with the image or without.
LEMMA CompleteKeepsRest ==
  ASSUME IInv, ~oops, NEW a \in Agents, UNCHANGED agent,
         ResetPages(a) \/ Complete(a) \/ ClearLoading(a) \/ SetAbort(a) \/ CompleteAbort(a)
  PROVE  Rest'
<1>. USE DEF IInv, Rest, Sound
<1>1. /\ UNCHANGED <<name, pc, result, timer, pagesOut, fw, oops>>
      /\ inst'.pages = inst.pages
      /\ inst.abort => inst'.abort
      /\ inst.completed => inst'.completed
  BY DEF ResetPages, Complete, ClearLoading, SetAbort, CompleteAbort, requestVars,
         Typed, Shaped, Types, Instances
<1>2. PICK h :
        /\ Goto(a, h)
        /\ \/ handler[a] = "reset" /\ h = "complete" /\ inst'.nr = 0
           \/ handler[a] # "reset" /\ inst'.nr = inst.nr
        /\ \/ handler[a] \in {"reset", "complete"} /\ h \in {"complete", "clearLoading"}
           \/ handler[a] \in {"clearLoading", "abort"} /\ h = "idle"
           \/ handler[a] = "setAbort" /\ h = "abort" /\ inst'.abort
        /\ handler[a] \in {"complete", "abort"} \/ inst'.completed = inst.completed
  BY DEF ResetPages, Complete, ClearLoading, SetAbort, CompleteAbort, Typed, Shaped, Types,
         Instances
<1>3. /\ OneAgent' /\ AgentProgress' /\ ResultByStep' /\ Fresh'
      /\ handler'[a] = h /\ \A b \in Agents : b # a => handler'[b] = "idle"
  BY <1>1, <1>2, StoreKeepsOthers
<1>4. Counted' /\ HoldsImage' = HoldsImage
  BY <1>1 DEF Counted, HoldsImage
<1>5. StoreProgress'
  BY <1>1, <1>2, <1>3, <1>4 DEF StoreProgress
<1>6. Woken'
  <2>1. inst'.completed => inst'.abort \/ HoldsImage
    <3>1. CASE handler[a] \in {"complete", "abort"}
      BY <1>1, <3>1 DEF StoreProgress
    <3>. QED
      BY <1>1, <1>2, <3>1 DEF Woken
  <2>. QED
    BY <1>1, <1>4, <2>1 DEF Woken
<1>7. Owned'
  <2>1. CASE handler[a] = "reset"
    BY <1>1, <1>2, <1>4, <2>1 DEF StoreProgress, Owned
  <2>2. CASE handler[a] # "reset"
    <3>1. \A b \in Agents : handler[b] # "reset"
      BY <1>2, <2>2, StoringAgent DEF Goto
    <3>2. inst'.nr = inst.nr
      BY <1>2, <2>2
    <3>. QED
      BY <1>1, <1>4, <3>1, <3>2 DEF Owned, Gathering
  <2>. QED
    BY <2>1, <2>2
<1>. QED
  BY <1>1, <1>3, <1>4, <1>5, <1>6, <1>7

-----------------------------------------------------------------------------
(***************************************************************************)
(* The invariant is inductive.                                             *)
(***************************************************************************)
LEMMA InitIInv ==
  ASSUME UdevInit
  PROVE  IInv
<1>1. Typed
  BY InitTyped
<1>2. /\ fw = NoFirmware /\ inst = NoInstance /\ pc = "idle" /\ result = "none" /\ timer = "off"
      /\ pagesOut = 0 /\ ~oops
      /\ \A a \in Agents : handler[a] = "idle" /\ agent[a].pc = "none"
  BY DEF UdevInit, Init, IdleAgent
<1>3. Counted /\ Gathering
  BY <1>2, NoPages, FirmwareAssumption DEF Counted, Gathering, NoFirmware, NoInstance
<1>4. ResultByStep /\ Fresh /\ OneAgent /\ AgentProgress /\ StoreProgress
  BY <1>2 DEF ResultByStep, Verdict, Fresh, OneAgent, AgentProgress, StoreProgress
<1>5. Woken
  BY <1>2, Empty DEF Woken, Verdict
<1>. QED
  BY <1>1, <1>2, <1>3, <1>4, <1>5 DEF IInv, Rest, Sound, Owned

LEMMA StepKeepsIInv ==
  ASSUME ~OverlapAgents, IInv, [UdevNext]_udevVars
  PROVE  IInv'
<1>1. Typed'
  BY StepKeepsTyped DEF IInv
<1>2. CASE UNCHANGED udevVars
  BY <1>1, <1>2 DEF udevVars, vars, IInv, Rest, Counted, ResultByStep, Fresh, Crashed, Sound,
     OneAgent, AgentProgress, StoreProgress, Woken, Owned, Gathering, Prefix, Whole, HoldsImage
<1>3. CASE UdevNext
  <2>1. ~oops
    BY <1>3 DEF UdevNext
  <2>2. CASE KernelStep
    BY <1>1, <2>1, <2>2, CreateKeepsRest, FinishKeepsRest, UnregisterKeepsRest, FreeKeepsRest,
       AnnounceKeepsRest, TimerKeepsRest DEF KernelStep, RequesterStep, IInv
  <2>3. CASE StoreStep
    BY <1>1, <2>1, <2>3, ConcludeKeepsRest, CompleteKeepsRest DEF StoreStep, HandlerStep, IInv
  <2>4. CASE DriverStep
    BY <1>1, <2>1, <2>4, CallKeepsRest, FreeKeepsRest DEF DriverStep, IInv
  <2>5. CASE AdminStep
    BY <1>1, <2>1, <2>5, AdminKeepsRest DEF IInv
  <2>6. ASSUME NEW a \in Agents, AgentStep(a)
        PROVE  Rest'
    <3>1. CASE CopyFails(a)
      BY <2>1, <3>1, ScriptKeepsRest, NoMemKeepsRest DEF CopyFails
    <3>2. CASE Start(a) \/ OpenData(a) \/ CopyEnds(a) \/ OpenFails(a) \/ Exit(a)
      BY <2>1, <3>2, ScriptKeepsRest DEF Start, OpenData, CopyEnds, OpenFails, Exit
    <3>. QED
      BY <2>1, <2>6, <3>1, <3>2, EchoOneKeepsRest, CopyKeepsRest, EchoKeepsRest DEF AgentStep
  <2>. QED
    BY <1>1, <1>3, <2>2, <2>3, <2>4, <2>5, <2>6 DEF UdevNext, IInv
<1>. QED
  BY <1>2, <1>3

LEMMA Invariant ==
  ASSUME ~OverlapAgents
  PROVE  UdevSpec => []IInv
<1>1. UdevInit => IInv
  BY InitIInv
<1>2. IInv /\ [UdevNext]_udevVars => IInv'
  BY StepKeepsIInv
<1>. QED
  BY <1>1, <1>2, PTL DEF UdevSpec

-----------------------------------------------------------------------------
(***************************************************************************)
(* What follows, for agents that do not overlap.                           *)
(***************************************************************************)
\* Every variable keeps its type, the timeout is negative only while a store
\* of it is under way, images are made of whole pages, and the pages that are
\* out are never fewer than none.
THEOREM TypeCorrect ==
  ASSUME ~OverlapAgents
  PROVE  UdevSpec => []TypeOK
<1>1. ASSUME NEW k \in Nat PROVE (k * PageSize) % PageSize = 0
  BY FirmwareAssumption
<1>2. IInv => TypeOK
  <2>. SUFFICES ASSUME IInv PROVE TypeOK
    OBVIOUS
  <2>1. pagesOut \in Nat /\ PageCount(fw.pages) \in Nat /\ PageCount(inst.pages) \in Nat
    BY PagesOutIsNat DEF IInv, Rest
  <2>2. Len(fw.pages) % PageSize = 0 /\ Len(inst.pages) % PageSize = 0
    BY <1>1, <2>1 DEF IInv, Rest, Counted
  <2>3. loading_timeout < 0 => \E a \in Admins : admin[a] # "idle"
    BY DEF IInv, Typed, Shaped, Shape
  <2>. QED
    BY <2>1, <2>2, <2>3 DEF TypeOK, IInv, Typed, Shaped, Types, Firmwares, Instances
<1>. QED
  BY <1>2, Invariant, PTL

\* Every page allocated for an image is owned by the instance or by the struct
\* firmware, never by both or by neither, whatever fails and whenever the
\* timeout strikes.
THEOREM PagesAccounted ==
  ASSUME ~OverlapAgents
  PROVE  UdevSpec => []PagesOwned
<1>1. IInv => PagesOwned
  BY DEF IInv, Rest, Counted, PagesOwned
<1>. QED
  BY <1>1, Invariant, PTL

\* A request that failed, and an image that was released, leave no page
\* behind: fw_dev_release() and release_firmware() free what the other does
\* not, even when the requester is woken while an agent still writes.
THEOREM NothingLeaks ==
  ASSUME ~OverlapAgents
  PROVE  UdevSpec => []NoPageLeak
<1>1. IInv => NoPageLeak
  <2>. SUFFICES ASSUME IInv, pc = "idle" \/ (pc = "returned" /\ result = "error")
                PROVE  pagesOut = 0
    BY DEF NoPageLeak
  <2>1. inst = NoInstance /\ fw = NoFirmware
    BY DEF IInv, Typed, Shaped, Shape, Living, Attaching, Rest, Fresh
  <2>. QED
    BY <2>1, NoPages DEF IInv, Rest, Counted, NoInstance, NoFirmware
<1>. QED
  BY <1>1, Invariant, PTL

\* Only a store of 0 that an abort has overtaken goes through the pointer
\* that the requester has cleared.
THEOREM CrashesAreLate ==
  ASSUME ~OverlapAgents
  PROVE  UdevSpec => []CrashOnlyAfterAbort
<1>1. IInv => CrashOnlyAfterAbort
  BY DEF IInv, Rest, Crashed, CrashOnlyAfterAbort
<1>. QED
  BY <1>1, Invariant, PTL

\* The image a struct firmware holds reads as the file.
LEMMA ImageIsFile ==
  ASSUME Typed, HoldsImage
  PROVE  name \in Installed /\ Handed = File(name)
<1>1. /\ fw.pages \in Seq(Bytes) /\ fw.size \in Nat /\ fw.mapped \in Nat
      /\ name \in Installed /\ fw.size = FileSize[name] /\ fw.mapped = PFN_UP(fw.size)
      /\ Len(fw.pages) = fw.mapped * PageSize
      /\ \A i \in 1..fw.size : fw.pages[i] = Byte(name, i)
  BY DEF Typed, Shaped, Types, Firmwares, HoldsImage, IsImage, IsPrefix
<1>2. fw.size <= fw.mapped * PageSize /\ fw.mapped * PageSize \in Nat
  <2>1. fw.size <= PFN_UP(fw.size) * PageSize
    BY <1>1, EnoughPages
  <2>. QED
    BY <1>1, <2>1, FirmwareAssumption
<1>3. (IF fw.mapped * PageSize < fw.size THEN fw.mapped * PageSize ELSE fw.size) = fw.size
  BY <1>1, <1>2
<1>4. Handed = SubSeq(fw.pages, 1, fw.size)
  BY <1>3 DEF Handed
<1>5. Handed = [i \in 1..fw.size |-> fw.pages[i]]
  BY <1>1, <1>2, <1>4
<1>. QED
  BY <1>1, <1>5 DEF File

\* An image that is held is the file's; nothing else is held.
LEMMA HeldImage ==
  ASSUME IInv, Succeeded
  PROVE  name \in Installed /\ Handed = File(name)
<1>1. ~oops
  BY DEF IInv, Rest, Crashed, Typed, Shaped, Shape, Living, Attaching, Succeeded
<1>. QED
  BY <1>1, ImageIsFile DEF IInv, Rest, Sound, Woken, Succeeded

\* A driver that got an image got the whole of the file it asked for.
THEOREM GetsTheFile ==
  ASSUME ~OverlapAgents
  PROVE  UdevSpec => []RightFile
<1>1. IInv => RightFile
  BY HeldImage DEF RightFile
<1>. QED
  BY <1>1, Invariant, PTL

-----------------------------------------------------------------------------
(***************************************************************************)
(* Refinement: the loader and its agent implement the service.             *)
(***************************************************************************)
\* Within the requester a request is pending; it is answered at the end.
LEMMA RequesterAnswers ==
  ASSUME RequesterStep
  PROVE  /\ pc \notin {"idle", "returned"} /\ name' = name
         /\ \/ pc' \notin {"idle", "returned"}
            \/ pc' = "returned" /\ result' \in {"ok", "error"}
BY DEF RequesterStep, Announce, Notify, CreateStep, AllocFirmware, AllocInstance, AddDevice,
       CreateDataFile, CreateLoadingFile, ArmTimer, TestTimeout, SetTimer, FinishStep, WakeUp, SetDone, DelTimer, Settle,
       RemoveLoadingFile, DrainLoadingFile, RemoveDataFile, Unregister, ReturnError, At, requestVars

\* The others answer nothing, and change no image a driver holds.
LEMMA OthersLeaveAnswer ==
  ASSUME Typed, \/ TimerStep \/ StoreStep \/ AdminStep
                \/ \E a \in Agents : AgentStep(a)
  PROVE  UNCHANGED <<pc, name, result>> /\ (Succeeded => fw' = fw)
<1>1. Succeeded => /\ ~inst.loadingFile /\ ~inst.dataFile
                   /\ \A a \in Agents : handler[a] = "idle"
  BY DEF Typed, Shaped, Shape, Succeeded, Loading, Having
<1>2. CASE TimerStep \/ AdminStep
  BY <1>2, TimeoutLeaves DEF TimerStep, TimerFires, TimerCompletes, AdminStep, requestVars
<1>3. CASE StoreStep
  BY <1>1, <1>3 DEF StoreStep, HandlerStep, Vunmap, Vmap, HandPages, ResetPages, Complete,
                    ClearLoading, SetAbort, CompleteAbort, requestVars
<1>4. ASSUME NEW a \in Agents, AgentStep(a)
      PROVE  UNCHANGED <<pc, name, result>> /\ (Succeeded => fw' = fw)
  <2>1. CASE EchoOne(a) \/ EchoZero(a) \/ EchoMinusOne(a)
    BY <1>1, <2>1 DEF EchoOne, StoreOne, EchoZero, StoreZero, EchoMinusOne, StoreMinusOne,
                      MayStoreLoading, requestVars
  <2>2. CASE Copy(a) \/ CopyFails(a)
    BY <1>1, <2>2 DEF Copy, WriteData, CopyFails, WriteDataNoMem, requestVars, vars
  <2>. QED
    BY <1>4, <2>1, <2>2 DEF AgentStep, Start, OpenData, CopyEnds, OpenFails, Exit, vars
<1>. QED
  BY <1>2, <1>3, <1>4

\* The answer and the image of the service, as the module's substitution
\* reads them off the loader.
answer == IF pc = "idle" THEN "none" ELSE IF pc = "returned" THEN result ELSE "pending"
image  == IF Succeeded THEN Handed ELSE <<>>

LEMMA InitRefines ==
  ASSUME UdevInit
  PROVE  Service!Init
BY DEF UdevInit, Init, Service!Init, Succeeded

LEMMA StepRefines ==
  ASSUME IInv, RightFile', [UdevNext]_udevVars
  PROVE  [Service!Next]_Service!vars
<1>. USE DEF answer, image
<1>1. ASSUME name' = name, answer' = answer, image' = image
      PROVE  UNCHANGED Service!vars
  BY <1>1 DEF Service!vars
<1>2. ASSUME UNCHANGED <<pc, name, result>>, Succeeded => fw' = fw
      PROVE  UNCHANGED Service!vars
  <2>1. Succeeded' <=> Succeeded
    BY <1>2 DEF Succeeded
  <2>2. Succeeded => Handed' = Handed
    BY <1>2 DEF Handed
  <2>. QED
    BY <1>1, <1>2, <2>1, <2>2
<1>3. CASE UNCHANGED udevVars
  BY <1>2, <1>3 DEF udevVars, vars
<1>4. CASE TimerStep \/ StoreStep \/ AdminStep \/ \E a \in Agents : AgentStep(a)
  BY <1>2, <1>4, OthersLeaveAnswer DEF IInv
<1>5. CASE RequesterStep
  <2>1. /\ pc \notin {"idle", "returned"} /\ name' = name
        /\ \/ pc' \notin {"idle", "returned"}
           \/ pc' = "returned" /\ result' \in {"ok", "error"}
    BY <1>5, RequesterAnswers
  <2>2. answer = "pending" /\ ~Succeeded /\ image = <<>>
    BY <2>1 DEF Succeeded
  <2>3. CASE pc' \notin {"idle", "returned"}
    <3>1. answer' = "pending" /\ ~Succeeded'
      BY <2>3 DEF Succeeded
    <3>. QED
      BY <1>1, <2>1, <2>2, <3>1
  <2>4. CASE pc' = "returned" /\ result' = "error"
    <3>1. answer' = "error" /\ ~Succeeded'
      BY <2>4 DEF Succeeded
    <3>. QED
      BY <2>1, <2>2, <3>1 DEF Service!Next, Service!Refuse
  <2>5. CASE pc' = "returned" /\ result' = "ok"
    <3>1. answer' = "ok" /\ Succeeded'
      BY <2>5 DEF Succeeded
    <3>2. (name \in Installed /\ Handed = File(name))'
      BY <3>1 DEF RightFile
    <3>3. name \in Installed /\ image' = File(name)
      BY <2>1, <3>1, <3>2 DEF File
    <3>4. name \in DOMAIN [n \in Installed |-> File(n)]
          /\ image' = [n \in Installed |-> File(n)][name]
      BY <3>3
    <3>. QED
      BY <2>1, <2>2, <3>1, <3>4 DEF Service!Next, Service!Deliver
  <2>. QED
    BY <2>1, <2>3, <2>4, <2>5
<1>6. ASSUME NEW n \in Names, Call(n, TRUE)
      PROVE  Service!Next
  <2>1. /\ answer \in {"none", "error"} /\ ~Succeeded /\ name' = n
        /\ pc' = "allocFirmware"
    BY <1>6 DEF Call, Succeeded
  <2>2. answer' = "pending" /\ ~Succeeded'
    BY <2>1 DEF Succeeded
  <2>. QED
    BY <2>1, <2>2 DEF Service!Next, Service!Call
<1>7. CASE Release
  <2>1. /\ answer = "ok" /\ name' = name /\ pc' = "idle"
    BY <1>7 DEF Release, At
  <2>2. answer' = "none" /\ ~Succeeded'
    BY <2>1 DEF Succeeded
  <2>. QED
    BY <2>1, <2>2 DEF Service!Next, Service!Release
<1>. QED
  BY <1>3, <1>4, <1>5, <1>6, <1>7 DEF UdevNext, KernelStep, DriverStep

\* Every behaviour of the loader with its agent is one of the service: a
\* request is answered once, with the whole file it named or with an error,
\* and the driver's image stays as it is until it is released.
THEOREM Implements ==
  ASSUME ~OverlapAgents
  PROVE  UdevSpec => ImplementsService
<1>1. UdevInit => Service!Init
  BY InitRefines
<1>2. IInv /\ RightFile' /\ [UdevNext]_udevVars => [Service!Next]_Service!vars
  BY StepRefines
<1>. QED
  BY <1>1, <1>2, Invariant, GetsTheFile, PTL DEF UdevSpec, ImplementsService, Service!Spec
=============================================================================
