------------------------ MODULE FirmwareNowaitProofs ------------------------
(***************************************************************************)
(* For any finite number of calls of request_firmware_nowait(): the types  *)
(* of FirmwareNowait, that a continuation finds its driver in memory, and  *)
(* that it is called exactly once and with a verdict.                      *)
(***************************************************************************)
EXTENDS FirmwareNowait, FiniteSetTheorems, TLAPS

-----------------------------------------------------------------------------
(***************************************************************************)
(* The inductive invariant.  Neither property is inductive: that the       *)
(* module is live while a thread may call into it follows from what its    *)
(* reference count counts, and that a continuation is called once from how *)
(* far each call is.                                                       *)
(***************************************************************************)
\* The calls between try_module_get() and module_put().
Holding == {w \in Works : work[w] \in {"spawn", "contFailed", "putFailed",
                                       "request", "cont", "put"}}

\* The reference count is the number of these calls, and a module that is
\* going has none.
RefsCounted ==
  /\ refs = Cardinality(Holding)
  /\ module # "live" => Holding = {}

\* What a call has returned and its continuation has seen, by how far it is.
CallProgress(w) ==
  /\ work[w] \in {"idle", "get", "spawn"} =>
       ret[w] = "none" /\ conts[w] = 0
  /\ work[w] = "contFailed" => ret[w] = "none" /\ conts[w] = 0 /\ fw[w] = "null"
  /\ work[w] = "putFailed" => ret[w] = "none" /\ conts[w] = 1 /\ fw[w] = "null"
  /\ work[w] = "request" => ret[w] = "0" /\ conts[w] = 0
  /\ work[w] = "cont" => ret[w] = "0" /\ conts[w] = 0 /\ fw[w] # "none"
  /\ work[w] = "put" => ret[w] = "0" /\ conts[w] = 1 /\ fw[w] # "none"
  /\ work[w] = "over" =>
       \/ ret[w] \in {"ENOMEM", "EFAULT"} /\ conts[w] = 0
       \/ ret[w] \in {"0", "error"} /\ conts[w] = 1 /\ fw[w] # "none"

IInv == TypeOK /\ RefsCounted /\ \A w \in Works : CallProgress(w)

\* The invariant gives the three properties.
LEMMA IInvSuffices == IInv => TypeOK /\ ContInLoadedModule /\ ContOnce
<1>. SUFFICES ASSUME IInv PROVE TypeOK /\ ContInLoadedModule /\ ContOnce
  OBVIOUS
<1>1. ASSUME NEW w \in Works, work[w] \in {"request", "cont"}
      PROVE  module = "live"
  BY <1>1 DEF IInv, RefsCounted, Holding
<1>2. ASSUME NEW w \in Works
      PROVE  /\ conts[w] <= 1
             /\ conts[w] = 1 => fw[w] # "none" /\ ~Refused(w)
             /\ work[w] = "over" => conts[w] = IF Refused(w) THEN 0 ELSE 1
  BY DEF IInv, TypeOK, CallProgress, Refused
<1>. QED
  BY <1>1, <1>2 DEF IInv, ContInLoadedModule, ContOnce

\* The set counted by refs grows by a call that enters it, shrinks by one that
\* leaves it, and stays as it is by a call that moves inside or outside it.
LEMMA HoldingChanges ==
  ASSUME TypeOK, NEW w \in Works, NEW from, NEW to, Goes(w, from, to)
  PROVE  LET counted == {"spawn", "contFailed", "putFailed", "request", "cont", "put"}
         IN  /\ IsFiniteSet(Holding) /\ IsFiniteSet(Holding')
             /\ Cardinality(Holding) \in Nat
             /\ from \in counted <=> w \in Holding
             /\ from \in counted /\ to \in counted => Holding' = Holding
             /\ from \notin counted /\ to \notin counted => Holding' = Holding
             /\ from \notin counted /\ to \in counted =>
                  Cardinality(Holding') = Cardinality(Holding) + 1
             /\ from \in counted /\ to \notin counted =>
                  Cardinality(Holding') = Cardinality(Holding) - 1
<1>. DEFINE counted == {"spawn", "contFailed", "putFailed", "request", "cont", "put"}
<1>1. IsFiniteSet(Holding) /\ IsFiniteSet(Holding')
  BY NowaitAssumption, FS_Subset DEF Holding
<1>2. Cardinality(Holding) \in Nat
  BY <1>1, FS_CardinalityType
<1>3. /\ work[w] = from
      /\ work'[w] = to
      /\ \A v \in Works \ {w} : work'[v] = work[v]
  BY DEF Goes, TypeOK
<1>4. from \in counted <=> w \in Holding
  BY <1>3 DEF Holding
<1>5. (from \in counted <=> to \in counted) => Holding' = Holding
  BY <1>3 DEF Holding
<1>6. from \notin counted /\ to \in counted =>
        Holding' = Holding \cup {w} /\ w \notin Holding
  BY <1>3 DEF Holding
<1>7. from \in counted /\ to \notin counted =>
        Holding' = Holding \ {w} /\ w \in Holding
  BY <1>3 DEF Holding
<1>8. w \notin Holding => Cardinality(Holding \cup {w}) = Cardinality(Holding) + 1
  BY <1>1, FS_AddElement
<1>9. w \in Holding => Cardinality(Holding \ {w}) = Cardinality(Holding) - 1
  BY <1>1, FS_RemoveElement
<1>. HIDE DEF Holding
<1>. QED
  BY <1>1, <1>2, <1>4, <1>5, <1>6, <1>7, <1>8, <1>9

LEMMA InitIInv == Init => IInv
<1>. SUFFICES ASSUME Init PROVE IInv
  OBVIOUS
<1>1. Holding = {}
  BY DEF Init, Holding
<1>2. RefsCounted
  BY <1>1, FS_EmptySet DEF Init, RefsCounted
<1>3. TypeOK /\ \A w \in Works : CallProgress(w)
  BY DEF Init, TypeOK, CallProgress
<1>. QED
  BY <1>2, <1>3 DEF IInv

-----------------------------------------------------------------------------
(***************************************************************************)
(* The steps of one call.  Each changes the entry of its call only, so the *)
(* progress of the others is what it was.                                  *)
(***************************************************************************)
\* One step of the call w.
Step(w) == Call(w) \/ CallStep(w) \/ ThreadStep(w)

\* A step of a call leaves the other calls alone.
LEMMA StepIsLocal ==
  ASSUME TypeOK, NEW w \in Works, Step(w)
  PROVE  \A v \in Works \ {w} :
           /\ work'[v] = work[v] /\ ret'[v] = ret[v]
           /\ fw'[v] = fw[v] /\ conts'[v] = conts[v]
BY DEF TypeOK, Step, Call, CallStep, ThreadStep, AfterRequest, GetModule, Spawn,
       SpawnFails, CallerCont, CallerPut, Request, Cont, PutModule, Goes, Returns

\* A step of a call keeps the types, but for the sign of the count.
LEMMA StepTypes ==
  ASSUME TypeOK, NEW w \in Works, Step(w)
  PROVE  /\ module' = module
         /\ work' \in [Works -> {"idle", "get", "spawn", "contFailed", "putFailed",
                                 "request", "cont", "put", "over"}]
         /\ ret' \in [Works -> {"none", "0", "ENOMEM", "EFAULT", "error"}]
         /\ fw' \in [Works -> {"none", "image", "null"}]
         /\ conts' \in [Works -> Nat]
BY DEF TypeOK, Step, Call, CallStep, ThreadStep, AfterRequest, GetModule, Spawn,
       SpawnFails, CallerCont, CallerPut, Request, Cont, PutModule, Goes, Returns

\* A step of a call moves it on as CallProgress says.
LEMMA StepProgress ==
  ASSUME TypeOK, NEW w \in Works, Step(w), CallProgress(w)
  PROVE  CallProgress(w)'
<1>1. CASE Call(w)
  BY <1>1 DEF TypeOK, CallProgress, Call, Goes, Returns
<1>2. CASE GetModule(w)
  BY <1>2 DEF TypeOK, CallProgress, GetModule, Goes, Returns
<1>3. CASE Spawn(w)
  BY <1>3 DEF TypeOK, CallProgress, Spawn, Goes, Returns
<1>4. CASE SpawnFails(w)
  BY <1>4 DEF TypeOK, CallProgress, SpawnFails, Goes
<1>5. CASE CallerCont(w)
  BY <1>5 DEF TypeOK, CallProgress, CallerCont, Goes
<1>6. CASE CallerPut(w)
  BY <1>6 DEF TypeOK, CallProgress, CallerPut, Goes, Returns
<1>7. CASE Request(w)
  BY <1>7 DEF TypeOK, CallProgress, Request, Goes
<1>8. CASE Cont(w)
  BY <1>8 DEF TypeOK, CallProgress, Cont, Goes
<1>9. CASE PutModule(w)
  BY <1>9 DEF TypeOK, CallProgress, PutModule, Goes
<1>. QED
  BY <1>1, <1>2, <1>3, <1>4, <1>5, <1>6, <1>7, <1>8, <1>9
     DEF Step, CallStep, ThreadStep, AfterRequest

\* A step of a call keeps the count: only try_module_get() of a live module
\* and module_put() move a call in or out of what is counted.
LEMMA StepCounts ==
  ASSUME TypeOK, RefsCounted, NEW w \in Works, Step(w)
  PROVE  RefsCounted' /\ refs' \in Nat
<1>. DEFINE counted == {"spawn", "contFailed", "putFailed", "request", "cont", "put"}
<1>1. PICK from, to : Goes(w, from, to) /\
        \/ from \notin counted /\ to \notin counted /\ refs' = refs
        \/ from \in counted /\ to \in counted /\ refs' = refs
        \/ from \notin counted /\ to \in counted /\ refs' = refs + 1 /\ module = "live"
        \/ from \in counted /\ to \notin counted /\ refs' = refs - 1
  <2>1. CASE Call(w)
    BY <2>1 DEF Call
  <2>2. CASE GetModule(w)
    BY <2>2 DEF GetModule
  <2>3. CASE Spawn(w) \/ SpawnFails(w)
    BY <2>3 DEF Spawn, SpawnFails
  <2>4. CASE CallerCont(w) \/ Request(w) \/ Cont(w)
    BY <2>4 DEF CallerCont, Request, Cont
  <2>5. CASE CallerPut(w) \/ PutModule(w)
    BY <2>5 DEF CallerPut, PutModule
  <2>. QED
    BY <2>1, <2>2, <2>3, <2>4, <2>5 DEF Step, CallStep, ThreadStep, AfterRequest
<1>2. /\ IsFiniteSet(Holding) /\ IsFiniteSet(Holding')
      /\ Cardinality(Holding) \in Nat
      /\ from \in counted <=> w \in Holding
      /\ from \in counted /\ to \in counted => Holding' = Holding
      /\ from \notin counted /\ to \notin counted => Holding' = Holding
      /\ from \notin counted /\ to \in counted =>
           Cardinality(Holding') = Cardinality(Holding) + 1
      /\ from \in counted /\ to \notin counted =>
           Cardinality(Holding') = Cardinality(Holding) - 1
  BY <1>1, HoldingChanges
<1>3. Cardinality(Holding') \in Nat
  BY <1>2, FS_CardinalityType
<1>4. module' = module
  BY StepTypes
<1>. HIDE DEF Holding
<1>. QED
  BY <1>1, <1>2, <1>3, <1>4 DEF RefsCounted

LEMMA NextIInv == IInv /\ [Next]_vars => IInv'
<1>. SUFFICES ASSUME IInv, [Next]_vars PROVE IInv'
  OBVIOUS
<1>. USE DEF IInv
<1>1. ASSUME NEW w \in Works, Step(w) PROVE IInv'
  <2>1. RefsCounted' /\ refs' \in Nat
    BY <1>1, StepCounts
  <2>2. TypeOK'
    BY <1>1, <2>1, StepTypes DEF TypeOK
  <2>3. CallProgress(w)'
    BY <1>1, StepProgress
  <2>4. ASSUME NEW v \in Works \ {w} PROVE CallProgress(v)'
    BY <1>1, StepIsLocal DEF CallProgress
  <2>. QED
    BY <2>1, <2>2, <2>3, <2>4
<1>2. CASE Unload
  <2>1. Holding' = Holding
    BY <1>2 DEF Unload, Holding
  <2>2. Holding = {}
    <3>1. IsFiniteSet(Holding)
      BY NowaitAssumption, FS_Subset DEF Holding
    <3>. QED
      BY <1>2, <3>1, FS_EmptySet DEF Unload, RefsCounted
  <2>. QED
    BY ZenonT(40), <1>2, <2>1, <2>2 DEF Unload, RefsCounted, TypeOK, CallProgress
<1>3. CASE FreeModule \/ UNCHANGED vars
  <2>1. Holding' = Holding
    BY <1>3 DEF FreeModule, vars, Holding
  <2>. QED
    BY <1>3, <2>1 DEF FreeModule, vars, RefsCounted, TypeOK, CallProgress
<1>. QED
  BY <1>1, <1>2, <1>3 DEF Next, Step

-----------------------------------------------------------------------------
LEMMA Invariance == Spec => []IInv
<1>1. Spec => Init /\ [][Next]_vars
  BY PTL DEF Spec
<1>. QED
  BY InitIInv, NextIInv, <1>1, PTL

\* Whatever the calls, threads and the unload do, the reference count of the
\* driver stays a number and every call is where the code can be.
THEOREM TypeCorrect == Spec => []TypeOK
BY Invariance, IInvSuffices, PTL

\* A thread that still has to call the continuation finds the driver's module
\* loaded, for any number of calls and whenever rmmod is tried.
THEOREM TextStaysLoaded == Spec => []ContInLoadedModule
BY Invariance, IInvSuffices, PTL

\* When a call and its thread are over, its continuation was called exactly
\* once and with a verdict, or the call was refused and it was not called.
THEOREM CalledOnce == Spec => []ContOnce
BY Invariance, IInvSuffices, PTL
=============================================================================
