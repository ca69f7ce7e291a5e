--------------------------- MODULE FirmwareNowait ---------------------------
(***************************************************************************)
(* request_firmware_nowait(): a driver module hands a continuation to a    *)
(* kernel thread that makes the request, and may ask to be unloaded        *)
(* meanwhile.  The request itself behaves as FirmwareService says: when it *)
(* ends, it is with an image or with NULL.                                 *)
(***************************************************************************)
EXTENDS Naturals, FiniteSets

CONSTANTS Works,      \* calls of request_firmware_nowait()
          AllocFails  \* whether kzalloc and kthread_run may fail

ASSUME NowaitAssumption == IsFiniteSet(Works) /\ AllocFails \in BOOLEAN

VARIABLES
  module,   \* the driver module: "live", "going" or "gone"
  refs,     \* its reference count
  work,     \* [Works -> where the call, then its thread, is]
  ret,      \* [Works -> what the call returned]
  fw,       \* [Works -> the firmware cont is given: "none", "image", "null"]
  conts     \* [Works -> how often cont has been called]

vars == <<module, refs, work, ret, fw, conts>>

Init ==
  /\ module = "live" /\ refs = 0
  /\ work = [w \in Works |-> "idle"] /\ ret = [w \in Works |-> "none"]
  /\ fw = [w \in Works |-> "none"] /\ conts = [w \in Works |-> 0]

Goes(w, from, to) == work[w] = from /\ work' = [work EXCEPT ![w] = to]
Returns(w, value) == ret' = [ret EXCEPT ![w] = value]

\* kzalloc(fw_work).  A driver calls while it is alive, or from its exit
\* routine.
Call(w) ==
  /\ module # "gone"
  /\ \/ Goes(w, "idle", "get") /\ UNCHANGED ret
     \/ AllocFails /\ Goes(w, "idle", "over") /\ Returns(w, "ENOMEM")
  /\ UNCHANGED <<module, refs, fw, conts>>

\* Mutant of GetModule: no reference is taken.
GetModule_NoRef(w) ==
  /\ \/ /\ module = "live" /\ Goes(w, "get", "spawn")
        /\ UNCHANGED <<refs, ret>>
     \/ /\ module # "live" /\ Goes(w, "get", "over")
        /\ Returns(w, "EFAULT") /\ UNCHANGED refs
  /\ UNCHANGED <<module, fw, conts>>

\* try_module_get() fails once the module is going away.
GetModule(w) ==
  /\ \/ /\ module = "live" /\ Goes(w, "get", "spawn")
        /\ refs' = refs + 1 /\ UNCHANGED ret
     \/ /\ module # "live" /\ Goes(w, "get", "over")
        /\ Returns(w, "EFAULT") /\ UNCHANGED refs
  /\ UNCHANGED <<module, fw, conts>>

Spawn(w) ==
  /\ Goes(w, "spawn", "request")
  /\ Returns(w, "0")
  /\ UNCHANGED <<module, refs, fw, conts>>

\* kthread_run() fails: the caller runs cont(NULL) itself, drops the
\* reference, and only then returns the error.
SpawnFails(w) ==
  /\ AllocFails /\ Goes(w, "spawn", "contFailed")
  /\ fw' = [fw EXCEPT ![w] = "null"]
  /\ UNCHANGED <<module, refs, ret, conts>>

\* Mutant of CallerCont: the error is reported by the return value alone.
CallerCont_Skips(w) ==
  /\ Goes(w, "contFailed", "putFailed")
  /\ UNCHANGED <<module, refs, ret, fw, conts>>

CallerCont(w) ==
  /\ Goes(w, "contFailed", "putFailed")
  /\ conts' = [conts EXCEPT ![w] = @ + 1]
  /\ UNCHANGED <<module, refs, ret, fw>>

CallerPut(w) ==
  /\ Goes(w, "putFailed", "over")
  /\ refs' = refs - 1
  /\ Returns(w, "error")
  /\ UNCHANGED <<module, fw, conts>>

\* Mutant of Request: a request that fails is not reported.
Request_DropsFailure(w) ==
  /\ \E f \in {"image", "null"} :
       /\ fw' = [fw EXCEPT ![w] = f]
       /\ Goes(w, "request", IF f = "null" THEN "put" ELSE "cont")
  /\ UNCHANGED <<module, refs, ret, conts>>

\* request_firmware_work_func(): _request_firmware() ends, if it does,
Request(w) ==
  /\ Goes(w, "request", "cont")
  /\ \E f \in {"image", "null"} : fw' = [fw EXCEPT ![w] = f]
  /\ UNCHANGED <<module, refs, ret, conts>>

\* cont(fw, context),
Cont(w) ==
  /\ Goes(w, "cont", "put")
  /\ conts' = [conts EXCEPT ![w] = @ + 1]
  /\ UNCHANGED <<module, refs, ret, fw>>

\* module_put() and kfree(fw_work).
PutModule(w) ==
  /\ Goes(w, "put", "over")
  /\ refs' = refs - 1
  /\ UNCHANGED <<module, ret, fw, conts>>

\* The caller, while it has not returned, runs in the driver's own code.
InCall(w) == work[w] \in {"get", "spawn", "contFailed", "putFailed"}

\* rmmod: a module with references stays; its exit routine runs while it is
\* going, and its text goes once no call from it is under way.
Unload ==
  /\ module = "live" /\ refs = 0
  /\ module' = "going"
  /\ UNCHANGED <<refs, work, ret, fw, conts>>

FreeModule ==
  /\ module = "going" /\ \A w \in Works : ~InCall(w)
  /\ module' = "gone"
  /\ UNCHANGED <<refs, work, ret, fw, conts>>

CallStep(w) ==
  GetModule(w) \/ Spawn(w) \/ SpawnFails(w) \/ CallerCont(w) \/ CallerPut(w)

AfterRequest(w) == Cont(w) \/ PutModule(w)
ThreadStep(w) == Request(w) \/ AfterRequest(w)

Next ==
  \/ \E w \in Works : Call(w) \/ CallStep(w) \/ ThreadStep(w)
  \/ Unload \/ FreeModule

\* Calls run to their end, and threads once their request is over.  A request
\* may wait for ever: without a timeout it does until an agent answers.
Spec == Init /\ [][Next]_vars
        /\ \A w \in Works : WF_vars(CallStep(w)) /\ WF_vars(AfterRequest(w))

(***************************************************************************)
(* Properties                                                              *)
(***************************************************************************)
TypeOK ==
  /\ module \in {"live", "going", "gone"} /\ refs \in Nat
  /\ work \in [Works -> {"idle", "get", "spawn", "contFailed", "putFailed",
                         "request", "cont", "put", "over"}]
  /\ ret \in [Works -> {"none", "0", "ENOMEM", "EFAULT", "error"}]
  /\ fw \in [Works -> {"none", "image", "null"}]
  /\ conts \in [Works -> Nat]

\* The driver's text is there for as long as a thread may still call the
\* continuation in it: the reference taken by try_module_get() is held from
\* before the thread starts until after cont returns.
ContInLoadedModule ==
  \A w \in Works : work[w] \in {"request", "cont"} => module = "live"

Refused(w) == ret[w] \in {"ENOMEM", "EFAULT"}

\* A continuation is called with a verdict and never twice.  When the call and
\* its thread are over it was called exactly once, also when the thread could
\* not be started (compat_firmware_class.c:735), unless the call was refused
\* with ENOMEM or EFAULT: then not at all.
ContOnce ==
  \A w \in Works :
    /\ conts[w] <= 1
    /\ conts[w] = 1 => fw[w] # "none" /\ ~Refused(w)
    /\ work[w] = "over" => conts[w] = IF Refused(w) THEN 0 ELSE 1

\* A call that got the reference of the module has its continuation called,
\* whether the thread starts or not, unless its request waits for ever.
ContCalled ==
  \A w \in Works : []<>(work[w] # "request") =>
                      ((work[w] = "spawn") ~> (conts[w] = 1))
=============================================================================
