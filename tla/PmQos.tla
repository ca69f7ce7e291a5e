------------------------------- MODULE PmQos --------------------------------
(***************************************************************************)
(* The PM QoS parameters of src/compat/pm_qos_params.c: per class a list   *)
(* of named requirements, a target that is their extreme, and watchers     *)
(* told of its changes.  Each section under pm_qos_lock is one step; the   *)
(* lock is dropped between changing a list and recomputing the target, and *)
(* again before the watchers are called.                                   *)
(*                                                                         *)
(* A failed allocation or a misused write changes nothing and is left out. *)
(***************************************************************************)
EXTENDS Integers, Sequences, FiniteSets

CONSTANTS
  Threads,         \* processes; a process opens, writes and closes files
  Clients,         \* names under which kernel code registers requirements
  Files,           \* open files of the /dev nodes
  Watchers,        \* notifier blocks
  Classes,         \* the QoS classes
  Minimized,       \* those whose comparitor is min_compare
  Default,         \* [Classes -> Int]: default_value
  Values,          \* values asked for
  AnyHandles,      \* whether a process may use a file another one opened, or
                   \* hold two files of a class
  MaxRequirements, \* bound: requirements of a class
  None

PM_QOS_DEFAULT_VALUE == -1

ASSUME PmQosAssumption ==
  /\ Minimized \subseteq Classes
  /\ Default \in [Classes -> Int]
  /\ Values \subseteq Int
  /\ Threads \cap Clients = {} /\ Clients \cap Files = {}
  /\ None \notin [class : Classes, opener : Threads] /\ None \notin [class : Classes, value : Int]
  /\ AnyHandles \in BOOLEAN
  /\ MaxRequirements \in Nat

VARIABLES
  requirements, \* [Classes -> Seq of [name, value]], the newest first
  target,       \* [Classes -> Int]: target_value
  op,           \* [Threads -> [pc, class, value]]: the call under way
  file,         \* [Files -> [class, opener] or None]
  watching,     \* [Classes -> sets of watchers]
  seen,         \* [Classes -> [Watchers -> the last value told]]
  held          \* history: what each client and open file last asked for

vars == <<requirements, target, op, file, watching, seen, held>>

Requirement == [name : Threads \cup Clients, value : Int]
Idle        == [pc |-> "idle", class |-> None, value |-> None]
Holders     == Clients \cup Files

\* The comparitor of class c, and its fold over the values of a list.
Comparitor(c, v1, v2) ==
  IF c \in Minimized THEN IF v1 < v2 THEN v1 ELSE v2
                     ELSE IF v1 > v2 THEN v1 ELSE v2

Extremes(c, list) ==
  LET upTo[i \in 0..Len(list)] ==
        IF i = 0 THEN Default[c] ELSE Comparitor(c, upTo[i - 1], list[i].value)
  IN  upTo

ExtremeValue(c, list) == Extremes(c, list)[Len(list)]

Resolved(c, v) == IF v = PM_QOS_DEFAULT_VALUE THEN Default[c] ELSE v

\* Mutant of FirstNamed: the head of the list, whatever its name.
FirstNamed_Head(list, n) == {i \in 1..Len(list) : i = 1}

\* The index where list_for_each_entry() first meets the name n, if it does.
FirstNamed(list, n) ==
  {i \in 1..Len(list) : list[i].name = n /\ \A j \in 1..i - 1 : list[j].name # n}

\* The list with v as the value of its i-th element.
WithValue(list, i, v) == [list EXCEPT ![i] = [name |-> list[i].name, value |-> v]]

\* The list without its i-th element.
Without(list, i) ==
  [j \in 1..Len(list) - 1 |-> IF j < i THEN list[j] ELSE list[j + 1]]

Init ==
  /\ requirements = [c \in Classes |-> <<>>]
  /\ target = Default
  /\ op = [t \in Threads |-> Idle]
  /\ file = [f \in Files |-> None]
  /\ watching = [c \in Classes |-> {}]
  /\ seen = [c \in Classes |-> [w \in Watchers |-> None]]
  /\ held = [h \in Holders |-> None]

(***************************************************************************)
(* The list half of the three calls.  Each leaves update_target() pending. *)
(***************************************************************************)
\* Mutant of Pending: update_target(0), the reserved class.
Pending_Reserved(t, c) ==
  op' = [op EXCEPT ![t] = [pc |-> "update", class |-> None, value |-> None]]

Pending(t, c) == op' = [op EXCEPT ![t] = [pc |-> "update", class |-> c, value |-> None]]

AddRequirement(t, c, n, v) ==
  /\ op[t] = Idle
  /\ Len(requirements[c]) < MaxRequirements
  /\ requirements' = [requirements EXCEPT
       ![c] = <<[name |-> n, value |-> Resolved(c, v)]>> \o @]
  /\ Pending(t, c)
  /\ UNCHANGED <<target, watching, seen>>

\* A name that is not in the list is not an error, and changes nothing.
Unnamed(c, n) == FirstNamed(requirements[c], n) = {} /\ UNCHANGED <<requirements, op>>

UpdateRequirement(t, c, n, v) ==
  /\ op[t] = Idle
  /\ \/ \E i \in FirstNamed(requirements[c], n) :
          /\ requirements' = [requirements EXCEPT ![c] = WithValue(@, i, Resolved(c, v))]
          /\ Pending(t, c)
     \/ Unnamed(c, n)
  /\ UNCHANGED <<target, watching, seen>>

\* Mutant of RemoveRequirement: pending_update is not set.
RemoveRequirement_NoUpdate(t, c, n) ==
  /\ op[t] = Idle
  /\ \/ \E i \in FirstNamed(requirements[c], n) :
          /\ requirements' = [requirements EXCEPT ![c] = Without(@, i)]
          /\ UNCHANGED op
     \/ Unnamed(c, n)
  /\ UNCHANGED <<target, watching, seen>>

RemoveRequirement(t, c, n) ==
  /\ op[t] = Idle
  /\ \/ \E i \in FirstNamed(requirements[c], n) :
          /\ requirements' = [requirements EXCEPT ![c] = Without(@, i)]
          /\ Pending(t, c)
     \/ Unnamed(c, n)
  /\ UNCHANGED <<target, watching, seen>>

(***************************************************************************)
(* update_target(): the target under the lock, the watchers after it.      *)
(***************************************************************************)
\* Mutant of UpdateTarget: the target is not relaxed to the default again.
UpdateTarget_NeverRelaxes(t) ==
  LET c     == op[t].class
      value == ExtremeValue(c, requirements[c])
  IN  /\ op[t].pc = "update"
      /\ target' = [target EXCEPT ![c] = IF value = Default[c] THEN @ ELSE value]
      /\ op' = [op EXCEPT ![t] = Idle]
      /\ UNCHANGED <<requirements, file, watching, seen, held>>

UpdateTarget(t) ==
  LET c     == op[t].class
      value == ExtremeValue(c, requirements[c])
  IN  /\ op[t].pc = "update"
      /\ target' = [target EXCEPT ![c] = value]
      /\ op' = [op EXCEPT ![t] =
           IF value = target[c] THEN Idle
           ELSE [pc |-> "notify", class |-> c, value |-> value]]
      /\ UNCHANGED <<requirements, file, watching, seen, held>>

CallNotifiers(t) ==
  LET c == op[t].class
  IN  /\ op[t].pc = "notify"
      /\ seen' = [seen EXCEPT ![c] =
           [w \in Watchers |-> IF w \in watching[c] THEN op[t].value ELSE @[w]]]
      /\ op' = [op EXCEPT ![t] = Idle]
      /\ UNCHANGED <<requirements, target, file, watching, held>>

(***************************************************************************)
(* Kernel clients register a name once per class they use, and watchers    *)
(* read the target when they register.                                     *)
(***************************************************************************)
Holds(h, c, v) == held' = [held EXCEPT ![h] = [class |-> c, value |-> Resolved(c, v)]]

Add(t, c, n, v) ==
  /\ held[n] = None
  /\ AddRequirement(t, c, n, v) /\ Holds(n, c, v)
  /\ UNCHANGED file

Update(t, n, v) ==
  /\ held[n] # None
  /\ UpdateRequirement(t, held[n].class, n, v) /\ Holds(n, held[n].class, v)
  /\ UNCHANGED file

Remove(t, n) ==
  /\ held[n] # None
  /\ RemoveRequirement(t, held[n].class, n)
  /\ held' = [held EXCEPT ![n] = None]
  /\ UNCHANGED file

AddNotifier(c, w) ==
  /\ w \notin watching[c]
  /\ watching' = [watching EXCEPT ![c] = @ \cup {w}]
  /\ seen' = [seen EXCEPT ![c][w] = target[c]]
  /\ UNCHANGED <<requirements, target, op, file, held>>

RemoveNotifier(c, w) ==
  /\ w \in watching[c]
  /\ watching' = [watching EXCEPT ![c] = @ \ {w}]
  /\ seen' = [seen EXCEPT ![c][w] = None]
  /\ UNCHANGED <<requirements, target, op, file, held>>

(***************************************************************************)
(* The files.  Every operation names the requirement after the process     *)
(* that makes it, not after the one that opened the file.                  *)
(***************************************************************************)
Uses(t, f) == file[f] # None /\ (AnyHandles \/ file[f].opener = t)

PowerOpen(t, f, c) ==
  /\ file[f] = None
  /\ AnyHandles \/ \A g \in Files : file[g] # [class |-> c, opener |-> t]
  /\ file' = [file EXCEPT ![f] = [class |-> c, opener |-> t]]
  /\ AddRequirement(t, c, t, PM_QOS_DEFAULT_VALUE)
  /\ Holds(f, c, PM_QOS_DEFAULT_VALUE)

PowerWrite(t, f, v) ==
  /\ Uses(t, f)
  /\ UpdateRequirement(t, file[f].class, t, v)
  /\ Holds(f, file[f].class, v)
  /\ UNCHANGED file

PowerRelease(t, f) ==
  /\ Uses(t, f)
  /\ RemoveRequirement(t, file[f].class, t)
  /\ file' = [file EXCEPT ![f] = None]
  /\ held' = [held EXCEPT ![f] = None]

KernelCall(t) ==
  \E n \in Clients :
    \/ \E c \in Classes, v \in Values : Add(t, c, n, v)
    \/ \E v \in Values : Update(t, n, v)
    \/ Remove(t, n)

FileCall(t) ==
  \E f \in Files :
    \/ \E c \in Classes : PowerOpen(t, f, c)
    \/ \E v \in Values : PowerWrite(t, f, v)
    \/ PowerRelease(t, f)

NotifierCall == \E c \in Classes, w \in Watchers : AddNotifier(c, w) \/ RemoveNotifier(c, w)

Finish(t) == UpdateTarget(t) \/ CallNotifiers(t)

Next ==
  \/ \E t \in Threads : KernelCall(t) \/ FileCall(t) \/ Finish(t)
  \/ NotifierCall

Spec == Init /\ [][Next]_vars

\* A call under way goes on to its end.
FairSpec == Spec /\ \A t \in Threads : WF_vars(Finish(t))

(***************************************************************************)
(* Properties                                                              *)
(***************************************************************************)
Calls == {Idle} \cup [pc : {"update"}, class : Classes, value : {None}]
                \cup [pc : {"notify"}, class : Classes, value : Int]

Handles == [class : Classes, opener : Threads]
Holdings == [class : Classes, value : Int]

TypeOK ==
  /\ requirements \in [Classes -> Seq(Requirement)]
  /\ target \in [Classes -> Int]
  /\ op \in [Threads -> Calls]
  /\ file \in [Files -> Handles \cup {None}]
  /\ watching \in [Classes -> SUBSET Watchers]
  /\ seen \in [Classes -> [Watchers -> Int \cup {None}]]
  /\ held \in [Holders -> Holdings \cup {None}]

Updating(c)  == \E t \in Threads : op[t].pc = "update" /\ op[t].class = c
Notifying(c) == \E t \in Threads : op[t].pc = "notify" /\ op[t].class = c

\* v is the extreme of the default and of the values in S.
IsExtreme(c, v, S) ==
  /\ v \in S \cup {Default[c]}
  /\ \A x \in S \cup {Default[c]} : IF c \in Minimized THEN v <= x ELSE v >= x

ValuesOf(list) == {list[i].value : i \in 1..Len(list)}

\* The target of a class is the extreme of its requirements, or some thread
\* has yet to recompute it: a change of the list is never forgotten, however
\* the calls interleave between list and target.
TargetCurrent ==
  \A c \in Classes :
    Updating(c) \/ IsExtreme(c, target[c], ValuesOf(requirements[c]))

\* "As long as the process holds a file handle open to the node the client
\* continues to be accounted for.  Upon file release the usermode requirement
\* is removed": with no call under way, the target of a class is the extreme
\* of what its clients and open files last asked for.
HandlesAccounted ==
  \A c \in Classes : ~Updating(c) =>
    IsExtreme(c, target[c],
              {held[h].value : h \in {g \in Holders : held[g] # None /\ held[g].class = c}})

\* "Watchers register to keep track of the current QoS needs of the system":
\* with no call under way, every watcher was last told the current target.
WatchersCurrent ==
  \A c \in Classes : ~Updating(c) /\ ~Notifying(c) =>
    \A w \in watching[c] : seen[c][w] = target[c]

\* A list that changed is followed by a target that is its extreme, even if
\* other calls keep changing it.
TargetSettles ==
  \A c \in Classes : Updating(c) ~> (target[c] = ExtremeValue(c, requirements[c]))
=============================================================================
