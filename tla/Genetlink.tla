------------------------------ MODULE Genetlink ------------------------------
(***************************************************************************)
(* Generic netlink families on kernels before 2.6.37 (compat-2.6.37.c):    *)
(* a family is known to the kernel step by step, then linked into a list,  *)
(* which the wrapper of all commands searches.  The kernel's steps and the *)
(* handling of a request exclude each other; the list has no lock, so that *)
(* every read and every store of a link is a step of its own.              *)
(***************************************************************************)
EXTENDS Naturals

CONSTANTS Families, Cmds,
          ListHead,    \* the head of the list, compat_nl_fam
          None     \* no address: NULL in a family never linked, a poison in one unlinked

VARIABLES
    at,           \* of each family: where its registration or unregistration is
    kernel,       \* of each family: the commands the kernel knows
    next, prev,   \* the links of the families and of the head
    saved,        \* of each family: the neighbours its list_add or list_del has read
    request,      \* the one being handled: where the walk over the list is, who
                  \* answered it and the operation called, and where the
                  \* registration of its family was when it came
    oops,         \* history: a link to no address was followed
    failed,       \* history: families whose operations were refused
    raced         \* history: two changes of the list overlapped, or the links
                  \* of a family were cleared while a request looked at it

genlvars == <<at, kernel, next, prev, saved, request, oops, failed, raced>>

Asks(f, cmd, during, pos) ==
    [family |-> f, cmd |-> cmd, during |-> during, pos |-> pos,
     answered |-> FALSE, by |-> None, called |-> None]
NoRequest == Asks(None, None, "none", None)
Unlinked == [next |-> None, prev |-> None]

GenlInit ==
    /\ at = [f \in Families |-> "none"] /\ kernel = [f \in Families |-> {}]
    /\ next = [x \in Families \cup {ListHead} |-> IF x = ListHead THEN ListHead ELSE None] /\ prev = next
    /\ saved = [f \in Families |-> Unlinked]
    /\ request = NoRequest
    /\ oops = FALSE /\ failed = {} /\ raced = FALSE

Goto(f, from, to) == at[f] = from /\ at' = [at EXCEPT ![f] = to]

-----------------------------------------------------------------------------
\* compat_genl_register_family_with_ops: the family (the kernel may refuse)
\* and its operations, under the lock that a request holds.
RegisterFamily(f) ==
    /\ Goto(f, "none", "ops") /\ request = NoRequest
    /\ UNCHANGED <<kernel, next, prev, saved, request, oops, failed, raced>>

RegisterOps(f, cmd) ==
    /\ at[f] = "ops" /\ cmd \notin kernel[f] /\ request = NoRequest
    /\ kernel' = [kernel EXCEPT ![f] = @ \cup {cmd}]
    /\ at' = [at EXCEPT ![f] = IF kernel'[f] = Cmds THEN "listing" ELSE "ops"]
    /\ UNCHANGED <<next, prev, saved, request, oops, failed, raced>>

\* error_ops: the family goes from the kernel, and from a list it is not on.
RegisterOpsFails(f) ==
    /\ Goto(f, "ops", "leaving") /\ request = NoRequest
    /\ kernel' = [kernel EXCEPT ![f] = {}] /\ failed' = failed \cup {f}
    /\ UNCHANGED <<next, prev, saved, request, oops, raced>>

\* compat_genl_unregister_family: first the kernel, then the list.
genl_unregister_family(f) ==
    /\ Goto(f, "live", "leaving") /\ request = NoRequest
    /\ kernel' = [kernel EXCEPT ![f] = {}]
    /\ UNCHANGED <<next, prev, saved, request, oops, failed, raced>>

-----------------------------------------------------------------------------
Adding == {"add1", "add2", "add3", "add4"}
Removing == {"del1", "del2", "del3", "del4"}

Races(f) == raced' = \/ raced
                     \/ \E g \in Families \ {f} : at[g] \in Adding \cup Removing
                     \/ at[f] = "del3" /\ request.pos = f

Reads(f, neighbours) == saved' = [saved EXCEPT ![f] = neighbours] /\ UNCHANGED <<next, prev, oops>>
Forgets(f) == saved' = [saved EXCEPT ![f] = Unlinked]
SetNext(x, y) ==
    /\ IF x = None THEN UNCHANGED next ELSE next' = [next EXCEPT ![x] = y]
    /\ oops' = (x = None) /\ UNCHANGED prev
SetPrev(x, y) ==
    /\ IF x = None THEN UNCHANGED prev ELSE prev' = [prev EXCEPT ![x] = y]
    /\ oops' = (x = None) /\ UNCHANGED next

\* list_add of the kernel: the family becomes the first.
ListAdd(f) ==
    /\ \/ Goto(f, "listing", "add1") /\ Reads(f, [next |-> next[ListHead], prev |-> ListHead])
       \/ Goto(f, "add1", "add2") /\ SetPrev(saved[f].next, f) /\ UNCHANGED saved
       \/ Goto(f, "add2", "add3") /\ SetNext(f, saved[f].next) /\ UNCHANGED saved
       \/ Goto(f, "add3", "add4") /\ SetPrev(f, saved[f].prev) /\ UNCHANGED saved
       \/ Goto(f, "add4", "live") /\ SetNext(saved[f].prev, f) /\ Forgets(f)
    /\ Races(f)
    /\ UNCHANGED <<kernel, request, failed>>

\* list_del of the kernel: its neighbours are joined, its own links poisoned.
ListDel(f) ==
    /\ \/ Goto(f, "leaving", "del1") /\ Reads(f, [next |-> next[f], prev |-> prev[f]])
       \/ Goto(f, "del1", "del2") /\ SetPrev(saved[f].next, saved[f].prev) /\ UNCHANGED saved
       \/ Goto(f, "del2", "del3") /\ SetNext(saved[f].prev, saved[f].next) /\ UNCHANGED saved
       \/ Goto(f, "del3", "del4") /\ SetNext(f, None) /\ UNCHANGED saved
       \/ Goto(f, "del4", "none") /\ SetPrev(f, None) /\ Forgets(f)
    /\ Races(f)
    /\ UNCHANGED <<kernel, request, failed>>

-----------------------------------------------------------------------------
\* Mutant of Matches: any family will do that knows the command.
Matches_Any(g, f) == TRUE

\* The id of the family is the type of the message.
Matches(g, f) == g = f

genl_get_cmd(cmd, g) == IF cmd \in kernel[g] THEN cmd ELSE None

\* nl_doit_wrapper, for a request the kernel let through.
nl_doit_wrapper(f, cmd) ==
    /\ request = NoRequest /\ cmd \in kernel[f]
    /\ request' = Asks(f, cmd, at[f], next[ListHead])
    /\ UNCHANGED <<at, kernel, next, prev, saved, oops, failed, raced>>

Answer(g, op) ==
    /\ request' = [family |-> request.family, cmd |-> request.cmd, during |-> request.during,
                   pos |-> request.pos, answered |-> TRUE, by |-> g, called |-> op]
    /\ UNCHANGED oops

\* The walk over the list, up to the family; its pre_doit may refuse, and only
\* otherwise the operation is called, and post_doit.
Walks ==
    /\ request # NoRequest /\ ~request.answered
    /\ LET g == request.pos
           ops == genl_get_cmd(request.cmd, g)
       IN \/ g = None /\ oops' = TRUE /\ UNCHANGED request
          \/ g = ListHead /\ Answer(None, None)
          \/ /\ g \in Families /\ ~Matches(g, request.family)
             /\ request' = Asks(request.family, request.cmd, request.during, next[g])
             /\ UNCHANGED oops
          \/ /\ g \in Families /\ Matches(g, request.family)
             /\ IF ops = None THEN Answer(None, None)
                ELSE Answer(g, None) \/ Answer(g, ops)
    /\ UNCHANGED <<at, kernel, next, prev, saved, failed, raced>>

\* The kernel leaves its lock.
Returns ==
    /\ request.answered /\ request' = NoRequest
    /\ UNCHANGED <<at, kernel, next, prev, saved, oops, failed, raced>>

GenlNext ==
    /\ ~oops
    /\ \/ \E f \in Families :
            \/ RegisterFamily(f) \/ RegisterOpsFails(f) \/ ListAdd(f)
            \/ genl_unregister_family(f) \/ ListDel(f)
            \/ \E cmd \in Cmds : RegisterOps(f, cmd) \/ nl_doit_wrapper(f, cmd)
       \/ Walks \/ Returns

-----------------------------------------------------------------------------
\* However the list is torn, a request is answered by the family and the
\* operation it names, or not at all.
OwnFamilyAnswers ==
    request.answered =>
      /\ request.by \in {request.family, None}
      /\ request.called \in {request.cmd, None}
      /\ request.by = None => request.called = None

\* While changes of the list do not overlap each other, nor the clearing of a
\* family's links a request that looks at it, the only link to no address that
\* is followed is that of a family whose registration failed
\* (compat-2.6.37.c:142); a request that the kernel let through is answered
\* -ENOENT only if it came during the registration; and between changes the
\* links of the listed families lead to and fro.
ListHolds ==
    ~raced =>
      /\ oops => failed # {}
      /\ request.answered /\ request.by = None => request.during \in {"ops", "listing"} \cup Adding
      /\ ~oops /\ (\A f \in Families : at[f] \notin Adding \cup Removing) =>
           \A f \in Families : at[f] \in {"live", "leaving"} /\ f \notin failed =>
                next[f] # None /\ prev[f] # None /\ prev[next[f]] = f /\ next[prev[f]] = f

FamiliesAnswer == OwnFamilyAnswers /\ ListHolds
=============================================================================
