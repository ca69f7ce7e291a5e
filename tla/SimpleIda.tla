------------------------------ MODULE SimpleIda ------------------------------
(***************************************************************************)
(* ida_simple_get and ida_simple_remove of compat-3.1.c, called            *)
(* concurrently.  The allocator of the kernel keeps ids in leaves; a leaf  *)
(* that comes into use needs the one block of memory set aside for it.     *)
(***************************************************************************)
EXTENDS Integers, FiniteSets

CONSTANTS Clients, Top, Leaf,   \* ids 0 .. Top of the allocator, Leaf in a leaf
          None

\* The ranges asked for: [start, end), or all ids from start on for end = 0.
Ranges == {[start |-> 0, end |-> 2], [start |-> 1, end |-> 2],
           [start |-> 1, end |-> 1], [start |-> 0, end |-> 0]}

VARIABLES
    ida, set_aside,      \* the ids in use; the block of memory is there
    client               \* where each client is, what it asks for, and its ids

idavars == <<ida, set_aside, client>>

Idle == [at |-> "idle", range |-> None, ids |-> {}, ret |-> "none", full |-> FALSE]

IdaInit == /\ ida = {} /\ set_aside = FALSE
           /\ client = [c \in Clients |-> Idle]

Goes(c, r) == client' = [client EXCEPT ![c] = r]
LeafOf(id) == id \div Leaf
NewLeaf(id) == \A i \in ida : LeafOf(i) # LeafOf(id)

\* max is an unsigned number; 2^31 is above every id.
MaxOf(range) == IF range.end = 0 THEN Top + 1 ELSE range.end - 1

Call(c) ==
    /\ client[c].at = "idle"
    /\ \E r \in Ranges : Goes(c, [client[c] EXCEPT !.at = "again", !.range = r])
    /\ UNCHANGED <<ida, set_aside>>

\* The label again: the memory is set aside before the lock is taken.
ida_pre_get(c) ==
    /\ client[c].at = "again"
    /\ \/ set_aside' = TRUE /\ Goes(c, [client[c] EXCEPT !.at = "locked"])
       \/ /\ ~set_aside /\ UNCHANGED set_aside
          /\ Goes(c, [client[c] EXCEPT !.at = "idle", !.range = None, !.ret = "ENOMEM"])
    /\ UNCHANGED ida

\* Mutant of GivenBack: an id out of range stays in the allocator.
GivenBack_Kept(id) == ida' = ida \cup {id} /\ set_aside' = (set_aside /\ ~NewLeaf(id))

\* ida_get_new_above and ida_remove: a leaf made for the id frees its memory.
GivenBack(id) == UNCHANGED <<ida, set_aside>>

\* Under the lock: the least free id, given back if it is out of range; with
\* no memory for its leaf all is tried again.
ida_simple_get(c) ==
    LET range == client[c].range
        free == {id \in range.start..Top : id \notin ida}
        id == CHOOSE i \in free : \A j \in free : i <= j
        Returns(ret, ids) == Goes(c, [Idle EXCEPT !.ids = ids, !.ret = ret,
                                   !.full = free \cap 0..(MaxOf(range)) = {}])
    IN /\ client[c].at = "locked"
       /\ IF free = {} THEN Returns("ENOSPC", client[c].ids) /\ UNCHANGED <<ida, set_aside>>
          ELSE IF NewLeaf(id) /\ ~set_aside
          THEN Goes(c, [client[c] EXCEPT !.at = "again"]) /\ UNCHANGED <<ida, set_aside>>
          ELSE IF id > MaxOf(range)
          THEN Returns("ENOSPC", client[c].ids) /\ GivenBack(id)
          ELSE /\ Returns("id", client[c].ids \cup {id})
               /\ ida' = ida \cup {id} /\ set_aside' = (set_aside /\ ~NewLeaf(id))

\* A leaf that is empty gives its memory back, as a rule to the next one.
ida_simple_remove(c, id) ==
    /\ client[c].at = "idle" /\ id \in client[c].ids
    /\ ida' = ida \ {id}
    /\ set_aside' = (set_aside \/ \A i \in ida' : LeafOf(i) # LeafOf(id))
    /\ Goes(c, [client[c] EXCEPT !.ids = @ \ {id}, !.ret = "none"])

IdaNext ==
    \E c \in Clients : \/ Call(c) \/ ida_pre_get(c) \/ ida_simple_get(c)
                       \/ \E id \in 0..Top : ida_simple_remove(c, id)

-----------------------------------------------------------------------------
\* Every id in use is held by one client and no other, also when a client
\* lost the memory it had set aside to another one and tried again; no id is
\* lost to a request that was refused, and a request for a range is refused
\* only when the range is taken.
IdsUnique ==
    /\ ida = UNION {client[c].ids : c \in Clients}
    /\ \A c, d \in Clients : c # d => client[c].ids \cap client[d].ids = {}
    /\ \A c \in Clients : client[c].ret = "ENOSPC" => client[c].full
=============================================================================
