------------------------------- MODULE DmaBuf -------------------------------
(***************************************************************************)
(* A DMA buffer shared between its exporter and importers (dma-buf.c).     *)
(* The buffer lives as long as its file: the exporter, file descriptors,   *)
(* importers and areas of user memory hold references.  Importers attach   *)
(* devices and map the buffer into the kernel; they keep to the protocol:  *)
(* a user unmaps what it mapped, and puts its reference last.              *)
(***************************************************************************)
EXTENDS Integers, FiniteSets

CONSTANTS
    Users,       \* importers
    Areas,       \* areas of user memory (struct vm_area_struct)
    Size,        \* pages of the buffer
    PageMod,     \* page offsets are unsigned longs: 2^w of them
    Other,       \* the file of the driver that passes its area on
    Buf          \* the file of the buffer

VARIABLES
    f_count,           \* references on the file; 0 = released
    own,               \* the exporter's reference, before dma_buf_fd
    fds,               \* open descriptors of the file
    held,              \* references of the importers
    attachments,       \* users whose device is attached
    vmapping_counter, vmap_ptr,
    mapped,            \* users that hold a kernel mapping
    leaving,           \* users past the checks of dma_buf_vunmap
    vma,               \* the areas: file, vm_pgoff, number of pages
    bug                \* history: a BUG_ON fired

dbvars == <<f_count, own, fds, held, attachments, vmapping_counter, vmap_ptr,
            mapped, leaving, vma, bug>>

NoArea == [vm_file |-> Other, vm_pgoff |-> 0, pages |-> 0]

\* dma_buf_export
DmaBufInit ==
    /\ f_count = 1 /\ own = 1 /\ fds = 0
    /\ held = [u \in Users |-> 0]
    /\ attachments = {} /\ mapped = {} /\ leaving = {}
    /\ vmapping_counter = 0 /\ vmap_ptr = FALSE
    /\ vma = [a \in Areas |-> NoArea]
    /\ bug = FALSE

\* fput, and dma_buf_release with the last reference.
Fput == /\ f_count' = f_count - 1
        /\ bug' = (bug \/ (f_count = 1 /\ vmapping_counter # 0))

\* dma_buf_fd: the descriptor takes over the exporter's reference.
dma_buf_fd ==
    /\ own = 1 /\ own' = 0 /\ fds' = fds + 1
    /\ UNCHANGED <<f_count, held, attachments, vmapping_counter, vmap_ptr,
                   mapped, leaving, vma, bug>>

\* close() of a descriptor, and dma_buf_put of the exporter.
Close ==
    /\ \/ fds > 0 /\ fds' = fds - 1 /\ UNCHANGED own
       \/ own > 0 /\ own' = 0 /\ UNCHANGED fds
    /\ Fput
    /\ UNCHANGED <<held, attachments, vmapping_counter, vmap_ptr, mapped,
                   leaving, vma>>

dma_buf_get(u) ==
    /\ fds > 0 /\ held[u] = 0
    /\ held' = [held EXCEPT ![u] = 1] /\ f_count' = f_count + 1
    /\ UNCHANGED <<own, fds, attachments, vmapping_counter, vmap_ptr, mapped,
                   leaving, vma, bug>>

dma_buf_put(u) ==
    /\ held[u] = 1 /\ u \notin attachments \cup mapped \cup leaving
    /\ held' = [held EXCEPT ![u] = 0]
    /\ Fput
    /\ UNCHANGED <<own, fds, attachments, vmapping_counter, vmap_ptr, mapped,
                   leaving, vma>>

\* dma_buf_attach, which the exporter may refuse (then nothing is kept), and
\* dma_buf_detach; both hold the lock of the buffer.
dma_buf_attach(u) ==
    /\ held[u] = 1 /\ u \notin attachments
    /\ attachments' = attachments \cup {u}
    /\ UNCHANGED <<f_count, own, fds, held, vmapping_counter, vmap_ptr, mapped,
                   leaving, vma, bug>>

dma_buf_detach(u) ==
    /\ u \in attachments /\ attachments' = attachments \ {u}
    /\ UNCHANGED <<f_count, own, fds, held, vmapping_counter, vmap_ptr, mapped,
                   leaving, vma, bug>>

\* dma_buf_vmap, under the lock: the first mapping is the exporter's, which
\* may fail; later ones count.
dma_buf_vmap(u) ==
    /\ held[u] = 1 /\ u \notin mapped \cup leaving
    /\ mapped' = mapped \cup {u}
    /\ vmapping_counter' = vmapping_counter + 1
    /\ vmap_ptr' = TRUE
    /\ bug' = (bug \/ (vmap_ptr # (vmapping_counter > 0)))
    /\ UNCHANGED <<f_count, own, fds, held, attachments, leaving, vma>>

\* dma_buf_vunmap tests the counter and the pointer without the lock ...
VunmapChecks(u) ==
    /\ u \in mapped
    /\ mapped' = mapped \ {u} /\ leaving' = leaving \cup {u}
    /\ bug' = (bug \/ ~vmap_ptr \/ vmapping_counter = 0)
    /\ UNCHANGED <<f_count, own, fds, held, attachments, vmapping_counter,
                   vmap_ptr, vma>>

\* Mutant of LastMapping: the mapping goes with any of its users.
LastMapping_Any == TRUE

LastMapping == vmapping_counter = 1

\* ... and changes them with it.
dma_buf_vunmap(u) ==
    /\ u \in leaving /\ leaving' = leaving \ {u}
    /\ vmapping_counter' = vmapping_counter - 1
    /\ vmap_ptr' = (vmap_ptr /\ ~LastMapping)
    /\ UNCHANGED <<f_count, own, fds, held, attachments, mapped, vma, bug>>

-----------------------------------------------------------------------------
\* The number of pages fits into the buffer from the offset on, in unsigned
\* arithmetic that wraps.
Fits(pgoff, pages) == (pgoff + pages) % PageMod <= Size

\* Mutant of Overflows: the sum is not tested.
Overflows_Untested(pgoff, pages) == FALSE

Overflows(pgoff, pages) == (pgoff + pages) % PageMod < pgoff

\* dma_buf_mmap_internal: mmap() of a descriptor.  The kernel tests for the
\* overflow, takes the reference, and drops it when the exporter fails.
MmapFd(a, pgoff, pages) ==
    /\ fds > 0 /\ vma[a] = NoArea
    /\ ~Overflows(pgoff, pages) /\ Fits(pgoff, pages)
    /\ vma' = [vma EXCEPT ![a] = [vm_file |-> Buf, vm_pgoff |-> pgoff,
                                  pages |-> pages]]
    /\ f_count' = f_count + 1
    /\ UNCHANGED <<own, fds, held, attachments, vmapping_counter, vmap_ptr,
                   mapped, leaving, bug>>

\* An area of the driver's own file, on its way to dma_buf_mmap.
AreaOpened(a, pages) ==
    /\ vma[a] = NoArea
    /\ vma' = [vma EXCEPT ![a] = [NoArea EXCEPT !.pages = pages]]
    /\ UNCHANGED <<f_count, own, fds, held, attachments, vmapping_counter,
                   vmap_ptr, mapped, leaving, bug>>

\* dma_buf_mmap by the driver of a user: the area is changed before the
\* exporter is asked.  When it fails the file is restored, the offset not.
dma_buf_mmap(u, a, pgoff) ==
    /\ held[u] = 1 /\ vma[a].pages # 0 /\ vma[a].vm_file = Other
    /\ ~Overflows(pgoff, vma[a].pages) /\ Fits(pgoff, vma[a].pages)
    /\ \E fails \in BOOLEAN :
       /\ vma' = [vma EXCEPT ![a].vm_pgoff = pgoff,
                             ![a].vm_file = IF fails THEN @ ELSE Buf]
       /\ f_count' = IF fails THEN f_count ELSE f_count + 1
    /\ UNCHANGED <<own, fds, held, attachments, vmapping_counter, vmap_ptr,
                   mapped, leaving, bug>>

Munmap(a) ==
    /\ vma[a] # NoArea
    /\ vma' = [vma EXCEPT ![a] = NoArea]
    /\ IF vma[a].vm_file = Buf THEN Fput ELSE UNCHANGED <<f_count, bug>>
    /\ UNCHANGED <<own, fds, held, attachments, vmapping_counter, vmap_ptr,
                   mapped, leaving>>

\* Any offset, and any length that is not 0.
Offsets == 0..PageMod - 1
Lengths == 1..PageMod - 1

DmaBufNext ==
    \/ dma_buf_fd \/ Close
    \/ \E u \in Users :
         \/ dma_buf_get(u) \/ dma_buf_put(u)
         \/ dma_buf_attach(u) \/ dma_buf_detach(u)
         \/ dma_buf_vmap(u) \/ VunmapChecks(u) \/ dma_buf_vunmap(u)
    \/ \E a \in Areas, p \in Offsets :
         \/ \E n \in Lengths : MmapFd(a, p, n) \/ AreaOpened(a, n)
         \/ \E u \in Users : dma_buf_mmap(u, a, p)
         \/ Munmap(a)

-----------------------------------------------------------------------------
\* Every reference is some holder's: when the buffer is released nothing has
\* it open, attached or mapped, and the BUG_ONs of dma_buf_release, vmap and
\* vunmap never fire, though vunmap tests the counter without the lock.
BufferAccounted ==
    /\ f_count = own + fds + Cardinality({u \in Users : held[u] = 1})
                 + Cardinality({a \in Areas : vma[a].vm_file = Buf})
    /\ vmapping_counter = Cardinality(mapped) + Cardinality(leaving)
    /\ f_count = 0 => attachments = {} /\ ~vmap_ptr
    /\ ~bug

\* No area reaches behind the end of the buffer, whatever offset it was
\* mapped at (dma-buf.c:62-67, 484-493).
AreasInBuffer ==
    \A a \in Areas : vma[a].vm_file = Buf => vma[a].vm_pgoff + vma[a].pages <= Size

-----------------------------------------------------------------------------
\* The operations an exporter may have, and those dma_buf_export insists on.
dma_buf_ops == {"attach", "detach", "map_dma_buf", "unmap_dma_buf", "release",
                "begin_cpu_access", "end_cpu_access", "kmap_atomic", "kunmap_atomic",
                "kmap", "kunmap", "mmap", "vmap", "vunmap"}

dma_buf_export(ops) ==
    {"map_dma_buf", "unmap_dma_buf", "release", "kmap_atomic", "kmap", "mmap"} \subseteq ops

\* The calls of importers that pass the operation on: some test for it ...
dma_buf_begin_cpu_access(ops) == ops \cap {"begin_cpu_access"}
dma_buf_end_cpu_access(ops) == ops \cap {"end_cpu_access"}
dma_buf_kunmap_atomic(ops) == ops \cap {"kunmap_atomic"}
dma_buf_kunmap(ops) == ops \cap {"kunmap"}

\* ... and some do not.
dma_buf_kmap_atomic(ops) == {"kmap_atomic"}
dma_buf_kmap(ops) == {"kmap"}
dma_buf_map_attachment(ops) == {"map_dma_buf"}
dma_buf_unmap_attachment(ops) == {"unmap_dma_buf"}

\* The operations called in a buffer's life, all in all.
Called(ops) ==
    UNION {dma_buf_begin_cpu_access(ops), dma_buf_end_cpu_access(ops),
           dma_buf_kunmap_atomic(ops), dma_buf_kunmap(ops), dma_buf_kmap_atomic(ops),
           dma_buf_kmap(ops), dma_buf_map_attachment(ops), dma_buf_unmap_attachment(ops),
           {"release", "mmap"}, ops \cap {"attach", "detach", "vmap", "vunmap"}}

\* No call of an importer reaches an operation the exporter does not have,
\* and an exporter is refused only if a call could.
OpsCalledExist(ops) == dma_buf_export(ops) <=> Called(ops) \subseteq ops

=============================================================================
