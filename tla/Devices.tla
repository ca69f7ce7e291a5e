------------------------------- MODULE Devices -------------------------------
(***************************************************************************)
(* Helpers for devices: access to the PCI Express capability               *)
(* (compat-3.7.c), whose registers depend on its version and port type;    *)
(* transfer sizes of SDIO functions and the removal of debugfs trees       *)
(* (compat-2.6.27.c); searches through the tuples of a PC card             *)
(* (compat-2.6.28.c, compat-2.6.33.c), and registration of a platform      *)
(* device with its data.  A register of 16 bits is a set of bits; a double *)
(* word is two of them.                                                    *)
(***************************************************************************)
EXTENDS Integers, Sequences, SequencesExt, FiniteSets

CONSTANTS MaxByteMode    \* 512: the most a transfer in byte mode moves

Least(a, b) == IF a < b THEN a ELSE b

mmc_align_data_size(sz) == ((sz + 3) \div 4) * 4
sdio_max_byte_size(f) ==
    Least(Least(Least(f.max_seg_size, f.max_blk_size), f.max_blksize), MaxByteMode)

\* With multi_block: whole blocks, or blocks and a padded rest.
Blocks(f, sz, orig_sz) ==
    LET blk_sz == mmc_align_data_size(((sz + f.cur_blksize - 1) \div f.cur_blksize)
                                      * f.cur_blksize)
        byte_sz == mmc_align_data_size(sz % f.cur_blksize)
    IN IF sz % f.cur_blksize = 0 THEN sz
       ELSE IF blk_sz % f.cur_blksize = 0 THEN blk_sz
       ELSE IF byte_sz <= sdio_max_byte_size(f)
       THEN (sz \div f.cur_blksize) * f.cur_blksize + byte_sz
       ELSE orig_sz

\* Without: chunks that the controller can handle, and a padded rest.
ByteChunks(f, orig_sz) ==
    LET chunk_sz == mmc_align_data_size(sdio_max_byte_size(f))
    IN IF chunk_sz # sdio_max_byte_size(f) THEN orig_sz
       ELSE (orig_sz \div chunk_sz) * chunk_sz + mmc_align_data_size(orig_sz % chunk_sz)

sdio_align_size(f, orig_sz) ==
    LET sz == mmc_align_data_size(orig_sz)
    IN IF sz <= sdio_max_byte_size(f) THEN sz
       ELSE IF f.multi_block THEN Blocks(f, sz, orig_sz) ELSE ByteChunks(f, orig_sz)

\* The size is never shortened; it grows by less than a block and a word; and
\* it stays as asked, or ends on a word or on a block.
SizePadded(f, orig_sz) ==
    LET r == sdio_align_size(f, orig_sz)
    IN /\ r >= orig_sz /\ r < orig_sz + f.cur_blksize + 4
       /\ r = orig_sz \/ r % 4 = 0 \/ r % f.cur_blksize = 0
            \/ (r % f.cur_blksize) % 4 = 0

\* debugfs_remove_recursive.  A tree is the parent of each entry but its root,
\* 0 is no entry; `busy' are the entries that stay in their parent's list after
\* debugfs_remove, since somebody uses them.
Children(parent, d) == {c \in DOMAIN parent : parent[c] = d}

\* The walk takes the first child in the order of creation; here the least.
RECURSIVE Childless(_, _)
Childless(parent, d) ==
    IF Children(parent, d) = {} THEN d
    ELSE Childless(parent, CHOOSE c \in Children(parent, d) :
                             \A e \in Children(parent, d) : c <= e)

RECURSIVE Removal(_, _, _, _, _)
Removal(parent, dentry, last, busy, gone) ==
    LET child == Childless(parent, dentry)
    IN IF dentry = last \/ child = last THEN gone
       ELSE Removal([c \in DOMAIN parent \ (IF child \in busy THEN {} ELSE {child}) |-> parent[c]],
                    dentry, child, busy, gone \cup ({child} \ busy))
debugfs_remove_recursive(parent, dentry, busy) ==
    IF dentry = 0 THEN {} ELSE Removal(parent, dentry, -1, busy, {})

\* A tree is removed whole when nothing in it is busy; otherwise the walk ends
\* at the first entry that stays, and no entry goes before what is under it
\* (compat-2.6.27.c:220-235).
TreeRemoved(parent, dentry, busy) ==
    LET gone == debugfs_remove_recursive(parent, dentry, busy)
    IN /\ (busy = {} /\ dentry # 0) => gone = DOMAIN parent \cup {dentry}
       /\ gone \cap busy = {}
       /\ \A c \in DOMAIN parent : parent[c] \in gone => c \in gone

-----------------------------------------------------------------------------
\* Offsets of PCI_EXP_* in the capability.
FLAGS_TYPE == 240   \* PCI_EXP_FLAGS_TYPE: a mask of the flags, used as a position
SLTCTL == 24
SLTSTA == 26
DevRegs == {4, 8, 10}
LnkRegs == {12, 16, 18}
SltRegs == {20, SLTCTL, SLTSTA}
RtRegs == {28, 30, 32}
SecondRegs == {36, 40, 44, 48, 50}
PDS == 6    \* the bit of PCI_EXP_SLTSTA_PDS
AllBits == 0..15

\* A device: has it the capability (pcie), its port type, version and slot bit,
\* its config space from the capability on, and the accesses that fail.  A
\* failed read delivers ones.  Nobody tests the read of the flags.
FlagsRead(dev) ==
    IF ~dev.pcie THEN [type |-> "ENDPOINT", version |-> 0, slot |-> FALSE]
    ELSE IF "read" \in dev.fails THEN [type |-> "ones", version |-> 15, slot |-> TRUE]
    ELSE [type |-> dev.type, version |-> dev.version, slot |-> dev.slot]
pci_pcie_type(dev) == FlagsRead(dev).type
pcie_cap_version(dev) == FlagsRead(dev).version

pcie_cap_has_lnkctl(dev) ==
    pcie_cap_version(dev) > 1 \/ pci_pcie_type(dev) \in {"ROOT_PORT", "ENDPOINT", "LEG_END"}
pcie_cap_has_sltctl(dev) ==
    \/ pcie_cap_version(dev) > 1 \/ pci_pcie_type(dev) = "ROOT_PORT"
    \/ pci_pcie_type(dev) = "DOWNSTREAM" /\ FlagsRead(dev).slot
pcie_cap_has_rtctl(dev) ==
    pcie_cap_version(dev) > 1 \/ pci_pcie_type(dev) \in {"ROOT_PORT", "RC_EC"}

pcie_capability_reg_implemented(dev, pos) ==
    /\ dev.pcie
    /\ \/ pos = FLAGS_TYPE \/ pos \in DevRegs
       \/ pos \in LnkRegs /\ pcie_cap_has_lnkctl(dev)
       \/ pos \in SltRegs /\ pcie_cap_has_sltctl(dev)
       \/ pos \in RtRegs /\ pcie_cap_has_rtctl(dev)
       \/ pos \in SecondRegs /\ pcie_cap_version(dev) > 1

Zeros(n) == [k \in 1..n |-> {}]
Words(dev, pos, n) == [k \in 1..n |-> dev.config[pos + 2 * (k - 1)]]

\* A port without a slot shows a device present, if asked at position sltsta.
NoSlot(dev, pos, sltsta, n) ==
    IF dev.pcie /\ pos = sltsta /\ pci_pcie_type(dev) = "DOWNSTREAM"
    THEN [Zeros(n) EXCEPT ![1] = {PDS}] ELSE Zeros(n)

ReadConfig(dev, pos, n) ==
    IF "read" \in dev.fails THEN [ret |-> "EIO", val |-> Zeros(n)]
    ELSE [ret |-> "ok", val |-> Words(dev, pos, n)]

pcie_capability_read_word(dev, pos) ==
    IF pos % 2 # 0 THEN [ret |-> "EINVAL", val |-> Zeros(1)]
    ELSE IF pcie_capability_reg_implemented(dev, pos) THEN ReadConfig(dev, pos, 1)
    ELSE [ret |-> "ok", val |-> NoSlot(dev, pos, SLTSTA, 1)]
pcie_capability_read_dword(dev, pos) ==
    IF pos % 4 # 0 THEN [ret |-> "EINVAL", val |-> Zeros(2)]
    ELSE IF pcie_capability_reg_implemented(dev, pos) THEN ReadConfig(dev, pos, 2)
    ELSE [ret |-> "ok", val |-> NoSlot(dev, pos, SLTCTL, 2)]

Write(dev, pos, val) ==
    IF ~pcie_capability_reg_implemented(dev, pos) THEN [ret |-> "ok", dev |-> dev]
    ELSE IF "write" \in dev.fails THEN [ret |-> "EIO", dev |-> dev]
    ELSE [ret |-> "ok",
          dev |-> [dev EXCEPT !.config =
                     [p \in DOMAIN @ |-> IF \E k \in DOMAIN val : p = pos + 2 * (k - 1)
                                         THEN val[((p - pos) \div 2) + 1] ELSE @[p]]]]
pcie_capability_write_word(dev, pos, val) ==
    IF pos % 2 # 0 THEN [ret |-> "EINVAL", dev |-> dev] ELSE Write(dev, pos, val)
pcie_capability_write_dword(dev, pos, val) ==
    IF pos % 4 # 0 THEN [ret |-> "EINVAL", dev |-> dev] ELSE Write(dev, pos, val)

Changed(val, clear, set) == [k \in DOMAIN val |-> (val[k] \ clear[k]) \cup set[k]]
pcie_capability_clear_and_set_word(dev, pos, clear, set) ==
    LET r == pcie_capability_read_word(dev, pos)
    IN IF r.ret # "ok" THEN [ret |-> r.ret, dev |-> dev]
       ELSE pcie_capability_write_word(dev, pos, Changed(r.val, clear, set))
pcie_capability_clear_and_set_dword(dev, pos, clear, set) ==
    LET r == pcie_capability_read_dword(dev, pos)
    IN IF r.ret # "ok" THEN [ret |-> r.ret, dev |-> dev]
       ELSE pcie_capability_write_dword(dev, pos, Changed(r.val, clear, set))

\* A value is read only with success; a change reaches just the bits asked for,
\* of just the register asked for, and nothing where the read or the write
\* failed or the register does not exist.
ChangesOnlyThat(dev, pos, clear, set) ==
    LET word == pcie_capability_clear_and_set_word(dev, pos, <<clear>>, <<set>>)
        dword == pcie_capability_clear_and_set_dword(dev, pos, <<clear, {}>>, <<set, {}>>)
        Right(r, align) ==
          /\ \A p \in DOMAIN dev.config \ {pos} : r.dev.config[p] = dev.config[p]
          /\ pos \in DOMAIN dev.config =>
               r.dev.config[pos] =
                 IF pos % align = 0 /\ dev.fails = {} /\ pcie_capability_reg_implemented(dev, pos)
                 THEN (dev.config[pos] \ clear) \cup set ELSE dev.config[pos]
    IN /\ Right(word, 2) /\ Right(dword, 4)
       /\ \A r \in {pcie_capability_read_word(dev, pos), pcie_capability_read_dword(dev, pos)} :
            r.ret # "ok" => \A k \in DOMAIN r.val : r.val[k] = {}

\* A double word is the two words it covers, but for Slot Control and Slot Status
\* of a downstream port without a slot: nothing is said of these here (the
\* presence bit is in the wrong half, compat-3.7.c:186-189).
DwordIsWords(dev, pos) ==
    LET d == pcie_capability_read_dword(dev, pos)
        w == <<pcie_capability_read_word(dev, pos).val[1],
               pcie_capability_read_word(dev, pos + 2).val[1]>>
        misplaced == dev.pcie /\ pos = SLTCTL /\ pci_pcie_type(dev) = "DOWNSTREAM"
                     /\ ~pcie_cap_has_sltctl(dev)
    IN pos \in {8, 16, SLTCTL, 28, 48} /\ ~misplaced => d.val = w

-----------------------------------------------------------------------------
\* A card is the sequence of its entries with the code searched for: can its
\* data be read, can it be parsed, what is its index, is it a default, does the
\* driver's callback accept it.

\* The loop over the tuples from number k: what was passed to the callback, and
\* the entry it accepted, or 0.
RECURSIVE Search(_, _, _, _)
Search(cis, parses, k, passed) ==
    IF k > Len(cis) THEN [accepted |-> 0, passed |-> passed]
    ELSE IF ~cis[k].readable \/ (parses /\ ~cis[k].parsable)
    THEN Search(cis, parses, k + 1, passed)
    ELSE IF cis[k].fits THEN [accepted |-> k, passed |-> Append(passed, k)]
    ELSE Search(cis, parses, k + 1, Append(passed, k))

Ret(found) == IF found.accepted = 0 THEN "no more" ELSE "ok"

\* The default is the last parsed entry with the flag, zeroes before the first.
DefaultAt(cis, passed, n) ==
    LET flagged == {m \in 1..n : cis[passed[m]].default}
    IN IF flagged = {} THEN 0
       ELSE passed[CHOOSE m \in flagged : \A o \in flagged : o <= m]

\* Every parsed entry sets the device's ConfigIndex before it is checked; the
\* memory of the search is not freed on any way out.
pcmcia_loop_config(cis, ConfigIndex, memory) ==
    LET found == Search(cis, TRUE, 1, << >>)
    IN IF ~memory
       THEN [ret |-> "ENOMEM", ConfigIndex |-> ConfigIndex, dflts |-> << >>, leaked |-> FALSE]
       ELSE [ret |-> Ret(found),
             ConfigIndex |-> IF found.passed = << >> THEN ConfigIndex
                             ELSE cis[found.passed[Len(found.passed)]].index,
             dflts |-> [n \in DOMAIN found.passed |-> DefaultAt(cis, found.passed, n)],
             leaked |-> TRUE]

pccard_loop_tuple(cis, parses, memory) ==
    IF ~memory THEN [ret |-> "ENOMEM", passed |-> << >>, leaked |-> FALSE]
    ELSE LET found == Search(cis, parses, 1, << >>)
         IN [ret |-> Ret(found), passed |-> found.passed, leaked |-> FALSE]

\* By pcmcia_do_loop_tuple, which passes on the tuple and not its parse.
pcmcia_loop_tuple(cis, memory) == pccard_loop_tuple(cis, FALSE, memory)

\* Step `fails' fails.  The result says whether the device is registered and
\* how many references to it are left.
PlatformSteps(size) == IF size = 0 THEN <<"alloc", "add">> ELSE <<"alloc", "add_data", "add">>
platform_device_register_data(size, fails) ==
    IF fails \in ToSet(PlatformSteps(size)) THEN [ret |-> fails, refs |-> 0, added |-> FALSE]
    ELSE [ret |-> "ok", refs |-> 1, added |-> TRUE]

\* A search succeeds with the first entry that can be read and parsed and that
\* fits, having shown the driver no entry behind it; every entry before it that
\* is usable was shown; each with the nearest default at or before it.  The device
\* is configured for the last entry shown.  pccard_loop_tuple frees its memory;
\* nothing is said of the memory of pcmcia_loop_config, which does not.
FirstThatFits(cis, parses) ==
    LET usable == {k \in DOMAIN cis : cis[k].readable /\ (parses => cis[k].parsable)}
        fit == {k \in usable : cis[k].fits}
        r == pccard_loop_tuple(cis, parses, TRUE)
        c == pcmcia_loop_config(cis, 0, TRUE)
    IN /\ r.ret = "ok" <=> fit # {}
       /\ ToSet(r.passed) = {k \in usable : \A e \in fit : k <= e}
       /\ (\A m, n \in DOMAIN r.passed : m < n => r.passed[m] < r.passed[n]) /\ ~r.leaked
       /\ pcmcia_loop_tuple(cis, TRUE) = pccard_loop_tuple(cis, FALSE, TRUE)
       /\ parses => /\ c.ret = r.ret
                    /\ c.ConfigIndex = IF r.passed = << >> THEN 0
                                       ELSE cis[r.passed[Len(r.passed)]].index
                    /\ \A n \in DOMAIN c.dflts : \A k \in usable :
                         (cis[k].default /\ k <= r.passed[n]) => k <= c.dflts[n]

\* Whatever step fails, a device that is not returned is gone.
DeviceKeptOnlyIfAdded(size, fails) ==
    LET r == platform_device_register_data(size, fails)
    IN (r.ret = "ok") = r.added /\ r.refs = IF r.added THEN 1 ELSE 0
=============================================================================
