------------------------------- MODULE Buffers -------------------------------
(***************************************************************************)
(* Memory of packets and transfers: lists of packet buffers joined by      *)
(* their pointers (compat-2.6.28.h:130-238), a copy with a private head    *)
(* (compat-3.3.c), the Ethernet header of compat-2.6.24.c, and the chained *)
(* scatter lists of compat-2.6.25.c.                                       *)
(***************************************************************************)
EXTENDS Integers, Sequences, SequencesExt, FiniteSets

CONSTANTS From, To, AddrMod   \* two list heads; 2^w addresses

\* A ring through a head, in order; m is the memory: next, prev, qlen.
Ring(m, head, s) ==
    LET all == <<head>> \o s   n == Len(all)
        Place(x) == CHOOSE k \in 1..n : all[k] = x
        Linked(f, step) == [x \in DOMAIN f |-> IF x \notin ToSet(all) THEN f[x]
                                               ELSE all[((Place(x) - 1 + step) % n) + 1]]
    IN [next |-> Linked(m.next, 1), prev |-> Linked(m.prev, n - 1),
        qlen |-> [m.qlen EXCEPT ![head] = Len(s)]]

\* __skb_queue_head_init
HeadInit(m, list) == [m EXCEPT !.next[list] = list, !.prev[list] = list, !.qlen[list] = 0]

__skb_queue_splice(m, list, prev, next) ==
    LET first == m.next[list]  last == m.prev[list]
    IN [m EXCEPT !.prev = [@ EXCEPT ![first] = prev, ![next] = last],
                 !.next = [@ EXCEPT ![prev] = first, ![last] = next]]

Adds(m, list, head) == [m EXCEPT !.qlen[head] = @ + m.qlen[list]]

skb_queue_splice(m, list, head) ==
    IF m.next[list] = list THEN m
    ELSE Adds(__skb_queue_splice(m, list, head, m.next[head]), list, head)
skb_queue_splice_init(m, list, head) ==
    IF m.next[list] = list THEN m
    ELSE HeadInit(Adds(__skb_queue_splice(m, list, head, m.next[head]), list, head), list)
skb_queue_splice_tail(m, list, head) ==
    IF m.next[list] = list THEN m
    ELSE Adds(__skb_queue_splice(m, list, m.prev[head], head), list, head)
skb_queue_splice_tail_init(m, list, head) ==
    IF m.next[list] = list THEN m
    ELSE HeadInit(Adds(__skb_queue_splice(m, list, m.prev[head], head), list, head), list)

\* skb_queue_walk_from to the end (skb_queue_is_last), of at most n buffers.
skb_queue_is_last(m, list, skb) == m.next[skb] = list
Walk(m, head, n) ==
    LET w[k \in 0..n] == IF k = 0 THEN <<m.next[head]>>
                         ELSE IF Last(w[k - 1]) = head THEN w[k - 1]
                         ELSE Append(w[k - 1], m.next[Last(w[k - 1])])
    IN w[n]

\* Joined at the front or at the end, forwards, backwards and in its length,
\* for lists of any length, empty ones too; the init versions leave an empty
\* list behind.
SplicesJoin(s, t) ==
    LET nodes == {From, To} \cup ToSet(s) \cup ToSet(t)
        empty == [next |-> [x \in nodes |-> x], prev |-> [x \in nodes |-> x],
                  qlen |-> [h \in {From, To} |-> 0]]
        m == Ring(Ring(empty, From, s), To, t)
        Joined(r, order) == LET joined == Ring(m, To, order)
                            IN /\ r.qlen[To] = Len(order)
                               /\ Walk(r, To, Len(order)) = order \o <<To>>
                               /\ order # << >> => skb_queue_is_last(r, To, Last(order))
                               /\ \A x \in nodes \ {From} : r.prev[x] = joined.prev[x]
        Emptied(r) == r.next[From] = From /\ r.prev[From] = From /\ r.qlen[From] = 0
    IN /\ Joined(skb_queue_splice(m, From, To), s \o t)
       /\ Joined(skb_queue_splice_tail(m, From, To), t \o s)
       /\ Joined(skb_queue_splice_init(m, From, To), s \o t)
       /\ Emptied(skb_queue_splice_init(m, From, To))
       /\ Joined(skb_queue_splice_tail_init(m, From, To), t \o s)
       /\ Emptied(skb_queue_splice_tail_init(m, From, To))

-----------------------------------------------------------------------------
\* A buffer: where its head and data are, its headers, pointers or offsets
\* from head (NET_SKBUFF_DATA_USES_OFFSET), what it shares, and its lengths.
NoHeader == AddrMod - 1            \* mac_header is not set: ~0

\* The other fields are copied as they are, with a reference to the route and
\* to the security path.
__copy_skb_header(new, old) ==
    [new EXCEPT !.transport = old.transport, !.network = old.network, !.mac = old.mac,
                !.fields = old.fields]

\* Mutant of copy_skb_header: headers that are pointers are not shifted either.
copy_skb_header_Unshifted(new, old, uses_offset) == __copy_skb_header(new, old)

copy_skb_header(new, old, uses_offset) ==
    LET c == __copy_skb_header(new, old)
        shift == new.data - old.data
        Moved(h) == (h + shift) % AddrMod
    IN IF uses_offset THEN c
       ELSE [c EXCEPT !.transport = Moved(@), !.network = Moved(@),
                      !.mac = IF @ = 0 THEN @ ELSE Moved(@)]

\* skb_clone_fraglist, get_page and the references of __copy_skb_header; refs
\* counts the users of what buffers share.
Shared(skb) == skb.frags \cup skb.fraglist \cup skb.fields
skb_clone_fraglist(refs, skb) ==
    [x \in DOMAIN refs |-> refs[x] + IF x \in Shared(skb) THEN 1 ELSE 0]

\* Into a new head at an address; its truesize starts at its linear size.
__pskb_copy(skb, headroom, address, uses_offset) ==
    LET headlen == skb.len - skb.data_len
        n == [head |-> address, data |-> address + headroom, size |-> headlen + headroom,
              len |-> skb.len, data_len |-> skb.data_len,
              transport |-> 0, network |-> 0, mac |-> 0, fields |-> {},
              frags |-> skb.frags, fraglist |-> skb.fraglist]
    IN copy_skb_header(n, skb, uses_offset)

\* Where a header lies in the data.
InData(skb, h, uses_offset) == IF uses_offset THEN skb.head + h - skb.data ELSE h - skb.data
Unset(h, uses_offset) == IF uses_offset THEN h = NoHeader ELSE h = 0

\* The copy shows the same data and headers, and both share the fragments
\* until each is freed: the bytes linear in the old one are linear and private
\* in the new one.  Nothing is said of where headers point that are offsets, in a
\* copy with another headroom: compat-3.3.c:76-91 moves pointers only.
CopyKeeps(skb, headroom, address, uses_offset) ==
    LET n == __pskb_copy(skb, headroom, address, uses_offset)
        refs == skb_clone_fraglist([x \in Shared(skb) |-> 1], skb)
        Same(f(_)) == InData(n, f(n), uses_offset) = InData(skb, f(skb), uses_offset)
        moved == uses_offset /\ headroom # skb.data - skb.head
    IN /\ n.len - n.data_len = n.size - headroom /\ n.data + (n.len - n.data_len) = n.head + n.size
       /\ \A x \in Shared(skb) : x \in Shared(n) /\ refs[x] = 2
       /\ Unset(skb.mac, uses_offset) <=> Unset(n.mac, uses_offset)
       /\ ~moved => /\ Same(LAMBDA b : b.network) /\ Same(LAMBDA b : b.transport)
                    /\ ~Unset(skb.mac, uses_offset) => Same(LAMBDA b : b.mac)

-----------------------------------------------------------------------------
\* eth_header: a header of 14 bytes in front of the data; the result tells
\* whether the destination is known, else eth_rebuild_header asks for it.
ETH_HLEN == 14
eth_header(type, len, dev, daddr, saddr) ==
    LET h == [h_proto |-> IF type # "802_3" THEN type ELSE len,
              h_source |-> IF saddr = "none" THEN dev.addr ELSE saddr,
              h_dest |-> IF daddr # "none" THEN daddr
                         ELSE IF dev.noarp THEN "zero" ELSE "unset"]
    IN h @@ [ret |-> IF h.h_dest = "unset" THEN -ETH_HLEN ELSE ETH_HLEN]

\* The source address is filled in here for what ARP cannot resolve.
eth_rebuild_header(h, dev, resolved) ==
    IF h.h_proto = "IP" THEN [h EXCEPT !.h_dest = IF resolved = "none" THEN @ ELSE resolved]
    ELSE [h EXCEPT !.h_source = dev.addr]

\* The template of a neighbour, and its update; frames of 802.3 have none.
eth_header_cache(type, dev, ha) ==
    IF type = "802_3" THEN [h_proto |-> "none"]
    ELSE [h_proto |-> type, h_source |-> dev.addr, h_dest |-> ha, ret |-> ETH_HLEN]
eth_header_cache_update(hh, haddr) == [hh EXCEPT !.h_dest = haddr]

\* A header made from the cache is the one eth_header makes, also after the
\* neighbour's address changed; an incomplete one is told apart, and complete
\* once ARP has resolved it.
HeadersAgree(type, len, dev, ha, resolved) ==
    LET hh == eth_header_cache(type, dev, ha)
        unknown == eth_header(type, len, dev, "none", "none")
    IN /\ hh.h_proto # "none" => /\ hh = eth_header(type, len, dev, ha, "none")
                                  /\ resolved # "none" => eth_header_cache_update(hh, resolved)
                                       = eth_header(type, len, dev, resolved, "none")
       /\ unknown.ret < 0 <=> ~dev.noarp
       /\ unknown.ret < 0 /\ type = "IP" /\ resolved # "none" =>
            [eth_rebuild_header(unknown, dev, resolved) EXCEPT !.ret = ETH_HLEN]
              = eth_header(type, len, dev, resolved, "none")

-----------------------------------------------------------------------------
\* A table of nents entries in chunks of at most max_ents: the last entry of
\* every chunk but the last links to the next one.  The memory is the sequence of
\* chunks in use.

CONSTANTS MaxSingle      \* SG_MAX_SINGLE_ALLOC: the entries that fill a page

\* A chunk: its size, how it was allocated, its link, and its marked end.
Chunk(size, by) == [size |-> size, by |-> by, link |-> 0, end |-> 0]

\* sg_kmalloc and sg_kfree choose by the size.
sg_kmalloc(nents) == IF nents = MaxSingle THEN "page" ELSE "kmalloc"
sg_kfree(nents) == IF nents = MaxSingle THEN "page" ELSE "kmalloc"

NoTable == [sgl |-> 0, nents |-> 0, orig_nents |-> 0]

\* The size of the next chunk, and the entries it holds.
AllocSize(left) == IF left > MaxSingle THEN MaxSingle ELSE left
SgSize(left) == IF left > MaxSingle THEN MaxSingle - 1 ELSE left

\* Mutant of AdjustedFor: the link that was never made is still counted out.
AdjustedFor_Not(t, prv) == t

\* "the last entry of the previous table won't be used for linkage"
AdjustedFor(t, prv) ==
    IF prv = 0 THEN t
    ELSE [t EXCEPT !.nents = t.orig_nents + 1, !.orig_nents = @ + 1]

\* __sg_alloc_table; the allocation of the fails-th chunk fails (0: none).
RECURSIVE Allocated(_, _, _, _)
Allocated(t, mem, left, fails) ==
    LET prv == Len(mem)   n == prv + 1   size == SgSize(left)
        linked == IF prv = 0 THEN mem ELSE [mem EXCEPT ![prv].link = n]
        new == Append(linked, [Chunk(AllocSize(left), sg_kmalloc(AllocSize(left)))
                               EXCEPT !.end = IF left = size THEN size ELSE 0])
        table == [t EXCEPT !.orig_nents = @ + size, !.nents = t.orig_nents + size,
                           !.sgl = IF prv = 0 THEN n ELSE @]
    IN IF n = fails
       THEN [table |-> AdjustedFor(t, prv), mem |-> mem, ret |-> "ENOMEM"]
       ELSE IF left = size THEN [table |-> table, mem |-> new, ret |-> "ok"]
       ELSE Allocated(table, new, left - size, fails)

__sg_alloc_table(t, nents, fails, chains) ==
    IF ~chains /\ nents > MaxSingle THEN [table |-> t, mem |-> << >>, ret |-> "EINVAL"]
    ELSE Allocated(NoTable, << >>, nents, fails)

\* __sg_free_table: the chunks it frees, in order, with the sizes it tells the
\* allocator.
RECURSIVE Freed(_, _, _)
Freed(mem, sgl, orig) ==
    IF orig = 0 THEN << >>
    ELSE <<[chunk |-> sgl, size |-> AllocSize(orig), by |-> sg_kfree(AllocSize(orig))]>>
         \o Freed(mem, IF orig > MaxSingle THEN mem[sgl].link ELSE 0, orig - SgSize(orig))

__sg_free_table(t, mem) == IF t.sgl = 0 THEN << >> ELSE Freed(mem, t.sgl, t.orig_nents)

\* sg_alloc_table cleans up itself.
sg_alloc_table(t, nents, fails, chains) ==
    LET r == __sg_alloc_table(t, nents, fails, chains)
    IN [r EXCEPT !.table = IF r.ret = "ok" THEN @ ELSE [NoTable EXCEPT !.nents = r.table.nents]]
       @@ [freed |-> IF r.ret = "ok" THEN << >> ELSE __sg_free_table(r.table, r.mem)]

\* The entries a walk over the links finds, up to the marked end.
RECURSIVE Entries(_, _)
Entries(mem, c) ==
    IF mem[c].end # 0 THEN mem[c].end
    ELSE mem[c].size - 1 + Entries(mem, mem[c].link)

\* Each chunk is freed once, to where it came from, with the size it was
\* allocated with: after success and wherever the allocation failed.
FreedOnce(mem, freed) ==
    /\ [k \in DOMAIN freed |-> freed[k].chunk] = [k \in DOMAIN mem |-> k]
    /\ \A k \in DOMAIN freed : /\ freed[k].size = mem[k].size
                               /\ freed[k].by = mem[k].by

\* A table made for n > 0 entries shows n entries, and nothing leaks or is freed
\* twice, with chaining and without (ARCH_HAS_SG_CHAIN), where more than one chunk
\* is refused.  The table is unused before: one that is refused is not cleared.
ChunksFreed(nents, fails, chains) ==
    LET r == sg_alloc_table(NoTable, nents, fails, chains)
    IN IF r.ret = "ok"
       THEN /\ r.table.nents = nents /\ Entries(r.mem, r.table.sgl) = nents
            /\ FreedOnce(r.mem, __sg_free_table(r.table, r.mem))
       ELSE FreedOnce(r.mem, r.freed) /\ r.table.sgl = 0
=============================================================================
