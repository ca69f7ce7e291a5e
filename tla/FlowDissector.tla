--------------------------- MODULE FlowDissector ----------------------------
(***************************************************************************)
(* skb_flow_dissect of flow_dissector.c: the addresses, the protocol and   *)
(* the ports that tell one flow from another, found behind tags and        *)
(* tunnels.  A packet is the sequence of its headers, of known sizes in    *)
(* words of four bytes, and may be cut short; the code knows offsets only. *)
(***************************************************************************)
EXTENDS Integers, Sequences, SequencesExt

CONSTANTS Depth      \* bound: headers of a packet

\* next: the protocol a header names; words: its size; ihl: the size it says
\* it has, which nobody checks.
Ip(next, frag, ihl) ==
    [kind |-> "ip", next |-> next, frag |-> frag, ihl |-> ihl, words |-> IF ihl < 5 THEN 5 ELSE ihl]
Ipv6(next) == [kind |-> "ipv6", next |-> next, frag |-> FALSE, words |-> 10]
Vlan(next) == [kind |-> "vlan", next |-> next, frag |-> FALSE, words |-> 1]
Pppoe(next) == [kind |-> "pppoe", next |-> next, frag |-> FALSE, words |-> 2]
Options == {"csum", "key", "seq"}
Gre(flags, next) ==
    [kind |-> "gre", next |-> next, frag |-> FALSE, flags |-> flags,
     words |-> 1 + Len(SelectSeq(<<"csum", "key", "seq">>, LAMBDA o : o \in flags))]
Ports(words) == [kind |-> "ports", next |-> "none", frag |-> FALSE, words |-> words]

\* The offset, in words, of the k-th header, and of the end of the packet.
Start(hdrs, k) == FoldLeft(LAMBDA n, h : n + h.words, 0, SubSeq(hdrs, 1, k - 1))

\* skb_header_pointer: nothing behind the end; what is read at the wrong place
\* is Garbage.  The result is the index of the header.
Garbage == -1
Missing == 0
skb_header_pointer(pkt, nhoff, words, kind) ==
    IF nhoff + words > pkt.len THEN Missing
    ELSE LET at == {k \in DOMAIN pkt.hdrs : Start(pkt.hdrs, k) = nhoff}
         IN IF \E k \in at : pkt.hdrs[k].kind = kind THEN CHOOSE k \in at : TRUE
            ELSE Garbage

\* proto_ports_offset, for the protocols told apart here.
HasPorts == {"TCP", "AH"}
proto_ports_offset(ip_proto) == IF ip_proto = "AH" THEN 1 ELSE 0

\* The keys are filled in as headers are met, and stay when the packet ends
\* early.  addrs and ports: the headers they are taken from.  Once a header was
\* read at the wrong place anything may come of it: the model stops there.
Ended(addrs) == [ok |-> FALSE, addrs |-> addrs, ip_proto |-> "none", ports |-> 0]
ReadsGarbage == Ended(Garbage)
Endless == -2
Loops == Ended(Endless)

Keys(pkt, ip_proto, addrs, nhoff) ==
    [ok |-> TRUE, addrs |-> addrs, ip_proto |-> ip_proto,
     ports |-> IF ip_proto \in HasPorts
               THEN LET poff == proto_ports_offset(ip_proto)
                    IN IF nhoff + poff + 1 > pkt.len THEN 0 ELSE nhoff + poff
               ELSE 0]

RECURSIVE Again(_, _, _, _)

GreBehind(pkt, ip_proto, addrs, nhoff) ==
    LET g == skb_header_pointer(pkt, nhoff, 1, "gre")
    IN CASE g = Missing -> Ended(addrs)
         [] g = Garbage -> ReadsGarbage
         [] OTHER -> LET h == pkt.hdrs[g]
                     IN IF h.flags \cap {"version", "routing"} = {}
                        THEN Again(pkt, h.next, addrs, nhoff + 1
                              + (IF "csum" \in h.flags THEN 1 ELSE 0)
                              + (IF "key" \in h.flags THEN 1 ELSE 0)
                              + (IF "seq" \in h.flags THEN 1 ELSE 0))
                        ELSE Keys(pkt, ip_proto, addrs, nhoff)

\* IPPROTO_IPIP goes on with the protocol of the frame, behind the header: at
\* the same header, and for ever, if that says its size is 0.
Ipip(pkt, proto, addrs, nhoff, moved) ==
    IF proto = "IP" /\ moved = 0 THEN Loops ELSE Again(pkt, proto, addrs, nhoff + moved)

\* The second switch.
Transport(pkt, proto, ip_proto, addrs, nhoff, moved) ==
    CASE ip_proto = "GRE"  -> GreBehind(pkt, ip_proto, addrs, nhoff + moved)
      [] ip_proto = "IPIP" -> Ipip(pkt, proto, addrs, nhoff, moved)
      [] OTHER             -> Keys(pkt, ip_proto, addrs, nhoff + moved)

\* The labels ip and ipv6; a fragment has no protocol.
Network(pkt, proto, kind, addrs, nhoff) ==
    LET k == skb_header_pointer(pkt, nhoff, IF kind = "ip" THEN 5 ELSE 10, kind)
    IN CASE k = Missing -> Ended(addrs)
         [] k = Garbage -> ReadsGarbage
         [] OTHER -> LET h == pkt.hdrs[k]
                     IN Transport(pkt, proto, IF h.frag THEN "none" ELSE h.next, k,
                                  nhoff, IF kind = "ip" THEN h.ihl ELSE 10)

\* The first switch.
Again(pkt, proto, addrs, nhoff) ==
    CASE proto = "IP"   -> Network(pkt, proto, "ip", addrs, nhoff)
      [] proto = "IPV6" -> Network(pkt, proto, "ipv6", addrs, nhoff)
      [] proto = "8021Q" ->
           LET k == skb_header_pointer(pkt, nhoff, 1, "vlan")
           IN IF k = Missing THEN Ended(addrs) ELSE IF k = Garbage THEN ReadsGarbage
              ELSE Again(pkt, pkt.hdrs[k].next, addrs, nhoff + 1)
      [] proto = "PPP_SES" ->
           LET k == skb_header_pointer(pkt, nhoff, 2, "pppoe")
               next == IF k > 0 THEN pkt.hdrs[k].next ELSE "none"
           IN CASE k = Missing -> Ended(addrs)
                [] k = Garbage -> ReadsGarbage
                [] next = "PPP_IP"   -> Network(pkt, next, "ip", addrs, nhoff + 2)
                [] next = "PPP_IPV6" -> Network(pkt, next, "ipv6", addrs, nhoff + 2)
                [] OTHER -> Ended(addrs)
      [] OTHER -> Ended(addrs)

skb_flow_dissect(pkt) == Again(pkt, pkt.protocol, 0, 0)

-----------------------------------------------------------------------------
\* The packets: each header is what the one before names.
Following(next) ==
    CASE next \in {"IP", "PPP_IP", "IPIP"} ->
           {Ip(n, f, 5) : n \in {"GRE", "IPIP"}, f \in BOOLEAN}
           \cup {Ip("TCP", f, 6) : f \in BOOLEAN} \cup {Ip("AH", FALSE, 5), Ip("other", FALSE, 15)}
           \cup {Ip("IPIP", FALSE, 0), Ip("IPIP", FALSE, 4), Ip("TCP", FALSE, 0), Ip("GRE", TRUE, 1)}
      [] next \in {"IPV6", "PPP_IPV6"} -> {Ipv6(n) : n \in {"TCP", "GRE", "IPIP", "other"}}
      [] next = "8021Q"   -> {Vlan(n) : n \in {"IP", "IPV6", "8021Q", "PPP_SES"}}
      [] next = "PPP_SES" -> {Pppoe(n) : n \in {"PPP_IP", "PPP_IPV6", "other"}}
      [] next = "GRE"     -> {Gre(f, n) : f \in {{}, {"csum", "seq"}, {"key"}, {"version"}},
                                          n \in {"IP", "IPV6", "other"}}
      [] next = "TCP"     -> {Ports(1)}
      [] next = "AH"      -> {Ports(2)}
      [] OTHER            -> {}

RECURSIVE Stacks(_, _)
Stacks(next, n) ==
    IF n = 0 \/ Following(next) = {} THEN {<< >>}
    ELSE UNION {{<<h>> \o s : s \in Stacks(h.next, n - 1)} : h \in Following(next)}

Packets(protocol) ==
    {[protocol |-> protocol, hdrs |-> s, len |-> Start(s, Len(s) + 1) - cut] :
        s \in Stacks(protocol, Depth), cut \in 0..1}

\* The tunnel the dissector does not follow: IP in anything but a frame of IP.
Unfollowed(hdrs) ==
    \E k \in 1..Len(hdrs) - 1 :
       /\ hdrs[k].next = "IPIP" /\ ~hdrs[k].frag
       /\ \/ hdrs[k].kind = "ipv6"
          \/ \E j \in 1..(k - 1) : /\ hdrs[j].kind = "pppoe"
                                   /\ \A i \in j + 1..k : hdrs[i].kind = "ip"

\* The headers whose ihl is too small, and those that make the parse start over.
Malformed(hdrs) == {k \in DOMAIN hdrs : hdrs[k].kind = "ip" /\ hdrs[k].ihl < 5}
Restarts(hdrs) == {k \in Malformed(hdrs) : hdrs[k].ihl = 0 /\ hdrs[k].next = "IPIP" /\ ~hdrs[k].frag}

\* Of a packet that is complete the keys are those of its innermost network
\* header: no tag, option, or tunnel makes them come from another place, but
\* for IP in IP behind IPv6 or PPPoE, which is looked for as what carries it
\* (flow_dissector.c:119), and for IP headers that say they are shorter than
\* they are (46).  A packet cut short leaves no ports, or fails and leaves the
\* addresses of the innermost header that is whole.  The parse ends, unless it
\* meets a header of no size before another IP header (125-126).
FlowsDissected(pkt) ==
    \A r \in {skb_flow_dissect(pkt)} :
    LET n == Len(pkt.hdrs)
        net(k) == pkt.hdrs[k].kind \in {"ip", "ipv6"}
        opaque(k) == \/ pkt.hdrs[k].frag
                     \/ pkt.hdrs[k].next \notin {"IPIP", "GRE"}
                     \/ k < n /\ pkt.hdrs[k].next = "GRE"
                        /\ "version" \in pkt.hdrs[k + 1].flags
        nets == {k \in 1..n : net(k) /\ opaque(k)}
        first == CHOOSE k \in nets : \A j \in nets : k <= j
        complete(k) == Start(pkt.hdrs, k + 1) <= pkt.len
    IN /\ r.addrs = Endless => Restarts(pkt.hdrs) # {}
       /\ ~Unfollowed(pkt.hdrs) /\ Malformed(pkt.hdrs) = {} =>
            /\ r.addrs # Garbage
            /\ r.ok => /\ nets # {} /\ r.addrs = first
                       /\ r.ip_proto = IF pkt.hdrs[first].frag THEN "none"
                                       ELSE pkt.hdrs[first].next
                       /\ r.ports # 0 => r.ports = Start(pkt.hdrs, n + 1) - 1
            /\ ~r.ok => /\ r.addrs # 0 => complete(r.addrs)
                        /\ \A k \in 1..n : net(k) /\ complete(k) /\ (nets = {} \/ k <= first) => k <= r.addrs
            /\ pkt.len = Start(pkt.hdrs, n + 1) /\ nets # {} =>
                 /\ r.ok
                 /\ ~pkt.hdrs[first].frag /\ n = first + 1 /\ pkt.hdrs[n].kind = "ports"
                      => r.ports # 0
=============================================================================
