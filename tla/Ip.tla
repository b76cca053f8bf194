--------------------------------- MODULE Ip ---------------------------------
(***************************************************************************)
(* The interfaces and the IP layer of lwIP: netif.c, ip.c, icmp.c, raw.c   *)
(* and udp.c over the ARP cache of Etharp.  To the host's record it adds   *)
(*   list   netif_list, and def, netif_default (None: none)                *)
(*   udp    the UDP pcbs, ulist the linked ones in list order (udp_pcbs)   *)
(*   raw    the raw pcbs, rlist the linked ones (raw_pcbs)                 *)
(*   tcp    the TCP connections and listeners [lip, active]                *)
(*   groups the multicast groups <<interface, group>> that IGMP has joined *)
(*   got    what the step has handed to receive callbacks                  *)
(* A received packet is                                                    *)
(*   [src, dst, proto, sport, dport, type, ok, frag, room]                 *)
(* ok: version, lengths and checksums are right; frag: it is a fragment;   *)
(* room: there is space in front of it for other headers.                  *)
(***************************************************************************)
EXTENDS Etharp, SequencesExt

CONSTANTS Netifs, Pcbs, Raws,   \* interfaces and pcbs of the instance
          PortRange             \* UDP_LOCAL_PORT_RANGE_START .. END

(* The interfaces are numbered from 1: 0 stands for a null netif pointer.  *)
ASSUME NetifNumbers == Netifs \subseteq Nat \ {None} /\ Netifs # {}

DHCP_CLIENT_PORT == 68
DHCP_SERVER_PORT == 67

NewNetif == [added |-> FALSE, up |-> FALSE, link |-> FALSE, ip |-> AnyAddr, mask |-> 0, gw |-> AnyAddr, dhcp |-> None]
NewPcb == [lip |-> AnyAddr, lport |-> 0, rip |-> AnyAddr, rport |-> 0, conn |-> FALSE, recv |-> FALSE]
NewRaw == [proto |-> "NONE", lip |-> AnyAddr, rip |-> AnyAddr]

Unlink(s, x) == SelectSeq(s, LAMBDA y : y # x)
MoveToFront(s, x) == <<x>> \o Unlink(s, x)

-----------------------------------------------------------------------------
(* netif.c.  An interface announces its address when it is both up and     *)
(* linked.                                                                 *)

etharp_gratuitous(h, n) == etharp_request(h, n, h.ifs[n].ip)

netif_set_up(h, n) ==
    IF h.ifs[n].up THEN h
    ELSE LET h1 == [h EXCEPT !.ifs[n].up = TRUE]
         IN  IF h.ifs[n].link THEN etharp_gratuitous(h1, n) ELSE h1
netif_set_down(h, n) ==
    IF h.ifs[n].up THEN etharp_cleanup_netif([h EXCEPT !.ifs[n].up = FALSE], n) ELSE h
netif_set_link_up(h, n) ==
    IF h.ifs[n].link THEN h
    ELSE LET h1 == [h EXCEPT !.ifs[n].link = TRUE]
         IN  IF h.ifs[n].up THEN etharp_gratuitous(h1, n) ELSE h1
netif_set_link_down(h, n) == [h EXCEPT !.ifs[n].link = FALSE]
(* A new address aborts the connections of the old one; listeners move.    *)
netif_set_ipaddr(h, n, ip) ==
    LET old == h.ifs[n].ip
        kept == {t \in h.tcp : t.lip # old \/ ~t.active}
        moved(t) == IF t.lip = old /\ old # AnyAddr /\ ~t.active THEN [t EXCEPT !.lip = ip] ELSE t
    IN  IF ip = old THEN h
        ELSE [h EXCEPT !.tcp = {moved(t) : t \in kept}, !.ifs[n].ip = ip]
netif_set_netmask(h, n, mask) == [h EXCEPT !.ifs[n].mask = mask]
netif_set_gw(h, n, gw) == [h EXCEPT !.ifs[n].gw = gw]
netif_set_addr(h, n, ip, mask, gw) == netif_set_gw(netif_set_netmask(netif_set_ipaddr(h, n, ip), n, mask), n, gw)
netif_add(h, n, ip, mask, gw) ==
    LET zero == [h EXCEPT !.ifs[n] = [NewNetif EXCEPT !.added = TRUE]]
    IN  [netif_set_addr(zero, n, ip, mask, gw) EXCEPT !.list = <<n>> \o @]
netif_set_default(h, n) == [h EXCEPT !.def = n]
netif_remove(h, n) ==
    LET h1 == [netif_set_down(h, n) EXCEPT !.list = Unlink(@, n), !.ifs[n].added = FALSE]
    IN  IF h.def = n THEN netif_set_default(h1, None) ELSE h1

-----------------------------------------------------------------------------
(* ip.c: output.                                                           *)

(* The first interface of the list that is up and on whose network the     *)
(* destination is, or that is not the default one; else the default.       *)
RoutesVia(h, n, dst) ==
    /\ h.ifs[n].up
    /\ \/ ip_addr_netcmp(dst, h.ifs[n].ip, h.ifs[n].mask)
       \/ ~ip4_addr_isbroadcast(h, dst, n) /\ n # h.def
ip_route(h, dst) ==
    LET via == SelectSeq(h.list, LAMBDA n : RoutesVia(h, n, dst))
    IN  IF via # <<>> THEN Head(via)
        ELSE IF h.def # None /\ h.ifs[h.def].up THEN h.def ELSE None

Packet(src, dst, proto, sport, dport) ==
    [src |-> src, dst |-> dst, proto |-> proto, sport |-> sport, dport |-> dport]

ip_output_if(h, p, n) ==
    etharp_output(h, n, [p EXCEPT !.src = IF @ = AnyAddr THEN h.ifs[n].ip ELSE @], p.dst)
ip_output(h, p) == LET n == ip_route(h, p.dst) IN IF n = None THEN h ELSE ip_output_if(h, p, n)

-----------------------------------------------------------------------------
(* icmp.c.  An echo goes back in its own pbuf, or in a copy when there is  *)
(* no room for the headers; the reply of another interface's address still *)
(* leaves where the request came in.                                       *)

icmp_send_response(h, p) ==
    IF "pbuf" \in h.fail THEN h
    ELSE pbuf_free(ip_output([h EXCEPT !.live = @ + 1], Packet(AnyAddr, p.src, "ICMP_DUR", 0, 0)))

EchoReply(h, p, n) == ip_output_if(h, Packet(p.dst, p.src, "ICMP_ER", 0, 0), n)
CopyForReply(h) == pbuf_free([h EXCEPT !.live = @ + 1])

icmp_input(h, p, n) ==
    IF p.type = "ECHO" /\ p.ok /\ ~ip_addr_ismulticast(p.dst) /\ ~ip4_addr_isbroadcast(h, p.dst, n)
       /\ (p.room \/ "pbuf" \notin h.fail)
    THEN pbuf_free(EchoReply(IF p.room THEN h ELSE CopyForReply(h), p, n))
    ELSE pbuf_free(h)

-----------------------------------------------------------------------------
(* raw.c.  Every pcb of the protocol is asked until one eats the packet;   *)
(* that one goes to the front.  eats: the callbacks that take the packet.  *)

RawMatches(h, r, p) == h.raw[r].proto = p.proto /\ h.raw[r].lip \in {AnyAddr, p.dst}
raw_input(h, p, eats) ==
    LET takers == SelectSeq(h.rlist, LAMBDA r : RawMatches(h, r, p) /\ r \in eats)
    IN  IF takers = <<>> THEN [h |-> h, eaten |-> FALSE]
        ELSE [h |-> pbuf_free([h EXCEPT !.rlist = MoveToFront(@, Head(takers)),
                                        !.got = Append(@, [pcb |-> Head(takers), pkt |-> p])]),
              eaten |-> TRUE]

raw_new(h, r, proto) == [h EXCEPT !.raw[r] = [NewRaw EXCEPT !.proto = proto], !.rlist = <<r>> \o @]
raw_bind(h, r, ip) == [h EXCEPT !.raw[r].lip = ip]
raw_connect(h, r, ip) == [h EXCEPT !.raw[r].rip = ip]
raw_remove(h, r) == [h EXCEPT !.rlist = Unlink(@, r), !.raw[r] = NewRaw]

(* The caller keeps p; a header that does not fit goes into a pbuf of its  *)
(* own in front of it.                                                     *)
WithHeader(h, room) == IF room THEN h ELSE [h EXCEPT !.live = @ + 1]
WithoutHeader(h, room) == IF room THEN h ELSE pbuf_free(h)

raw_sendto(h, r, ip, room) ==
    LET n == ip_route(h, ip)
        h1 == WithHeader(h, room)
    IN  IF ~room /\ "pbuf" \in h.fail THEN h
        ELSE IF n = None THEN WithoutHeader(h1, room)
        ELSE WithoutHeader(ip_output_if(h1, Packet(h.raw[r].lip, ip, h.raw[r].proto, 0, 0), n), room)
raw_send(h, r, room) == raw_sendto(h, r, h.raw[r].rip, room)

-----------------------------------------------------------------------------
(* udp.c.                                                                  *)

LocalMatch(h, c, p, n) ==
    /\ h.udp[c].lport = p.dport
    /\ \/ h.udp[c].lip \in {AnyAddr, p.dst}
       \/ ip_addr_ismulticast(p.dst) \/ ip4_addr_isbroadcast(h, p.dst, n)
PeerMatch(h, c, p) == h.udp[c].rport = p.sport /\ h.udp[c].rip \in {AnyAddr, p.src}

(* The pcb that gets a datagram: DHCP's has a port of its own; else the    *)
(* first that matches the peer, else the first that is not connected.      *)
PcbFor_FirstLocal(h, p, n) ==
    LET s == SelectSeq(h.ulist, LAMBDA c : LocalMatch(h, c, p, n))
    IN  IF s = <<>> THEN None ELSE Head(s)
PcbFor(h, p, n) ==
    LET dhcp  == h.ifs[n].dhcp
        local == SelectSeq(h.ulist, LAMBDA c : LocalMatch(h, c, p, n))
        full  == SelectSeq(local, LAMBDA c : PeerMatch(h, c, p))
        open  == SelectSeq(local, LAMBDA c : ~h.udp[c].conn)
    IN  IF p.dport = DHCP_CLIENT_PORT
        THEN IF p.sport = DHCP_SERVER_PORT /\ dhcp # None /\ h.udp[dhcp].rip \in {AnyAddr, p.src} THEN dhcp ELSE None
        ELSE IF full # <<>> THEN Head(full)
        ELSE IF open # <<>> THEN Head(open) ELSE None

Reordered_Loses(h, c, p) ==
    IF p.dport # DHCP_CLIENT_PORT /\ c # None /\ PeerMatch(h, c, p) /\ Head(h.ulist) # c
    THEN [h EXCEPT !.ulist = <<c>> \o SelectSeq(Tail(@), LAMBDA d : d # c)] ELSE h
(* Only a pcb that matches the peer moves to the front.                    *)
Reordered(h, c, p) ==
    IF p.dport # DHCP_CLIENT_PORT /\ c # None /\ PeerMatch(h, c, p)
    THEN [h EXCEPT !.ulist = MoveToFront(@, c)] ELSE h

(* No pcb: the sender of a unicast to the own address hears of it.         *)
Deliver(h, c, p, n) ==
    IF c # None
    THEN IF h.udp[c].recv THEN [h EXCEPT !.got = Append(@, [pcb |-> c, pkt |-> p])] ELSE h
    ELSE IF p.dst = h.ifs[n].ip /\ ~ip4_addr_isbroadcast(h, p.dst, n) /\ ~ip_addr_ismulticast(p.dst)
    THEN icmp_send_response(h, p) ELSE h
udp_input(h, p, n) ==
    LET c == PcbFor(h, p, n) IN pbuf_free(Deliver(Reordered(h, c, p), c, p, n))

(* udp_bind: ERR_USE when another linked pcb has the port on an            *)
(* overlapping address, or when the range is used up.                      *)
InUse_SameAddress(h, c, ip, port) == \E d \in ToSet(h.ulist) \ {c} : h.udp[d].lport = port /\ h.udp[d].lip = ip
InUse(h, c, ip, port) ==
    \E d \in ToSet(h.ulist) \ {c} :
        /\ h.udp[d].lport = port
        /\ h.udp[d].lip = AnyAddr \/ ip = AnyAddr \/ h.udp[d].lip = ip
FreePorts(h) == PortRange \ {h.udp[d].lport : d \in ToSet(h.ulist)}
(* The last port of the range only ends the search, it is not given.       *)
EphemeralPort(h) ==
    LET last == CHOOSE q \in PortRange : \A r \in PortRange : r <= q
    IN  IF FreePorts(h) \ {last} # {} THEN MinOf(FreePorts(h) \ {last}) ELSE 0
Linked(h, c) == IF c \in ToSet(h.ulist) THEN h ELSE [h EXCEPT !.ulist = <<c>> \o @]
udp_bind(h, c, ip, port) ==
    LET q == IF port = 0 THEN EphemeralPort(h) ELSE port
    IN  IF InUse(h, c, ip, port) THEN [h |-> h, err |-> "USE"]
        ELSE IF q = 0 THEN [h |-> [h EXCEPT !.udp[c].lip = ip], err |-> "USE"]
        ELSE [h |-> Linked([h EXCEPT !.udp[c].lip = ip, !.udp[c].lport = q], c), err |-> "OK"]

(* A pcb without a port is bound first.                                    *)
Bound(h, c) == IF h.udp[c].lport # 0 THEN [h |-> h, err |-> "OK"] ELSE udp_bind(h, c, h.udp[c].lip, 0)

udp_connect(h, c, ip, port) ==
    LET b == Bound(h, c)
    IN  IF b.err # "OK" THEN b.h
        ELSE Linked([b.h EXCEPT !.udp[c].rip = ip, !.udp[c].rport = port, !.udp[c].conn = TRUE], c)
udp_disconnect(h, c) == [h EXCEPT !.udp[c].rip = AnyAddr, !.udp[c].rport = 0, !.udp[c].conn = FALSE]
udp_recv(h, c) == [h EXCEPT !.udp[c].recv = TRUE]
udp_remove(h, c) == [h EXCEPT !.ulist = Unlink(@, c), !.udp[c] = NewPcb]

udp_sendto_if(h, c, ip, port, n, room) ==
    LET b  == Bound(h, c)
        l  == b.h.udp[c].lip
        h1 == WithHeader(b.h, room)
    IN  IF b.err # "OK" \/ (~room /\ "pbuf" \in h.fail) THEN b.h
        ELSE IF l \notin {AnyAddr, h.ifs[n].ip} THEN WithoutHeader(h1, room)
        ELSE WithoutHeader(ip_output_if(h1, Packet(l, ip, "UDP", b.h.udp[c].lport, port), n), room)
udp_sendto(h, c, ip, port, room) ==
    LET n == ip_route(h, IF ip_addr_ismulticast(ip) THEN AnyAddr ELSE ip)
    IN  IF n = None THEN h ELSE udp_sendto_if(h, c, ip, port, n, room)
udp_send(h, c, room) == udp_sendto(h, c, h.udp[c].rip, h.udp[c].rport, room)

-----------------------------------------------------------------------------
(* ip.c: input.                                                            *)

(* The interface a packet is for: the one it came in by, else the first of *)
(* the list that has its destination.                                      *)
Accepts(h, n, p) ==
    /\ h.ifs[n].up /\ h.ifs[n].ip # AnyAddr
    /\ p.dst = h.ifs[n].ip \/ ip4_addr_isbroadcast(h, p.dst, n)
TargetOf(h, n, p) ==
    LET s == SelectSeq(<<n>> \o Unlink(h.list, n), LAMBDA m : Accepts(h, m, p))
    IN  IF ip_addr_ismulticast(p.dst) THEN IF <<n, p.dst>> \in h.groups THEN n ELSE None
        ELSE IF s # <<>> THEN Head(s) ELSE None

(* A DHCP answer is taken without an address of its own.                   *)
ForDhcp(p) == p.proto = "UDP" /\ p.dport = DHCP_CLIENT_PORT
BadSource(h, n, p) == p.src # AnyAddr /\ (ip4_addr_isbroadcast(h, p.src, n) \/ ip_addr_ismulticast(p.src))

(* TCP and IGMP take the packet in any case; what they do with it is the   *)
(* subject of Tcp and Igmp.                                                *)
Upper(h, p, n) ==
    CASE p.proto = "UDP"  -> udp_input(h, p, n)
      [] p.proto = "ICMP" -> icmp_input(h, p, n)
      [] p.proto \in {"TCP", "IGMP"} -> pbuf_free(h)
      [] OTHER -> pbuf_free(IF ip4_addr_isbroadcast(h, p.dst, n) \/ ip_addr_ismulticast(p.dst) THEN h
                            ELSE icmp_send_response(h, p))

Dropped(h, p, n) ==
    LET target == TargetOf(h, n, p)
        dhcp   == target = None /\ ForDhcp(p)
    IN  ~p.ok \/ (~dhcp /\ BadSource(h, n, p)) \/ (target = None /\ ~dhcp) \/ p.frag
ip_input(h, p, n, eats) ==
    LET r == raw_input(h, p, eats)
    IN  IF Dropped(h, p, n) THEN pbuf_free(h) ELSE IF r.eaten THEN r.h ELSE Upper(r.h, p, n)

ethernet_input(h, f, n, eats) ==
    LET h1 == [h EXCEPT !.live = @ + 1]
    IN  CASE f.kind = "IP"  -> ip_input(etharp_ip_input(h1, n, f.pkt, f.smac), f.pkt, n, eats)
          [] f.kind = "ARP" -> etharp_arp_input(h1, n, f.arp)
          [] OTHER -> pbuf_free(h1)
=============================================================================
