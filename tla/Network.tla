------------------------------ MODULE Network ------------------------------
(***************************************************************************)
(* A host with lwIP's IP layer: the frames it receives, the calls of its   *)
(* applications and of the interface drivers, and the ARP timer, in any    *)
(* order.  Each action is one call into Ip or Etharp; NO_SYS: calls do not *)
(* overlap.  focus splits the instance into parts whose actions are        *)
(* explored together; the ports of TCP are a part of their own.            *)
(***************************************************************************)
EXTENDS Ip, TcpPorts

CONSTANTS Frames,       \* frames that may come in
          Hosts,        \* destinations of the applications
          Ports,        \* UDP ports of the applications
          Addrs,        \* addresses of the interfaces
          MaxCalls      \* part of the instance -> calls and frames of a behaviour

VARIABLES h,            \* the host
          learned,      \* history: address -> [mac, if] last claimed for it
          focus, calls
vars == <<h, learned, focus, calls, tp>>

Start == [ifs |-> [n \in Netifs |-> NewNetif], list |-> <<>>, def |-> None,
          arp |-> [i \in Slots |-> Empty], hint |-> 1,
          udp |-> [c \in Pcbs |-> NewPcb], ulist |-> <<>>,
          raw |-> [r \in Raws |-> NewRaw], rlist |-> <<>>,
          tcp |-> {}, groups |-> {}, live |-> 0, out |-> <<>>, got |-> <<>>, fail |-> {}]

(* The interfaces are configured, with the one of the smallest number as   *)
(* the default.                                                            *)
Configured ==
    [Start EXCEPT !.ifs = [n \in Netifs |-> [NewNetif EXCEPT !.added = TRUE, !.up = TRUE, !.link = TRUE,
                                             !.ip = 10 * n + 1, !.mask = 1, !.gw = 10 * n + 2]],
                  !.list = SetToSortSeq(Netifs, LAMBDA a, b : a < b), !.def = MinOf(Netifs)]

Init == /\ focus \in DOMAIN MaxCalls /\ PortsInit
        /\ h = IF focus = "netif" THEN Start ELSE Configured
        /\ learned = [a \in {} |-> None]
        /\ calls = MaxCalls[focus]

Failures == {{}, {"pbuf"}, {"memp"}}
Ready(fail) == [h EXCEPT !.fail = fail, !.out = <<>>, !.got = <<>>]
Becomes(r) == h' = [r EXCEPT !.fail = {}]
Call(foci) == focus \in foci /\ calls > 0 /\ calls' = calls - 1 /\ UNCHANGED focus

(* What a frame says of the address of its sender, as far as the cache     *)
(* listens to it.                                                          *)
Claim(n, f) ==
    LET ip == IF f.kind = "ARP" THEN f.arp.sip ELSE f.pkt.src
    IN  /\ f.kind \in {"ARP", "IP"}
        /\ f.kind = "ARP" => f.arp.ok
        /\ f.kind = "IP" => ip_addr_netcmp(ip, h.ifs[n].ip, h.ifs[n].mask)
        /\ ~ip4_addr_isbroadcast(h, ip, n) /\ ~ip_addr_ismulticast(ip)
Claimed(n, f) == IF f.kind = "ARP" THEN [ip |-> f.arp.sip, mac |-> f.arp.smac, if |-> n]
                 ELSE [ip |-> f.pkt.src, mac |-> f.smac, if |-> n]
Learn(n, f) == IF Claim(n, f)
               THEN LET c == Claimed(n, f)
                    IN  [a \in DOMAIN learned \cup {c.ip} |->
                            IF a = c.ip THEN [mac |-> c.mac, if |-> n] ELSE learned[a]]
               ELSE learned

-----------------------------------------------------------------------------
Input(n, f, fail, eats) ==
    /\ Call({f.part}) /\ h.ifs[n].up /\ h.ifs[n].link
    /\ Becomes(ethernet_input(Ready(fail), f, n, eats))
    /\ learned' = Learn(n, f)

Calls(foci, r) == Call(foci) /\ Becomes(r) /\ UNCHANGED learned

Tick == /\ \E i \in Slots : h.arp[i].state # "EMPTY"
        /\ Becomes(etharp_tmr(Ready({}))) /\ UNCHANGED <<learned, focus, calls>>

(* A segment of TCP: the caller keeps its pbuf.                            *)
Output(ip, fail) == Calls({"arp"}, ip_output(Ready(fail), Packet(AnyAddr, ip, "TCP", 0, 0)))
SendTo(c, ip, port, fail, room) == Calls({"udp"}, udp_sendto(Ready(fail), c, ip, port, room))
Send(c, room) == h.udp[c].conn /\ Calls({"udp"}, udp_send(Ready({}), c, room))
(* dhcp_check asks for an address without a packet to send.                *)
Query(n, ip) == h.ifs[n].up /\ Calls({"arp"}, etharp_query(Ready({}), n, ip, NoPacket))

(* A bound pcb is not bound to port 0 again.                               *)
Bind(c, ip, port)    == /\ port = 0 => h.udp[c].lport = 0
                        /\ Calls({"udp"}, udp_recv(udp_bind(Ready({}), c, ip, port).h, c))
Connect(c, ip, port) == Calls({"udp"}, udp_connect(Ready({}), c, ip, port))
Disconnect(c)        == h.udp[c].conn /\ Calls({"udp"}, udp_disconnect(Ready({}), c))
RemovePcb(c)         == c \in ToSet(h.ulist) /\ Calls({"udp"}, udp_remove(Ready({}), c))

RawNew(r, proto) == r \notin ToSet(h.rlist) /\ Calls({"raw"}, raw_new(Ready({}), r, proto))
RawBind(r, ip)   == r \in ToSet(h.rlist) /\ Calls({"raw"}, raw_connect(raw_bind(Ready({}), r, ip), r, ip))
RawRemove(r)     == r \in ToSet(h.rlist) /\ Calls({"raw"}, raw_remove(Ready({}), r))
RawSendTo(r, ip, fail, room) ==
    r \in ToSet(h.rlist) /\ Calls({"raw"}, raw_sendto(Ready(fail), r, ip, room))
RawSend(r) == r \in ToSet(h.rlist) /\ h.raw[r].rip # AnyAddr /\ Calls({"raw"}, raw_send(Ready({}), r, TRUE))

Add(n, ip)      == ~h.ifs[n].added /\ Calls({"netif"}, netif_add(Ready({}), n, ip, 1, AnyAddr))
RemoveIf(n)     == h.ifs[n].added /\ Calls({"netif"}, netif_remove(Ready({}), n))
Up(n, fail)     == h.ifs[n].added /\ Calls({"netif"}, netif_set_up(Ready(fail), n))
Down(n)         == h.ifs[n].added /\ Calls({"netif", "arp"}, netif_set_down(Ready({}), n))
LinkUp(n, fail) == h.ifs[n].added /\ Calls({"netif"}, netif_set_link_up(Ready(fail), n))
LinkDown(n)     == h.ifs[n].added /\ Calls({"netif"}, netif_set_link_down(Ready({}), n))
SetAddr(n, ip)  == h.ifs[n].added /\ Calls({"netif"}, netif_set_addr(Ready({}), n, ip, IF ip = AnyAddr THEN 0 ELSE 1, AnyAddr))
TcpOpen(n, active) == h.ifs[n].up /\ h.ifs[n].ip # AnyAddr
                      /\ Calls({"netif"}, [Ready({}) EXCEPT !.tcp = @ \cup {[lip |-> h.ifs[n].ip, active |-> active]}])
SetDefault(n)   == h.ifs[n].added /\ Calls({"netif"}, netif_set_default(Ready({}), n))

IpNext ==
    \/ Tick
    \/ \E n \in Netifs, f \in Frames, fail \in Failures, eats \in SUBSET ToSet(h.rlist) : Input(n, f, fail, eats)
    \/ \E n \in Netifs, fail \in Failures : Up(n, fail) \/ LinkUp(n, fail)
    \/ \E n \in Netifs : RemoveIf(n) \/ Down(n) \/ LinkDown(n) \/ SetDefault(n) \/ \E b \in BOOLEAN : TcpOpen(n, b)
    \/ \E n \in Netifs, ip \in Addrs : Add(n, ip) \/ SetAddr(n, ip)
    \/ \E n \in Netifs, ip \in Hosts : Query(n, ip)
    \/ \E ip \in Hosts, fail \in Failures : Output(ip, fail)
    \/ \E c \in Pcbs, ip \in Hosts, port \in Ports, fail \in {{}, {"pbuf"}}, room \in BOOLEAN :
            SendTo(c, ip, port, fail, room)
    \/ \E c \in Pcbs, ip \in Addrs, port \in Ports \cup {0} : Bind(c, ip, port)
    \/ \E c \in Pcbs, ip \in Hosts, port \in Ports : Connect(c, ip, port)
    \/ \E c \in Pcbs : Disconnect(c) \/ RemovePcb(c) \/ \E room \in BOOLEAN : Send(c, room)
    \/ \E r \in Raws : \/ \E proto \in {"UDP", "ICMP"} : RawNew(r, proto)
                       \/ \E ip \in Addrs : RawBind(r, ip)
                       \/ \E ip \in Hosts, fail \in Failures, room \in BOOLEAN : RawSendTo(r, ip, fail, room)
                       \/ RawRemove(r) \/ RawSend(r)

Next == \/ focus # "tcp" /\ IpNext /\ UNCHANGED tp
        \/ focus = "tcp" /\ PortsNext /\ UNCHANGED <<h, learned, focus, calls>>

(* The ARP timer runs.                                                     *)
Spec == Init /\ [][Next]_vars /\ WF_vars(Tick /\ UNCHANGED tp)

-----------------------------------------------------------------------------
(* Type invariant.  No entry of the ARP cache outlives its age: etharp_tmr *)
(* removes it in the tick that makes it too old.                           *)
TypeOK == /\ \A i \in Slots : /\ h.arp[i].state \in {"EMPTY", "PENDING", "STABLE"}
                              /\ h.arp[i].state = "EMPTY" => h.arp[i] = Empty
                              /\ h.arp[i].ctime \in 0..ARP_MAXAGE - 1
          /\ h.fail = {} /\ h.hint \in Slots /\ h.def \in Netifs \cup {None}

Waiting == LET f[i \in 0..Cardinality(Slots)] == IF i = 0 THEN 0 ELSE f[i - 1] + Len(h.arp[i].q)
           IN  f[Cardinality(Slots)]

(* The waiting packets: no more and no fewer pbufs are allocated between   *)
(* two calls, whichever path the packet took and whatever allocation       *)
(* failed.                                                                 *)
BuffersBalanced == h.live = Waiting

(* The cache has one entry for an address, and only a pending one holds    *)
(* packets: nothing is stuck behind a resolved address.                    *)
OneEntryPerAddress ==
    /\ \A i, j \in Used(h) : h.arp[i].ip = h.arp[j].ip => i = j
    /\ \A i \in Slots : h.arp[i].q # <<>> => h.arp[i].state = "PENDING"

(* A unicast frame goes to the hardware address that its next hop claimed  *)
(* last, also through etharp_cached_entry, which names a slot whose entry  *)
(* may have been replaced.                                                 *)
FreshMac == \A k \in DOMAIN h.out :
    LET f == h.out[k] IN f.hop # None => f.hop \in DOMAIN learned /\ learned[f.hop].mac = f.mac

(* A packet does not wait for ever for an address: it is sent or dropped.  *)
QueueDrains == \A i \in Slots : h.arp[i].q # <<>> ~> h.arp[i].q = <<>>

(* Two linked pcbs never have one port on overlapping addresses.           *)
PortsApart == \A c, d \in ToSet(h.ulist) :
    c # d /\ h.udp[c].lport = h.udp[d].lport
        => h.udp[c].lip # AnyAddr /\ h.udp[d].lip # AnyAddr /\ h.udp[c].lip # h.udp[d].lip

(* Moving a pcb to the front loses and doubles none: the list holds the    *)
(* pcbs that have a port, each once.                                       *)
UdpListIntact == /\ \A i, j \in DOMAIN h.ulist : h.ulist[i] = h.ulist[j] => i = j
                 /\ ToSet(h.ulist) = {c \in Pcbs : h.udp[c].lport # 0}

(* A datagram of a connected peer goes to no pcb that is not connected.    *)
ConnectedFirst == \A k \in DOMAIN h.got :
    LET p == h.got[k].pkt
        c == h.got[k].pcb
    IN  c \in Pcbs /\ ~PeerMatch(h, c, p)
            => /\ ~h.udp[c].conn
               /\ \A d \in ToSet(h.ulist) : h.udp[d].lport = p.dport /\ h.udp[d].lip \in {AnyAddr, p.dst}
                                                => ~PeerMatch(h, d, p)

(* The ARP cache and the packets that wait in it: none is lost or freed    *)
(* twice, and what leaves goes to the right station (etharp.c).            *)
ArpSound == TypeOK /\ BuffersBalanced /\ OneEntryPerAddress /\ FreshMac

(* Ports and lists of the control blocks: a port has one owner per address *)
(* and a datagram goes to the one it is for (udp.c, tcp.c).                *)
PcbsSound == PortsApart /\ UdpListIntact /\ ConnectedFirst /\ TcpPortsApart
=============================================================================
