------------------------------- MODULE Etharp -------------------------------
(***************************************************************************)
(* lwIP's ARP cache (lwip/netif/etharp.c) with the address tests of        *)
(* ip_addr.h and ip_addr.c.  A function is an operator from the host's     *)
(* record to the host's record; of the record this module uses             *)
(*   ifs    the interfaces: [up, ip, mask, gw, ...]                        *)
(*   arp    the table; a pending entry holds a queue of packets            *)
(*   hint   etharp_cached_entry                                            *)
(*   live   pbufs that are allocated: +1 for an allocation, -1 for a free  *)
(*   out    what the step has sent                                         *)
(*   fail   which allocators refuse this step: "pbuf", "memp"              *)
(* An address is a number with two digits, the network and the host: 0 is  *)
(* 0.0.0.0, 99 is 255.255.255.255, networks 8 and 9 are the link local and *)
(* the multicast ones, and host 9 is the broadcast address of its network. *)
(***************************************************************************)
EXTENDS Integers, Sequences, FiniteSets

CONSTANTS Slots,            \* 1..ARP_TABLE_SIZE
          ARP_MAXAGE, ARP_MAXPENDING

ASSUME ArpSizes == /\ IsFiniteSet(Slots) /\ Slots # {} /\ Slots = 1..Cardinality(Slots)
                   /\ ARP_MAXPENDING \in Nat \ {0} /\ ARP_MAXAGE \in Nat /\ ARP_MAXAGE >= ARP_MAXPENDING

AnyAddr == 0
AllOnes == 99
Bcast == "ethbroadcast"
None == 0
NoPacket == [none |-> TRUE]

ip_addr_netcmp(a, b, mask) == mask = 0 \/ a \div 10 = b \div 10
ip_addr_ismulticast(a) == a \div 10 = 9 /\ a # AllOnes
ip_addr_islinklocal(a) == a \div 10 = 8

(* 0.0.0.0 counts as a broadcast address, the own address never does.      *)
ip4_addr_isbroadcast(h, a, n) ==
    \/ a \in {AnyAddr, AllOnes}
    \/ /\ a # h.ifs[n].ip
       /\ h.ifs[n].mask # 0 /\ a \div 10 = h.ifs[n].ip \div 10 /\ a % 10 = 9

Empty == [state |-> "EMPTY", ip |-> 0, mac |-> "none", ctime |-> 0, q |-> <<>>]

Transmit(h, n, mac, hop, p) == [h EXCEPT !.out = Append(@, [if |-> n, mac |-> mac, hop |-> hop, pkt |-> p])]
pbuf_free(h) == [h EXCEPT !.live = @ - 1]

-----------------------------------------------------------------------------
(* The table.                                                              *)

free_entry_KeepsQueue(h, i) == [h EXCEPT !.arp[i] = Empty]
free_entry(h, i) == [h EXCEPT !.live = @ - Len(h.arp[i].q), !.arp[i] = Empty]

Expired_Late(e) == \/ e.ctime >= ARP_MAXAGE
                   \/ e.state = "PENDING" /\ e.ctime + 1 >= ARP_MAXPENDING
Expired(e) == \/ e.ctime + 1 >= ARP_MAXAGE
              \/ e.state = "PENDING" /\ e.ctime + 1 >= ARP_MAXPENDING
Age_StableOnly(h, i) ==
    IF h.arp[i].state # "STABLE" THEN h
    ELSE IF Expired(h.arp[i]) THEN free_entry(h, i) ELSE [h EXCEPT !.arp[i].ctime = @ + 1]
Age(h, i) == IF h.arp[i].state = "EMPTY" THEN h
             ELSE IF Expired(h.arp[i]) THEN free_entry(h, i)
             ELSE [h EXCEPT !.arp[i].ctime = @ + 1]
etharp_tmr(h) ==
    LET f[i \in 0..Cardinality(Slots)] == IF i = 0 THEN h ELSE Age(f[i - 1], i)
    IN  f[Cardinality(Slots)]

Used(h) == {i \in Slots : h.arp[i].state # "EMPTY"}
MinOf(S) == CHOOSE i \in S : \A j \in S : i <= j

(* The oldest entry of S, the last one of equals.                          *)
OldestOf(h, S) ==
    CHOOSE i \in S : \A j \in S : \/ h.arp[j].ctime < h.arp[i].ctime
                                  \/ h.arp[j].ctime = h.arp[i].ctime /\ j <= i

(* Which entry gives way: a stable one, then a pending one that holds no   *)
(* packets, then one that does.                                            *)
Recycled(h) ==
    LET stable == {i \in Slots : h.arp[i].state = "STABLE"}
        idle   == {i \in Slots : h.arp[i].state = "PENDING" /\ h.arp[i].q = <<>>}
    IN  OldestOf(h, IF stable # {} THEN stable ELSE IF idle # {} THEN idle ELSE Used(h))

(* find_entry: the entry of an address or, with TRY_HARD, a slot for one;  *)
(* i = None stands for ERR_MEM.                                            *)
FoundAt_BeforeGap(h, ip) ==
    {i \in Used(h) : h.arp[i].ip = ip /\ \A j \in Slots : j < i => j \in Used(h)}
FoundAt(h, ip) == {i \in Used(h) : h.arp[i].ip = ip}
find_entry(h, ip, flag) ==
    LET free == Slots \ Used(h)
        i    == IF free # {} THEN MinOf(free) ELSE Recycled(h)
        h1   == IF free # {} THEN h ELSE free_entry(h, i)
    IN  IF FoundAt(h, ip) # {} THEN [h |-> h, i |-> MinOf(FoundAt(h, ip))]
        ELSE IF flag = "FIND_ONLY" THEN [h |-> h, i |-> None]
        ELSE [h |-> [h1 EXCEPT !.arp[i].ip = ip, !.arp[i].ctime = 0], i |-> i]

etharp_send_ip(h, n, mac, hop, p) == Transmit(h, n, mac, hop, p)

(* The packets that waited leave in their order; each is freed once sent.  *)
SendQueue(h, n, i, mac) ==
    LET e == h.arp[i]
        f[k \in 0..Len(e.q)] ==
            IF k = 0 THEN [h EXCEPT !.arp[i].q = <<>>]
            ELSE pbuf_free(etharp_send_ip(f[k - 1], n, mac, e.ip, e.q[k]))
    IN  f[Len(e.q)]

update_arp_entry(h, n, ip, mac, flag) ==
    LET r == find_entry(h, ip, flag)
    IN  IF ip = AnyAddr \/ ip4_addr_isbroadcast(h, ip, n) \/ ip_addr_ismulticast(ip) \/ r.i = None
        THEN h
        ELSE SendQueue([r.h EXCEPT !.arp[r.i].state = "STABLE", !.arp[r.i].mac = mac, !.arp[r.i].ctime = 0],
                       n, r.i, mac)

(* The entries of an interface are removed: those whose netif member is    *)
(* this interface.  The member is written only with LWIP_SNMP, which is    *)
(* off: it is NULL in every entry.                                         *)
EntryNetif(e) == None
etharp_cleanup_netif(h, n) ==
    LET f[i \in 0..Cardinality(Slots)] ==
            IF i = 0 THEN h
            ELSE IF h.arp[i].state # "EMPTY" /\ EntryNetif(h.arp[i]) = n THEN free_entry(f[i - 1], i)
            ELSE f[i - 1]
    IN  f[Cardinality(Slots)]

-----------------------------------------------------------------------------
(* Input.                                                                  *)

(* ETHARP_TRUST_IP_MAC: the sender of an IP packet refreshes its entry.    *)
etharp_ip_input(h, n, p, mac) ==
    IF ip_addr_netcmp(p.src, h.ifs[n].ip, h.ifs[n].mask)
    THEN update_arp_entry(h, n, p.src, mac, "FIND_ONLY") ELSE h

(* A request for the own address makes an entry for its sender, whatever   *)
(* has to give way; the answer is the request's own pbuf.                  *)
etharp_arp_input(h, n, a) ==
    LET forUs == h.ifs[n].ip # AnyAddr /\ a.dip = h.ifs[n].ip
        h1 == update_arp_entry(h, n, a.sip, a.smac, IF forUs THEN "TRY_HARD" ELSE "FIND_ONLY")
        h2 == IF a.op = "REQUEST" /\ forUs
              THEN Transmit(h1, n, a.smac, None, [proto |-> "ARP_REPLY", src |-> a.dip, dst |-> a.sip]) ELSE h1
    IN  pbuf_free(IF a.ok THEN h2 ELSE h)

-----------------------------------------------------------------------------
(* Output.                                                                 *)

(* etharp_raw: a request takes a pbuf of its own.                          *)
etharp_request(h, n, ip) ==
    IF "pbuf" \in h.fail THEN h
    ELSE Transmit(h, n, Bcast, None, [proto |-> "ARP_REQUEST", src |-> h.ifs[n].ip, dst |-> ip])

(* A copy of the packet joins the queue, or is freed when there is no      *)
(* queue element for it.                                                   *)
Enqueue(h, i, p) ==
    IF "pbuf" \in h.fail THEN h
    ELSE IF "memp" \in h.fail THEN pbuf_free([h EXCEPT !.live = @ + 1])
    ELSE [h EXCEPT !.live = @ + 1, !.arp[i].q = Append(@, p)]

etharp_query(h, n, ip, p) ==
    LET r  == find_entry(h, ip, "TRY_HARD")
        h1 == IF r.h.arp[r.i].state = "EMPTY" THEN [r.h EXCEPT !.arp[r.i].state = "PENDING"] ELSE r.h
        e  == h1.arp[r.i]
        h2 == IF e.state = "PENDING" \/ p = NoPacket THEN etharp_request(h1, n, ip) ELSE h1
    IN  IF ip4_addr_isbroadcast(h, ip, n) \/ ip_addr_ismulticast(ip) \/ ip = AnyAddr THEN h
        ELSE IF p = NoPacket THEN h2
        ELSE IF e.state = "STABLE" THEN etharp_send_ip([h2 EXCEPT !.hint = r.i], n, e.mac, ip, p)
        ELSE Enqueue(h2, r.i, p)

(* The gateway for an address that is not on the own network.              *)
NextHop(h, n, ip) ==
    IF ip_addr_netcmp(ip, h.ifs[n].ip, h.ifs[n].mask) \/ ip_addr_islinklocal(ip) THEN ip ELSE h.ifs[n].gw

HintServes_AnyStable(h, ip) == h.arp[h.hint].state = "STABLE"
HintServes(h, ip) == h.arp[h.hint].state = "STABLE" /\ h.arp[h.hint].ip = ip

etharp_output(h, n, p, ip) ==
    LET hop == NextHop(h, n, ip)
    IN  IF ip4_addr_isbroadcast(h, ip, n) THEN etharp_send_ip(h, n, Bcast, None, p)
        ELSE IF ip_addr_ismulticast(ip) THEN etharp_send_ip(h, n, "01:00:5e", None, p)
        ELSE IF hop = AnyAddr THEN h
        ELSE IF HintServes(h, hop) THEN etharp_send_ip(h, n, h.arp[h.hint].mac, hop, p)
        ELSE etharp_query(h, n, hop, p)
=============================================================================
