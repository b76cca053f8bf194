----------------------------- MODULE MCNetwork -----------------------------
(***************************************************************************)
(* Network with one or two interfaces 11 and 21, two stations 13 and 14    *)
(* behind the first, and the frames below.  part says in which part of the *)
(* instance a frame comes in.                                              *)
(***************************************************************************)
EXTENDS Network

ArpFrame(part, op, sip, smac, dip, ok) ==
    [part |-> part, kind |-> "ARP", smac |-> smac,
     arp |-> [op |-> op, sip |-> sip, smac |-> smac, dip |-> dip, ok |-> ok]]
IpFrame(part, smac, src, dst, proto, sport, dport, type, ok, frag, room) ==
    [part |-> part, kind |-> "IP", smac |-> smac,
     pkt |-> [src |-> src, dst |-> dst, proto |-> proto, sport |-> sport, dport |-> dport,
              type |-> type, ok |-> ok, frag |-> frag, room |-> room]]
Udp(part, src, dst, sport, dport) == IpFrame(part, "m3", src, dst, "UDP", sport, dport, "", TRUE, FALSE, TRUE)

MCMaxCalls == [arp |-> 4, udp |-> 3, netif |-> 6, raw |-> 3, tcp |-> 0]

MCFrames ==
    {ArpFrame("arp", "REPLY", 13, "m3", 11, TRUE), ArpFrame("arp", "REQUEST", 14, "m4", 11, TRUE),
     ArpFrame("arp", "REQUEST", 13, "m4", 11, TRUE), ArpFrame("arp", "REPLY", 13, "m3", 15, TRUE),
     ArpFrame("arp", "REPLY", 99, "m3", 11, TRUE), ArpFrame("arp", "REPLY", 14, "m3", 11, FALSE),
     IpFrame("arp", "m4", 14, 11, "ICMP", 0, 0, "ECHO", TRUE, FALSE, FALSE),
     IpFrame("arp", "m3", 13, 11, "ICMP", 0, 0, "ECHO", TRUE, FALSE, TRUE),
     IpFrame("raw", "m3", 13, 19, "ICMP", 0, 0, "ECHO", TRUE, FALSE, TRUE),
     IpFrame("raw", "m3", 13, 11, "ICMP", 0, 0, "ECHO", TRUE, FALSE, TRUE),
     IpFrame("raw", "m3", 13, 11, "ICMP", 0, 0, "ER", TRUE, FALSE, TRUE),
     IpFrame("raw", "m3", 13, 11, "ICMP", 0, 0, "ECHO", FALSE, FALSE, TRUE),
     IpFrame("raw", "m3", 13, 11, "GRE", 0, 0, "", TRUE, FALSE, TRUE),
     IpFrame("raw", "m3", 13, 19, "GRE", 0, 0, "", TRUE, FALSE, TRUE),
     IpFrame("raw", "m3", 13, 11, "TCP", 0, 0, "", TRUE, FALSE, TRUE),
     IpFrame("raw", "m3", 19, 11, "UDP", 0, 5, "", TRUE, FALSE, TRUE),
     IpFrame("raw", "m3", 13, 90, "UDP", 0, 5, "", TRUE, FALSE, TRUE),
     IpFrame("raw", "m3", 13, 11, "UDP", 0, 5, "", TRUE, TRUE, TRUE),
     [part |-> "raw", kind |-> "OTHER", smac |-> "m3"],
     Udp("udp", 13, 11, 5, 5), Udp("udp", 14, 11, 5, 5), Udp("udp", 13, 19, 5, 6),
     Udp("udp", 0, 99, 67, 68), Udp("udp", 13, 15, 5, 5),
     ArpFrame("netif", "REQUEST", 13, "m3", 11, TRUE)}
=============================================================================
