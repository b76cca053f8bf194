------------------------------ MODULE Services ------------------------------
(***************************************************************************)
(* The rest of the stack around Ip and Tcp: IGMP, DNS, the timer list with *)
(* ping, espconn, packet buffers with their checksum, addresses as text,   *)
(* the heap of mem.c and the reassembly of IP fragments.  They share no    *)
(* state, only the task that runs them, so a behaviour is one of one of    *)
(* them: running says whose.                                               *)
(***************************************************************************)
EXTENDS Igmp, Dns, Timers, Espconn, Packets, IpAddr, Heap, IpFrag

VARIABLE running
vars == <<igmp, dns, tmr, esp, pb, ia, heap, re, running>>

Init ==
    /\ running \in {"igmp", "dns", "timers", "espconn", "pbuf", "addresses", "heap", "fragments"}
    /\ IgmpInit /\ DnsInit /\ TimersInit /\ EspInit /\ PbufInit /\ AddrInit /\ HeapInit /\ ReassInit
Next ==
    /\ UNCHANGED running
    /\ \/ running = "igmp" /\ IgmpNext /\ UNCHANGED <<dns, tmr, esp, pb, ia, heap, re>>
       \/ running = "dns" /\ DnsNext /\ UNCHANGED <<igmp, tmr, esp, pb, ia, heap, re>>
       \/ running = "timers" /\ TimersNext /\ UNCHANGED <<igmp, dns, esp, pb, ia, heap, re>>
       \/ running = "espconn" /\ EspNext /\ UNCHANGED <<igmp, dns, tmr, pb, ia, heap, re>>
       \/ running = "pbuf" /\ PbufNext /\ UNCHANGED <<igmp, dns, tmr, esp, ia, heap, re>>
       \/ running = "addresses" /\ AddrNext /\ UNCHANGED <<igmp, dns, tmr, esp, pb, heap, re>>
       \/ running = "heap" /\ HeapNext /\ UNCHANGED <<igmp, dns, tmr, esp, pb, ia, re>>
       \/ running = "fragments" /\ ReassNext /\ UNCHANGED <<igmp, dns, tmr, esp, pb, ia, heap>>

(* The timers of DNS and of reassembly come again and again: TimersRun.    *)
DnsTmr ==
    running = "dns" /\ DnsTick(FALSE, NoName) /\ UNCHANGED <<igmp, tmr, esp, pb, ia, heap, re, running>>
ReassTmr ==
    running = "fragments" /\ ReassTick /\ UNCHANGED <<igmp, dns, tmr, esp, pb, ia, heap, running>>
Spec == Init /\ [][Next]_vars /\ WF_vars(DnsTmr) /\ WF_vars(ReassTmr)

(* Under their timers nobody waits for ever: a DNS request is answered or  *)
(* given up, an incomplete datagram is thrown away, and no query puts off  *)
(* an IGMP report that is due.                                             *)
NothingWaits == DnsAnswered /\ ReassEnds /\ TimerOnlyShortens
=============================================================================
