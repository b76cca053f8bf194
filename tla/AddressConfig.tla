--------------------------- MODULE AddressConfig ---------------------------
(***************************************************************************)
(* The two ways an interface gets an address by itself: from a DHCP server *)
(* and, without one, by AutoIP.  They share no state here (the stack lets  *)
(* them work together only under LWIP_DHCP_AUTOIP_COOP, which is off), so  *)
(* a behaviour is one of one of them: running says which.                  *)
(***************************************************************************)
EXTENDS Dhcp, AutoIp

VARIABLE running
configVars == <<vars, au, running>>

ConfigInit == running \in {"dhcp", "autoip"} /\ Init /\ AutoInit
ConfigNext ==
    /\ UNCHANGED running
    /\ \/ running = "dhcp" /\ Next /\ UNCHANGED au
       \/ running = "autoip" /\ AutoNext /\ UNCHANGED vars

(* The timer comes again and again, a packet that is not lost arrives, and *)
(* stations that are up have something to ask for.                         *)
AutoStep(A) == running = "autoip" /\ A /\ UNCHANGED <<vars, running>>
AutoFairness ==
    /\ WF_configVars(AutoStep(\E n \in Stations : AutoTmr(n) \/ AutoDeliver(n)))
    /\ WF_configVars(AutoStep(\E n \in Stations : Ask(n)))
ConfigSpec == ConfigInit /\ [][ConfigNext]_configVars /\ Fairness /\ AutoFairness

(* No two stations get one address, from the server's pool                 *)
(* (dhcpserver.c) or by probing for it (autoip.c).                         *)
AddressesApart == LeaseUnique /\ AutoUnique

(* All that look for an address get one, by DHCP and by AutoIP.            *)
AllGetAddress == GetsAddress /\ AutoSettles
=============================================================================
