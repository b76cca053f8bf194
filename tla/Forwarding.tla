----------------------------- MODULE Forwarding -----------------------------
(***************************************************************************)
(* The packet path of user_main/user_main.c: the hooks that mitm_interface *)
(* puts into the WLAN interface, the raw sockets of IP-forwarding mode,    *)
(* and the injection of the host's packets.                                *)
(*                                                                         *)
(* The comm task runs packet_from_host at the lowest task priority; the    *)
(* WLAN and lwIP code that receives and sends packets runs at a higher one *)
(* and can preempt it between any two of its memory accesses, but not the  *)
(* other way round.  So a packet takes its whole way in one step, and      *)
(* mitm_interface takes a step per access.  inject_ether_packet runs with  *)
(* interrupts off and is one step.                                         *)
(*                                                                         *)
(* The SDK (external) sets the interface up some time after boot, and again *)
(* when the WiFi mode changes: each time its own functions are back in     *)
(* netif.  A function pointer is "stack" (the SDK's), "mitm" (the          *)
(* firmware's hook for that pointer) or "null".                            *)
(***************************************************************************)
EXTENDS Integers, Sequences

CONSTANTS
  MaxSetups,  \* bound: how often the SDK sets the interface up
  RawNew      \* the sockets raw_new may have returned at boot, not NULL

ASSUME ForwardingAssumption ==
  /\ MaxSetups \in Nat
  /\ RawNew \subseteq SUBSET {"tcp", "udp"} /\ RawNew # {}

VARIABLES
  mode,     \* global_forwarding_mode: any byte the host sends
  bcast,    \* forward_ip_broadcasts
  up,       \* the SDK has set the interface up: eagle_lwip_getif(0) # NULL
  netif,    \* its three function pointers
  orig,     \* netif_input_orig, netif_output_orig, netif_linkoutput_orig
  pcbs,     \* which of raw_pcb_tcp and raw_pcb_udp exist
  main,     \* the comm task in packet_from_host: pc, message
  setups,   \* interface set-ups so far
  last      \* history: the last packet and what became of it

vars == <<mode, bcast, up, netif, orig, pcbs, main, setups, last>>

Modes == {"none", "ip", "ether", "undefined"}
Slots == <<"input", "output", "linkoutput">>     \* order of mitm_interface
SlotNames == {"input", "output", "linkoutput"}

(* Packets from the air, as far as the code tells them apart. *)
Inbound == {"tcp", "udp", "dhcp", "broadcast", "other", "cut",
            "scattered", "large"}

(* What the host sends.  A packet of proto "bad" fails one of the checks   *)
(* of inject_ip_packet.                                                    *)
Requests == [type : {"IP_PACKET"}, proto : {"tcp", "udp", "bad"}]
              \cup [type : {"ETHER_PACKET"}]
              \cup [type : {"SET_FORWARDING_MODE"}, mode : Modes]
              \cup [type : {"FORWARD_IP_BROADCASTS"}, on : BOOLEAN]
              \cup [type : {"OTHER"}]

(* The fate of a packet: handed to comm_send, to the SDK's stack, to the   *)
(* radio; how often its pbuf was freed here; a hook that calls itself.     *)
Lost == [host |-> 0, stack |-> 0, air |-> 0, frees |-> 0, loop |-> FALSE]
ToHost == [Lost EXCEPT !.host = 1, !.frees = 1]
Discarded == [Lost EXCEPT !.frees = 1]
ToStack == [Lost EXCEPT !.stack = 1]
ToAir == [Lost EXCEPT !.air = 1]
Loops == [Lost EXCEPT !.loop = TRUE]

Hooked == up /\ \A s \in SlotNames : netif[s] = "mitm"
NoRequest == [type |-> "NONE"]

Note(kind, packet, fate) ==
  last' = [kind |-> kind, packet |-> packet, fate |-> fate, mode |-> mode,
           bcast |-> bcast, hooked |-> Hooked, up |-> up]

Init ==
  /\ mode = "none" /\ bcast = TRUE
  /\ up = FALSE /\ netif = [s \in SlotNames |-> "null"]
  /\ orig = [s \in SlotNames |-> "null"]
  /\ pcbs \in RawNew
  /\ main = [pc |-> "idle", slot |-> 1, req |-> NoRequest] /\ setups = 0
  /\ last = [kind |-> "none", packet |-> "none", fate |-> Lost,
             mode |-> "none", bcast |-> TRUE, hooked |-> FALSE, up |-> FALSE]

-----------------------------------------------------------------------------
(* The SDK sets up the interface. *)
NetifSetup ==
  /\ setups < MaxSetups /\ setups' = setups + 1
  /\ up' = TRUE /\ netif' = [s \in SlotNames |-> "stack"]
  /\ UNCHANGED <<mode, bcast, orig, pcbs, main, last>>

-----------------------------------------------------------------------------
(* raw_receiver, called by the stack for TCP and UDP if the raw sockets    *)
(* exist: 0 leaves the packet to the stack, 1 consumes it.                 *)
RawReceiver_TakesDhcp(p) ==
  IF mode # "ip" \/ p = "cut" \/ (p = "broadcast" /\ ~bcast)
  THEN ToStack
  ELSE IF p \in {"scattered", "large"} THEN Discarded ELSE ToHost

RawReceiver(p) ==
  IF \/ mode # "ip" \/ p \in {"cut", "dhcp"}
     \/ p = "broadcast" /\ ~bcast
  THEN ToStack
  ELSE IF p \in {"scattered", "large"} THEN Discarded ELSE ToHost

(* init_wlan registers raw_receiver only if both sockets exist. *)
Registered == pcbs = {"tcp", "udp"}

(* The SDK's input function: its IP layer offers TCP and UDP packets to    *)
(* the raw sockets first.                                                  *)
StackInput(p) == IF Registered /\ p # "other" THEN RawReceiver(p) ELSE ToStack

netif_input_mitm(p) ==
  CASE mode = "ether" ->
         IF p \in {"scattered", "large"} THEN Discarded ELSE ToHost
    [] mode # "ether" /\ orig["input"] = "null" -> Lost
    [] mode # "ether" /\ orig["input"] = "mitm" -> Loops
    [] OTHER -> StackInput(p)

Receive(p) ==
  /\ up
  /\ Note("in", p, IF netif["input"] = "mitm" THEN netif_input_mitm(p)
                   ELSE StackInput(p))
  /\ UNCHANGED <<mode, bcast, up, netif, orig, pcbs, main, setups>>

-----------------------------------------------------------------------------
(* A hook on the way out: swallows the packet in Ethernet mode, and calls  *)
(* the function it replaced otherwise.                                     *)
OutHook_NoSwallow(slot, call) == IF orig[slot] = "stack" THEN call ELSE Loops

OutHook(slot, call) ==
  IF mode = "ether" \/ orig[slot] = "null" THEN Lost
  ELSE IF orig[slot] = "mitm" THEN Loops ELSE call

netif_linkoutput_mitm == OutHook("linkoutput", ToAir)

LinkOutput ==
  IF netif["linkoutput"] = "mitm" THEN netif_linkoutput_mitm ELSE ToAir

netif_output_mitm == OutHook("output", LinkOutput)

(* netif->output resolves the address and ends in netif->linkoutput. *)
Output == IF netif["output"] = "mitm" THEN netif_output_mitm ELSE LinkOutput

(* The stack sends a packet of its own: an IP packet (DHCP, a reply) or a  *)
(* link-level one (ARP).                                                   *)
StackSend(kind) ==
  /\ up
  /\ Note("out", kind, IF kind = "ip" THEN Output ELSE LinkOutput)
  /\ UNCHANGED <<mode, bcast, up, netif, orig, pcbs, main, setups>>

-----------------------------------------------------------------------------
(* packet_from_host begins with mitm_interface. *)
HostMessage(r) ==
  /\ main.pc = "idle"
  /\ main' = [pc |-> IF up THEN "save" ELSE "handle",
              slot |-> 1, req |-> r]
  /\ UNCHANGED <<mode, bcast, up, netif, orig, pcbs, setups, last>>

Slot == Slots[main.slot]
AfterSlot == IF main.slot = Len(Slots)
             THEN [main EXCEPT !.pc = "handle", !.slot = 1]
             ELSE [main EXCEPT !.pc = "save", !.slot = @ + 1]

(* A pointer that is not the hook is kept, then replaced. *)
HookNeeded_Always == TRUE
HookNeeded == netif[Slot] # "mitm"

HookSave_ReplacesFirst ==
  /\ main.pc = "save"
  /\ netif' = [netif EXCEPT ![Slot] = "mitm"]
  /\ main' = IF HookNeeded THEN [main EXCEPT !.pc = "install"] ELSE AfterSlot
  /\ UNCHANGED <<mode, bcast, up, orig, pcbs, setups, last>>

HookSave ==
  /\ main.pc = "save"
  /\ IF HookNeeded
     THEN /\ orig' = [orig EXCEPT ![Slot] = netif[Slot]]
          /\ main' = [main EXCEPT !.pc = "install"]
     ELSE main' = AfterSlot /\ UNCHANGED orig
  /\ UNCHANGED <<mode, bcast, up, netif, pcbs, setups, last>>

HookInstall ==
  /\ main.pc = "install"
  /\ netif' = [netif EXCEPT ![Slot] = "mitm"]
  /\ main' = AfterSlot
  /\ UNCHANGED <<mode, bcast, up, orig, pcbs, setups, last>>

Done == [main EXCEPT !.pc = "idle", !.req = NoRequest]
Handling(type) == main.pc = "handle" /\ main.req.type = type

(* inject_ip_packet: a packet that passes the checks is sent through the   *)
(* raw socket of its protocol and its pbuf is freed.  raw_sendto fails     *)
(* without an interface (no route), then reads the socket, NULL or not.    *)
Accepted(alloc) == main.req.proto # "bad" /\ alloc
NullSocket(alloc) == Accepted(alloc) /\ up /\ main.req.proto \notin pcbs

inject_ip_packet(alloc) ==
  IF ~Accepted(alloc) THEN Lost
  ELSE IF up THEN [Output EXCEPT !.frees = 1] ELSE Discarded

HandleIpPacket(alloc) ==
  /\ Handling("IP_PACKET")
  /\ IF mode = "ip" /\ NullSocket(alloc)
     THEN main' = [Done EXCEPT !.pc = "crashed"] /\ UNCHANGED last
     ELSE /\ main' = Done
          /\ IF mode = "ip"
             THEN Note("inject", IF Accepted(alloc) THEN "sent" ELSE "refused",
                       inject_ip_packet(alloc))
             ELSE UNCHANGED last
  /\ UNCHANGED <<mode, bcast, up, netif, orig, pcbs, setups>>

(* inject_ether_packet goes past the hooks, to the kept function. *)
inject_ether_packet_Hooked(alloc) ==
  IF orig["linkoutput"] = "null" \/ ~up \/ ~alloc THEN Lost
  ELSE [LinkOutput EXCEPT !.frees = 1]

inject_ether_packet(alloc) ==
  IF orig["linkoutput"] = "null" \/ ~up \/ ~alloc THEN Lost
  ELSE IF orig["linkoutput"] = "mitm" THEN [Lost EXCEPT !.frees = 1]
  ELSE [ToAir EXCEPT !.frees = 1]

HandleEtherPacket(alloc) ==
  /\ Handling("ETHER_PACKET") /\ main' = Done
  /\ IF mode = "ether"
     THEN Note("inject", IF alloc /\ up /\ orig["linkoutput"] # "null"
                         THEN "sent" ELSE "refused",
               inject_ether_packet(alloc))
     ELSE UNCHANGED last
  /\ UNCHANGED <<mode, bcast, up, netif, orig, pcbs, setups>>

(* The byte is taken as it is. *)
HandleSetMode ==
  /\ Handling("SET_FORWARDING_MODE") /\ main' = Done
  /\ mode' = main.req.mode
  /\ UNCHANGED <<bcast, up, netif, orig, pcbs, setups, last>>

HandleSetBroadcasts ==
  /\ Handling("FORWARD_IP_BROADCASTS") /\ main' = Done
  /\ bcast' = main.req.on
  /\ UNCHANGED <<mode, up, netif, orig, pcbs, setups, last>>

HandleOther ==
  /\ Handling("OTHER") /\ main' = Done
  /\ UNCHANGED <<mode, bcast, up, netif, orig, pcbs, setups, last>>

Next ==
  \/ NetifSetup
  \/ \E p \in Inbound : Receive(p)
  \/ \E k \in {"ip", "arp"} : StackSend(k)
  \/ \E r \in Requests : HostMessage(r)
  \/ HookSave \/ HookInstall
  \/ \E a \in BOOLEAN : HandleIpPacket(a) \/ HandleEtherPacket(a)
  \/ HandleSetMode \/ HandleSetBroadcasts \/ HandleOther

Spec == Init /\ [][Next]_vars

-----------------------------------------------------------------------------
Pointers == {"null", "stack", "mitm"}
Fates == [host : 0..1, stack : 0..1, air : 0..1, frees : 0..1, loop : BOOLEAN]

(* Every variable keeps its type, and a kept pointer is never the hook     *)
(* itself: a hook never calls itself, however often the SDK sets the       *)
(* interface up and wherever that falls inside mitm_interface.             *)
TypeOK ==
  /\ mode \in Modes /\ bcast \in BOOLEAN /\ pcbs \subseteq {"tcp", "udp"}
  /\ up \in BOOLEAN /\ netif \in [SlotNames -> Pointers]
  /\ orig \in [SlotNames -> {"null", "stack"}]
  /\ main.pc \in {"idle", "save", "install", "handle", "crashed"}
  /\ main.slot \in 1..Len(Slots) /\ main.req \in Requests \cup {NoRequest}
  /\ setups \in 0..MaxSetups /\ last.fate \in Fates

(* Every received pbuf has exactly one owner in the end: it is freed here  *)
(* once, or it belongs to the stack.  In particular a packet never meets a *)
(* hook whose original function is not known yet ("mitm input zero         *)
(* pointer", which would leak it), because mitm_interface keeps the        *)
(* pointer before it replaces it.                                          *)
PbufOwnedOnce == last.kind = "in" => last.fate.frees + last.fate.stack = 1

(* In IP-forwarding mode the host gets the TCP and UDP packets and the     *)
(* stack the rest, DHCP above all, each packet once, with the hooks in any *)
(* state of installation; without the raw sockets the stack gets all.      *)
IpModeRouting ==
  last.kind = "in" /\ last.mode = "ip" =>
    /\ last.fate.host = 1 <=>
         /\ Registered /\ last.packet \in {"tcp", "udp", "broadcast"}
         /\ last.packet = "broadcast" => last.bcast
    /\ last.packet \in {"dhcp", "other", "cut"} => last.fate.stack = 1
    /\ last.fate.host + last.fate.stack <= 1

(* Once the three hooks are in, Ethernet-forwarding mode cuts the stack    *)
(* off: it gets nothing, and what it sends goes nowhere.                   *)
DetachedWhenHooked ==
  last.mode = "ether" /\ last.hooked =>
    /\ last.kind = "in" => last.fate.stack = 0
    /\ last.kind = "out" => last.fate.air = 0

(* A packet of the host that was accepted for sending reaches the radio:   *)
(* neither the output hooks nor a half-finished installation swallow it.   *)
InjectedReachesAir ==
  last.kind = "inject" /\ last.packet = "sent" /\ last.up =>
    last.fate.air = 1 /\ last.fate.frees = 1

(* No hook is ever kept as the function it replaced, and in IP mode each   *)
(* packet has the destination that raw_receiver and the hooks give it.     *)
RoutingSound == TypeOK /\ IpModeRouting
=============================================================================
