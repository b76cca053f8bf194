--------------------------- MODULE UserMainProofs ---------------------------
(***************************************************************************)
(* Proofs about user_main.c: first its packet path (Forwarding), then its  *)
(* requests (Commands).                                                    *)
(*                                                                         *)
(* Packets: what the hooks guarantee, for any number of interface set-ups  *)
(* at any moment.  The argument is the order of mitm_interface: a pointer  *)
(* is kept before the hook takes its place, so a hook that can be called   *)
(* knows the function it replaced, and what is kept is never a hook.       *)
(*                                                                         *)
(* Requests: a host can rely on what it hears, for every size of the       *)
(* transmit ring, every number of requests and access points, and every    *)
(* set of requests the host makes.  Two of the three parts are about one   *)
(* request, and hold because every handler answers in one of few ways.     *)
(* The third, that the host can count scan entries, needs an invariant     *)
(* over the whole ring: where an entry's header is, and that nothing but   *)
(* entries lies between the two.                                           *)
(***************************************************************************)
EXTENDS Forwarding, Commands, SequenceTheorems, TLAPS

PointerType ==
  /\ netif \in [SlotNames -> Pointers]
  /\ orig \in [SlotNames -> {"null", "stack"}]

TaskType ==
  /\ main \in [pc : {"idle", "save", "install", "handle", "crashed"},
               slot : 1..3, req : Requests \cup {NoRequest}]

(* A hook in place, or about to be put in place, has its original. *)
HookInv ==
  /\ \A s \in SlotNames : netif[s] = "mitm" => orig[s] = "stack"
  /\ main.pc = "install" => orig[Slot] = "stack"

(* An interface that is up has functions. *)
UpInv ==
  /\ main.pc \in {"save", "install"} => up
  /\ up => \A s \in SlotNames : netif[s] # "null"

PointerInv == PointerType /\ TaskType /\ HookInv /\ UpInv

LastInv == PbufOwnedOnce /\ DetachedWhenHooked /\ InjectedReachesAir

FInv == PointerInv /\ LastInv

-----------------------------------------------------------------------------
LEMMA SlotIsSlot ==
  ASSUME TaskType PROVE Slot \in SlotNames
BY DEF TaskType, Slot, Slots, SlotNames

(* What becomes of a packet, given the invariant on the pointers. *)
LEMMA ReceiveFate ==
  ASSUME PointerInv, NEW p \in Inbound
  PROVE  LET f == IF netif["input"] = "mitm" THEN netif_input_mitm(p)
                  ELSE StackInput(p)
         IN  /\ f.frees + f.stack = 1
             /\ netif["input"] = "mitm" /\ mode = "ether" => f.stack = 0
<1> DEFINE Good(f) == f.frees + f.stack = 1
<1>1. Good(ToHost) /\ Good(ToStack) /\ Good(Discarded)
      /\ ToHost.stack = 0 /\ Discarded.stack = 0
  BY DEF ToHost, ToStack, Discarded, Lost
<1>2. StackInput(p) \in {ToHost, ToStack, Discarded}
  BY DEF StackInput, RawReceiver
<1>3. netif["input"] = "mitm" => orig["input"] = "stack"
  BY DEF PointerInv, HookInv, SlotNames
<1>4. CASE netif["input"] # "mitm"
  BY <1>1, <1>2, <1>4
<1>5. CASE netif["input"] = "mitm" /\ mode = "ether"
  <2>1. netif_input_mitm(p) \in {ToHost, Discarded}
    BY <1>5 DEF netif_input_mitm
  <2> QED
    BY <2>1, <1>1, <1>5
<1>6. CASE netif["input"] = "mitm" /\ mode # "ether"
  <2>1. netif_input_mitm(p) = StackInput(p)
    BY <1>3, <1>6 DEF netif_input_mitm
  <2> QED
    BY <2>1, <1>1, <1>2, <1>6
<1> QED
  BY <1>4, <1>5, <1>6

LEMMA OutputFate ==
  ASSUME PointerInv
  PROVE  /\ LinkOutput \in {ToAir, Lost} /\ Output \in {ToAir, Lost}
         /\ mode # "ether" => LinkOutput = ToAir /\ Output = ToAir
         /\ mode = "ether" /\ netif["linkoutput"] = "mitm" =>
              LinkOutput = Lost /\ Output = Lost
<1>1. /\ netif["linkoutput"] = "mitm" => orig["linkoutput"] = "stack"
      /\ netif["output"] = "mitm" => orig["output"] = "stack"
  BY DEF PointerInv, HookInv, SlotNames
<1> QED
  BY <1>1 DEF LinkOutput, Output, netif_linkoutput_mitm, netif_output_mitm,
              OutHook

LEMMA InitFInv == Init => FInv
<1> SUFFICES ASSUME Init PROVE FInv
  OBVIOUS
<1>1. PointerType
  BY DEF Init, PointerType, Pointers
<1>2. TaskType
  BY DEF Init, TaskType
<1>3. HookInv /\ UpInv
  BY DEF Init, HookInv, UpInv
<1>4. LastInv
  BY DEF Init, LastInv, PbufOwnedOnce, DetachedWhenHooked, InjectedReachesAir
<1> QED
  BY <1>1, <1>2, <1>3, <1>4 DEF FInv, PointerInv

(* A step that leaves the pointers and the task alone keeps their part. *)
LEMMA PointersKept ==
  ASSUME PointerInv, UNCHANGED <<up, netif, orig, main>>
  PROVE  PointerInv'
BY DEF PointerInv, PointerType, TaskType, HookInv, UpInv, Slot

(* A step that leaves the packet history alone keeps its part. *)
LEMMA LastKept ==
  ASSUME LastInv, UNCHANGED last
  PROVE  LastInv'
BY DEF LastInv, PbufOwnedOnce, DetachedWhenHooked, InjectedReachesAir

(* The end of a request keeps the invariant on the pointers. *)
LEMMA DoneKeeps ==
  ASSUME PointerInv, UNCHANGED <<up, netif, orig>>,
         main' = Done \/ main' = [Done EXCEPT !.pc = "crashed"]
  PROVE  PointerInv'
<1>1. TaskType' /\ main'.pc \in {"idle", "crashed"}
  BY DEF PointerInv, TaskType, Done
<1>2. PointerType' /\ HookInv' /\ UpInv'
  BY <1>1 DEF PointerInv, PointerType, HookInv, UpInv
<1> QED
  BY <1>1, <1>2 DEF PointerInv

LEMMA SetupStep ==
  ASSUME FInv, NetifSetup PROVE FInv'
<1>1. LastInv'
  BY LastKept DEF FInv, NetifSetup
<1>2. PointerType' /\ TaskType'
  BY DEF FInv, PointerInv, PointerType, TaskType, NetifSetup, Pointers
<1>3. HookInv'
  BY DEF FInv, PointerInv, HookInv, NetifSetup, Slot
<1>4. UpInv'
  BY DEF NetifSetup, UpInv
<1> QED
  BY <1>1, <1>2, <1>3, <1>4 DEF FInv, PointerInv

LEMMA ReceiveStep ==
  ASSUME FInv, NEW p \in Inbound, Receive(p) PROVE FInv'
<1> DEFINE f == IF netif["input"] = "mitm" THEN netif_input_mitm(p)
                ELSE StackInput(p)
<1>1. PointerInv'
  BY PointersKept DEF FInv, Receive
<1>2. /\ f.frees + f.stack = 1
      /\ netif["input"] = "mitm" /\ mode = "ether" => f.stack = 0
  BY ReceiveFate DEF FInv
<1> HIDE DEF f
<1>3. last' = [kind |-> "in", packet |-> p, fate |-> f, mode |-> mode,
               bcast |-> bcast, hooked |-> Hooked, up |-> up]
  BY DEF Receive, Note, f
<1>4. Hooked => netif["input"] = "mitm"
  BY DEF Hooked, SlotNames
<1>5. LastInv'
  BY <1>2, <1>3, <1>4
     DEF LastInv, PbufOwnedOnce, DetachedWhenHooked, InjectedReachesAir
<1> QED
  BY <1>1, <1>5 DEF FInv

LEMMA StackSendStep ==
  ASSUME FInv, NEW k \in {"ip", "arp"}, StackSend(k) PROVE FInv'
<1> DEFINE f == IF k = "ip" THEN Output ELSE LinkOutput
<1>1. PointerInv'
  BY PointersKept DEF FInv, StackSend
<1>2. mode = "ether" /\ netif["linkoutput"] = "mitm" => f = Lost
  BY OutputFate DEF FInv
<1> HIDE DEF f
<1>3. last' = [kind |-> "out", packet |-> k, fate |-> f, mode |-> mode,
               bcast |-> bcast, hooked |-> Hooked, up |-> up]
  BY DEF StackSend, Note, f
<1>4. Hooked => netif["linkoutput"] = "mitm"
  BY DEF Hooked, SlotNames
<1>5. LastInv'
  BY <1>2, <1>3, <1>4
     DEF LastInv, PbufOwnedOnce, DetachedWhenHooked, InjectedReachesAir, Lost
<1> QED
  BY <1>1, <1>5 DEF FInv

LEMMA HostMessageStep ==
  ASSUME FInv, NEW r \in Requests, HostMessage(r) PROVE FInv'
<1>1. LastInv'
  BY LastKept DEF FInv, HostMessage
<1>2. PointerType'
  BY DEF FInv, PointerInv, PointerType, HostMessage
<1>3. TaskType' /\ main'.pc # "install" /\ (main'.pc = "save" => up)
  BY DEF TaskType, HostMessage
<1>4. HookInv'
  BY <1>3 DEF FInv, PointerInv, HookInv, HostMessage
<1>5. UpInv'
  BY <1>3 DEF FInv, PointerInv, UpInv, HostMessage
<1> QED
  BY <1>1, <1>2, <1>3, <1>4, <1>5 DEF FInv, PointerInv

(* The next pointer, or the end of mitm_interface. *)
LEMMA AfterSlotType ==
  ASSUME TaskType, main.pc \in {"save", "install"}
  PROVE  AfterSlot \in [pc : {"save", "handle"}, slot : 1..3,
                        req : Requests \cup {NoRequest}]
<1>1. Len(Slots) = 3
  BY DEF Slots
<1>2. main.slot \in 1..3
  BY DEF TaskType
<1>3. CASE main.slot = Len(Slots)
  <2>1. AfterSlot = [main EXCEPT !.pc = "handle", !.slot = 1]
    BY <1>3 DEF AfterSlot
  <2>2. 1 \in 1..3
    OBVIOUS
  <2> QED
    BY <2>1, <2>2 DEF TaskType
<1>4. CASE main.slot # Len(Slots)
  <2>1. AfterSlot = [main EXCEPT !.pc = "save", !.slot = main.slot + 1]
    BY <1>4 DEF AfterSlot
  <2>2. main.slot + 1 \in 1..3
    BY <1>1, <1>2, <1>4
  <2> QED
    BY <2>1, <2>2 DEF TaskType
<1> QED
  BY <1>3, <1>4

LEMMA HookSaveStep ==
  ASSUME FInv, HookSave PROVE FInv'
<1>1. LastInv'
  BY LastKept DEF FInv, HookSave
<1>2. Slot \in SlotNames /\ PointerInv /\ main.pc = "save" /\ up
  BY SlotIsSlot DEF FInv, PointerInv, HookSave, UpInv
<1>3. CASE HookNeeded
  <2>1. orig' = [orig EXCEPT ![Slot] = netif[Slot]] /\ UNCHANGED <<up, netif>>
        /\ main' = [main EXCEPT !.pc = "install"]
    BY <1>3 DEF HookSave
  <2>2. netif[Slot] = "stack"
    BY <1>2, <1>3 DEF HookNeeded, PointerInv, PointerType, UpInv, Pointers
  <2>3. PointerType'
    BY <1>2, <2>1, <2>2 DEF PointerInv, PointerType
  <2>4. TaskType' /\ main'.slot = main.slot /\ main'.pc = "install"
    BY <2>1, <1>2 DEF PointerInv, TaskType
  <2>5. Slot' = Slot
    BY <2>4 DEF Slot, Slots
  <2>6. HookInv'
    BY <1>2, <2>1, <2>2, <2>5 DEF PointerInv, HookInv, PointerType
  <2>7. UpInv'
    BY <1>2, <2>1 DEF PointerInv, UpInv
  <2> QED
    BY <1>1, <2>3, <2>4, <2>6, <2>7 DEF FInv, PointerInv
<1>4. CASE ~HookNeeded
  <2>1. UNCHANGED <<up, netif, orig>> /\ main' = AfterSlot
    BY <1>4 DEF HookSave
  <2>2. TaskType' /\ main'.pc \in {"save", "handle"}
    BY <2>1, <1>2, AfterSlotType DEF PointerInv, TaskType
  <2>3. PointerType' /\ HookInv' /\ UpInv'
    BY <1>2, <2>1, <2>2 DEF PointerInv, PointerType, HookInv, UpInv
  <2> QED
    BY <1>1, <2>2, <2>3 DEF FInv, PointerInv
<1> QED
  BY <1>3, <1>4

LEMMA HookInstallStep ==
  ASSUME FInv, HookInstall PROVE FInv'
<1>1. LastInv'
  BY LastKept DEF FInv, HookInstall
<1>2. Slot \in SlotNames /\ PointerInv /\ main.pc = "install" /\ up
      /\ orig[Slot] = "stack"
  BY SlotIsSlot DEF FInv, PointerInv, HookInstall, UpInv, HookInv
<1>3. netif' = [netif EXCEPT ![Slot] = "mitm"] /\ UNCHANGED <<up, orig>>
      /\ main' = AfterSlot
  BY DEF HookInstall
<1>4. TaskType' /\ main'.pc \in {"save", "handle"}
  BY <1>2, <1>3, AfterSlotType DEF PointerInv, TaskType
<1>5. PointerType'
  BY <1>2, <1>3 DEF PointerInv, PointerType, Pointers
<1>6. HookInv'
  BY <1>2, <1>3, <1>4 DEF PointerInv, HookInv, PointerType
<1>7. UpInv'
  BY <1>2, <1>3, <1>4 DEF PointerInv, UpInv, PointerType
<1> QED
  BY <1>1, <1>4, <1>5, <1>6, <1>7 DEF FInv, PointerInv

LEMMA IpPacketStep ==
  ASSUME FInv, NEW a \in BOOLEAN, HandleIpPacket(a) PROVE FInv'
<1>1. PointerInv'
  BY DoneKeeps DEF FInv, HandleIpPacket
<1>2. CASE UNCHANGED last
  BY <1>1, <1>2, LastKept DEF FInv
<1>3. CASE ~UNCHANGED last
  <2>1. /\ mode = "ip"
        /\ last' = [kind |-> "inject",
                    packet |-> IF Accepted(a) THEN "sent" ELSE "refused",
                    fate |-> inject_ip_packet(a), mode |-> mode,
                    bcast |-> bcast, hooked |-> Hooked, up |-> up]
    BY <1>3 DEF HandleIpPacket, Note
  <2>2. Output = ToAir
    BY <2>1, OutputFate DEF FInv
  <2>3. Accepted(a) /\ up => inject_ip_packet(a).air = 1
                             /\ inject_ip_packet(a).frees = 1
    BY <2>2 DEF inject_ip_packet, ToAir, Lost
  <2>4. LastInv'
    BY <2>1, <2>3
       DEF LastInv, PbufOwnedOnce, DetachedWhenHooked, InjectedReachesAir
  <2> QED
    BY <1>1, <2>4 DEF FInv
<1> QED
  BY <1>2, <1>3

LEMMA EtherPacketStep ==
  ASSUME FInv, NEW a \in BOOLEAN, HandleEtherPacket(a) PROVE FInv'
<1>1. PointerInv'
  BY DoneKeeps DEF FInv, HandleEtherPacket
<1>2. CASE UNCHANGED last
  BY <1>1, <1>2, LastKept DEF FInv
<1>3. CASE ~UNCHANGED last
  <2> DEFINE sent == a /\ up /\ orig["linkoutput"] # "null"
  <2>1. last' = [kind |-> "inject",
                 packet |-> IF sent THEN "sent" ELSE "refused",
                 fate |-> inject_ether_packet(a), mode |-> mode,
                 bcast |-> bcast, hooked |-> Hooked, up |-> up]
    BY <1>3 DEF HandleEtherPacket, Note
  <2>2. sent => orig["linkoutput"] = "stack"
    BY DEF FInv, PointerInv, PointerType, SlotNames
  <2>3. sent => /\ inject_ether_packet(a).air = 1
                /\ inject_ether_packet(a).frees = 1
    BY <2>2 DEF inject_ether_packet, ToAir, Lost
  <2> HIDE DEF sent
  <2>4. LastInv'
    BY <2>1, <2>3
       DEF LastInv, PbufOwnedOnce, DetachedWhenHooked, InjectedReachesAir
  <2> QED
    BY <1>1, <2>4 DEF FInv
<1> QED
  BY <1>2, <1>3

LEMMA NextFInv == FInv /\ [Next]_vars => FInv'
<1> SUFFICES ASSUME FInv, [Next]_vars PROVE FInv'
  OBVIOUS
<1>1. CASE NetifSetup
  BY <1>1, SetupStep
<1>2. CASE \E p \in Inbound : Receive(p)
  BY <1>2, ReceiveStep
<1>3. CASE \E k \in {"ip", "arp"} : StackSend(k)
  BY <1>3, StackSendStep
<1>4. CASE \E r \in Requests : HostMessage(r)
  BY <1>4, HostMessageStep
<1>5. CASE HookSave
  BY <1>5, HookSaveStep
<1>6. CASE HookInstall
  BY <1>6, HookInstallStep
<1>7. CASE \E a \in BOOLEAN : HandleIpPacket(a) \/ HandleEtherPacket(a)
  BY <1>7, IpPacketStep, EtherPacketStep
<1>8. CASE HandleSetMode \/ HandleSetBroadcasts \/ HandleOther
  BY <1>8, DoneKeeps, LastKept
     DEF FInv, HandleSetMode, HandleSetBroadcasts, HandleOther
<1>9. CASE UNCHANGED vars
  BY <1>9, PointersKept, LastKept DEF FInv, vars
<1> QED
  BY <1>1, <1>2, <1>3, <1>4, <1>5, <1>6, <1>7, <1>8, <1>9 DEF Next

LEMMA FInvHolds == Spec => []FInv
BY InitFInv, NextFInv, PTL DEF Spec

(***************************************************************************)
(* Every received pbuf is freed once here or left to the stack, however    *)
(* often the SDK sets the interface up and wherever that falls inside      *)
(* mitm_interface.                                                         *)
(***************************************************************************)
THEOREM PbufsNeverLeak == Spec => []PbufOwnedOnce
<1>1. FInv => PbufOwnedOnce
  BY DEF FInv, LastInv
<1> QED
  BY <1>1, FInvHolds, PTL

(***************************************************************************)
(* With the three hooks in place Ethernet-forwarding mode cuts the stack   *)
(* off in both directions.                                                 *)
(***************************************************************************)
THEOREM HooksDetach == Spec => []DetachedWhenHooked
<1>1. FInv => DetachedWhenHooked
  BY DEF FInv, LastInv
<1> QED
  BY <1>1, FInvHolds, PTL

(***************************************************************************)
(* A packet that the host injects and that is accepted for sending passes  *)
(* the firmware's own hooks and reaches the radio.                         *)
(***************************************************************************)
THEOREM InjectionPassesHooks == Spec => []InjectedReachesAir
<1>1. FInv => InjectedReachesAir
  BY DEF FInv, LastInv
<1> QED
  BY <1>1, FInvHolds, PTL

-----------------------------------------------------------------------------
(* The rest of the types: what is not a pointer or the progress of the comm
   task. *)
ScalarType ==
  /\ mode \in Modes /\ bcast \in BOOLEAN /\ pcbs \subseteq {"tcp", "udp"}
  /\ up \in BOOLEAN /\ setups \in 0..MaxSetups

RInv == ScalarType /\ last.fate \in Fates /\ IpModeRouting

(* In IP mode the hooks are transparent, and raw_receiver decides. *)
LEMMA IpModeFate ==
  ASSUME PointerInv, ScalarType, NEW p \in Inbound
  PROVE  LET f == IF netif["input"] = "mitm" THEN netif_input_mitm(p)
                  ELSE StackInput(p)
         IN  /\ f \in {ToHost, ToStack, Discarded}
             /\ mode = "ip" => f = StackInput(p)
<1>1. StackInput(p) \in {ToHost, ToStack, Discarded}
  BY DEF StackInput, RawReceiver
<1>2. netif["input"] = "mitm" => orig["input"] = "stack"
  BY DEF PointerInv, HookInv, SlotNames
<1>3. CASE netif["input"] # "mitm"
  BY <1>1, <1>3
<1>4. CASE netif["input"] = "mitm" /\ mode = "ether"
  <2>1. netif_input_mitm(p) \in {ToHost, Discarded}
    BY <1>4 DEF netif_input_mitm
  <2> QED
    BY <2>1, <1>4
<1>5. CASE netif["input"] = "mitm" /\ mode # "ether"
  <2>1. netif_input_mitm(p) = StackInput(p)
    BY <1>2, <1>5 DEF netif_input_mitm
  <2> QED
    BY <2>1, <1>1, <1>5
<1> QED
  BY <1>3, <1>4, <1>5

(* Every fate is a fate, and a loop is none that can happen. *)
LEMMA FateType ==
  /\ {Lost, ToHost, ToStack, ToAir, Discarded} \subseteq Fates
  /\ [ToAir EXCEPT !.frees = 1] \in Fates /\ [Lost EXCEPT !.frees = 1] \in Fates
<1>1. Lost \in Fates
  BY DEF Fates, Lost
<1>2. \A f \in Fates : /\ [f EXCEPT !.frees = 1] \in Fates
                      /\ [f EXCEPT !.host = 1] \in Fates
                      /\ [f EXCEPT !.stack = 1] \in Fates
                      /\ [f EXCEPT !.air = 1] \in Fates
  BY DEF Fates
<1>3. \A f \in Fates : [f EXCEPT !.host = 1, !.frees = 1] \in Fates
  <2> SUFFICES ASSUME NEW f \in Fates
               PROVE  [f EXCEPT !.host = 1, !.frees = 1] \in Fates
    OBVIOUS
  <2>1. [f EXCEPT !.host = 1, !.frees = 1]
          = [[f EXCEPT !.host = 1] EXCEPT !.frees = 1]
    OBVIOUS
  <2> QED
    BY <1>2, <2>1
<1> QED
  BY <1>1, <1>2, <1>3 DEF ToHost, ToStack, ToAir, Discarded

LEMMA ReceiveRouting ==
  ASSUME PointerInv, RInv, NEW p \in Inbound, Receive(p)
  PROVE  RInv'
<1> DEFINE f == IF netif["input"] = "mitm" THEN netif_input_mitm(p)
                ELSE StackInput(p)
<1>1. f \in {ToHost, ToStack, Discarded} /\ (mode = "ip" => f = StackInput(p))
  BY IpModeFate DEF RInv
<1>2. last' = [kind |-> "in", packet |-> p, fate |-> f, mode |-> mode,
               bcast |-> bcast, hooked |-> Hooked, up |-> up]
      /\ UNCHANGED <<mode, bcast, pcbs, up, setups>>
  BY DEF Receive, Note
<1> HIDE DEF f
<1>3. /\ last'.kind = "in" /\ last'.packet = p /\ last'.fate = f
      /\ last'.mode = mode /\ last'.bcast = bcast /\ Registered' = Registered
  BY <1>2 DEF Registered
<1>4. /\ ToHost.host = 1 /\ ToHost.stack = 0 /\ ToStack.host = 0 /\ ToStack.stack = 1
      /\ Discarded.host = 0 /\ Discarded.stack = 0
  BY DEF ToHost, ToStack, Discarded, Lost
<1>5. IpModeRouting'
  <2> SUFFICES ASSUME mode = "ip"
               PROVE  /\ f.host = 1 <=>
                           /\ Registered /\ p \in {"tcp", "udp", "broadcast"}
                           /\ p = "broadcast" => bcast
                      /\ p \in {"dhcp", "other", "cut"} => f.stack = 1
                      /\ f.host + f.stack <= 1
    BY <1>3 DEF IpModeRouting
  <2>1. f = StackInput(p)
    BY <1>1
  <2>2. CASE ~Registered \/ p \in {"other", "cut", "dhcp"}
    <3>1. f = ToStack
      BY <2>1, <2>2 DEF StackInput, RawReceiver
    <3> QED
      BY <2>2, <3>1, <1>4
  <2>3. CASE Registered /\ p \in {"scattered", "large"}
    <3>1. f = Discarded
      BY <2>1, <2>3 DEF StackInput, RawReceiver
    <3> QED
      BY <2>3, <3>1, <1>4
  <2>4. CASE Registered /\ (p \in {"tcp", "udp"} \/ (p = "broadcast" /\ bcast))
    <3>1. f = ToHost
      BY <2>1, <2>4 DEF StackInput, RawReceiver
    <3> QED
      BY <2>4, <3>1, <1>4
  <2>5. CASE Registered /\ p = "broadcast" /\ ~bcast
    <3>1. f = ToStack
      BY <2>1, <2>5 DEF StackInput, RawReceiver
    <3> QED
      BY <2>5, <3>1, <1>4
  <2>6. \/ ~Registered \/ p \in {"other", "cut", "dhcp"}
        \/ Registered /\ p \in {"scattered", "large"}
        \/ Registered /\ (p \in {"tcp", "udp"} \/ (p = "broadcast" /\ bcast))
        \/ Registered /\ p = "broadcast" /\ ~bcast
    BY DEF Inbound
  <2> QED
    BY <2>2, <2>3, <2>4, <2>5, <2>6
<1>6. f \in Fates
  BY <1>1, FateType
<1> QED
  BY <1>2, <1>3, <1>5, <1>6 DEF RInv, ScalarType

(* A step whose packet, if any, does not come from the air. *)
LEMMA OtherRouting ==
  ASSUME RInv, ScalarType', UNCHANGED pcbs,
         last' = last \/ (last'.kind # "in" /\ last'.fate \in Fates)
  PROVE  RInv'
BY DEF RInv, IpModeRouting, Registered

LEMMA NextRouting ==
  ASSUME PointerInv, RInv, [Next]_vars
  PROVE  RInv'
<1>1. ScalarType /\ TaskType
  BY DEF RInv, PointerInv
<1>2. CASE NetifSetup
  <2>1. ScalarType'
    BY <1>1, <1>2, ForwardingAssumption DEF NetifSetup, ScalarType
  <2> QED
    BY <1>2, <2>1, OtherRouting DEF NetifSetup
<1>3. CASE \E p \in Inbound : Receive(p)
  BY <1>3, ReceiveRouting
<1>4. CASE \E k \in {"ip", "arp"} : StackSend(k)
  <2>1. PICK k \in {"ip", "arp"} : StackSend(k)
    BY <1>4
  <2>2. /\ last'.kind = "out" /\ last'.fate \in {Output, LinkOutput}
        /\ UNCHANGED <<mode, bcast, pcbs, up, setups>>
    BY <2>1 DEF StackSend, Note
  <2>3. last'.fate \in Fates
    BY <2>2, OutputFate, FateType
  <2> QED
    BY <1>1, <2>2, <2>3, OtherRouting DEF ScalarType
<1>5. CASE (\E r \in Requests : HostMessage(r)) \/ HookSave \/ HookInstall
            \/ HandleOther \/ UNCHANGED vars
  <2>1. UNCHANGED <<mode, bcast, pcbs, up, setups, last>>
    BY <1>5 DEF HostMessage, HookSave, HookInstall, HandleOther, vars
  <2> QED
    BY <1>1, <2>1, OtherRouting DEF ScalarType
<1>6. CASE \E a \in BOOLEAN : HandleIpPacket(a)
  <2>1. PICK a \in BOOLEAN : HandleIpPacket(a)
    BY <1>6
  <2>2. UNCHANGED <<mode, bcast, pcbs, up, setups>>
    BY <2>1 DEF HandleIpPacket
  <2>3. CASE last' = last
    BY <1>1, <2>2, <2>3, OtherRouting DEF ScalarType
  <2>4. CASE last' # last
    <3>1. mode = "ip" /\ last'.kind = "inject" /\ last'.fate = inject_ip_packet(a)
      BY <2>1, <2>4 DEF HandleIpPacket, Note
    <3>2. Output = ToAir
      BY <3>1, OutputFate
    <3>3. inject_ip_packet(a) \in Fates
      BY <3>2, FateType DEF inject_ip_packet
    <3> QED
      BY <1>1, <2>2, <3>1, <3>3, OtherRouting DEF ScalarType
  <2> QED
    BY <2>3, <2>4
<1>7. CASE \E a \in BOOLEAN : HandleEtherPacket(a)
  <2>1. PICK a \in BOOLEAN : HandleEtherPacket(a)
    BY <1>7
  <2>2. UNCHANGED <<mode, bcast, pcbs, up, setups>>
    BY <2>1 DEF HandleEtherPacket
  <2>3. \/ last' = last
        \/ last'.kind = "inject" /\ last'.fate = inject_ether_packet(a)
    BY <2>1 DEF HandleEtherPacket, Note
  <2>4. inject_ether_packet(a) \in Fates
    BY FateType DEF inject_ether_packet
  <2> QED
    BY <1>1, <2>2, <2>3, <2>4, OtherRouting DEF ScalarType
<1>8. CASE HandleSetMode
  <2>1. main.req \in Requests /\ main.req.type = "SET_FORWARDING_MODE"
    BY <1>1, <1>8 DEF HandleSetMode, Handling, TaskType, NoRequest
  <2>2. main.req.mode \in Modes
    BY <2>1 DEF Requests
  <2> QED
    BY <1>1, <1>8, <2>2, OtherRouting DEF HandleSetMode, ScalarType
<1>9. CASE HandleSetBroadcasts
  <2>1. main.req \in Requests /\ main.req.type = "FORWARD_IP_BROADCASTS"
    BY <1>1, <1>9 DEF HandleSetBroadcasts, Handling, TaskType, NoRequest
  <2>2. main.req.on \in BOOLEAN
    BY <2>1 DEF Requests
  <2> QED
    BY <1>1, <1>9, <2>2, OtherRouting DEF HandleSetBroadcasts, ScalarType
<1> QED
  BY <1>2, <1>3, <1>4, <1>5, <1>6, <1>7, <1>8, <1>9 DEF Next

(***************************************************************************)
(* In IP-forwarding mode every packet has the destination raw_receiver     *)
(* gives it, DHCP and what cannot be decided stay with the stack, and no   *)
(* hook is ever kept as the function it replaced, whenever and however     *)
(* often the SDK sets the interface up.                                    *)
(***************************************************************************)
THEOREM PacketsRouted == Spec => []RoutingSound
<1>1. Init => RInv
  <2> SUFFICES ASSUME Init PROVE RInv
    OBVIOUS
  <2>1. ScalarType
    <3>1. mode \in Modes /\ bcast \in BOOLEAN /\ up \in BOOLEAN
      BY DEF Init, Modes
    <3>2. pcbs \subseteq {"tcp", "udp"}
      BY ForwardingAssumption DEF Init
    <3>3. setups \in 0..MaxSetups
      BY ForwardingAssumption DEF Init
    <3> QED
      BY <3>1, <3>2, <3>3 DEF ScalarType
  <2>2. last.fate = Lost /\ last.kind = "none"
    BY DEF Init
  <2>3. last.fate \in Fates
    BY <2>2, FateType
  <2>4. IpModeRouting
    BY <2>2 DEF IpModeRouting
  <2> QED
    BY <2>1, <2>3, <2>4 DEF RInv
<1>2. FInv /\ RInv /\ [Next]_vars => RInv'
  BY NextRouting DEF FInv
<1>3. FInv /\ RInv => RoutingSound
  <2> SUFFICES ASSUME FInv, RInv PROVE RoutingSound
    OBVIOUS
  <2>1. Len(Slots) = 3
    BY DEF Slots
  <2> QED
    BY <2>1 DEF FInv, PointerInv, PointerType, TaskType, RInv, ScalarType,
                RoutingSound, TypeOK
<1> QED
  BY <1>1, <1>2, <1>3, FInvHolds, PTL DEF Spec
-----------------------------------------------------------------------------

SdkType == [opmode : OpModes, dhcpc : BOOLEAN, dhcps : BOOLEAN,
            static_ip : BOOLEAN, offer_router : BOOLEAN, joined : BOOLEAN,
            ap_conf : BOOLEAN]

SdkInv == sdk \in SdkType
ScalarInv ==
  loglevel \in Levels /\ scanning \in BOOLEAN /\ requests \in 0..MaxRequests
RingInv ==
  ring \in Seq(Messages) /\ Len(ring) <= RingSize /\ heard \in [left : Int, got : Nat]

IsEntry(k) == ring[k].type = "SCAN_ENTRY"

(* The place of the header that entry k belongs to; the host has already   *)
(* heard it if it is not in the ring any more.                             *)
HeaderOf(k) == k - 1 - ring[k].val

(* Every entry in the ring has a header that announces it, in the ring or  *)
(* heard, and only entries lie between the two.                            *)
EntryInv(k) ==
  /\ ring[k].val >= 0
  /\ HeaderOf(k) >= 1 => /\ ring[HeaderOf(k)].type = "SCAN_REPLY"
                         /\ ring[HeaderOf(k)].val > ring[k].val
  /\ HeaderOf(k) < 1 => /\ heard.got = ring[k].val - (k - 1)
                        /\ heard.left > k - 1
  /\ \A j \in 1..(k - 1) : j > HeaderOf(k) => IsEntry(j)

ScanInv == \A k \in 1..Len(ring) : IsEntry(k) => EntryInv(k)

CInv == SdkInv /\ ScalarInv /\ RingInv /\ ScanInv
         /\ OneReplyPerRequest /\ StatusTruthful

-----------------------------------------------------------------------------
(* What the ring takes of a list of messages is a beginning of it that     *)
(* leaves the ring within its size.                                        *)
LEMMA StoredIsPrefix ==
  ASSUME RingInv, NEW msgs \in Seq(Messages)
  PROVE  /\ Stored(msgs) \in Seq(Messages)
         /\ Len(Stored(msgs)) \in Nat
         /\ Len(Stored(msgs)) <= Len(msgs)
         /\ Len(ring) + Len(Stored(msgs)) <= RingSize
         /\ \A k \in 1..Len(Stored(msgs)) : Stored(msgs)[k] = msgs[k]
<1> DEFINE n == IF Len(msgs) < Room THEN Len(msgs) ELSE Room
<1>1. Len(msgs) \in Nat /\ Room \in Nat
  BY CommandsAssumption, LenProperties DEF RingInv, Room
<1>2. n \in Nat /\ n <= Len(msgs) /\ n <= Room
  BY <1>1
<1>3. Len(ring) \in Nat /\ Len(ring) + n <= RingSize
  BY <1>1, <1>2, CommandsAssumption, LenProperties DEF RingInv, Room
<1> HIDE DEF n
<1>4. \A k \in 1..n : msgs[k] \in Messages
  BY <1>1, <1>2, ElementOfSeq
<1>5. /\ SubSeq(msgs, 1, n) \in Seq(Messages) /\ Len(SubSeq(msgs, 1, n)) = n
      /\ \A k \in 1..n : SubSeq(msgs, 1, n)[k] = msgs[k]
  BY <1>1, <1>2, <1>4
<1> QED
  BY <1>2, <1>3, <1>5 DEF Stored, n

(* Messages behind the ring's own do not disturb what it holds. *)
LEMMA AppendKeepsEntries ==
  ASSUME RingInv, ScanInv, NEW more \in Seq(Messages),
         ring' = ring \o more, UNCHANGED heard,
         Len(ring) + Len(more) <= RingSize
  PROVE  /\ RingInv'
         /\ Len(ring') = Len(ring) + Len(more)
         /\ \A k \in 1..Len(ring) : ring'[k] = ring[k]
         /\ \A k \in 1..Len(more) : ring'[Len(ring) + k] = more[k]
         /\ \A k \in 1..Len(ring) : IsEntry(k)' => EntryInv(k)'
<1>1. /\ ring' \in Seq(Messages) /\ Len(ring') = Len(ring) + Len(more)
      /\ \A k \in 1..Len(ring) : ring'[k] = ring[k]
      /\ \A k \in 1..Len(more) : ring'[Len(ring) + k] = more[k]
  BY DEF RingInv
<1>2. Len(ring) \in Nat /\ \A k \in 1..Len(ring) : ring[k] \in Messages
  BY LenProperties, ElementOfSeq DEF RingInv
<1>3. ASSUME NEW k \in 1..Len(ring), IsEntry(k)'
      PROVE  EntryInv(k)'
  <2>1. ring'[k] = ring[k] /\ IsEntry(k) /\ EntryInv(k) /\ ring[k].val \in Int
    BY <1>1, <1>2, <1>3 DEF IsEntry, ScanInv, Messages
  <2>2. HeaderOf(k)' = HeaderOf(k) /\ HeaderOf(k) \in Int /\ HeaderOf(k) <= k - 1
    BY <2>1 DEF HeaderOf, EntryInv
  <2>3. HeaderOf(k) >= 1 => ring'[HeaderOf(k)] = ring[HeaderOf(k)]
    BY <1>1, <1>2, <2>2
  <2>4. \A j \in 1..(k - 1) : ring'[j] = ring[j]
    BY <1>1, <1>2
  <2> QED
    BY <2>1, <2>2, <2>3, <2>4 DEF EntryInv, IsEntry
<1> QED
  BY <1>1, <1>3 DEF RingInv

(* A handler's messages are not scan entries. *)
LEMMA AnswerKeepsRing ==
  ASSUME RingInv, ScanInv, NEW msgs \in Seq(Messages),
         \A k \in 1..Len(msgs) : msgs[k].type # "SCAN_ENTRY",
         ring' = ring \o Stored(msgs), UNCHANGED heard
  PROVE  RingInv' /\ ScanInv'
<1>1. /\ Stored(msgs) \in Seq(Messages) /\ Len(Stored(msgs)) \in Nat
      /\ Len(Stored(msgs)) <= Len(msgs) /\ Len(ring) + Len(Stored(msgs)) <= RingSize
      /\ \A k \in 1..Len(Stored(msgs)) : Stored(msgs)[k] = msgs[k]
  BY StoredIsPrefix
<1>2. Len(ring) \in Nat /\ Len(msgs) \in Nat
  BY LenProperties DEF RingInv
<1> DEFINE more == Stored(msgs)
<1> HIDE DEF more
<1>3. /\ RingInv' /\ Len(ring') = Len(ring) + Len(more)
      /\ \A k \in 1..Len(more) : ring'[Len(ring) + k] = more[k]
      /\ \A k \in 1..Len(ring) : IsEntry(k)' => EntryInv(k)'
  BY <1>1, AppendKeepsEntries DEF more
<1>4. \A k \in 1..Len(more) : more[k].type # "SCAN_ENTRY"
  BY <1>1, <1>2 DEF more
<1>5. ASSUME NEW k \in 1..Len(ring'), IsEntry(k)'
      PROVE  k \in 1..Len(ring)
  <2> SUFFICES ASSUME k > Len(ring) PROVE FALSE
    BY <1>2, <1>3, <1>1 DEF more
  <2>1. k - Len(ring) \in 1..Len(more) /\ k = Len(ring) + (k - Len(ring))
    BY <1>1, <1>2, <1>3 DEF more
  <2> QED
    BY <1>3, <1>4, <1>5, <2>1 DEF IsEntry
<1> QED
  BY <1>3, <1>5 DEF ScanInv

LEMMA MessageType ==
  \A t \in MessageTypes, v \in Int : [type |-> t, val |-> v] \in Messages
BY DEF Messages

(* scan_done: a header and its entries, as many as there is room for. *)
LEMMA ScanList ==
  ASSUME NEW n \in Nat
  PROVE  /\ ScanMessages(n) \in Seq(Messages) /\ Len(ScanMessages(n)) = n + 1
         /\ ScanMessages(n)[1] = ScanReply(n)
         /\ \A i \in 2..(n + 1) : ScanMessages(n)[i] = ScanEntry(i - 2)
<1> DEFINE e == [k \in 1..n |-> ScanEntry(k - 1)]
<1>1. ScanReply(n) \in Messages /\ \A k \in 1..n : ScanEntry(k - 1) \in Messages
  <2>1. "SCAN_REPLY" \in MessageTypes /\ "SCAN_ENTRY" \in MessageTypes
    BY DEF MessageTypes
  <2>2. n \in Int /\ \A k \in 1..n : k - 1 \in Int
    OBVIOUS
  <2> QED
    BY <2>1, <2>2, MessageType DEF ScanReply, ScanEntry
<1>2. e \in Seq(Messages) /\ Len(e) = n /\ \A k \in 1..n : e[k] = ScanEntry(k - 1)
  BY <1>1, IsASeq
<1> HIDE DEF e
<1>3. <<ScanReply(n)>> \in Seq(Messages) /\ Len(<<ScanReply(n)>>) = 1
  BY <1>1
<1>4. /\ <<ScanReply(n)>> \o e \in Seq(Messages)
      /\ Len(<<ScanReply(n)>> \o e) = 1 + n
      /\ (<<ScanReply(n)>> \o e)[1] = ScanReply(n)
      /\ \A i \in 2..(n + 1) : (<<ScanReply(n)>> \o e)[i] = e[i - 1]
  BY <1>2, <1>3, ConcatProperties
<1>5. \A i \in 2..(n + 1) : e[i - 1] = ScanEntry(i - 2)
  <2> SUFFICES ASSUME NEW i \in 2..(n + 1) PROVE e[i - 1] = ScanEntry(i - 2)
    OBVIOUS
  <2>1. i - 1 \in 1..n /\ (i - 1) - 1 = i - 2
    OBVIOUS
  <2> QED
    BY <1>2, <2>1
<1> QED
  BY <1>4, <1>5 DEF ScanMessages, e

LEMMA ScanDoneStep ==
  ASSUME RingInv, ScanInv, NEW n \in Nat, ScanDone(n)
  PROVE  RingInv' /\ ScanInv'
<1> DEFINE msgs == ScanMessages(n)
           more == Stored(msgs)
           L == Len(ring)
<1>1. /\ msgs \in Seq(Messages) /\ Len(msgs) = n + 1 /\ msgs[1] = ScanReply(n)
      /\ \A i \in 2..(n + 1) : msgs[i] = ScanEntry(i - 2)
  BY ScanList
<1>2. /\ more \in Seq(Messages) /\ Len(more) \in Nat /\ Len(more) <= n + 1
      /\ L + Len(more) <= RingSize
      /\ \A k \in 1..Len(more) : more[k] = msgs[k]
  BY <1>1, StoredIsPrefix
<1>3. ring' = ring \o more /\ UNCHANGED heard
  BY DEF ScanDone
<1> HIDE DEF msgs, more
<1>4. /\ RingInv' /\ Len(ring') = L + Len(more)
      /\ \A k \in 1..Len(more) : ring'[L + k] = more[k]
      /\ \A k \in 1..L : IsEntry(k)' => EntryInv(k)'
  BY <1>2, <1>3, AppendKeepsEntries
<1>5. L \in Nat
  BY LenProperties DEF RingInv
<1>6. Len(more) >= 1 => ring'[L + 1] = ScanReply(n)
  BY <1>1, <1>2, <1>4
<1>7. \A i \in 2..Len(more) : ring'[L + i] = ScanEntry(i - 2)
  BY <1>1, <1>2, <1>4
<1>8. ASSUME NEW k \in 1..Len(ring'), IsEntry(k)', k > L
      PROVE  EntryInv(k)'
  <2> DEFINE i == k - L
  <2>1. i \in 1..Len(more) /\ k = L + i /\ i \in Int
    BY <1>2, <1>4, <1>5, <1>8
  <2>2. i # 1
    BY <1>6, <1>8, <2>1 DEF IsEntry, ScanReply
  <2>3. i \in 2..Len(more) /\ ring'[k] = ScanEntry(i - 2)
    <3>1. i \in 2..Len(more)
      BY <1>2, <2>1, <2>2
    <3>2. ring'[L + i] = ScanEntry(i - 2)
      BY <1>7, <3>1
    <3> HIDE DEF i
    <3> QED
      BY <2>1, <3>1, <3>2
  <2>4. ring'[k].val = i - 2 /\ i - 2 < n
    BY <1>2, <2>3 DEF ScanEntry
  <2>5. HeaderOf(k)' = L + 1
    BY <1>5, <2>1, <2>4 DEF HeaderOf
  <2>6. ring'[L + 1] = ScanReply(n)
    BY <1>2, <1>6, <2>3
  <2>7. ASSUME NEW j \in 1..(k - 1), j > L + 1
        PROVE  IsEntry(j)'
    <3>1. j - L \in 2..Len(more) /\ j = L + (j - L)
      BY <1>2, <1>5, <2>1, <2>7
    <3>2. ring'[j] = ScanEntry((j - L) - 2)
      BY <1>7, <3>1
    <3> QED
      BY <3>2 DEF IsEntry, ScanEntry
  <2> QED
    BY <1>5, <2>3, <2>4, <2>5, <2>6, <2>7 DEF EntryInv, ScanReply
<1> QED
  BY <1>4, <1>5, <1>8 DEF ScanInv

(* The transmitter takes the oldest message, and the host hears it. *)
LEMMA TransmitStep ==
  ASSUME RingInv, ScanInv, Transmit
  PROVE  RingInv' /\ ScanInv'
<1>1. /\ ring \in Seq(Messages) /\ ring # <<>> /\ Len(ring) \in Nat /\ Len(ring) >= 1
      /\ \A k \in 1..Len(ring) : ring[k] \in Messages
  BY LenProperties, EmptySeq, ElementOfSeq DEF RingInv, Transmit
<1>2. /\ Head(ring) = ring[1] /\ ring' \in Seq(Messages)
      /\ Len(ring') = Len(ring) - 1
      /\ \A k \in 1..Len(ring') : ring'[k] = ring[k + 1]
  BY <1>1, HeadTailProperties DEF Transmit
<1>3. /\ ring[1].type = "SCAN_REPLY" => heard' = [left |-> ring[1].val, got |-> 0]
      /\ ring[1].type = "SCAN_ENTRY" =>
           heard' = [left |-> heard.left - 1, got |-> heard.got + 1]
      /\ ring[1].type \notin {"SCAN_REPLY", "SCAN_ENTRY"} => heard' = heard
  BY <1>2 DEF Transmit
<1>4. ring[1].val \in Int /\ heard.left \in Int /\ heard.got \in Nat
  BY <1>1 DEF Messages, RingInv
<1>5. heard' \in [left : Int, got : Nat]
  BY <1>3, <1>4 DEF RingInv
<1>6. RingInv'
  BY <1>1, <1>2, <1>5, CommandsAssumption DEF RingInv
<1>7. ASSUME NEW k \in 1..Len(ring'), IsEntry(k)'
      PROVE  EntryInv(k)'
  <2> DEFINE v == ring[k + 1].val
             h == HeaderOf(k + 1)
  <2>1. /\ k \in Nat /\ k >= 1 /\ k + 1 \in 1..Len(ring) /\ ring'[k] = ring[k + 1]
        /\ IsEntry(k + 1) /\ EntryInv(k + 1)
    BY <1>1, <1>2, <1>7 DEF IsEntry, ScanInv
  <2>2. v \in Int /\ v >= 0 /\ h = k - v /\ h \in Int /\ HeaderOf(k)' = h - 1
    BY <1>1, <2>1 DEF EntryInv, HeaderOf, Messages
  <2> DEFINE w == ring[h].val
  <2>3. /\ h >= 1 => ring[h].type = "SCAN_REPLY" /\ w > v
        /\ h < 1 => heard.got = v - k /\ heard.left > k
        /\ \A j \in 1..k : j > h => IsEntry(j)
    BY <2>1, <2>2 DEF EntryInv
  <2>4. HeaderOf(k)' >= 1 => /\ ring'[HeaderOf(k)'].type = "SCAN_REPLY"
                             /\ ring'[HeaderOf(k)'].val > v
    <3> SUFFICES ASSUME h - 1 >= 1
                 PROVE  ring'[h - 1].type = "SCAN_REPLY" /\ ring'[h - 1].val > v
      BY <2>2
    <3>1. h - 1 \in 1..Len(ring') /\ (h - 1) + 1 = h
      BY <1>1, <1>2, <2>1, <2>2
    <3>2. ring'[h - 1] = ring[h]
      BY <1>2, <3>1
    <3> QED
      BY <2>2, <2>3, <3>2
  <2>5. h < 2 => heard'.got = v - (k - 1) /\ heard'.left > k - 1
    <3>1. CASE h = 1
      <4>1. ring[1].type = "SCAN_REPLY" /\ ring[1].val > v
        BY <2>3, <3>1
      <4>2. heard' = [left |-> ring[1].val, got |-> 0]
        BY <1>3, <4>1
      <4>3. heard'.left = ring[1].val /\ heard'.got = 0
        BY <4>2
      <4> QED
        BY <1>4, <2>1, <2>2, <3>1, <4>1, <4>3, SMTT(30)
    <3>2. CASE h < 1
      <4>1. 1 \in 1..k /\ 1 > h
        BY <2>1, <2>2, <3>2
      <4>2. ring[1].type = "SCAN_ENTRY"
        BY <2>3, <4>1 DEF IsEntry
      <4>3. heard'.left = heard.left - 1 /\ heard'.got = heard.got + 1
        BY <1>3, <4>2
      <4>4. heard.got = v - k /\ heard.left > k /\ v \in Int /\ k \in Int
        BY <2>1, <2>2, <2>3, <3>2
      <4> HIDE DEF v, h
      <4>5. heard.got + 1 = v - (k - 1) /\ heard.left - 1 > k - 1
        BY <1>4, <4>4
      <4> QED
        BY <4>3, <4>5
    <3> QED
      BY <2>2, <3>1, <3>2
  <2>6. ASSUME NEW j \in 1..(k - 1), j > h - 1
        PROVE  IsEntry(j)'
    <3>1. j + 1 \in 1..k /\ j + 1 > h /\ j \in 1..Len(ring')
      BY <1>1, <1>2, <2>1, <2>2, <2>6, SMTT(30)
    <3>2. IsEntry(j + 1)
      BY <2>3, <3>1
    <3> QED
      BY <1>2, <3>1, <3>2 DEF IsEntry
  <2> HIDE DEF v, h, w
  <2>7. ring'[k].val = v
    BY <2>1 DEF v
  <2> QED
    BY <2>2, <2>4, <2>5, <2>6, <2>7 DEF EntryInv
<1> QED
  BY <1>6, <1>7 DEF ScanInv

(* The host meets the next entry of the last header it has heard. *)
LEMMA HeadIsExpected ==
  ASSUME RingInv, ScanInv
  PROVE  EntriesFollowHeader
<1> SUFFICES ASSUME ring # <<>>, Head(ring).type = "SCAN_ENTRY"
             PROVE  heard.left > 0 /\ Head(ring).val = heard.got
  BY DEF EntriesFollowHeader
<1>1. Len(ring) \in Nat /\ Len(ring) >= 1 /\ Head(ring) = ring[1] /\ ring[1] \in Messages
  BY LenProperties, EmptySeq, ElementOfSeq, HeadTailProperties DEF RingInv
<1>2. ring[1].val \in Int /\ EntryInv(1)
  BY <1>1 DEF ScanInv, IsEntry, Messages
<1>3. heard.left \in Int /\ heard.got \in Nat
  BY DEF RingInv
<1> QED
  BY <1>1, <1>2, <1>3 DEF EntryInv, HeaderOf

-----------------------------------------------------------------------------
(* A list of messages with one reply, and one with none. *)
OneReply(msgs, m) ==
  \E i \in DOMAIN msgs :
    {k \in DOMAIN msgs : msgs[k].type # "LOG"} = {i} /\ msgs[i] = m

NoReply(msgs) == {k \in DOMAIN msgs : msgs[k].type # "LOG"} = {}

Sendable(msgs) ==
  msgs \in Seq(Messages) /\ \A k \in 1..Len(msgs) : msgs[k].type # "SCAN_ENTRY"

LEMMA LogShape ==
  ASSUME NEW level \in {20, 40}
  PROVE  Log(level) = <<[type |-> "LOG", val |-> level]>> \/ Log(level) = <<>>
BY DEF Log

LEMMA SingleMessage ==
  ASSUME NEW m \in Messages
  PROVE  /\ m.type # "SCAN_ENTRY" => Sendable(<<m>>)
         /\ m.type # "LOG" => OneReply(<<m>>, m)
         /\ m.type = "LOG" => NoReply(<<m>>)
<1>1. <<m>> \in Seq(Messages) /\ DOMAIN <<m>> = {1} /\ Len(<<m>>) = 1 /\ <<m>>[1] = m
  OBVIOUS
<1> QED
  BY <1>1 DEF Sendable, OneReply, NoReply

LEMMA EmptyMessage == Sendable(<<>>) /\ NoReply(<<>>)
BY DEF Sendable, NoReply

LEMMA OkShape == Sendable(Ok) /\ OneReply(Ok, Status(0))
<1>1. Status(0) \in Messages /\ Status(0).type = "STATUS"
  BY MessageType DEF Status, MessageTypes
<1> QED
  BY <1>1, SingleMessage DEF Ok

LEMMA TupleConcat ==
  ASSUME NEW S, NEW a \in S, NEW b \in S
  PROVE  <<a>> \o <<b>> = <<a, b>> /\ <<a>> \o <<>> = <<a>>
<1> DEFINE s == <<a>> \o <<b>>
           t == <<a, b>>
<1>1. s \in Seq(S) /\ t \in Seq(S) /\ Len(s) = 2 /\ Len(t) = 2
  OBVIOUS
<1>2. s[1] = a /\ s[2] = b /\ t[1] = a /\ t[2] = b
  OBVIOUS
<1>3. \A i \in 1..2 : s[i] = t[i]
  BY <1>2
<1>4. <<a>> \o <<>> = <<a>>
  OBVIOUS
<1> HIDE DEF s, t
<1>5. s = t
  BY <1>1, <1>3, SeqEqual
<1> QED
  BY <1>4, <1>5 DEF s, t

LEMMA FailShape == Sendable(FAIL) /\ OneReply(FAIL, Status(255))
<1> DEFINE l == [type |-> "LOG", val |-> 40]
<1>1. Status(255) \in Messages /\ Status(255).type = "STATUS"
  BY MessageType DEF Status, MessageTypes
<1>2. l \in Messages /\ l.type = "LOG"
  BY MessageType DEF MessageTypes
<1>3. CASE Log(40) = <<>>
  <2>1. FAIL = <<Status(255)>>
    BY <1>1, <1>3, TupleConcat, ZenonT(30) DEF FAIL
  <2> QED
    BY <1>1, <2>1, SingleMessage
<1>4. CASE Log(40) = <<l>>
  <2> DEFINE s == Status(255)
  <2>1. FAIL = <<s, l>>
    BY <1>1, <1>2, <1>4, TupleConcat, ZenonT(30) DEF FAIL
  <2>2. s \in Messages /\ s.type = "STATUS"
    BY <1>1
  <2> HIDE DEF s, l
  <2>3. <<s, l>> \in Seq(Messages) /\ DOMAIN <<s, l>> = {1, 2} /\ Len(<<s, l>>) = 2
        /\ <<s, l>>[1] = s /\ <<s, l>>[2] = l
    BY <1>2, <2>2
  <2>4. Sendable(<<s, l>>) /\ OneReply(<<s, l>>, s)
    BY <1>2, <2>2, <2>3 DEF Sendable, OneReply
  <2> QED
    BY <2>1, <2>4 DEF s
<1> QED
  BY <1>3, <1>4, LogShape

LEMMA ReplyShape ==
  ASSUME NEW t \in MessageTypes \ {"LOG", "SCAN_ENTRY"}
  PROVE  Sendable(<<Reply(t)>>) /\ OneReply(<<Reply(t)>>, Reply(t))
<1>1. Reply(t) \in Messages /\ Reply(t).type = t
  BY MessageType DEF Reply
<1> QED
  BY <1>1, SingleMessage

LEMMA StatsShape == Sendable(Log(20)) /\ NoReply(Log(20))
<1> DEFINE l == [type |-> "LOG", val |-> 20]
<1>1. l \in Messages /\ l.type = "LOG"
  BY MessageType DEF MessageTypes
<1> QED
  BY <1>1, SingleMessage, EmptyMessage, LogShape

-----------------------------------------------------------------------------
(* What a handler owes the host: an effect for STATUS 0, and one reply. *)
Effected(r, s) ==
  /\ r.good
  /\ r.type = "WIFI_MODE_SET" => s.opmode = r.mode
  /\ r.type = "STATIC_IP_CONF_SET" => s.static_ip /\ ~s.dhcpc
  /\ r.type = "SOFTAP_NET_CONF_SET" =>
       /\ s.dhcps = r.dhcpd
       /\ r.dhcpd /\ r.router => s.offer_router

Answered(r, msgs, s) ==
  /\ Sendable(msgs)
  /\ IF r.type \in Unanswered THEN NoReply(msgs)
     ELSE \E m \in Messages : /\ OneReply(msgs, m)
                              /\ m.type = ReplyTo(r.type) \/ m = Status(255)
                              /\ m = Status(0) => Effected(r, s)

LEMMA AnswerStep ==
  ASSUME CInv, NEW r, NEW msgs, NEW s \in SdkType, Answer(r, msgs, s),
         loglevel' \in Levels, scanning' \in BOOLEAN, Answered(r, msgs, s)
  PROVE  CInv'
<1>1. /\ requests' = requests + 1 /\ requests < MaxRequests /\ req' = r
      /\ answer' = msgs /\ sdk' = s /\ ring' = ring \o Stored(msgs) /\ UNCHANGED heard
  BY DEF Answer
<1>2. SdkInv' /\ ScalarInv'
  BY <1>1, CommandsAssumption DEF CInv, SdkInv, ScalarInv
<1>3. RingInv' /\ ScanInv'
  BY <1>1, AnswerKeepsRing DEF CInv, Answered, Sendable
<1>4. Replies' = {k \in DOMAIN msgs : msgs[k].type # "LOG"}
  BY <1>1 DEF Replies
<1>5. CASE r.type \in Unanswered
  <2>1. Replies' = {}
    BY <1>4, <1>5 DEF Answered, NoReply
  <2> QED
    BY <1>1, <1>2, <1>3, <1>5, <2>1
       DEF CInv, OneReplyPerRequest, StatusTruthful, Succeeded
<1>6. CASE r.type \notin Unanswered
  <2>1. PICK m \in Messages : /\ OneReply(msgs, m)
                              /\ m.type = ReplyTo(r.type) \/ m = Status(255)
                              /\ m = Status(0) => Effected(r, s)
    BY <1>6 DEF Answered
  <2>2. PICK i \in DOMAIN msgs : Replies' = {i} /\ msgs[i] = m
    BY <1>4, <2>1 DEF OneReply
  <2>3. OneReplyPerRequest'
    BY <1>1, <1>6, <2>1, <2>2 DEF OneReplyPerRequest
  <2>4. Succeeded' => m = Status(0)
    BY <1>1, <2>2 DEF Succeeded
  <2>5. StatusTruthful'
    BY <1>1, <2>1, <2>4 DEF StatusTruthful, Effected
  <2> QED
    BY <1>2, <1>3, <2>3, <2>5 DEF CInv
<1> QED
  BY <1>5, <1>6

LEMMA StatusMessages ==
  /\ Status(0) \in Messages /\ Status(0).type = "STATUS"
  /\ Status(255) \in Messages /\ Status(255) # Status(0)
<1>1. Status(0).val = 0 /\ Status(255).val = 255 /\ Status(0).type = "STATUS"
  BY DEF Status
<1>2. "STATUS" \in MessageTypes
  BY DEF MessageTypes
<1> QED
  BY <1>1, <1>2, MessageType DEF Status

(* The three ways in which handlers answer. *)
LEMMA FailAnswered ==
  ASSUME NEW r, NEW s, r.type \notin Unanswered
  PROVE  Answered(r, FAIL, s)
BY FailShape, StatusMessages DEF Answered

LEMMA OkAnswered ==
  ASSUME NEW r, NEW s, r.type \notin Unanswered, ReplyTo(r.type) = "STATUS",
         Effected(r, s)
  PROVE  Answered(r, Ok, s)
BY OkShape, StatusMessages DEF Answered

LEMMA ReplyAnswered ==
  ASSUME NEW r, NEW s, r.type \notin Unanswered,
         ReplyTo(r.type) \in MessageTypes \ {"LOG", "SCAN_ENTRY", "STATUS"}
  PROVE  Answered(r, <<Reply(ReplyTo(r.type))>>, s)
<1> DEFINE m == Reply(ReplyTo(r.type))
<1>1. m \in Messages /\ m.type = ReplyTo(r.type) /\ m # Status(0)
  BY MessageType, StatusMessages DEF Reply
<1>2. Sendable(<<m>>) /\ OneReply(<<m>>, m)
  BY ReplyShape
<1> HIDE DEF m
<1>3. Answered(r, <<m>>, s)
  BY <1>1, <1>2 DEF Answered
<1> QED
  BY <1>3 DEF m

(* Settings are acknowledged by STATUS, and the rest by a reply of its own. *)
Queries == {"IP_CONF_REQUEST", "MACADDR_REQUEST", "RSSI_REQUEST",
            "CONN_STATUS_REQUEST", "ECHO_REQUEST"}

LEMMA ReplyTypes ==
  /\ \A t \in AllTypes \ (Queries \cup Unanswered) : ReplyTo(t) = "STATUS"
  /\ ReplyTo("IP_CONF_REQUEST") = "IP_CONF_REPLY"
  /\ ReplyTo("MACADDR_REQUEST") = "MACADDR_REPLY"
  /\ ReplyTo("RSSI_REQUEST") = "RSSI_REPLY"
  /\ ReplyTo("CONN_STATUS_REQUEST") = "CONN_STATUS_REPLY"
  /\ ReplyTo("ECHO_REQUEST") = "ECHO_REPLY"
<1>1. \A t \in AllTypes \ (Queries \cup Unanswered) : ReplyTo(t) = "STATUS"
  BY DEF ReplyTo, Queries
<1> QED
  BY <1>1 DEF ReplyTo

(* One setting of the SDK changes, and nothing else. *)
LEMMA SdkUpdates ==
  ASSUME NEW s \in SdkType
  PROVE  /\ \A m \in OpModes : /\ [s EXCEPT !.opmode = m] \in SdkType
                               /\ [s EXCEPT !.opmode = m].opmode = m
         /\ \A b \in BOOLEAN : [s EXCEPT !.dhcpc = b] \in SdkType
         /\ [s EXCEPT !.dhcpc = FALSE].dhcpc = FALSE
         /\ [s EXCEPT !.static_ip = TRUE] \in SdkType
         /\ [s EXCEPT !.static_ip = TRUE].static_ip = TRUE
         /\ [s EXCEPT !.static_ip = TRUE].dhcpc = s.dhcpc
         /\ \A b \in BOOLEAN : [s EXCEPT !.joined = b] \in SdkType
         /\ [s EXCEPT !.ap_conf = TRUE] \in SdkType
         /\ \A b \in BOOLEAN : [s EXCEPT !.dhcps = b] \in SdkType
         /\ \A b \in BOOLEAN : [s EXCEPT !.offer_router = b] \in SdkType
BY DEF SdkType

LEMMA QuietTypes ==
  ASSUME CInv, Quiet
  PROVE  loglevel' \in Levels /\ scanning' \in BOOLEAN
BY DEF CInv, ScalarInv, Quiet

(* Requests that are settings. *)
Settings == AllTypes \ (Queries \cup Unanswered)

LEMMA SettingTypes ==
  /\ Settings = {"WIFI_MODE_SET", "STATIC_IP_CONF_SET", "DHCPC_STATE_SET",
                 "STATION_CONF_SET", "SLEEP_MODE_SET", "SCAN_REQUEST",
                 "SOFTAP_CONF_SET", "SOFTAP_NET_CONF_SET", "LOG_LEVEL_SET",
                 "FORWARD_IP_BROADCASTS", "SET_FORWARDING_MODE"}
  /\ \A t \in Settings : t \notin Unanswered /\ ReplyTo(t) = "STATUS"
<1>1. \A t \in Settings : t \notin Unanswered /\ ReplyTo(t) = "STATUS"
  BY ReplyTypes DEF Settings
<1>2. Settings = {"WIFI_MODE_SET", "STATIC_IP_CONF_SET", "DHCPC_STATE_SET",
                 "STATION_CONF_SET", "SLEEP_MODE_SET", "SCAN_REQUEST",
                 "SOFTAP_CONF_SET", "SOFTAP_NET_CONF_SET", "LOG_LEVEL_SET",
                 "FORWARD_IP_BROADCASTS", "SET_FORWARDING_MODE"}
  BY DEF Settings, AllTypes, Queries, Unanswered
<1> QED
  BY <1>1, <1>2

(* A setting that is refused, or accepted and in effect. *)
LEMMA SettingStep ==
  ASSUME CInv, NEW r, NEW msgs, NEW s \in SdkType, Answer(r, msgs, s),
         loglevel' \in Levels, scanning' \in BOOLEAN, r.type \in Settings,
         msgs = FAIL \/ (msgs = Ok /\ Effected(r, s))
  PROVE  CInv'
<1>1. r.type \notin Unanswered /\ ReplyTo(r.type) = "STATUS"
  BY SettingTypes
<1>2. Answered(r, msgs, s)
  BY <1>1, FailAnswered, OkAnswered
<1> QED
  BY <1>2, AnswerStep

LEMMA BadRequestStep ==
  ASSUME CInv, NEW t \in AllTypes, BadRequest(t)
  PROVE  CInv'
<1>1. t \in Settings
  BY SettingTypes DEF BadRequest
<1> DEFINE r == [type |-> t, good |-> FALSE]
<1>2. Answer(r, FAIL, sdk) /\ Quiet /\ r.type = t /\ sdk \in SdkType
  BY DEF BadRequest, CInv, SdkInv
<1> HIDE DEF r
<1> QED
  BY <1>1, <1>2, QuietTypes, SettingStep

LEMMA WifiModeSetStep ==
  ASSUME CInv, NEW m \in OpModes, NEW ok \in BOOLEAN, WifiModeSet(m, ok)
  PROVE  CInv'
<1> DEFINE r == [type |-> "WIFI_MODE_SET", good |-> TRUE, mode |-> m]
           s == [sdk EXCEPT !.opmode = m]
<1>1. r.type = "WIFI_MODE_SET" /\ r.good /\ r.mode = m
  OBVIOUS
<1>2. sdk \in SdkType /\ s \in SdkType /\ s.opmode = m
  BY SdkUpdates DEF CInv, SdkInv
<1>3. Quiet /\ (Answer(r, Ok, s) \/ Answer(r, FAIL, sdk))
  BY DEF WifiModeSet
<1> HIDE DEF r, s
<1>4. Effected(r, s) /\ r.type \in Settings
  BY <1>1, <1>2, SettingTypes DEF Effected
<1> QED
  BY <1>2, <1>3, <1>4, QuietTypes, SettingStep

LEMMA StaticIpStep ==
  ASSUME CInv, NEW g \in BOOLEAN, NEW a \in BOOLEAN, NEW b \in BOOLEAN,
         StaticIpConfSet(g, a, b)
  PROVE  CInv'
<1> DEFINE r == [type |-> "STATIC_IP_CONF_SET", good |-> g]
           stopped == [sdk EXCEPT !.dhcpc = FALSE]
           s == [stopped EXCEPT !.static_ip = TRUE]
<1>1. r.type = "STATIC_IP_CONF_SET" /\ r.good = g
  OBVIOUS
<1>2. sdk \in SdkType /\ stopped \in SdkType /\ stopped.dhcpc = FALSE
  BY SdkUpdates DEF CInv, SdkInv
<1>3. /\ Quiet
      /\ \/ Answer(r, FAIL, sdk) \/ Answer(r, FAIL, stopped)
         \/ g /\ Answer(r, Ok, s)
  BY DEF StaticIpConfSet
<1> HIDE DEF stopped
<1>4. s \in SdkType /\ s.static_ip = TRUE /\ s.dhcpc = FALSE
  BY <1>2, SdkUpdates
<1> HIDE DEF r, s
<1>5. (g => Effected(r, s)) /\ r.type \in Settings
  BY <1>1, <1>4, SettingTypes DEF Effected
<1> QED
  BY <1>2, <1>3, <1>4, <1>5, QuietTypes, SettingStep

LEMMA DhcpcStep ==
  ASSUME CInv, NEW on \in BOOLEAN, NEW ok \in BOOLEAN, DhcpcStateSet(on, ok)
  PROVE  CInv'
<1> DEFINE r == [type |-> "DHCPC_STATE_SET", good |-> TRUE, on |-> on]
           s == [sdk EXCEPT !.dhcpc = IF ok THEN on ELSE sdk.dhcpc]
           msgs == IF sdk.dhcpc # on /\ ok THEN FAIL ELSE Ok
<1>1. r.type = "DHCPC_STATE_SET" /\ r.good
  OBVIOUS
<1>2. sdk \in SdkType /\ sdk.dhcpc \in BOOLEAN
  BY DEF CInv, SdkInv, SdkType
<1>3. s \in SdkType
  BY <1>2, SdkUpdates
<1>4. Quiet /\ Answer(r, msgs, s)
  BY DEF DhcpcStateSet
<1>5. msgs = FAIL \/ msgs = Ok
  OBVIOUS
<1> HIDE DEF r, s, msgs
<1>6. Effected(r, s) /\ r.type \in Settings
  BY <1>1, SettingTypes DEF Effected
<1> QED
  BY <1>3, <1>4, <1>5, <1>6, QuietTypes, SettingStep

LEMMA StationConfStep ==
  ASSUME CInv, NEW a \in BOOLEAN, NEW b \in BOOLEAN, StationConfSet(a, b)
  PROVE  CInv'
<1> DEFINE r == [type |-> "STATION_CONF_SET", good |-> TRUE]
           s == [sdk EXCEPT !.joined = b]
<1>1. r.type = "STATION_CONF_SET" /\ r.good
  OBVIOUS
<1>2. sdk \in SdkType /\ s \in SdkType
  BY SdkUpdates DEF CInv, SdkInv
<1>3. Quiet /\ (Answer(r, Ok, s) \/ Answer(r, FAIL, sdk))
  BY DEF StationConfSet
<1> HIDE DEF r, s
<1>4. Effected(r, s) /\ r.type \in Settings
  BY <1>1, SettingTypes DEF Effected
<1> QED
  BY <1>2, <1>3, <1>4, QuietTypes, SettingStep

(* Settings of which the model keeps no value. *)
LEMMA PlainSettingStep ==
  ASSUME CInv, NEW t \in Settings \ {"WIFI_MODE_SET", "STATIC_IP_CONF_SET",
                                     "SOFTAP_NET_CONF_SET"},
         NEW s \in SdkType, NEW msgs \in {Ok, FAIL},
         Answer([type |-> t, good |-> TRUE], msgs, s),
         loglevel' \in Levels, scanning' \in BOOLEAN
  PROVE  CInv'
<1> DEFINE r == [type |-> t, good |-> TRUE]
<1>1. r.type = t /\ r.good
  OBVIOUS
<1>2. Answer(r, msgs, s)
  OBVIOUS
<1> HIDE DEF r
<1>3. Effected(r, s)
  BY <1>1 DEF Effected
<1> QED
  BY <1>1, <1>2, <1>3, SettingStep

LEMMA SleepOrApStep ==
  ASSUME CInv, NEW ok \in BOOLEAN, SleepModeSet(ok) \/ SoftApConfSet(ok)
  PROVE  CInv'
<1> DEFINE s == [sdk EXCEPT !.ap_conf = TRUE]
<1>1. sdk \in SdkType /\ s \in SdkType
  BY SdkUpdates DEF CInv, SdkInv
<1>2. CASE SleepModeSet(ok)
  <2>1. Quiet /\ \E msgs \in {Ok, FAIL} :
                   Answer([type |-> "SLEEP_MODE_SET", good |-> TRUE], msgs, sdk)
    BY <1>2 DEF SleepModeSet
  <2> QED
    BY <1>1, <2>1, QuietTypes, SettingTypes, PlainSettingStep
<1>3. CASE SoftApConfSet(ok)
  <2>1. Quiet /\ \E msgs \in {Ok, FAIL}, x \in {s, sdk} :
                   Answer([type |-> "SOFTAP_CONF_SET", good |-> TRUE], msgs, x)
    BY <1>3 DEF SoftApConfSet
  <2> HIDE DEF s
  <2> QED
    BY <1>1, <2>1, QuietTypes, SettingTypes, PlainSettingStep
<1> QED
  BY <1>2, <1>3

LEMMA ScanRequestStep ==
  ASSUME CInv, NEW ok \in BOOLEAN, ScanRequest(ok)
  PROVE  CInv'
<1>1. \E msgs \in {Ok, FAIL} :
        Answer([type |-> "SCAN_REQUEST", good |-> TRUE], msgs, sdk)
  BY DEF ScanRequest
<1>2. loglevel' \in Levels
  BY DEF ScanRequest, CInv, ScalarInv
<1>3. scanning' \in BOOLEAN
  BY DEF ScanRequest
<1>4. sdk \in SdkType
  BY DEF CInv, SdkInv
<1> QED
  BY <1>1, <1>2, <1>3, <1>4, SettingTypes, PlainSettingStep

LEMMA LogOrForwardingStep ==
  ASSUME CInv, \/ \E level \in Levels : LogLevelSet(level)
               \/ \E t \in AllTypes : ForwardingSet(t)
  PROVE  CInv'
<1>1. sdk \in SdkType
  BY DEF CInv, SdkInv
<1>2. CASE \E level \in Levels : LogLevelSet(level)
  <2>1. /\ Answer([type |-> "LOG_LEVEL_SET", good |-> TRUE], Ok, sdk)
        /\ loglevel' \in Levels /\ scanning' = scanning
    BY <1>2 DEF LogLevelSet
  <2>2. scanning' \in BOOLEAN
    BY <2>1 DEF CInv, ScalarInv
  <2> QED
    BY <1>1, <2>1, <2>2, SettingTypes, PlainSettingStep
<1>3. CASE \E t \in AllTypes : ForwardingSet(t)
  <2>1. PICK t \in {"FORWARD_IP_BROADCASTS", "SET_FORWARDING_MODE"} :
          Answer([type |-> t, good |-> TRUE], Ok, sdk) /\ Quiet
    BY <1>3 DEF ForwardingSet
  <2> QED
    BY <1>1, <2>1, QuietTypes, SettingTypes, PlainSettingStep
<1> QED
  BY <1>2, <1>3

LEMMA QueryStep ==
  ASSUME CInv, NEW t \in Queries, NEW ok \in BOOLEAN, Query(t, ReplyTo(t), ok)
  PROVE  CInv'
<1> DEFINE r == [type |-> t, good |-> TRUE]
           msgs == IF ok THEN <<Reply(ReplyTo(t))>> ELSE FAIL
<1>1. r.type = t
  OBVIOUS
<1>2. Quiet /\ Answer(r, msgs, sdk)
  BY DEF Query
<1>3. sdk \in SdkType
  BY DEF CInv, SdkInv
<1>4. t \notin Unanswered
  BY DEF Queries, Unanswered
<1>5. ReplyTo(t) \in MessageTypes \ {"LOG", "SCAN_ENTRY", "STATUS"}
  BY ReplyTypes DEF Queries, MessageTypes
<1> HIDE DEF r
<1>6. Answered(r, FAIL, sdk) /\ Answered(r, <<Reply(ReplyTo(t))>>, sdk)
  BY <1>1, <1>4, <1>5, FailAnswered, ReplyAnswered
<1>7. Answered(r, msgs, sdk)
  BY <1>6
<1> HIDE DEF msgs
<1> QED
  BY <1>2, <1>3, <1>7, QuietTypes, AnswerStep

LEMMA AnyQueryStep ==
  ASSUME CInv, \/ \E ok \in BOOLEAN : QueryAny(ok)
               \/ ConnStatusRequest \/ EchoRequest
  PROVE  CInv'
<1>1. \E t \in Queries, ok \in BOOLEAN : Query(t, ReplyTo(t), ok)
  <2>1. CASE \E ok \in BOOLEAN : QueryAny(ok)
    BY <2>1, ReplyTypes DEF QueryAny, Queries
  <2>2. CASE ConnStatusRequest
    BY <2>2, ReplyTypes DEF ConnStatusRequest, Queries
  <2>3. CASE EchoRequest
    BY <2>3, ReplyTypes DEF EchoRequest, Queries
  <2> QED
    BY <2>1, <2>2, <2>3
<1> QED
  BY <1>1, QueryStep

LEMMA SilentStep ==
  ASSUME CInv, SetBaud \/ PrintStats
  PROVE  CInv'
<1> DEFINE R(t) == [type |-> t, good |-> TRUE]
<1>1. \A t : R(t).type = t
  OBVIOUS
<1>2. Quiet /\ sdk \in SdkType
  BY DEF SetBaud, PrintStats, CInv, SdkInv
<1>3. \/ Answer(R("SET_BAUD"), <<>>, sdk) \/ Answer(R("PRINT_STATS"), Log(20), sdk)
  BY DEF SetBaud, PrintStats
<1> HIDE DEF R
<1>4. /\ Answered(R("SET_BAUD"), <<>>, sdk)
      /\ Answered(R("PRINT_STATS"), Log(20), sdk)
  BY <1>1, EmptyMessage, StatsShape DEF Answered, Unanswered
<1> QED
  BY <1>2, <1>3, <1>4, QuietTypes, AnswerStep

-----------------------------------------------------------------------------
(* SOFTAP_NET_CONF_SET: which calls its list holds. *)
Calls == {"stop", "set_ip", "lease", "router", "start"}

LEMMA SingleRange ==
  ASSUME NEW S, NEW x \in S
  PROVE  <<x>> \in Seq(S) /\ Range(<<x>>) = {x}
<1>1. <<x>> \in Seq(S) /\ DOMAIN <<x>> = {1} /\ <<x>>[1] = x
  OBVIOUS
<1> QED
  BY <1>1 DEF Range

LEMMA NoRange ==
  ASSUME NEW S
  PROVE  <<>> \in Seq(S) /\ Range(<<>>) = {}
BY DEF Range

LEMMA JoinRange ==
  ASSUME NEW S, NEW a \in Seq(S), NEW b \in Seq(S)
  PROVE  a \o b \in Seq(S) /\ Range(a \o b) = Range(a) \cup Range(b)
BY RangeConcatenation, ConcatProperties

LEMMA NetConfList ==
  ASSUME NEW dhcpd \in BOOLEAN, NEW router \in BOOLEAN
  PROVE  LET calls == NetConfCalls(dhcpd, router)
             done == {calls[k] : k \in 1..Len(calls)}
         IN  /\ calls \in Seq(Calls)
             /\ "start" \in done <=> dhcpd
             /\ sdk.dhcps => "stop" \in done
             /\ dhcpd /\ router => "router" \in done
<1> DEFINE one(x) == <<x>>
           first == IF sdk.dhcps THEN <<"stop">> ELSE <<>>
           opt == IF router THEN <<"router">> ELSE <<>>
           lead == one("lease") \o opt
           serve == lead \o one("start")
           rest == IF ~dhcpd THEN <<>> ELSE serve
           pre == first \o one("set_ip")
           calls == pre \o rest
<1>1. "stop" \in Calls /\ "set_ip" \in Calls /\ "lease" \in Calls
      /\ "router" \in Calls /\ "start" \in Calls
  BY DEF Calls
<1>2. /\ first \in Seq(Calls) /\ opt \in Seq(Calls)
  BY <1>1, SingleRange, NoRange
<1>3. /\ Range(first) = IF sdk.dhcps THEN {"stop"} ELSE {}
      /\ Range(opt) = IF router THEN {"router"} ELSE {}
  BY <1>1, SingleRange, NoRange
<1>4. \A x \in Calls : one(x) \in Seq(Calls) /\ Range(one(x)) = {x}
  BY SingleRange
<1> HIDE DEF first, opt, one
<1>5. lead \in Seq(Calls) /\ Range(lead) = {"lease"} \cup Range(opt)
  BY <1>1, <1>2, <1>4, JoinRange
<1> HIDE DEF lead
<1>6. serve \in Seq(Calls) /\ Range(serve) = Range(lead) \cup {"start"}
  BY <1>1, <1>4, <1>5, JoinRange
<1> HIDE DEF serve
<1>7. rest \in Seq(Calls) /\ Range(rest) = IF dhcpd THEN Range(serve) ELSE {}
  BY <1>6, NoRange
<1> HIDE DEF rest
<1>8. pre \in Seq(Calls) /\ Range(pre) = Range(first) \cup {"set_ip"}
  BY <1>1, <1>2, <1>4, JoinRange
<1> HIDE DEF pre
<1>9. calls \in Seq(Calls) /\ Range(calls) = Range(pre) \cup Range(rest)
  BY <1>7, <1>8, JoinRange
<1>10. NetConfCalls(dhcpd, router) = calls
  BY DEF NetConfCalls, first, pre, rest, serve, lead, opt, one
<1> HIDE DEF calls
<1>11. {calls[k] : k \in 1..Len(calls)} = Range(calls)
  BY <1>9, RangeEquality
<1>12. "start" \in Range(calls) <=> dhcpd
  BY <1>2, <1>3, <1>5, <1>6, <1>7, <1>8, <1>9
<1>13. (sdk.dhcps => "stop" \in Range(calls))
       /\ (dhcpd /\ router => "router" \in Range(calls))
  BY <1>2, <1>3, <1>5, <1>6, <1>7, <1>8, <1>9
<1> QED
  BY <1>9, <1>10, <1>11, <1>12, <1>13

LEMMA NetConfType ==
  ASSUME CInv, NEW done
  PROVE  /\ NetConfEffect(done) \in SdkType
         /\ NetConfEffect(done).dhcps =
              ("start" \in done \/ (sdk.dhcps /\ "stop" \notin done))
         /\ NetConfEffect(done).offer_router =
              (sdk.offer_router \/ "router" \in done)
<1> DEFINE d == "start" \in done \/ (sdk.dhcps /\ "stop" \notin done)
           o == sdk.offer_router \/ "router" \in done
           s1 == [sdk EXCEPT !.dhcps = d]
           s2 == [s1 EXCEPT !.offer_router = o]
<1>1. sdk \in SdkType
  BY DEF CInv, SdkInv
<1>2. d \in BOOLEAN /\ o \in BOOLEAN
  OBVIOUS
<1>3. NetConfEffect(done) = [sdk EXCEPT !.dhcps = d, !.offer_router = o]
  BY DEF NetConfEffect
<1> HIDE DEF d, o
<1>4. [sdk EXCEPT !.dhcps = d, !.offer_router = o] = s2
  OBVIOUS
<1>5. s1 \in SdkType /\ s1.dhcps = d
  BY <1>1, <1>2 DEF SdkType
<1> HIDE DEF s1
<1>6. s2 \in SdkType /\ s2.dhcps = s1.dhcps /\ s2.offer_router = o
  BY <1>2, <1>5 DEF SdkType
<1> QED
  BY <1>3, <1>4, <1>5, <1>6 DEF d, o

LEMMA NetConfStep ==
  ASSUME CInv, NEW dhcpd \in BOOLEAN, NEW router \in BOOLEAN, NEW n \in 0..5,
         SoftApNetConfSet(dhcpd, router, n)
  PROVE  CInv'
<1> DEFINE calls == NetConfCalls(dhcpd, router)
           r == [type |-> "SOFTAP_NET_CONF_SET", good |-> TRUE,
                 dhcpd |-> dhcpd, router |-> router]
           done == {calls[k] : k \in 1..n}
           s == NetConfEffect(done)
           msgs == IF n = Len(calls) THEN Ok ELSE FAIL
<1>1. Quiet /\ Answer(r, msgs, s)
  BY DEF SoftApNetConfSet
<1>2. r.type = "SOFTAP_NET_CONF_SET" /\ r.good /\ r.dhcpd = dhcpd /\ r.router = router
  OBVIOUS
<1>3. n = Len(calls) => /\ "start" \in done <=> dhcpd
                        /\ sdk.dhcps => "stop" \in done
                        /\ dhcpd /\ router => "router" \in done
  BY NetConfList
<1> HIDE DEF r, done
<1>4. /\ s \in SdkType
      /\ s.dhcps = ("start" \in done \/ (sdk.dhcps /\ "stop" \notin done))
      /\ s.offer_router = (sdk.offer_router \/ "router" \in done)
  BY NetConfType
<1> HIDE DEF s, calls
<1>5. n = Len(calls) => s.dhcps = dhcpd /\ (dhcpd /\ router => s.offer_router)
  BY <1>3, <1>4
<1>6. n = Len(calls) => Effected(r, s)
  BY <1>2, <1>5 DEF Effected
<1>7. msgs = FAIL \/ (msgs = Ok /\ Effected(r, s))
  BY <1>6
<1>8. r.type \in Settings
  BY <1>2, SettingTypes
<1> HIDE DEF msgs
<1> QED
  BY <1>1, <1>4, <1>7, <1>8, QuietTypes, SettingStep

-----------------------------------------------------------------------------
(* Steps that answer no request. *)
LEMMA RingStep ==
  ASSUME CInv, RingInv', ScanInv',
         UNCHANGED <<sdk, loglevel, requests, req, answer>>, scanning' \in BOOLEAN
  PROVE  CInv'
BY DEF CInv, SdkInv, ScalarInv, OneReplyPerRequest, StatusTruthful, Succeeded, Replies

LEMMA InitCInv == CommandsInit => CInv
<1> SUFFICES ASSUME CommandsInit PROVE CInv
  OBVIOUS
<1>1. SdkInv
  BY DEF CommandsInit, SdkInv, SdkType
<1>2. ScalarInv
  <2>1. loglevel \in Levels /\ scanning \in BOOLEAN
    BY DEF CommandsInit, Levels
  <2>2. requests \in 0..MaxRequests
    BY CommandsAssumption DEF CommandsInit
  <2> QED
    BY <2>1, <2>2 DEF ScalarInv
<1>3. heard \in [left : Int, got : Nat]
  BY DEF CommandsInit
<1>4. ring = <<>> /\ Len(ring) = 0 /\ ring \in Seq(Messages)
  BY DEF CommandsInit
<1>5. RingInv /\ ScanInv
  BY <1>3, <1>4, CommandsAssumption DEF RingInv, ScanInv
<1>6. Replies = {}
  BY DEF CommandsInit, Replies
<1>7. req.type = "NONE"
  BY DEF CommandsInit
<1>8. OneReplyPerRequest /\ StatusTruthful
  BY <1>6, <1>7 DEF OneReplyPerRequest, StatusTruthful, Succeeded, Unanswered
<1> QED
  BY <1>1, <1>2, <1>5, <1>8 DEF CInv

LEMMA NextCInv == CInv /\ [CommandsNext]_commandsVars => CInv'
<1> SUFFICES ASSUME CInv, [CommandsNext]_commandsVars PROVE CInv'
  OBVIOUS
<1>1. CASE \E t \in AllTypes : BadRequest(t)
  BY <1>1, BadRequestStep
<1>2. CASE \E m \in OpModes, ok \in BOOLEAN : WifiModeSet(m, ok)
  BY <1>2, WifiModeSetStep
<1>3. CASE \E g, a, b \in BOOLEAN : StaticIpConfSet(g, a, b)
  BY <1>3, StaticIpStep
<1>4. CASE \E on, ok \in BOOLEAN : DhcpcStateSet(on, ok)
  BY <1>4, DhcpcStep
<1>5. CASE \E a, b \in BOOLEAN : StationConfSet(a, b)
  BY <1>5, StationConfStep
<1>6. CASE \E ok \in BOOLEAN : SleepModeSet(ok) \/ SoftApConfSet(ok)
  BY <1>6, SleepOrApStep
<1>7. CASE \E ok \in BOOLEAN : ScanRequest(ok)
  BY <1>7, ScanRequestStep
<1>8. CASE \E dhcpd, router \in BOOLEAN, n \in 0..5 :
             SoftApNetConfSet(dhcpd, router, n)
  BY <1>8, NetConfStep
<1>9. CASE \/ \E level \in Levels : LogLevelSet(level)
           \/ \E t \in AllTypes : ForwardingSet(t)
  BY <1>9, LogOrForwardingStep
<1>10. CASE \/ \E ok \in BOOLEAN : QueryAny(ok)
            \/ ConnStatusRequest \/ EchoRequest
  BY <1>10, AnyQueryStep
<1>11. CASE SetBaud \/ PrintStats
  BY <1>11, SilentStep
<1>12. CASE \E n \in 0..MaxAps : ScanDone(n)
  <2>1. PICK n \in 0..MaxAps : ScanDone(n)
    BY <1>12
  <2>2. n \in Nat
    BY CommandsAssumption
  <2>3. RingInv' /\ ScanInv'
    BY <2>1, <2>2, ScanDoneStep DEF CInv
  <2> QED
    BY <2>1, <2>3, RingStep DEF ScanDone
<1>13. CASE ScanFailed \/ UNCHANGED commandsVars
  <2>1. UNCHANGED <<sdk, loglevel, ring, requests, req, answer, heard>>
        /\ scanning' \in BOOLEAN
    BY <1>13 DEF ScanFailed, commandsVars, CInv, ScalarInv
  <2>2. RingInv' /\ ScanInv'
    BY <2>1 DEF CInv, RingInv, ScanInv, EntryInv, IsEntry, HeaderOf
  <2> QED
    BY <2>1, <2>2, RingStep
<1>14. CASE Transmit
  <2>1. RingInv' /\ ScanInv'
    BY <1>14, TransmitStep DEF CInv
  <2>2. scanning' \in BOOLEAN
    BY <1>14 DEF Transmit, CInv, ScalarInv
  <2> QED
    BY <1>14, <2>1, <2>2, RingStep DEF Transmit
<1> QED
  BY <1>1, <1>2, <1>3, <1>4, <1>5, <1>6, <1>7, <1>8, <1>9, <1>10, <1>11, <1>12,
     <1>13, <1>14 DEF CommandsNext

(***************************************************************************)
(* A host can rely on what it hears from packet_from_host and scan_done:   *)
(* one reply for each request whichever SDK call fails, STATUS 0 only for  *)
(* what is in effect, and scan entries that it can count off against the   *)
(* last header, however the full ring cuts the messages short.             *)
(***************************************************************************)
THEOREM HostCanRely == CommandsSpec => []HostInformed
<1>1. CInv => HostInformed
  <2> SUFFICES ASSUME CInv PROVE HostInformed
    OBVIOUS
  <2>1. EntriesFollowHeader
    BY HeadIsExpected DEF CInv
  <2>2. \A k \in DOMAIN ring : ring[k] \in Messages
    BY ElementOfSeq, LenProperties DEF CInv, RingInv
  <2>3. CommandsOK
    BY <2>2 DEF CInv, SdkInv, SdkType, ScalarInv, RingInv, CommandsOK
  <2> QED
    BY <2>1, <2>3 DEF CInv, HostInformed
<1> QED
  BY <1>1, InitCInv, NextCInv, PTL DEF CommandsSpec
=============================================================================
