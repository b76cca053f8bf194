----------------------------- MODULE DhcpClient -----------------------------
(***************************************************************************)
(* lwIP's DHCP client (lwip/core/dhcp.c) on one interface.  Every function *)
(* is an operator from the client's record to the client's record, with    *)
(* the fields of struct dhcp and of the interface that steer it.  out      *)
(* collects the messages of a step and mem is FALSE when the heap refuses  *)
(* the step a buffer; both have their defaults between two steps.          *)
(*                                                                         *)
(* request_timeout is abstracted to whether it runs (armed): the back-off  *)
(* from 500 ms to 60 s is left to the environment.  t1 and t2 count coarse *)
(* ticks of 60 s in 16 bits.  Of the options only those that steer the     *)
(* client are kept: the requested address and the server identifier.       *)
(***************************************************************************)
EXTENDS Integers, Sequences, FiniteSets

CONSTANTS
    Lease,          \* the lease time that servers grant, in coarse ticks
    SelectTries,    \* REQUESTs before a new DISCOVER (5)
    CheckTries,     \* ARP probes after the first (1)
    RebindTries,    \* broadcast REQUESTs before the address is given up (8)
    RebootTries     \* REBOOT_TRIES

ASSUME DhcpConstants == {Lease, SelectTries, CheckTries, RebindTries, RebootTries} \subseteq Nat \ {0}

None == 0           \* IP_ADDR_ANY

NewClient == [dhcp |-> FALSE, pcb |-> FALSE, state |-> "OFF", tries |-> 0, armed |-> FALSE,
              t1 |-> 0, t2 |-> 0, offered |-> None, server |-> None, lease |-> 0, xid |-> 0,
              nextXid |-> 0, ip |-> None, up |-> FALSE, out |-> <<>>, mem |-> TRUE]

dhcp_set_state(d, s) ==
    IF d.state = s THEN d ELSE [d EXCEPT !.state = s, !.tries = 0, !.armed = FALSE]

-----------------------------------------------------------------------------
(* Sending.  A REQUEST keeps the transaction id of its DISCOVER; any other *)
(* message starts a new transaction at its first try.                      *)

WithXid(d, type) ==
    IF type = "REQUEST" THEN d
    ELSE LET n == IF d.tries = 0 THEN d.nextXid + 1 ELSE d.nextXid
         IN  [d EXCEPT !.nextXid = n, !.xid = n]

dhcp_create_msg(d, type, req) ==
    LET e == WithXid(d, type)
        own == type \in {"INFORM", "DECLINE"} \/ (type = "REQUEST" /\ d.state \in {"RENEWING", "REBINDING"})
    IN  IF ~d.mem THEN d
        ELSE [e EXCEPT !.out = Append(@, [type |-> type, xid |-> e.xid, req |-> req,
                                          ciaddr |-> IF own THEN d.ip ELSE None])]

(* Every attempt counts and starts the request timer, sent or not.         *)
Attempt(d) == [d EXCEPT !.tries = @ + 1, !.armed = TRUE]

dhcp_discover(d) ==
    Attempt(dhcp_create_msg(dhcp_set_state([d EXCEPT !.offered = None], "SELECTING"), "DISCOVER", None))
dhcp_select(d) == Attempt(dhcp_create_msg(dhcp_set_state(d, "REQUESTING"), "REQUEST", d.offered))
dhcp_renew(d)  == Attempt(dhcp_create_msg(dhcp_set_state(d, "RENEWING"), "REQUEST", None))
dhcp_rebind(d) == Attempt(dhcp_create_msg(dhcp_set_state(d, "REBINDING"), "REQUEST", None))
dhcp_reboot(d) == Attempt(dhcp_create_msg(dhcp_set_state(d, "REBOOTING"), "REQUEST", d.offered))
dhcp_decline(d) == Attempt(dhcp_create_msg(dhcp_set_state(d, "BACKING_OFF"), "DECLINE", d.offered))
dhcp_inform(d) == [dhcp_create_msg([d EXCEPT !.tries = 0], "INFORM", None)
                      EXCEPT !.tries = d.tries, !.xid = d.xid]

(* The address is probed with ARP (etharp_query) before it is used.        *)
dhcp_check(d) == Attempt(dhcp_set_state(d, "CHECKING"))

netif_down(d) == [d EXCEPT !.up = FALSE, !.ip = None]

dhcp_release_KeepsAddress(d) ==
    Attempt(dhcp_create_msg(
        [dhcp_set_state(d, "OFF") EXCEPT !.server = None, !.offered = None, !.lease = 0],
        "RELEASE", None))
dhcp_release(d) ==
    netif_down(Attempt(dhcp_create_msg(
        [dhcp_set_state(d, "OFF") EXCEPT !.server = None, !.offered = None, !.lease = 0],
        "RELEASE", None)))

dhcp_handle_nak_Waits(d) == dhcp_set_state(netif_down(d), "BACKING_OFF")
(* A NAK puts the interface down before the next DISCOVER.                 *)
dhcp_handle_nak(d) == dhcp_discover(dhcp_set_state(netif_down(d), "BACKING_OFF"))

-----------------------------------------------------------------------------
(* Receiving.                                                              *)

dhcp_handle_offer(d, m) == dhcp_select([d EXCEPT !.server = m.server, !.offered = m.yiaddr])
dhcp_handle_ack(d, m) == [d EXCEPT !.lease = Lease, !.offered = m.yiaddr]

(* T1 at half the lease and T2 at its end (the servers set neither), at    *)
(* least one tick, at most 2^16 - 1; T1 is off when it is not before T2.   *)
Ticks(n) == IF n = 0 THEN 1 ELSE IF n > 65535 THEN 65535 ELSE n
dhcp_bind(d) ==
    LET t2 == Ticks(d.lease)
        t1 == Ticks(d.lease \div 2)
    IN  dhcp_set_state([d EXCEPT !.t1 = IF t1 >= t2 THEN 0 ELSE t1, !.t2 = t2,
                                 !.ip = d.offered, !.up = TRUE], "BOUND")

(* dhcp_recv: a reply of another transaction is dropped.  An ACK to a      *)
(* renewal binds again with what the first ACK has said.                   *)
SameTransaction_Any(d, m) == TRUE
SameTransaction(d, m) == m.xid = d.xid

dhcp_recv(d, m) ==
    IF ~SameTransaction(d, m) THEN d
    ELSE CASE m.type = "ACK" /\ d.state = "REQUESTING" -> dhcp_check(dhcp_handle_ack(d, m))
           [] m.type = "ACK" /\ d.state \in {"REBOOTING", "REBINDING", "RENEWING"} -> dhcp_bind(d)
           [] m.type = "NAK" /\ d.state \in {"REBOOTING", "REQUESTING", "REBINDING", "RENEWING"} ->
                dhcp_handle_nak(d)
           [] m.type = "OFFER" /\ d.state = "SELECTING" ->
                dhcp_handle_offer([d EXCEPT !.armed = FALSE], m)
           [] OTHER -> d

(* Another host answers the ARP probe.                                     *)
dhcp_arp_reply(d) == IF d.dhcp /\ d.state = "CHECKING" THEN dhcp_decline(d) ELSE d

-----------------------------------------------------------------------------
(* Timers.                                                                 *)

dhcp_timeout_NoRenew(d) ==
    CASE d.state \in {"BACKING_OFF", "SELECTING"} -> dhcp_discover(d)
      [] d.state = "REQUESTING" -> IF d.tries <= SelectTries THEN dhcp_select(d) ELSE d
      [] d.state = "CHECKING"   -> IF d.tries <= CheckTries THEN dhcp_check(d) ELSE dhcp_bind(d)
      [] OTHER -> d
dhcp_timeout(d) ==
    CASE d.state \in {"BACKING_OFF", "SELECTING"} -> dhcp_discover(d)
      [] d.state = "REQUESTING" -> IF d.tries <= SelectTries THEN dhcp_select(d)
                                   ELSE dhcp_discover(dhcp_release(d))
      [] d.state = "CHECKING"   -> IF d.tries <= CheckTries THEN dhcp_check(d) ELSE dhcp_bind(d)
      [] d.state = "RENEWING"   -> dhcp_renew(d)
      [] d.state = "REBINDING"  -> IF d.tries <= RebindTries THEN dhcp_rebind(d)
                                   ELSE dhcp_discover(dhcp_release(d))
      [] d.state = "REBOOTING"  -> IF d.tries < RebootTries THEN dhcp_reboot(d) ELSE dhcp_discover(d)
      [] OTHER -> d

dhcp_fine_tmr(d) == dhcp_timeout([d EXCEPT !.armed = FALSE])

Leased == {"REQUESTING", "BOUND", "RENEWING"}
dhcp_t1_timeout(d) == IF d.state \in Leased THEN dhcp_renew(d) ELSE d
dhcp_t2_timeout(d) == IF d.state \in Leased THEN dhcp_rebind(d) ELSE d

(* The counters are decremented before they are looked at: a stopped timer *)
(* starts over from 2^16 - 1.                                              *)
Dec(t) == (t - 1) % 65536
dhcp_coarse_tmr(d) ==
    IF ~d.dhcp THEN d
    ELSE IF d.t2 = 1 THEN dhcp_t2_timeout([d EXCEPT !.t2 = 0])
    ELSE IF d.t1 = 1 THEN dhcp_t1_timeout([d EXCEPT !.t2 = Dec(@), !.t1 = 0])
    ELSE [d EXCEPT !.t2 = Dec(@), !.t1 = Dec(@)]

-----------------------------------------------------------------------------
(* Calls.  dhcp_start forgets the old transaction, not the address.        *)

dhcp_stop(d) == IF d.dhcp THEN dhcp_set_state([d EXCEPT !.pcb = FALSE], "OFF") ELSE d

dhcp_start(d) ==
    LET fresh == [NewClient EXCEPT !.dhcp = TRUE, !.nextXid = d.nextXid, !.ip = d.ip, !.up = d.up,
                                   !.mem = d.mem]
        e == dhcp_discover([fresh EXCEPT !.pcb = TRUE])
    IN  IF d.mem THEN e ELSE dhcp_stop(e)

dhcp_network_changed(d) ==
    CASE ~d.dhcp \/ d.state = "OFF" -> d
      [] d.dhcp /\ d.state \in {"REBINDING", "RENEWING", "BOUND", "REBOOTING"} ->
            dhcp_reboot([d EXCEPT !.up = FALSE, !.tries = 0])
      [] OTHER -> dhcp_discover([d EXCEPT !.tries = 0])
=============================================================================
