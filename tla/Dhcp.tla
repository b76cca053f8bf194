--------------------------------- MODULE Dhcp ---------------------------------
(***************************************************************************)
(* DHCP clients (DhcpClient) and the DHCP server of a soft AP              *)
(* (lwip/app/dhcpserver.c) over a network that loses, duplicates and       *)
(* reorders.  The server keeps a list of leases in the order they were     *)
(* given, and client_address_plus, the address it tries next.              *)
(***************************************************************************)
EXTENDS DhcpClient, SequencesExt

CONSTANTS
    Clients,            \* stations; their hardware addresses
    StartIp, EndIp,     \* dhcps_lease
    DHCPS_LEASE_TIMER,  \* coarse ticks a lease lasts without a message
    MaxTicks,           \* coarse ticks of a behaviour
    MaxFaults,          \* losses, duplicates, early timeouts, refused buffers,
                        \* foreign ARP answers, server restarts, rare calls
    NetCap              \* messages in flight

ASSUME PoolRange == /\ StartIp \in Nat \ {0} /\ EndIp \in Nat /\ StartIp <= EndIp
                    /\ DHCPS_LEASE_TIMER \in Nat \ {0}

VARIABLES
    cl,         \* the clients
    srv,        \* [pool |-> leases, plus |-> client_address_plus, spin |-> BOOLEAN]
    net,        \* messages in flight
    acks,       \* history: <<client, address, transaction>> of every ACK sent
    wrapped,    \* history: client_address_plus has passed the end of the pool
    ticks, faults
vars == <<cl, srv, net, acks, wrapped, ticks, faults>>

Init == /\ cl = [c \in Clients |-> NewClient]
        /\ srv = [pool |-> <<>>, plus |-> StartIp, spin |-> FALSE]
        /\ net = {} /\ acks = {} /\ wrapped = FALSE
        /\ ticks = MaxTicks /\ faults = MaxFaults

Cost(n) == faults >= n /\ faults' = faults - n
One(b) == IF b THEN 1 ELSE 0

-----------------------------------------------------------------------------
(* The server.                                                             *)

(* One pass over the list: the client's own lease ends it, and an address  *)
(* that is taken moves client_address_plus on by one.                      *)
Visit(r, l, mac) ==
    IF r.found # None THEN r
    ELSE IF l.mac = mac THEN [r EXCEPT !.found = l.ip]
    ELSE IF l.ip = r.plus THEN [r EXCEPT !.plus = @ + 1] ELSE r
ScannedTo(pool, plus, mac) ==
    LET f[i \in 0..Len(pool)] == IF i = 0 THEN [plus |-> plus, found |-> None]
                                 ELSE Visit(f[i - 1], pool[i], mac)
    IN  f
ScanPool(pool, plus, mac) == ScannedTo(pool, plus, mac)[Len(pool)]

Refresh(pool, mac) ==
    [i \in DOMAIN pool |-> IF pool[i].mac = mac THEN [pool[i] EXCEPT !.left = DHCPS_LEASE_TIMER]
                           ELSE pool[i]]

(* parse_msg: find or make the lease, whatever the type of the message.    *)
(* When client_address_plus has left the pool the search starts over; the  *)
(* list does not change any more, so a second exit repeats for ever.       *)
parse_msg_NoSkip(s, mac) ==
    LET r == ScanPool(s.pool, s.plus, mac)
    IN  IF r.found # None THEN [srv |-> [s EXCEPT !.pool = Refresh(@, mac)], ip |-> r.found]
        ELSE [srv |-> [s EXCEPT !.pool = Append(@, [mac |-> mac, ip |-> s.plus, left |-> DHCPS_LEASE_TIMER])],
              ip |-> s.plus]
parse_msg(s, mac) ==
    LET r     == ScanPool(s.pool, s.plus, mac)
        pool1 == IF r.found # None THEN Refresh(s.pool, mac)
                 ELSE Append(s.pool, [mac |-> mac, ip |-> r.plus, left |-> DHCPS_LEASE_TIMER])
        again == ScanPool(pool1, StartIp, mac)
        ip    == IF r.found # None THEN r.found ELSE r.plus
    IN  IF r.plus <= EndIp
        THEN [srv |-> [s EXCEPT !.pool = pool1, !.plus = r.plus], ip |-> ip]
        ELSE [srv |-> [s EXCEPT !.pool = pool1, !.plus = again.plus, !.spin = again.plus > EndIp], ip |-> ip]

(* parse_options: a REQUEST is granted when it names the lease's address;  *)
(* one that names none (a renewal) is refused.  DECLINE and RELEASE are    *)
(* not answered.                                                           *)
parse_options(m, ip) ==
    CASE m.type = "DISCOVER" -> "OFFER"
      [] m.type = "REQUEST" -> IF m.req = ip THEN "ACK" ELSE "NAK"
      [] OTHER -> "IDLE"

(* The answers are the request's own buffer written over; only an OFFER    *)
(* and an ACK name the server and its lease.  They are broadcast, so the   *)
(* client finds its own by the transaction and the hardware address.       *)
create_msg(m, type, ip) == [to |-> "client", mac |-> m.mac, xid |-> m.xid, type |-> type,
                            yiaddr |-> ip, server |-> None]
add_offer_options(r) == [r EXCEPT !.server = 1]
send_offer(m, ip) == {add_offer_options(create_msg(m, "OFFER", ip))}
send_nak(m, ip)   == {create_msg(m, "NAK", ip)}
send_ack(m, ip)   == {add_offer_options(create_msg(m, "ACK", ip))}

(* handle_dhcp.  known: the SDK knows the station; mem: a buffer for the   *)
(* answer.                                                                 *)
HandleDhcp(m, again, known, mem) ==
    LET r == parse_msg(srv, m.mac)
        answer == IF known /\ mem /\ ~r.srv.spin THEN parse_options(m, r.ip) ELSE "IDLE"
    IN  /\ m.to = "server" /\ ~srv.spin
        /\ Cost(One(again) + One(~known) + One(~mem))
        /\ srv' = r.srv
        /\ wrapped' = (wrapped \/ ScanPool(srv.pool, srv.plus, m.mac).plus > EndIp)
        /\ net' = (IF again THEN net ELSE net \ {m}) \cup
                  (CASE answer = "OFFER" -> send_offer(m, r.ip)
                     [] answer = "NAK"   -> send_nak(m, r.ip)
                     [] answer = "ACK"   -> send_ack(m, r.ip)
                     [] OTHER            -> {})
        /\ acks' = IF answer = "ACK" THEN acks \cup {<<m.mac, r.ip, m.xid>>} ELSE acks
        /\ UNCHANGED <<cl, ticks>>

(* dhcps_stop and dhcps_start: all leases are forgotten.                   *)
dhcps_stop(s)  == [s EXCEPT !.pool = <<>>]
dhcps_start(s) == [s EXCEPT !.plus = StartIp]
ServerRestart ==
    /\ Cost(1) /\ ~srv.spin
    /\ srv' = dhcps_start(dhcps_stop(srv))
    /\ UNCHANGED <<cl, net, acks, wrapped, ticks>>

(* The server's timer goes through the list and frees what is over.        *)
Aged(kept, l) == IF l.left = 1 THEN kept ELSE Append(kept, [l EXCEPT !.left = @ - 1])
AgedTo(pool) ==
    LET f[i \in 0..Len(pool)] == IF i = 0 THEN <<>> ELSE Aged(f[i - 1], pool[i]) IN f
dhcps_coarse_tmr_KeepsAll(pool) == [i \in DOMAIN pool |-> [pool[i] EXCEPT !.left = @ - 1]]
dhcps_coarse_tmr(pool) == AgedTo(pool)[Len(pool)]

-----------------------------------------------------------------------------
(* The clients.                                                            *)

(* The end of a step of client c: d is its new record.                     *)
Commit(c, d, n) ==
    /\ cl' = [cl EXCEPT ![c] = [d EXCEPT !.out = <<>>, !.mem = TRUE]]
    /\ net' = n \cup {[to |-> "server", mac |-> c, type |-> m.type, xid |-> m.xid, req |-> m.req]
                        : m \in ToSet(d.out)}
    /\ Cardinality(net') <= NetCap
    /\ UNCHANGED <<srv, acks, wrapped, ticks>>

With(c, mem) == [cl[c] EXCEPT !.mem = mem]

(* The first start of a client is free.                                    *)
Start(c, mem) == /\ Cost(One(cl[c].dhcp) + One(~mem)) /\ Commit(c, dhcp_start(With(c, mem)), net)
Stop(c)    == /\ cl[c].pcb /\ Cost(1) /\ Commit(c, dhcp_stop(cl[c]), net)
Release(c) == /\ cl[c].pcb /\ Cost(1) /\ Commit(c, dhcp_release(cl[c]), net)
Inform(c)  == /\ cl[c].pcb /\ Cost(1) /\ Commit(c, dhcp_inform(cl[c]), net)

(* netif_set_link_up after a change of the access point.                   *)
LinkUp(c)  == /\ cl[c].pcb /\ Cost(1) /\ Commit(c, dhcp_network_changed(cl[c]), net)

Receive(c, m, again, mem) ==
    /\ m.to = "client" /\ m.mac = c /\ Cost(One(again) + One(~mem))
    /\ Commit(c, IF cl[c].pcb THEN dhcp_recv(With(c, mem), m) ELSE cl[c], IF again THEN net ELSE net \ {m})

(* A host uses the address that is being probed: another client, or        *)
(* somebody the server knows nothing of.                                   *)
ArpReply(c) ==
    /\ cl[c].state = "CHECKING" /\ Cost(1)
    /\ Commit(c, dhcp_arp_reply(cl[c]), net)

(* The request timer; early when an answer is still on its way.            *)
InFlight(c) == \E m \in net : m.mac = c
FineTmr(c, mem) ==
    /\ cl[c].armed /\ Cost(One(InFlight(c)) + One(~mem))
    /\ Commit(c, dhcp_fine_tmr(With(c, mem)), net)

(* A minute passes for all: longer than any request timer, and than a      *)
(* message takes.                                                          *)
CoarseTick ==
    /\ ticks > 0 /\ net = {}
    /\ \A c \in Clients : cl[c].armed => cl[c].state \in {"RENEWING", "REBINDING", "OFF"}
    /\ ticks' = ticks - 1
    /\ LET d == [c \in Clients |-> dhcp_coarse_tmr(cl[c])]
       IN  /\ cl' = [c \in Clients |-> [d[c] EXCEPT !.out = <<>>]]
           /\ net' = {[to |-> "server", mac |-> c, type |-> "REQUEST", xid |-> d[c].xid, req |-> None]
                        : c \in {e \in Clients : d[e].out # <<>>}}
    /\ srv' = IF srv.spin THEN srv ELSE [srv EXCEPT !.pool = dhcps_coarse_tmr(@)]
    /\ UNCHANGED <<acks, wrapped, faults>>

Lose(m) == Cost(1) /\ net' = net \ {m} /\ UNCHANGED <<cl, srv, acks, wrapped, ticks>>

ClientStep(c) ==
    \/ \E mem \in BOOLEAN : Start(c, mem)
    \/ Stop(c) \/ Release(c) \/ Inform(c) \/ LinkUp(c) \/ ArpReply(c)
    \/ \E mem \in BOOLEAN : FineTmr(c, mem)
    \/ \E m \in net, again, mem \in BOOLEAN : Receive(c, m, again, mem)

Next == \/ \E c \in Clients : ClientStep(c)
        \/ \E m \in net : \/ \E again, known, mem \in BOOLEAN : HandleDhcp(m, again, known, mem)
                          \/ Lose(m)
        \/ ServerRestart \/ CoarseTick

(* The radio delivers what it does not lose, the server and the timers run.*)
Fairness == /\ \A c \in Clients : /\ WF_vars(\E m \in net : Receive(c, m, FALSE, TRUE))
                                  /\ WF_vars(FineTmr(c, TRUE))
            /\ WF_vars(\E m \in net : HandleDhcp(m, FALSE, TRUE, TRUE))
Spec == Init /\ [][Next]_vars /\ Fairness

-----------------------------------------------------------------------------
Waiting == {"SELECTING", "REQUESTING", "CHECKING", "BACKING_OFF", "RENEWING", "REBINDING", "REBOOTING"}
InUse(c) == cl[c].up /\ cl[c].state \in {"BOUND", "RENEWING", "REBINDING"}

(* Type invariant of clients and server.  A lease whose time is over is    *)
(* gone from the server's list (dhcps_coarse_tmr).                         *)
TypeOK == /\ \A c \in Clients : /\ cl[c].state \in Waiting \cup {"OFF", "BOUND"}
                                /\ cl[c].state # "OFF" => cl[c].pcb
                                /\ cl[c].out = <<>> /\ cl[c].mem
          /\ \A i \in DOMAIN srv.pool : srv.pool[i].left \in 1..DHCPS_LEASE_TIMER

(* A client never waits without a timer: every state that waits for an     *)
(* answer has the request timer running, BOUND has T1 or T2 (dhcp_set_state*)
(* stops the timer, and each function has to start it again).              *)
NeverStuck == \A c \in Clients : /\ cl[c].state \in Waiting => cl[c].armed
                                 /\ cl[c].state = "BOUND" => cl[c].t2 > 0

(* An address is probed and used only on an ACK of the client's own        *)
(* transaction: duplicates and late answers of an earlier one grant        *)
(* nothing.                                                                *)
BoundByAck == \A c \in Clients :
    /\ cl[c].state = "CHECKING" => <<c, cl[c].offered, cl[c].xid>> \in acks
    /\ InUse(c) => <<c, cl[c].ip, cl[c].xid>> \in acks

(* Whatever ends the use of an address (a NAK, a RELEASE, the end of the   *)
(* lease, another network) also takes it off the interface; only           *)
(* dhcp_start and dhcp_stop leave it there.                                *)
OldAddressGone == [][\A c \in Clients :
    InUse(c) /\ cl'[c].state \notin {"BOUND", "RENEWING", "REBINDING"}
        => ~cl'[c].up \/ Stop(c) \/ \E mem \in BOOLEAN : Start(c, mem)]_vars

(* The server gives no address to two stations, as long as                 *)
(* client_address_plus has not passed the end of the pool.                 *)
LeaseUnique == ~wrapped =>
    \A i, j \in DOMAIN srv.pool : srv.pool[i].ip = srv.pool[j].ip => i = j

(* Stations that look for an address get one, once the faults are over:    *)
(* time and again all that are not off have theirs.                        *)
GetsAddress == []<>(srv.spin \/ \A c \in Clients : InUse(c) \/ cl[c].state = "OFF")

(* A client always waits for something that will come, and uses only what  *)
(* the server has granted it.                                              *)
ClientsSound == TypeOK /\ NeverStuck /\ BoundByAck
=============================================================================
