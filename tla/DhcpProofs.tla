----------------------------- MODULE DhcpProofs -----------------------------
(***************************************************************************)
(* The DHCP clients and the server of the soft AP, for every number of     *)
(* clients, every pool, lease and number of tries, over a network that     *)
(* loses, duplicates and reorders.                                         *)
(***************************************************************************)
EXTENDS Dhcp, Induction, SequenceTheorems
-----------------------------------------------------------------------------
(* T1 and T2 are counters of 16 bits: one that has stopped starts over. *)
Word == {n \in Nat : n < 65536}

LEMMA DecRange == \A n \in Word : Dec(n) \in Word /\ (n > 1 => Dec(n) > 0)
<1>1. SUFFICES ASSUME NEW n \in Nat, n < 65536
               PROVE  Dec(n) \in Nat /\ Dec(n) < 65536 /\ (n > 1 => Dec(n) > 0)
  BY DEF Word
<1>2. (n - 1) % 65536 \in Nat /\ (n - 1) % 65536 < 65536
  OBVIOUS
<1>3. ASSUME n > 1 PROVE (n - 1) % 65536 = n - 1
  BY <1>1, <1>3
<1> QED
  BY <1>2, <1>3 DEF Dec

LEMMA TicksRange ==
  ASSUME NEW n \in Nat
  PROVE  Ticks(n) \in Word /\ Ticks(n) > 0
BY DEF Ticks, Word

(***************************************************************************)
(* The clients.  The lemmas are about values d of a client's record: a     *)
(* step goes through several of them.                                      *)
(***************************************************************************)
ClientFields == {"dhcp", "pcb", "state", "tries", "armed", "t1", "t2", "offered", "server",
                 "lease", "xid", "nextXid", "ip", "up", "out", "mem"}

HasFields(d) == d = [f \in ClientFields |-> d[f]]
HasFlags(d) == /\ d.dhcp \in BOOLEAN /\ d.pcb \in BOOLEAN /\ d.armed \in BOOLEAN
               /\ d.up \in BOOLEAN /\ d.mem \in BOOLEAN
HasCounts(d) == d.t2 \in Word /\ d.lease \in Nat
IsClient(d) == HasFields(d) /\ HasFlags(d) /\ HasCounts(d)

Using == {"BOUND", "RENEWING", "REBINDING"}

(* The states that a client reaches only with an ACK, until it starts over. *)
Granted == Using \cup {"CHECKING", "REBOOTING"}

(* A client waits for a timer that runs, ... *)
OnTime(d) == /\ d.state \in Waiting \cup {"OFF", "BOUND"}
             /\ d.state # "OFF" => d.pcb
             /\ d.state \in Waiting => d.armed
             /\ d.state = "BOUND" => d.t2 > 0

(* ... and holds what A, the ACKs so far, have granted it; a client that   *)
(* has been restarted by a change of the network keeps the old lease but   *)
(* not the address until the server has confirmed it.                      *)
Holds(c, d, A) == /\ d.state \in Granted => <<c, d.offered, d.xid>> \in A
                  /\ d.up /\ d.state \in Using => d.ip = d.offered

ClientKept(c, d, A) == IsClient(d) /\ OnTime(d) /\ Holds(c, d, A)

(* d may become e without a call of dhcp_start or dhcp_stop. *)
LetsGo(d, e) == d.up /\ d.state \in Using => e.state \in Using \/ ~e.up

(***************************************************************************)
(* The lists of leases.                                                    *)
(***************************************************************************)
Leases == [mac : Clients, ip : Nat \ {0}, left : 1..DHCPS_LEASE_TIMER]

Apart(pool) == \A i, j \in 1..Len(pool) : pool[i].ip = pool[j].ip => i = j

IsServer(s) == /\ s = [pool |-> s.pool, plus |-> s.plus, spin |-> s.spin]
               /\ s.pool \in Seq(Leases) /\ s.plus \in Nat \ {0}

(* As long as client_address_plus only grows, it is the highest address in *)
(* use or one that nobody has.                                             *)
Fits(s) == /\ Apart(s.pool)
           /\ \A i \in 1..Len(s.pool) : s.pool[i].ip <= s.plus

ServerKept == /\ IsServer(srv) /\ wrapped \in BOOLEAN
              /\ ~wrapped => Fits(srv)

(* An ACK in flight is one that was sent. *)
NetKept == \A m \in net :
  /\ m.mac \in Clients
  /\ m.to = "client" /\ m.type = "ACK" => <<m.mac, m.yiaddr, m.xid>> \in acks

ClientsKept == /\ cl = [c \in Clients |-> cl[c]]
               /\ \A c \in Clients : /\ ClientKept(c, cl[c], acks)
                                     /\ cl[c].out = <<>> /\ cl[c].mem = TRUE

DhcpInv == ClientsKept /\ ServerKept /\ NetKept

-----------------------------------------------------------------------------
(* What a client keeps when it enters a state and sends something. *)
Alike(d, e) ==
  /\ e.dhcp = d.dhcp /\ e.pcb = d.pcb /\ e.t1 = d.t1 /\ e.t2 = d.t2 /\ e.lease = d.lease
  /\ e.offered = d.offered /\ e.ip = d.ip /\ e.up = d.up /\ e.mem = d.mem
Same(d, e) == IsClient(e) /\ Alike(d, e)
SameXid(d, e) == e.xid = d.xid

LEMMA SetState ==
  ASSUME NEW d, IsClient(d), NEW s
  PROVE  LET e == dhcp_set_state(d, s)
         IN  Same(d, e) /\ e.state = s /\ e.xid = d.xid /\ (d.state = s => e = d)
<1> DEFINE e == dhcp_set_state(d, s)
<1>1. CASE d.state = s
  BY <1>1 DEF dhcp_set_state, Same, Alike
<1>2. CASE d.state # s
  <2>1. HasFields(e) /\ Alike(d, e) /\ e.state = s /\ e.armed = FALSE /\ e.xid = d.xid
    BY <1>2 DEF dhcp_set_state, IsClient, HasFields, Alike, ClientFields
  <2> HIDE DEF e
  <2>2. HasFlags(e)
    BY <2>1 DEF IsClient, HasFlags, Alike
  <2>9. HasCounts(e)
    BY <2>1 DEF IsClient, HasCounts, Alike
  <2> QED
    BY <1>2, <2>1, <2>2, <2>9 DEF Same, IsClient, e
<1> QED
  BY <1>1, <1>2

LEMMA CreateMsg ==
  ASSUME NEW d, IsClient(d), NEW type, NEW req
  PROVE  LET e == dhcp_create_msg(d, type, req)
         IN  /\ Same(d, e) /\ e.state = d.state /\ e.armed = d.armed
             /\ type = "REQUEST" => e.xid = d.xid
<1> DEFINE w == WithXid(d, type)
           e == dhcp_create_msg(d, type, req)
<1>1. Same(d, w) /\ w.state = d.state /\ w.armed = d.armed /\ (type = "REQUEST" => w.xid = d.xid)
  <2>1. CASE type = "REQUEST"
    BY <2>1 DEF WithXid, Same, Alike
  <2>2. CASE type # "REQUEST"
    <3>1. PICK n : w = [d EXCEPT !.nextXid = n, !.xid = n]
      BY <2>2 DEF WithXid
    <3> HIDE DEF w
    <3>2. HasFields(w) /\ Alike(d, w) /\ w.state = d.state /\ w.armed = d.armed
      BY <3>1 DEF IsClient, HasFields, Alike, ClientFields
    <3>3. HasFlags(w)
      BY <3>2 DEF IsClient, HasFlags, Alike
    <3>9. HasCounts(w)
      BY <3>2 DEF IsClient, HasCounts, Alike
    <3> QED
      BY <2>2, <3>2, <3>3, <3>9 DEF Same, IsClient
  <2> QED
    BY <2>1, <2>2
<1>2. CASE ~d.mem
  BY <1>2 DEF dhcp_create_msg, Same, Alike
<1>3. CASE d.mem
  <2> DEFINE own == type \in {"INFORM", "DECLINE"} \/ (type = "REQUEST" /\ d.state \in {"RENEWING", "REBINDING"})
             x == Append(w.out, [type |-> type, xid |-> w.xid, req |-> req,
                                 ciaddr |-> IF own THEN d.ip ELSE None])
  <2>1. e = [w EXCEPT !.out = x]
    BY <1>3 DEF dhcp_create_msg
  <2> HIDE DEF w, e, x
  <2>2. HasFields(e) /\ Alike(w, e) /\ e.state = w.state /\ e.armed = w.armed /\ e.xid = w.xid
    BY <1>1, <2>1 DEF Same, IsClient, HasFields, Alike, ClientFields
  <2>3. HasFlags(e)
    BY <1>1, <2>2 DEF Same, IsClient, HasFlags, Alike
  <2>9. HasCounts(e)
    BY <1>1, <2>2 DEF Same, IsClient, HasCounts, Alike
  <2> QED
    BY <1>1, <2>2, <2>3, <2>9 DEF Same, IsClient, Alike, e
<1> QED
  BY <1>2, <1>3

LEMMA Attempts ==
  ASSUME NEW d, IsClient(d)
  PROVE  LET e == Attempt(d)
         IN  Same(d, e) /\ e.state = d.state /\ e.xid = d.xid /\ e.armed = TRUE
<1> DEFINE e == Attempt(d)
<1>1. HasFields(e) /\ Alike(d, e) /\ e.state = d.state /\ e.xid = d.xid /\ e.armed = TRUE
  BY DEF Attempt, IsClient, HasFields, Alike, ClientFields
<1> HIDE DEF e
<1>2. HasFlags(e)
  BY <1>1 DEF IsClient, HasFlags, Alike
<1>9. HasCounts(e)
  BY <1>1 DEF IsClient, HasCounts, Alike
<1> QED
  BY <1>1, <1>2, <1>9 DEF Same, IsClient, e

(* A message of a new state, as all of them are sent. *)
LEMMA Sends ==
  ASSUME NEW d, IsClient(d), NEW s, NEW type, NEW req
  PROVE  LET e == Attempt(dhcp_create_msg(dhcp_set_state(d, s), type, req))
         IN  Same(d, e) /\ e.state = s /\ e.armed = TRUE
<1> DEFINE d1 == dhcp_set_state(d, s)
           d2 == dhcp_create_msg(d1, type, req)
           d3 == Attempt(d2)
<1>1. Same(d, d1) /\ d1.state = s /\ d1.xid = d.xid
  BY SetState
<1>2. Same(d1, d2) /\ d2.state = d1.state 
  <2>1. IsClient(d1)
    BY <1>1 DEF Same
  <2> QED
    BY <2>1, CreateMsg
<1>3. Same(d2, d3) /\ d3.state = d2.state /\ d3.xid = d2.xid /\ d3.armed = TRUE
  <2>1. IsClient(d2)
    BY <1>2 DEF Same
  <2> QED
    BY <2>1, Attempts
<1> HIDE DEF d1, d2, d3
<1>4. Same(d, d3)
  BY <1>1, <1>2, <1>3 DEF Same, Alike
<1>5. d3.state = s /\ d3.armed = TRUE 
  BY <1>1, <1>2, <1>3
<1> QED
  BY <1>4, <1>5 DEF d1, d2, d3

Request(d, s, req) == Attempt(dhcp_create_msg(dhcp_set_state(d, s), "REQUEST", req))
LEMMA SendsRequest ==
  ASSUME NEW d, IsClient(d), NEW s, NEW req
  PROVE  LET e == Request(d, s, req)
         IN  Same(d, e) /\ SameXid(d, e) /\ e.state = s /\ e.armed = TRUE
<1> DEFINE d1 == dhcp_set_state(d, s)
           d2 == dhcp_create_msg(d1, "REQUEST", req)
           d3 == Attempt(d2)
<1>1. Same(d, d1) /\ d1.state = s /\ d1.xid = d.xid
  BY SetState
<1>2. Same(d1, d2) /\ d2.state = d1.state /\ d2.xid = d1.xid
  <2>1. IsClient(d1)
    BY <1>1 DEF Same
  <2> QED
    BY <2>1, CreateMsg
<1>3. Same(d2, d3) /\ d3.state = d2.state /\ d3.xid = d2.xid /\ d3.armed = TRUE
  <2>1. IsClient(d2)
    BY <1>2 DEF Same
  <2> QED
    BY <2>1, Attempts
<1> HIDE DEF d1, d2, d3
<1>4. Same(d, d3)
  BY <1>1, <1>2, <1>3 DEF Same, Alike
<1>5. d3.state = s /\ d3.armed = TRUE /\ d3.xid = d.xid
  BY <1>1, <1>2, <1>3
<1> QED
  BY <1>4, <1>5 DEF d1, d2, d3, Request, SameXid

-----------------------------------------------------------------------------
(* A client that has just sent something waits with its timer. *)
LEMMA NowWaits ==
  ASSUME NEW c, NEW e, NEW A, IsClient(e), e.state \in Waiting, e.pcb = TRUE, e.armed = TRUE,
         e.state \in Granted => <<c, e.offered, e.xid>> \in A,
         e.up = TRUE /\ e.state \in Using => e.ip = e.offered
  PROVE  ClientKept(c, e, A)
BY Zenon DEF ClientKept, OnTime, Holds, Waiting

(* The states without a grant: a new search, a choice, a conflict. *)
LEMMA DiscoverKeeps ==
  ASSUME NEW c, NEW d, NEW A, IsClient(d), d.pcb = TRUE
  PROVE  LET e == dhcp_discover(d)
         IN  ClientKept(c, e, A) /\ e.state = "SELECTING" /\ e.up = d.up /\ e.mem = d.mem
<1> DEFINE b == [d EXCEPT !.offered = None]
           e == dhcp_discover(d)
<1>1. IsClient(b) /\ b.pcb = TRUE /\ b.up = d.up /\ b.mem = d.mem
  <2>1. /\ HasFields(b)
        /\ b.dhcp = d.dhcp /\ b.pcb = d.pcb /\ b.armed = d.armed /\ b.up = d.up /\ b.mem = d.mem
        /\ b.t2 = d.t2 /\ b.lease = d.lease
    BY DEF IsClient, HasFields, ClientFields
  <2> HIDE DEF b
  <2> QED
    BY <2>1 DEF IsClient, HasFlags, HasCounts
<1> HIDE DEF b
<1>2. Same(b, e) /\ e.state = "SELECTING" /\ e.armed = TRUE
  BY <1>1, Sends DEF dhcp_discover, b
<1> HIDE DEF e
<1>3. IsClient(e) /\ e.state \in Waiting /\ e.pcb = TRUE /\ e.up = d.up /\ e.mem = d.mem
      /\ e.state \notin Granted /\ e.state \notin Using
  BY <1>1, <1>2 DEF Same, Alike, Waiting, Granted, Using
<1>4. ClientKept(c, e, A)
  BY <1>2, <1>3, NowWaits
<1> QED
  BY <1>2, <1>3, <1>4 DEF e

LEMMA SelectKeeps ==
  ASSUME NEW c, NEW d, NEW A, IsClient(d), d.pcb = TRUE
  PROVE  ClientKept(c, dhcp_select(d), A)
<1> DEFINE e == dhcp_select(d)
<1>1. Same(d, e) /\ e.state = "REQUESTING" /\ e.armed = TRUE
  BY Sends DEF dhcp_select
<1> HIDE DEF e
<1>2. IsClient(e) /\ e.state \in Waiting /\ e.pcb = TRUE
      /\ e.state \notin Granted /\ e.state \notin Using
  BY <1>1 DEF Same, Alike, Waiting, Granted, Using
<1> QED
  BY <1>1, <1>2, NowWaits DEF e

LEMMA DeclineKeeps ==
  ASSUME NEW c, NEW d, NEW A, IsClient(d), d.pcb = TRUE
  PROVE  ClientKept(c, dhcp_decline(d), A)
<1> DEFINE e == dhcp_decline(d)
<1>1. Same(d, e) /\ e.state = "BACKING_OFF" /\ e.armed = TRUE
  BY Sends DEF dhcp_decline
<1> HIDE DEF e
<1>2. IsClient(e) /\ e.state \in Waiting /\ e.pcb = TRUE
      /\ e.state \notin Granted /\ e.state \notin Using
  BY <1>1 DEF Same, Alike, Waiting, Granted, Using
<1> QED
  BY <1>1, <1>2, NowWaits DEF e

(* The states with one. *)
LEMMA RenewKeeps ==
  ASSUME NEW c, NEW d, NEW A, IsClient(d), d.pcb = TRUE, <<c, d.offered, d.xid>> \in A,
         d.up = TRUE => d.ip = d.offered
  PROVE  \A e \in {dhcp_renew(d), dhcp_rebind(d)} :
           ClientKept(c, e, A) /\ e.state \in Using /\ e.mem = d.mem
<1>1. ASSUME NEW e, Same(d, e), e.state \in {"RENEWING", "REBINDING"}, e.armed = TRUE, e.xid = d.xid
      PROVE  ClientKept(c, e, A) /\ e.state \in Using /\ e.mem = d.mem
  <2>1. e.mem = d.mem
        /\ IsClient(e) /\ e.state \in Waiting /\ e.pcb = TRUE /\ e.state \in Using
        /\ <<c, e.offered, e.xid>> \in A /\ (e.up = TRUE => e.ip = e.offered)
    BY <1>1 DEF Same, Alike, Waiting, Using
  <2> QED
    BY <1>1, <2>1, NowWaits
<1>2. Same(d, dhcp_renew(d)) /\ dhcp_renew(d).state = "RENEWING" /\ dhcp_renew(d).armed = TRUE
      /\ dhcp_renew(d).xid = d.xid
  <2>1. dhcp_renew(d) = Request(d, "RENEWING", None)
    BY DEF dhcp_renew, Request
  <2> DEFINE r == Request(d, "RENEWING", None)
  <2>2. Same(d, r) /\ SameXid(d, r) /\ r.state = "RENEWING" /\ r.armed = TRUE
    BY SendsRequest
  <2> HIDE DEF r
  <2> QED
    BY <2>1, <2>2 DEF r, SameXid
<1>3. Same(d, dhcp_rebind(d)) /\ dhcp_rebind(d).state = "REBINDING" /\ dhcp_rebind(d).armed = TRUE
      /\ dhcp_rebind(d).xid = d.xid
  <2>1. dhcp_rebind(d) = Request(d, "REBINDING", None)
    BY DEF dhcp_rebind, Request
  <2> DEFINE r == Request(d, "REBINDING", None)
  <2>2. Same(d, r) /\ SameXid(d, r) /\ r.state = "REBINDING" /\ r.armed = TRUE
    BY SendsRequest
  <2> HIDE DEF r
  <2> QED
    BY <2>1, <2>2 DEF r, SameXid
<1> QED
  BY <1>1, <1>2, <1>3

LEMMA RebootKeeps ==
  ASSUME NEW c, NEW d, NEW A, IsClient(d), d.pcb = TRUE, <<c, d.offered, d.xid>> \in A
  PROVE  ClientKept(c, dhcp_reboot(d), A) /\ dhcp_reboot(d).up = d.up
<1> DEFINE e == dhcp_reboot(d)
<1>1. Same(d, e) /\ e.state = "REBOOTING" /\ e.armed = TRUE /\ e.xid = d.xid
  <2>1. e = Request(d, "REBOOTING", d.offered)
    BY DEF dhcp_reboot, Request
  <2> DEFINE r == Request(d, "REBOOTING", d.offered)
  <2>2. Same(d, r) /\ SameXid(d, r) /\ r.state = "REBOOTING" /\ r.armed = TRUE
    BY SendsRequest
  <2> HIDE DEF r
  <2> QED
    BY <2>1, <2>2 DEF r, SameXid
<1> HIDE DEF e
<1>2. IsClient(e) /\ e.state \in Waiting /\ e.pcb = TRUE /\ e.state \notin Using /\ e.up = d.up
      /\ <<c, e.offered, e.xid>> \in A
  BY <1>1 DEF Same, Alike, Waiting, Using
<1> QED
  BY <1>1, <1>2, NowWaits DEF e

LEMMA CheckKeeps ==
  ASSUME NEW c, NEW d, NEW A, IsClient(d), d.pcb = TRUE, <<c, d.offered, d.xid>> \in A
  PROVE  ClientKept(c, dhcp_check(d), A)
<1> DEFINE b == dhcp_set_state(d, "CHECKING")
           e == Attempt(b)
<1>1. Same(d, b) /\ b.state = "CHECKING" /\ b.xid = d.xid
  BY SetState
<1>2. IsClient(b)
  BY <1>1 DEF Same
<1> HIDE DEF b
<1>3. Same(b, e) /\ e.state = b.state /\ e.xid = b.xid /\ e.armed = TRUE
  BY <1>2, Attempts
<1> HIDE DEF e
<1>4. IsClient(e) /\ e.state \in Waiting /\ e.pcb = TRUE /\ e.state \notin Using
      /\ <<c, e.offered, e.xid>> \in A
  BY <1>1, <1>3 DEF Same, Alike, Waiting, Using
<1> QED
  BY <1>3, <1>4, NowWaits DEF e, b, dhcp_check

(* A RELEASE turns the client off and takes the address away. *)
LEMMA ReleaseKeeps ==
  ASSUME NEW c, NEW d, NEW A, IsClient(d)
  PROVE  LET e == dhcp_release(d)
         IN  ClientKept(c, e, A) /\ e.pcb = d.pcb /\ e.up = FALSE /\ e.mem = d.mem
<1> DEFINE d1 == dhcp_set_state(d, "OFF")
           d2 == [d1 EXCEPT !.server = None, !.offered = None, !.lease = 0]
           d3 == dhcp_create_msg(d2, "RELEASE", None)
           d4 == Attempt(d3)
           e  == netif_down(d4)
<1>1. Same(d, d1) /\ d1.state = "OFF"
  BY SetState
<1> HIDE DEF d1
<1>2. IsClient(d2) /\ d2.state = "OFF" /\ d2.pcb = d.pcb /\ d2.mem = d.mem
  <2>1. /\ HasFields(d2) /\ d2.state = d1.state
        /\ d2.dhcp = d1.dhcp /\ d2.pcb = d1.pcb /\ d2.armed = d1.armed /\ d2.up = d1.up /\ d2.mem = d1.mem
        /\ d2.t2 = d1.t2 /\ d2.lease = 0
    BY <1>1 DEF Same, IsClient, HasFields, ClientFields
  <2> HIDE DEF d2
  <2>2. IsClient(d1) /\ d1.pcb = d.pcb /\ d1.mem = d.mem
    BY <1>1 DEF Same, Alike
  <2>3. HasFlags(d2)
    BY <2>1, <2>2 DEF IsClient, HasFlags
  <2>4. HasCounts(d2)
    BY <2>1, <2>2 DEF IsClient, HasCounts
  <2> QED
    BY <1>1, <2>1, <2>2, <2>3, <2>4 DEF IsClient
<1> HIDE DEF d2
<1>3. Same(d2, d3) /\ d3.state = d2.state
  BY <1>2, CreateMsg
<1> HIDE DEF d3
<1>4. Same(d3, d4) /\ d4.state = d3.state
  <2>1. IsClient(d3)
    BY <1>3 DEF Same
  <2> QED
    BY <2>1, Attempts
<1> HIDE DEF d4
<1>5. IsClient(d4) /\ d4.state = "OFF" /\ d4.pcb = d.pcb /\ d4.mem = d.mem
  BY <1>2, <1>3, <1>4 DEF Same, Alike
<1>6. /\ HasFields(e) /\ e.state = d4.state /\ e.up = FALSE
      /\ e.dhcp = d4.dhcp /\ e.pcb = d4.pcb /\ e.armed = d4.armed /\ e.mem = d4.mem
      /\ e.t2 = d4.t2 /\ e.lease = d4.lease
  BY <1>5 DEF netif_down, IsClient, HasFields, ClientFields
<1> HIDE DEF e
<1>7. HasFlags(e)
  BY <1>5, <1>6 DEF IsClient, HasFlags
<1>8. HasCounts(e)
  BY <1>5, <1>6 DEF IsClient, HasCounts
<1>9. ClientKept(c, e, A)
  BY <1>5, <1>6, <1>7, <1>8 DEF ClientKept, OnTime, Holds, IsClient, Granted, Using, Waiting
<1>10. e = dhcp_release(d)
  BY DEF e, d4, d3, d2, d1, dhcp_release
<1> QED
  BY <1>5, <1>6, <1>9, <1>10

LEMMA NakKeeps ==
  ASSUME NEW c, NEW d, NEW A, IsClient(d), d.pcb = TRUE
  PROVE  LET e == dhcp_handle_nak(d)
         IN  ClientKept(c, e, A) /\ e.up = FALSE
<1> DEFINE d1 == netif_down(d)
           d2 == dhcp_set_state(d1, "BACKING_OFF")
<1>1. IsClient(d1) /\ d1.pcb = TRUE /\ d1.up = FALSE
  <2>1. /\ HasFields(d1) /\ d1.up = FALSE
        /\ d1.dhcp = d.dhcp /\ d1.pcb = d.pcb /\ d1.armed = d.armed /\ d1.mem = d.mem
        /\ d1.t2 = d.t2 /\ d1.lease = d.lease
    BY DEF netif_down, IsClient, HasFields, ClientFields
  <2> HIDE DEF d1
  <2>2. HasFlags(d1)
    BY <2>1 DEF IsClient, HasFlags
  <2>3. HasCounts(d1)
    BY <2>1 DEF IsClient, HasCounts
  <2> QED
    BY <2>1, <2>2, <2>3 DEF IsClient
<1> HIDE DEF d1
<1>2. Same(d1, d2)
  BY <1>1, SetState
<1> HIDE DEF d2
<1>3. IsClient(d2) /\ d2.pcb = TRUE /\ d2.up = FALSE
  BY <1>1, <1>2 DEF Same, Alike
<1> QED
  BY <1>3, DiscoverKeeps DEF d2, d1, dhcp_handle_nak

LEMMA BindKeeps ==
  ASSUME NEW c, NEW d, NEW A, IsClient(d), d.pcb = TRUE, <<c, d.offered, d.xid>> \in A
  PROVE  ClientKept(c, dhcp_bind(d), A) /\ dhcp_bind(d).state \in Using
<1> DEFINE t2 == Ticks(d.lease)
           t1 == IF Ticks(d.lease \div 2) >= t2 THEN 0 ELSE Ticks(d.lease \div 2)
           b == [d EXCEPT !.t1 = t1, !.t2 = t2, !.ip = d.offered, !.up = TRUE]
           e == dhcp_set_state(b, "BOUND")
<1>1. t2 \in Word /\ t2 > 0
  BY TicksRange DEF IsClient, HasCounts
<1> HIDE DEF t2, t1
<1>2. IsClient(b) /\ b.pcb = TRUE /\ b.t2 = t2 /\ b.xid = d.xid /\ b.offered = d.offered /\ b.ip = d.offered
  <2>1. /\ HasFields(b) /\ b.up = TRUE /\ b.xid = d.xid /\ b.offered = d.offered /\ b.ip = d.offered
        /\ b.dhcp = d.dhcp /\ b.pcb = d.pcb /\ b.armed = d.armed /\ b.mem = d.mem
        /\ b.t2 = t2 /\ b.lease = d.lease
    BY DEF IsClient, HasFields, ClientFields
  <2> HIDE DEF b
  <2>2. HasFlags(b)
    BY <2>1 DEF IsClient, HasFlags
  <2>3. HasCounts(b)
    BY <1>1, <2>1 DEF IsClient, HasCounts
  <2> QED
    BY <2>1, <2>2, <2>3 DEF IsClient
<1> HIDE DEF b
<1>3. Same(b, e) /\ e.state = "BOUND" /\ e.xid = b.xid
  BY <1>2, SetState
<1> HIDE DEF e
<1>4. IsClient(e) /\ e.pcb = TRUE /\ e.t2 = t2 /\ e.ip = e.offered /\ <<c, e.offered, e.xid>> \in A
  BY <1>2, <1>3 DEF Same, Alike
<1>5. e.t2 > 0
  BY <1>1, <1>4
<1>6. ClientKept(c, e, A) /\ e.state \in Using
  BY <1>3, <1>4, <1>5 DEF ClientKept, OnTime, Holds, Waiting, Using
<1>7. e = dhcp_bind(d)
  BY DEF e, b, t2, t1, dhcp_bind
<1> QED
  BY <1>6, <1>7

-----------------------------------------------------------------------------
(* A client whose timer has just run out, or been stopped by an answer. *)
Ready(c, d, A) == /\ IsClient(d) /\ d.state \in Waiting \cup {"OFF", "BOUND"}
                  /\ d.state # "OFF" => d.pcb = TRUE
                  /\ d.state = "BOUND" => d.t2 > 0
                  /\ Holds(c, d, A)

LEMMA KeptReady ==
  ASSUME NEW c, NEW d, NEW A, ClientKept(c, d, A)
  PROVE  Ready(c, d, A)
BY Zenon DEF ClientKept, OnTime, Ready, IsClient, HasFlags

LEMMA DisarmReady ==
  ASSUME NEW c, NEW d, NEW A, Ready(c, d, A)
  PROVE  LET e == [d EXCEPT !.armed = FALSE]
         IN  Ready(c, e, A) /\ e.state = d.state /\ e.up = d.up /\ e.pcb = d.pcb /\ e.mem = d.mem
<1> DEFINE e == [d EXCEPT !.armed = FALSE]
<1>1. /\ HasFields(e) /\ Alike(d, e) /\ e.state = d.state /\ e.xid = d.xid /\ e.armed = FALSE
  BY DEF Ready, IsClient, HasFields, Alike, ClientFields
<1> HIDE DEF e
<1>2. HasFlags(e)
  BY <1>1 DEF Ready, IsClient, HasFlags, Alike
<1>3. HasCounts(e)
  BY <1>1 DEF Ready, IsClient, HasCounts, Alike
<1>4. Holds(c, e, A)
  BY <1>1, Zenon DEF Ready, Holds, Alike
<1>5. e.state = "BOUND" => e.t2 > 0
  BY <1>1 DEF Ready, Alike
<1>6. Ready(c, e, A)
  BY <1>1, <1>2, <1>3, <1>4, <1>5 DEF Ready, IsClient, Alike
<1> QED
  BY <1>1, <1>6 DEF Alike, e

(* What Holds says in the states that have a grant. *)
LEMMA HasGrant ==
  ASSUME NEW c, NEW d, NEW A, Ready(c, d, A), d.state \in Granted
  PROVE  /\ IsClient(d) /\ d.pcb = TRUE /\ <<c, d.offered, d.xid>> \in A
         /\ d.state \in Using /\ d.up = TRUE => d.ip = d.offered
BY Zenon DEF Ready, Holds, Granted, Using

(* The request timer runs out. *)
LEMMA TimeoutKeeps ==
  ASSUME NEW c, NEW d, NEW A, Ready(c, d, A)
  PROVE  LET e == dhcp_timeout(d)
         IN  ClientKept(c, e, A) /\ LetsGo(d, e)
<1> DEFINE e == dhcp_timeout(d)
<1>1. CASE d.state \in {"BACKING_OFF", "SELECTING"}
  <2>1. e = dhcp_discover(d)
    BY <1>1 DEF dhcp_timeout
  <2>2. IsClient(d) /\ d.pcb = TRUE /\ d.state \notin Using
    BY <1>1 DEF Ready, Using
  <2>3. ClientKept(c, e, A)
    BY <2>1, <2>2, DiscoverKeeps
  <2> QED
    BY <2>2, <2>3 DEF LetsGo
<1>2. CASE d.state = "REQUESTING"
  <2>1. IsClient(d) /\ d.pcb = TRUE /\ d.state \notin Using
    BY <1>2 DEF Ready, Using
  <2>2. CASE d.tries <= SelectTries
    <3>1. e = dhcp_select(d)
      BY <1>2, <2>2 DEF dhcp_timeout
    <3> QED
      BY <2>1, <3>1, SelectKeeps DEF LetsGo
  <2>3. CASE ~(d.tries <= SelectTries)
    <3>1. e = dhcp_discover(dhcp_release(d))
      BY <1>2, <2>3 DEF dhcp_timeout
    <3>2. ClientKept(c, dhcp_release(d), A) /\ dhcp_release(d).pcb = TRUE
      BY <2>1, ReleaseKeeps
    <3>3. ClientKept(c, e, A)
      BY <3>1, <3>2, DiscoverKeeps DEF ClientKept
    <3> QED
      BY <2>1, <3>3 DEF LetsGo
  <2> QED
    BY <2>2, <2>3
<1>3. CASE d.state = "CHECKING"
  <2>1. IsClient(d) /\ d.pcb = TRUE /\ <<c, d.offered, d.xid>> \in A /\ d.state \notin Using
    BY <1>3, HasGrant DEF Granted, Using
  <2>2. CASE d.tries <= CheckTries
    <3>1. e = dhcp_check(d)
      BY <1>3, <2>2 DEF dhcp_timeout
    <3> QED
      BY <2>1, <3>1, CheckKeeps DEF LetsGo
  <2>3. CASE ~(d.tries <= CheckTries)
    <3>1. e = dhcp_bind(d)
      BY <1>3, <2>3 DEF dhcp_timeout
    <3> QED
      BY <2>1, <3>1, BindKeeps DEF LetsGo
  <2> QED
    BY <2>2, <2>3
<1>4. CASE d.state = "RENEWING"
  <2>1. IsClient(d) /\ d.pcb = TRUE /\ <<c, d.offered, d.xid>> \in A /\ (d.up = TRUE => d.ip = d.offered)
    BY <1>4, HasGrant DEF Granted, Using
  <2>2. e = dhcp_renew(d)
    BY <1>4 DEF dhcp_timeout
  <2> QED
    BY <2>1, <2>2, RenewKeeps DEF LetsGo
<1>5. CASE d.state = "REBINDING"
  <2>1. IsClient(d) /\ d.pcb = TRUE /\ <<c, d.offered, d.xid>> \in A /\ (d.up = TRUE => d.ip = d.offered)
    BY <1>5, HasGrant DEF Granted, Using
  <2>2. CASE d.tries <= RebindTries
    <3>1. e = dhcp_rebind(d)
      BY <1>5, <2>2 DEF dhcp_timeout
    <3> QED
      BY <2>1, <3>1, RenewKeeps DEF LetsGo
  <2>3. CASE ~(d.tries <= RebindTries)
    <3>1. e = dhcp_discover(dhcp_release(d))
      BY <1>5, <2>3 DEF dhcp_timeout
    <3>2. ClientKept(c, dhcp_release(d), A) /\ dhcp_release(d).pcb = TRUE /\ dhcp_release(d).up = FALSE
      BY <2>1, ReleaseKeeps
    <3>3. ClientKept(c, e, A) /\ e.up = FALSE
      BY <3>1, <3>2, DiscoverKeeps DEF ClientKept
    <3> QED
      BY <3>3 DEF LetsGo
  <2> QED
    BY <2>2, <2>3
<1>6. CASE d.state = "REBOOTING"
  <2>1. IsClient(d) /\ d.pcb = TRUE /\ <<c, d.offered, d.xid>> \in A /\ d.state \notin Using
    BY <1>6, HasGrant DEF Granted, Using
  <2>2. CASE d.tries < RebootTries
    <3>1. e = dhcp_reboot(d)
      BY <1>6, <2>2 DEF dhcp_timeout
    <3> QED
      BY <2>1, <3>1, RebootKeeps DEF LetsGo
  <2>3. CASE ~(d.tries < RebootTries)
    <3>1. e = dhcp_discover(d)
      BY <1>6, <2>3 DEF dhcp_timeout
    <3>2. ClientKept(c, e, A)
      BY <2>1, <3>1, DiscoverKeeps
    <3> QED
      BY <2>1, <3>2 DEF LetsGo
  <2> QED
    BY <2>2, <2>3
<1>7. CASE d.state \in {"OFF", "BOUND"}
  <2>1. e = d
    BY <1>7 DEF dhcp_timeout
  <2>2. OnTime(d)
    BY <1>7 DEF Ready, OnTime, Waiting
  <2> QED
    BY <2>1, <2>2 DEF ClientKept, Ready, LetsGo
<1>8. \/ d.state \in {"BACKING_OFF", "SELECTING"} \/ d.state = "REQUESTING" \/ d.state = "CHECKING"
      \/ d.state = "RENEWING" \/ d.state = "REBINDING" \/ d.state = "REBOOTING" \/ d.state \in {"OFF", "BOUND"}
  BY DEF Ready, Waiting
<1> QED
  BY <1>1, <1>2, <1>3, <1>4, <1>5, <1>6, <1>7, <1>8

LEMMA FineTmrKeeps ==
  ASSUME NEW c, NEW d, NEW A, ClientKept(c, d, A)
  PROVE  LET e == dhcp_fine_tmr(d)
         IN  ClientKept(c, e, A) /\ LetsGo(d, e)
<1> DEFINE b == [d EXCEPT !.armed = FALSE]
<1>1. Ready(c, d, A)
  BY KeptReady
<1>2. Ready(c, b, A) /\ b.state = d.state /\ b.up = d.up
  BY <1>1, DisarmReady
<1> HIDE DEF b
<1>3. ClientKept(c, dhcp_timeout(b), A) /\ LetsGo(b, dhcp_timeout(b))
  BY <1>2, TimeoutKeeps
<1>4. dhcp_fine_tmr(d) = dhcp_timeout(b)
  BY DEF dhcp_fine_tmr, b
<1> QED
  BY <1>2, <1>3, <1>4 DEF LetsGo

(* An answer. *)
LEMMA RecvKeeps ==
  ASSUME NEW c, NEW d, NEW A, ClientKept(c, d, A), d.pcb = TRUE, NEW m,
         m.type = "ACK" => <<c, m.yiaddr, m.xid>> \in A
  PROVE  LET e == dhcp_recv(d, m)
         IN  ClientKept(c, e, A) /\ LetsGo(d, e)
<1> DEFINE e == dhcp_recv(d, m)
<1>0. Ready(c, d, A) /\ IsClient(d)
  BY KeptReady DEF ClientKept
<1>1. ClientKept(c, d, A) /\ LetsGo(d, d)
  BY DEF LetsGo
<1>2. CASE ~SameTransaction(d, m)
  BY <1>1, <1>2 DEF dhcp_recv
<1>3. CASE SameTransaction(d, m)
  <2>1. CASE m.type = "ACK" /\ d.state = "REQUESTING"
    <3> DEFINE b == dhcp_handle_ack(d, m)
    <3>1. e = dhcp_check(b)
      BY <1>3, <2>1 DEF dhcp_recv
    <3>2. HasFields(b) /\ b.lease = Lease /\ b.offered = m.yiaddr /\ b.xid = d.xid
          /\ b.dhcp = d.dhcp /\ b.pcb = d.pcb /\ b.armed = d.armed /\ b.up = d.up /\ b.mem = d.mem
          /\ b.t2 = d.t2
      BY <1>0 DEF dhcp_handle_ack, IsClient, HasFields, ClientFields
    <3> HIDE DEF b
    <3>3. HasFlags(b)
      BY <1>0, <3>2 DEF IsClient, HasFlags
    <3>4. HasCounts(b)
      BY <1>0, <3>2, DhcpConstants DEF IsClient, HasCounts
    <3>5. IsClient(b) /\ b.pcb = TRUE
      BY <3>2, <3>3, <3>4 DEF IsClient
    <3>6. <<c, b.offered, b.xid>> \in A
      BY <1>3, <2>1, <3>2 DEF SameTransaction
    <3>7. d.state \notin Using
      BY <2>1 DEF Using
    <3>8. ClientKept(c, e, A)
      BY <3>1, <3>5, <3>6, CheckKeeps
    <3> QED
      BY <3>7, <3>8 DEF LetsGo
  <2>2. CASE m.type = "ACK" /\ d.state \in {"REBOOTING", "REBINDING", "RENEWING"}
    <3>1. e = dhcp_bind(d)
      BY <1>3, <2>2 DEF dhcp_recv
    <3>2. <<c, d.offered, d.xid>> \in A
      BY <1>0, <2>2, HasGrant DEF Granted, Using
    <3> QED
      BY <1>0, <3>1, <3>2, BindKeeps DEF LetsGo
  <2>3. CASE m.type = "NAK" /\ d.state \in {"REBOOTING", "REQUESTING", "REBINDING", "RENEWING"}
    <3>1. e = dhcp_handle_nak(d)
      BY <1>3, <2>3 DEF dhcp_recv
    <3> QED
      BY <1>0, <3>1, NakKeeps DEF LetsGo
  <2>4. CASE m.type = "OFFER" /\ d.state = "SELECTING"
    <3> DEFINE b == [d EXCEPT !.armed = FALSE]
               f == [b EXCEPT !.server = m.server, !.offered = m.yiaddr]
    <3>1. e = dhcp_handle_offer(b, m)
      BY <1>3, <2>4 DEF dhcp_recv
    <3>2. e = dhcp_select(f)
      BY <3>1 DEF dhcp_handle_offer
    <3>3. Ready(c, b, A) /\ b.pcb = TRUE
      BY <1>0, DisarmReady
    <3> HIDE DEF b
    <3>4. HasFields(f)
          /\ f.dhcp = b.dhcp /\ f.pcb = b.pcb /\ f.armed = b.armed /\ f.up = b.up /\ f.mem = b.mem
          /\ f.t2 = b.t2 /\ f.lease = b.lease
      BY <3>3 DEF Ready, IsClient, HasFields, ClientFields
    <3> HIDE DEF f
    <3>5. HasFlags(f)
      BY <3>3, <3>4 DEF Ready, IsClient, HasFlags
    <3>6. HasCounts(f)
      BY <3>3, <3>4 DEF Ready, IsClient, HasCounts
    <3>7. IsClient(f) /\ f.pcb = TRUE
      BY <3>3, <3>4, <3>5, <3>6 DEF IsClient
    <3>8. ClientKept(c, e, A)
      BY <3>2, <3>7, SelectKeeps
    <3>9. d.state \notin Using
      BY <2>4 DEF Using
    <3> QED
      BY <3>8, <3>9 DEF LetsGo
  <2>5. CASE /\ ~(m.type = "ACK" /\ d.state = "REQUESTING")
             /\ ~(m.type = "ACK" /\ d.state \in {"REBOOTING", "REBINDING", "RENEWING"})
             /\ ~(m.type = "NAK" /\ d.state \in {"REBOOTING", "REQUESTING", "REBINDING", "RENEWING"})
             /\ ~(m.type = "OFFER" /\ d.state = "SELECTING")
    <3>1. e = d
      BY <1>3, <2>5 DEF dhcp_recv
    <3> QED
      BY <1>1, <3>1
  <2> QED
    BY <2>1, <2>2, <2>3, <2>4, <2>5
<1> QED
  BY <1>2, <1>3

(* Another host has the address. *)
LEMMA ArpReplyKeeps ==
  ASSUME NEW c, NEW d, NEW A, ClientKept(c, d, A), d.state = "CHECKING"
  PROVE  LET e == dhcp_arp_reply(d)
         IN  ClientKept(c, e, A) /\ LetsGo(d, e)
<1>1. IsClient(d) /\ d.pcb = TRUE /\ d.state \notin Using
  BY KeptReady DEF Ready, Using
<1>2. ClientKept(c, dhcp_decline(d), A)
  BY <1>1, DeclineKeeps
<1> QED
  BY <1>1, <1>2 DEF dhcp_arp_reply, LetsGo

(* The lease runs.  A tick comes when no client waits for an answer that   *)
(* it needs (CoarseTick).                                                  *)
(* d with other counters. *)
Counted(d, b) ==
  /\ b.state = d.state /\ b.xid = d.xid /\ b.offered = d.offered /\ b.ip = d.ip /\ b.up = d.up
  /\ b.pcb = d.pcb /\ b.armed = d.armed /\ b.mem = d.mem

LEMMA CountsDown ==
  ASSUME NEW d, IsClient(d), NEW t1, NEW t2 \in Word
  PROVE  LET b == [d EXCEPT !.t2 = t2, !.t1 = t1]
         IN  IsClient(b) /\ b.t2 = t2 /\ Counted(d, b)
<1> DEFINE b == [d EXCEPT !.t2 = t2, !.t1 = t1]
<1>1. HasFields(b) /\ b.t2 = t2 /\ b.dhcp = d.dhcp /\ b.lease = d.lease /\ Counted(d, b)
  BY DEF IsClient, HasFields, ClientFields, Counted
<1> HIDE DEF b
<1>2. HasFlags(b)
  BY <1>1 DEF IsClient, HasFlags, Counted
<1>3. HasCounts(b)
  BY <1>1 DEF IsClient, HasCounts
<1> QED
  BY <1>1, <1>2, <1>3 DEF IsClient, b

(* T1 and T2 while the address is used: a REQUEST goes out, and its timer  *)
(* is the next to wait for.                                                *)
LEMMA T12Keeps ==
  ASSUME NEW c, NEW d, NEW A, ClientKept(c, d, A), NEW b, IsClient(b), Counted(d, b),
         d.state \in {"RENEWING", "BOUND"}
  PROVE  \A e \in {dhcp_renew(b), dhcp_rebind(b)} :
           ClientKept(c, e, A) /\ LetsGo(d, e) /\ e.mem = d.mem
<1>1. Ready(c, d, A)
  BY KeptReady
<1>2. d.pcb = TRUE /\ <<c, d.offered, d.xid>> \in A /\ (d.up = TRUE => d.ip = d.offered)
  BY <1>1, HasGrant DEF Granted, Using
<1>3. b.pcb = TRUE /\ <<c, b.offered, b.xid>> \in A /\ (b.up = TRUE => b.ip = b.offered)
      /\ b.mem = d.mem
  BY <1>2 DEF Counted
<1> QED
  BY <1>3, RenewKeeps DEF LetsGo

(* A counter that only counts. *)
LEMMA CountedKept ==
  ASSUME NEW c, NEW d, NEW A, ClientKept(c, d, A), NEW b, IsClient(b), Counted(d, b),
         d.state = "BOUND" => b.t2 > 0
  PROVE  ClientKept(c, b, A) /\ LetsGo(d, b) /\ b.mem = d.mem
<1>1. OnTime(b)
  BY Zenon DEF ClientKept, OnTime, Counted
<1>2. Holds(c, b, A)
  BY Zenon DEF ClientKept, Holds, Counted
<1> QED
  BY <1>1, <1>2, Zenon DEF ClientKept, LetsGo, Counted

LEMMA CoarseTmrKeeps ==
  ASSUME NEW c, NEW d, NEW A, ClientKept(c, d, A),
         d.state \in {"RENEWING", "REBINDING", "OFF", "BOUND"}
  PROVE  LET e == dhcp_coarse_tmr(d)
         IN  ClientKept(c, e, A) /\ LetsGo(d, e) /\ e.mem = d.mem
<1> DEFINE e == dhcp_coarse_tmr(d)
<1>0. IsClient(d) /\ d.t2 \in Word /\ (d.state = "BOUND" => d.t2 > 0)
  BY DEF ClientKept, IsClient, HasCounts, OnTime
<1>1. CASE ~d.dhcp
  BY <1>1 DEF dhcp_coarse_tmr, LetsGo
<1>2. CASE d.dhcp /\ d.t2 = 1
  <2> DEFINE b == [d EXCEPT !.t2 = 0, !.t1 = d.t1]
  <2>1. [d EXCEPT !.t2 = 0] = b
    BY <1>0 DEF IsClient, HasFields, ClientFields
  <2>2. e = dhcp_t2_timeout(b)
    BY <1>2, <2>1 DEF dhcp_coarse_tmr
  <2>3. 0 \in Word
    BY DEF Word
  <2>4. IsClient(b) /\ Counted(d, b)
    BY <1>0, <2>3, CountsDown
  <2> HIDE DEF b
  <2>5. b.state = d.state
    BY <2>4 DEF Counted
  <2>6. CASE d.state \in {"BOUND", "RENEWING"}
    <3>1. e = dhcp_rebind(b)
      BY <2>2, <2>5, <2>6 DEF dhcp_t2_timeout, Leased
    <3> QED
      BY <2>4, <2>6, <3>1, T12Keeps
  <2>7. CASE d.state \in {"OFF", "REBINDING"}
    <3>1. e = b
      BY <2>2, <2>5, <2>7 DEF dhcp_t2_timeout, Leased
    <3> QED
      BY <2>4, <2>7, <3>1, CountedKept
  <2> QED
    BY <2>6, <2>7
<1>3. CASE d.dhcp /\ d.t2 # 1 /\ d.t1 = 1
  <2> DEFINE b == [d EXCEPT !.t2 = Dec(d.t2), !.t1 = 0]
  <2>1. e = dhcp_t1_timeout(b)
    BY <1>3 DEF dhcp_coarse_tmr
  <2>2. Dec(d.t2) \in Word
    BY <1>0, DecRange
  <2>3. IsClient(b) /\ Counted(d, b)
    BY <1>0, <2>2, CountsDown
  <2> HIDE DEF b
  <2>4. b.state = d.state
    BY <2>3 DEF Counted
  <2>5. CASE d.state \in {"BOUND", "RENEWING"}
    <3>1. e = dhcp_renew(b)
      BY <2>1, <2>4, <2>5 DEF dhcp_t1_timeout, Leased
    <3> QED
      BY <2>3, <2>5, <3>1, T12Keeps
  <2>6. CASE d.state \in {"OFF", "REBINDING"}
    <3>1. e = b
      BY <2>1, <2>4, <2>6 DEF dhcp_t1_timeout, Leased
    <3> QED
      BY <2>3, <2>6, <3>1, CountedKept
  <2> QED
    BY <2>5, <2>6
<1>4. CASE d.dhcp /\ d.t2 # 1 /\ d.t1 # 1
  <2> DEFINE b == [d EXCEPT !.t2 = Dec(d.t2), !.t1 = Dec(d.t1)]
  <2>1. e = b
    BY <1>4 DEF dhcp_coarse_tmr
  <2>2. Dec(d.t2) \in Word /\ (d.t2 > 1 => Dec(d.t2) > 0)
    BY <1>0, DecRange
  <2>3. IsClient(b) /\ b.t2 = Dec(d.t2) /\ Counted(d, b)
    BY <1>0, <2>2, CountsDown
  <2> HIDE DEF b
  <2>4. d.state = "BOUND" => d.t2 > 1
    <3>1. \A n \in Word : n > 0 /\ n # 1 => n > 1
      BY DEF Word
    <3> QED
      BY <1>0, <1>4, <3>1
  <2>5. d.state = "BOUND" => b.t2 > 0
    BY <2>2, <2>3, <2>4
  <2> QED
    BY <2>1, <2>3, <2>5, CountedKept
<1> QED
  BY <1>1, <1>2, <1>3, <1>4

-----------------------------------------------------------------------------
(* The calls. *)
LEMMA StopKeeps ==
  ASSUME NEW c, NEW d, NEW A, ClientKept(c, d, A)
  PROVE  ClientKept(c, dhcp_stop(d), A)
<1>1. CASE ~d.dhcp
  BY <1>1 DEF dhcp_stop
<1>2. CASE d.dhcp
  <2> DEFINE b == [d EXCEPT !.pcb = FALSE]
             e == dhcp_set_state(b, "OFF")
  <2>1. HasFields(b) /\ b.pcb = FALSE
        /\ b.dhcp = d.dhcp /\ b.armed = d.armed /\ b.up = d.up /\ b.mem = d.mem
        /\ b.t2 = d.t2 /\ b.lease = d.lease
    BY DEF ClientKept, IsClient, HasFields, ClientFields
  <2> HIDE DEF b
  <2>2. HasFlags(b)
    BY <2>1 DEF ClientKept, IsClient, HasFlags
  <2>3. HasCounts(b)
    BY <2>1 DEF ClientKept, IsClient, HasCounts
  <2>4. IsClient(b)
    BY <2>1, <2>2, <2>3 DEF IsClient
  <2>5. Same(b, e) /\ e.state = "OFF"
    BY <2>4, SetState
  <2> HIDE DEF e
  <2>6. ClientKept(c, e, A)
    BY <2>5 DEF Same, ClientKept, OnTime, Holds, Waiting, Granted, Using
  <2>7. dhcp_stop(d) = e
    BY <1>2 DEF dhcp_stop, e, b
  <2> QED
    BY <2>6, <2>7
<1> QED
  BY <1>1, <1>2

LEMMA StartKeeps ==
  ASSUME NEW c, NEW d, NEW A, IsClient(d)
  PROVE  ClientKept(c, dhcp_start(d), A)
<1> DEFINE fresh == [NewClient EXCEPT !.dhcp = TRUE, !.nextXid = d.nextXid, !.ip = d.ip, !.up = d.up,
                                      !.mem = d.mem]
           b == [fresh EXCEPT !.pcb = TRUE]
           e == dhcp_discover(b)
<1>1. HasFields(b) /\ b.pcb = TRUE /\ b.dhcp = TRUE /\ b.armed = FALSE /\ b.up = d.up /\ b.mem = d.mem
      /\ b.t2 = 0 /\ b.lease = 0
  BY DEF NewClient, HasFields, ClientFields
<1> HIDE DEF b
<1>2. HasFlags(b)
  BY <1>1 DEF IsClient, HasFlags
<1>3. 0 \in Word /\ 0 \in Nat
  BY DEF Word
<1>4. HasCounts(b)
  BY <1>1, <1>3 DEF HasCounts
<1>5. IsClient(b)
  BY <1>1, <1>2, <1>4 DEF IsClient
<1>6. ClientKept(c, e, A)
  BY <1>1, <1>5, DiscoverKeeps
<1>7. dhcp_start(d) = IF d.mem THEN e ELSE dhcp_stop(e)
  BY DEF dhcp_start, e, b
<1> HIDE DEF e
<1>8. ClientKept(c, dhcp_stop(e), A)
  BY <1>6, StopKeeps
<1> QED
  BY <1>6, <1>7, <1>8

LEMMA InformKeeps ==
  ASSUME NEW c, NEW d, NEW A, ClientKept(c, d, A)
  PROVE  LET e == dhcp_inform(d)
         IN  ClientKept(c, e, A) /\ LetsGo(d, e)
<1> DEFINE d1 == [d EXCEPT !.tries = 0]
           d2 == dhcp_create_msg(d1, "INFORM", None)
           e  == [d2 EXCEPT !.tries = d.tries, !.xid = d.xid]
<1>1. HasFields(d1) /\ Alike(d, d1) /\ d1.state = d.state /\ d1.armed = d.armed
  BY DEF ClientKept, IsClient, HasFields, Alike, ClientFields
<1> HIDE DEF d1
<1>2. HasFlags(d1)
  BY <1>1 DEF ClientKept, IsClient, HasFlags, Alike
<1>3. HasCounts(d1)
  BY <1>1 DEF ClientKept, IsClient, HasCounts, Alike
<1>4. IsClient(d1)
  BY <1>1, <1>2, <1>3 DEF IsClient
<1>5. Same(d1, d2) /\ d2.state = d1.state /\ d2.armed = d1.armed
  BY <1>4, CreateMsg
<1> HIDE DEF d2
<1>6. HasFields(e) /\ Alike(d2, e) /\ e.state = d2.state /\ e.armed = d2.armed /\ e.xid = d.xid
  BY <1>5 DEF Same, IsClient, HasFields, Alike, ClientFields
<1>7. e = dhcp_inform(d)
  BY DEF e, d2, d1, dhcp_inform
<1> HIDE DEF e
<1>8. HasFlags(e)
  BY <1>5, <1>6 DEF Same, IsClient, HasFlags, Alike
<1>9. HasCounts(e)
  BY <1>5, <1>6 DEF Same, IsClient, HasCounts, Alike
<1>10. IsClient(e)
  BY <1>6, <1>8, <1>9 DEF IsClient
<1>11. Alike(d, e) /\ e.state = d.state /\ e.armed = d.armed
  BY <1>1, <1>5, <1>6 DEF Same, Alike
<1>12. Counted(d, e) /\ e.t2 = d.t2
  BY <1>6, <1>11 DEF Counted, Alike
<1>13. d.state = "BOUND" => e.t2 > 0
  BY <1>12 DEF ClientKept, OnTime
<1> QED
  BY <1>7, <1>10, <1>12, <1>13, CountedKept

(* The station has moved to another access point: a lease is confirmed     *)
(* with the interface down, everything else starts over.                   *)
LEMMA ChangedKeeps ==
  ASSUME NEW c, NEW d, NEW A, ClientKept(c, d, A)
  PROVE  LET e == dhcp_network_changed(d)
         IN  ClientKept(c, e, A) /\ LetsGo(d, e)
<1> DEFINE e == dhcp_network_changed(d)
<1>0. Ready(c, d, A) /\ IsClient(d)
  BY KeptReady DEF ClientKept
<1>1. CASE ~d.dhcp \/ d.state = "OFF"
  <2>1. e = d
    BY <1>1 DEF dhcp_network_changed
  <2> QED
    BY <2>1 DEF LetsGo
<1>2. CASE d.dhcp /\ d.state \in {"REBINDING", "RENEWING", "BOUND", "REBOOTING"}
  <2> DEFINE b == [d EXCEPT !.up = FALSE, !.tries = 0]
  <2>1. e = dhcp_reboot(b)
    BY <1>2 DEF dhcp_network_changed
  <2>2. HasFields(b) /\ b.pcb = d.pcb /\ b.up = FALSE /\ b.offered = d.offered /\ b.xid = d.xid
        /\ b.dhcp = d.dhcp /\ b.armed = d.armed /\ b.mem = d.mem /\ b.t2 = d.t2 /\ b.lease = d.lease
    BY <1>0 DEF IsClient, HasFields, ClientFields
  <2> HIDE DEF b
  <2>3. HasFlags(b)
    BY <1>0, <2>2 DEF IsClient, HasFlags
  <2>4. HasCounts(b)
    BY <1>0, <2>2 DEF IsClient, HasCounts
  <2>5. IsClient(b)
    BY <2>2, <2>3, <2>4 DEF IsClient
  <2>6. d.pcb = TRUE /\ <<c, d.offered, d.xid>> \in A
    BY <1>0, <1>2, HasGrant DEF Granted, Using
  <2>7. b.pcb = TRUE /\ <<c, b.offered, b.xid>> \in A
    BY <2>2, <2>6
  <2>8. ClientKept(c, e, A) /\ e.up = b.up
    BY <2>1, <2>5, <2>7, RebootKeeps
  <2> QED
    BY <2>2, <2>8 DEF LetsGo
<1>3. CASE /\ d.dhcp /\ d.state # "OFF"
           /\ d.state \notin {"REBINDING", "RENEWING", "BOUND", "REBOOTING"}
  <2> DEFINE b == [d EXCEPT !.tries = 0]
  <2>1. e = dhcp_discover(b)
    BY <1>3 DEF dhcp_network_changed
  <2>2. HasFields(b) /\ Alike(d, b) /\ b.armed = d.armed
    BY <1>0 DEF IsClient, HasFields, Alike, ClientFields
  <2> HIDE DEF b
  <2>3. HasFlags(b)
    BY <1>0, <2>2 DEF IsClient, HasFlags, Alike
  <2>4. HasCounts(b)
    BY <1>0, <2>2 DEF IsClient, HasCounts, Alike
  <2>5. IsClient(b)
    BY <2>2, <2>3, <2>4 DEF IsClient
  <2>6. b.pcb = TRUE
    BY <1>0, <1>3, <2>2 DEF Ready, Alike
  <2>7. ClientKept(c, e, A)
    BY <2>1, <2>5, <2>6, DiscoverKeeps
  <2>8. d.state \notin Using
    BY <1>3 DEF Using
  <2> QED
    BY <2>7, <2>8 DEF LetsGo
<1> QED
  BY <1>1, <1>2, <1>3

(* The beginning and the end of a step. *)
LEMMA WithKeeps ==
  ASSUME NEW c, NEW d, NEW A, ClientKept(c, d, A), NEW mem \in BOOLEAN
  PROVE  LET e == [d EXCEPT !.mem = mem]
         IN  ClientKept(c, e, A) /\ e.pcb = d.pcb /\ e.state = d.state /\ e.up = d.up
<1> DEFINE e == [d EXCEPT !.mem = mem]
<1>1. HasFields(e) /\ e.mem = mem /\ e.state = d.state /\ e.xid = d.xid /\ e.offered = d.offered
      /\ e.ip = d.ip /\ e.up = d.up /\ e.pcb = d.pcb /\ e.armed = d.armed /\ e.t2 = d.t2
      /\ e.dhcp = d.dhcp /\ e.lease = d.lease
  BY DEF ClientKept, IsClient, HasFields, ClientFields
<1> HIDE DEF e
<1>2. HasFlags(e)
  BY <1>1 DEF ClientKept, IsClient, HasFlags
<1>3. HasCounts(e)
  BY <1>1 DEF ClientKept, IsClient, HasCounts
<1>4. IsClient(e)
  BY <1>1, <1>2, <1>3 DEF IsClient
<1>5. OnTime(e)
  BY <1>1, Zenon DEF ClientKept, OnTime
<1>6. Holds(c, e, A)
  BY <1>1, Zenon DEF ClientKept, Holds
<1> QED
  BY <1>1, <1>4, <1>5, <1>6 DEF ClientKept, e

LEMMA EndKeeps ==
  ASSUME NEW c, NEW d, NEW A, ClientKept(c, d, A), NEW mem \in BOOLEAN
  PROVE  LET e == [d EXCEPT !.out = <<>>, !.mem = mem]
         IN  ClientKept(c, e, A) /\ e.out = <<>> /\ e.mem = mem /\ e.state = d.state /\ e.up = d.up
<1> DEFINE e == [d EXCEPT !.out = <<>>, !.mem = mem]
<1>1. HasFields(e) /\ e.out = <<>> /\ e.mem = mem /\ e.state = d.state /\ e.xid = d.xid
      /\ e.offered = d.offered /\ e.ip = d.ip /\ e.up = d.up /\ e.pcb = d.pcb /\ e.armed = d.armed
      /\ e.t2 = d.t2 /\ e.dhcp = d.dhcp /\ e.lease = d.lease
  BY DEF ClientKept, IsClient, HasFields, ClientFields
<1> HIDE DEF e
<1>2. HasFlags(e)
  BY <1>1 DEF ClientKept, IsClient, HasFlags
<1>3. HasCounts(e)
  BY <1>1 DEF ClientKept, IsClient, HasCounts
<1>4. IsClient(e)
  BY <1>1, <1>2, <1>3 DEF IsClient
<1>5. OnTime(e)
  BY <1>1, Zenon DEF ClientKept, OnTime
<1>6. Holds(c, e, A)
  BY <1>1, Zenon DEF ClientKept, Holds
<1> QED
  BY <1>1, <1>4, <1>5, <1>6 DEF ClientKept, e

(* More ACKs take nothing away. *)
LEMMA MoreAcks ==
  ASSUME NEW c, NEW d, NEW A, NEW B, A \subseteq B, ClientKept(c, d, A)
  PROVE  ClientKept(c, d, B)
BY Zenon DEF ClientKept, Holds

-----------------------------------------------------------------------------
(***************************************************************************)
(* The server.  client_address_plus is where a search begins; the address  *)
(* it ends with is above all that were not above the first.                *)
(***************************************************************************)
(* ScannedTo as the equation it was written as. *)
LEMMA ScannedUnfold ==
  ASSUME NEW pool, NEW plus, NEW mac, Len(pool) \in Nat
  PROVE  ScannedTo(pool, plus, mac) = [i \in 0..Len(pool) |-> IF i = 0 THEN [plus |-> plus, found |-> None] ELSE Visit(ScannedTo(pool, plus, mac)[i - 1], pool[i], mac)]
<1> DEFINE Solves(g, z) == g = [i \in 0..z |-> IF i = 0 THEN [plus |-> plus, found |-> None] ELSE Visit(g[i - 1], pool[i], mac)]
           S == {z \in Nat : \E g : Solves(g, z)}
<1>1. 0 \in S
  <2> DEFINE g == [i \in 0..0 |-> [plus |-> plus, found |-> None]]
  <2>1. g = [i \in 0..0 |-> IF i = 0 THEN [plus |-> plus, found |-> None] ELSE Visit(g[i - 1], pool[i], mac)]
    OBVIOUS
  <2> QED
    BY <2>1
<1>2. ASSUME NEW z \in Nat, z \in S PROVE z + 1 \in S
  <2>1. PICK g : Solves(g, z)
    BY <1>2
  <2> DEFINE h == [i \in 0..(z + 1) |-> IF i = z + 1 THEN Visit(g[z], pool[z + 1], mac) ELSE g[i]]
  <2>2. \A i \in 0..z : g[i] = IF i = 0 THEN [plus |-> plus, found |-> None] ELSE Visit(g[i - 1], pool[i], mac)
    BY <2>1
  <2>3. ASSUME NEW i \in 0..(z + 1)
        PROVE  h[i] = IF i = 0 THEN [plus |-> plus, found |-> None] ELSE Visit(h[i - 1], pool[i], mac)
    <3>1. CASE i = 0
      BY <2>2, <3>1
    <3>2. CASE i = z + 1
      <4>1. h[i] = Visit(g[z], pool[z + 1], mac) /\ h[i - 1] = g[z] /\ i # 0
        BY <3>2
      <4> QED
        BY <3>2, <4>1
    <3>3. CASE i \in 1..z
      <4>1. h[i] = g[i] /\ h[i - 1] = g[i - 1] /\ i # 0
        BY <3>3
      <4> QED
        BY <2>2, <3>3, <4>1
    <3> QED
      BY <3>1, <3>2, <3>3
  <2>4. h = [i \in 0..(z + 1) |-> h[i]]
    OBVIOUS
  <2> HIDE DEF h
  <2>5. Solves(h, z + 1)
    BY <2>3, <2>4
  <2> QED
    BY <2>5
<1>3. Nat \subseteq S
  <2> HIDE DEF S
  <2> QED
    BY <1>1, <1>2, NatInd
<1>4. \E g : Solves(g, Len(pool))
  BY <1>3
<1> QED
  BY <1>4 DEF ScannedTo

LEMMA ScanFinds ==
  ASSUME NEW pool \in Seq(Leases), NEW plus \in Nat \ {0}, NEW mac
  PROVE  LET r == ScanPool(pool, plus, mac)
         IN  /\ r.plus \in Nat \ {0} /\ plus <= r.plus
             /\ r.found = None => \A i \in 1..Len(pool) : pool[i].ip <= plus => pool[i].ip < r.plus
<1> DEFINE f == ScannedTo(pool, plus, mac)
           N == Len(pool)
           Fine(r, z) == /\ r = [plus |-> r.plus, found |-> r.found]
                         /\ r.plus \in Nat /\ plus <= r.plus
                         /\ r.found = None => \A i \in 1..z : pool[i].ip <= plus => pool[i].ip < r.plus
           S == {z \in Nat : z <= N => Fine(f[z], z)}
<1>1. N \in Nat /\ \A i \in 1..N : pool[i] \in Leases
  OBVIOUS
<1>2. f = [i \in 0..N |-> IF i = 0 THEN [plus |-> plus, found |-> None] ELSE Visit(f[i - 1], pool[i], mac)]
  BY <1>1, ScannedUnfold
<1> HIDE DEF f, N
<1>3. 0 \in S
  <2>1. f[0] = [plus |-> plus, found |-> None]
    BY <1>1, <1>2
  <2> QED
    BY <2>1
<1>4. ASSUME NEW z \in Nat, z \in S PROVE z + 1 \in S
  <2>1. SUFFICES ASSUME z + 1 <= N PROVE Fine(f[z + 1], z + 1)
    OBVIOUS
  <2>2. z + 1 \in 0..N /\ z + 1 # 0 /\ (z + 1) - 1 = z /\ z + 1 \in 1..N
    BY <1>1, <2>1
  <2> DEFINE r == f[z]
             l == pool[z + 1]
             q == f[z + 1]
  <2>3. q = Visit(r, l, mac)
    BY <1>2, <2>2
  <2>4. Fine(r, z)
    BY <1>1, <1>4, <2>1
  <2>5. l.ip \in Nat \ {0}
    BY <1>1, <2>2 DEF Leases
  <2>6. \A i \in 1..(z + 1) : i \in 1..z \/ pool[i] = l
    OBVIOUS
  <2> HIDE DEF r, l, q
  <2>7. CASE r.found # None
    <3>1. q = r /\ q.found # None
      BY <2>3, <2>7 DEF Visit
    <3>2. Fine(q, z + 1)
      BY <2>4, <3>1
    <3> QED
      BY <3>2 DEF q
  <2>8. CASE r.found = None /\ l.mac = mac
    <3>1. q = [plus |-> r.plus, found |-> l.ip]
      BY <2>3, <2>4, <2>8 DEF Visit
    <3>2. q.plus = r.plus /\ q.found # None /\ q = [plus |-> q.plus, found |-> q.found]
      BY <2>5, <3>1 DEF None
    <3>3. Fine(q, z + 1)
      BY <2>4, <3>2
    <3> QED
      BY <3>3 DEF q
  <2>9. CASE r.found = None /\ l.mac # mac /\ l.ip = r.plus
    <3>1. q = [plus |-> r.plus + 1, found |-> r.found]
      BY <2>3, <2>4, <2>9 DEF Visit
    <3>2. q.plus = r.plus + 1 /\ q.found = None /\ q = [plus |-> q.plus, found |-> q.found]
      BY <2>9, <3>1
    <3>3. ASSUME NEW i \in 1..(z + 1), pool[i].ip <= plus PROVE pool[i].ip < r.plus + 1
      <4>1. CASE i \in 1..z
        <5>1. pool[i].ip < r.plus
          BY <2>4, <2>9, <3>3, <4>1
        <5>2. pool[i] \in Leases
          BY <1>1, <2>1, <4>1
        <5>3. pool[i].ip \in Nat
          BY <5>2 DEF Leases
        <5> QED
          BY <2>4, <5>1, <5>3
      <4>2. CASE pool[i] = l
        BY <2>4, <2>9, <4>2
      <4> QED
        BY <2>6, <4>1, <4>2
    <3>4. Fine(q, z + 1)
      BY <2>4, <3>2, <3>3
    <3> QED
      BY <3>4 DEF q
  <2>10. CASE r.found = None /\ l.mac # mac /\ l.ip # r.plus
    <3>1. q = r
      BY <2>3, <2>10 DEF Visit
    <3>2. ASSUME NEW i \in 1..(z + 1), pool[i].ip <= plus PROVE pool[i].ip < r.plus
      <4>1. CASE i \in 1..z
        BY <2>4, <2>10, <3>2, <4>1
      <4>2. CASE pool[i] = l
        BY <2>4, <2>5, <2>10, <3>2, <4>2
      <4> QED
        BY <2>6, <4>1, <4>2
    <3>3. Fine(q, z + 1)
      BY <2>4, <3>1, <3>2
    <3> QED
      BY <3>3 DEF q
  <2> QED
    BY <2>7, <2>8, <2>9, <2>10
<1>5. Nat \subseteq S
  <2> HIDE DEF S
  <2> QED
    BY <1>3, <1>4, NatInd
<1>6. Fine(f[N], N)
  BY <1>1, <1>5
<1>7. f[N].plus # 0
  BY <1>6
<1> QED
  BY <1>6, <1>7 DEF ScanPool, f, N

(* AgedTo likewise. *)
LEMMA AgedUnfold ==
  ASSUME NEW pool, Len(pool) \in Nat
  PROVE  AgedTo(pool) = [i \in 0..Len(pool) |-> IF i = 0 THEN <<>> ELSE Aged(AgedTo(pool)[i - 1], pool[i])]
<1> DEFINE Solves(g, z) == g = [i \in 0..z |-> IF i = 0 THEN <<>> ELSE Aged(g[i - 1], pool[i])]
           S == {z \in Nat : \E g : Solves(g, z)}
<1>1. 0 \in S
  <2> DEFINE g == [i \in 0..0 |-> <<>>]
  <2>1. g = [i \in 0..0 |-> IF i = 0 THEN <<>> ELSE Aged(g[i - 1], pool[i])]
    OBVIOUS
  <2> QED
    BY <2>1
<1>2. ASSUME NEW z \in Nat, z \in S PROVE z + 1 \in S
  <2>1. PICK g : Solves(g, z)
    BY <1>2
  <2> DEFINE h == [i \in 0..(z + 1) |-> IF i = z + 1 THEN Aged(g[z], pool[z + 1]) ELSE g[i]]
  <2>2. \A i \in 0..z : g[i] = IF i = 0 THEN <<>> ELSE Aged(g[i - 1], pool[i])
    BY <2>1
  <2>3. ASSUME NEW i \in 0..(z + 1)
        PROVE  h[i] = IF i = 0 THEN <<>> ELSE Aged(h[i - 1], pool[i])
    <3>1. CASE i = 0
      BY <2>2, <3>1
    <3>2. CASE i = z + 1
      <4>1. h[i] = Aged(g[z], pool[z + 1]) /\ h[i - 1] = g[z] /\ i # 0
        BY <3>2
      <4> QED
        BY <3>2, <4>1
    <3>3. CASE i \in 1..z
      <4>1. h[i] = g[i] /\ h[i - 1] = g[i - 1] /\ i # 0
        BY <3>3
      <4> QED
        BY <2>2, <3>3, <4>1
    <3> QED
      BY <3>1, <3>2, <3>3
  <2>4. h = [i \in 0..(z + 1) |-> h[i]]
    OBVIOUS
  <2> HIDE DEF h
  <2>5. Solves(h, z + 1)
    BY <2>3, <2>4
  <2> QED
    BY <2>5
<1>3. Nat \subseteq S
  <2> HIDE DEF S
  <2> QED
    BY <1>1, <1>2, NatInd
<1>4. \E g : Solves(g, Len(pool))
  BY <1>3
<1> QED
  BY <1>4 DEF AgedTo

(* The timer ends leases and moves none. *)
LEMMA AgeKeeps ==
  ASSUME NEW pool \in Seq(Leases)
  PROVE  LET q == dhcps_coarse_tmr(pool)
         IN  /\ q \in Seq(Leases) /\ (Apart(pool) => Apart(q))
             /\ \A i \in 1..Len(q) : \E j \in 1..Len(pool) : q[i].ip = pool[j].ip
<1> DEFINE f == AgedTo(pool)
           N == Len(pool)
           From(q, z) == \A i \in 1..Len(q) : \E j \in 1..z : q[i].ip = pool[j].ip
           Fine(q, z) == q \in Seq(Leases) /\ From(q, z) /\ (Apart(pool) => Apart(q))
           S == {z \in Nat : z <= N => Fine(f[z], z)}
<1>1. N \in Nat /\ \A i \in 1..N : pool[i] \in Leases
  OBVIOUS
<1>2. f = [i \in 0..N |-> IF i = 0 THEN <<>> ELSE Aged(f[i - 1], pool[i])]
  BY <1>1, AgedUnfold
<1>3. Apart(pool) => \A i, j \in 1..N : pool[i].ip = pool[j].ip => i = j
  BY DEF Apart
<1> HIDE DEF f, N
<1>4. 0 \in S
  <2>1. f[0] = <<>>
    BY <1>1, <1>2
  <2>2. /\ \A X : <<>> \in Seq(X)
        /\ Len(<<>>) = 0
    OBVIOUS
  <2>3. Apart(<<>>) /\ From(<<>>, 0)
    BY <2>2 DEF Apart
  <2>4. Fine(<<>>, 0)
    <3>1. <<>> \in Seq(Leases)
      BY <2>2
    <3> QED
      BY <2>3, <3>1, Zenon
  <2>5. Fine(f[0], 0)
    BY <2>1, <2>4, ZenonT(30)
  <2> HIDE DEF Fine
  <2> QED
    BY <2>5
<1>5. ASSUME NEW z \in Nat, z \in S PROVE z + 1 \in S
  <2>1. SUFFICES ASSUME z + 1 <= N PROVE Fine(f[z + 1], z + 1)
    OBVIOUS
  <2>2. z + 1 \in 0..N /\ z + 1 # 0 /\ (z + 1) - 1 = z /\ z + 1 \in 1..N
    BY <1>1, <2>1
  <2> DEFINE q == f[z]
             l == pool[z + 1]
             n == f[z + 1]
  <2>3. n = Aged(q, l)
    BY <1>2, <2>2
  <2>4. Fine(q, z)
    BY <1>1, <1>5, <2>1
  <2>5. l \in Leases
    BY <1>1, <2>2
  <2>6. Apart(pool) => \A j \in 1..z : pool[j].ip # l.ip
    BY <1>1, <1>3, <2>1, <2>2
  <2>7. From(q, z + 1)
    BY <2>4
  <2> HIDE DEF q, n
  <2>8. CASE l.left = 1
    <3>1. n = q
      BY <2>3, <2>8 DEF Aged
    <3> QED
      BY <2>4, <2>7, <3>1 DEF n
  <2>9. CASE l.left # 1
    <3> DEFINE k == [l EXCEPT !.left = @ - 1]
    <3>1. n = Append(q, k)
      BY <2>3, <2>9 DEF Aged
    <3>2. k \in Leases /\ k.ip = l.ip
      <4>1. l.left \in 1..DHCPS_LEASE_TIMER /\ l.left - 1 \in 1..DHCPS_LEASE_TIMER
        BY <2>5, <2>9, PoolRange DEF Leases
      <4> HIDE DEF l
      <4> QED
        BY <2>5, <4>1 DEF Leases
    <3> HIDE DEF k
    <3>3. q \in Seq(Leases) /\ Len(q) \in Nat
      BY <2>4
    <3>4. /\ n \in Seq(Leases) /\ Len(n) = Len(q) + 1 /\ n[Len(q) + 1] = k
          /\ \A i \in 1..Len(q) : n[i] = q[i]
      BY <3>1, <3>2, <3>3, AppendProperties
    <3>5. \A i \in 1..Len(n) : i \in 1..Len(q) \/ i = Len(q) + 1
      BY <3>3, <3>4
    <3>6. n[Len(q) + 1].ip = pool[z + 1].ip
      BY <3>2, <3>4 DEF l
    <3>7. \A i \in 1..Len(q) : n[i].ip = q[i].ip
      BY <3>4
    <3>8. From(n, z + 1)
      BY <2>7, <3>5, <3>6, <3>7
    <3>9. ASSUME Apart(pool) PROVE Apart(n)
      <4>1. Apart(q) /\ \A i \in 1..Len(q) : q[i].ip # l.ip
        BY <2>4, <2>6, <3>9
      <4>2. \A i, j \in 1..Len(q) : q[i].ip = q[j].ip => i = j
        BY <4>1 DEF Apart
      <4>3. ASSUME NEW i \in 1..Len(n), NEW j \in 1..Len(n), n[i].ip = n[j].ip PROVE i = j
        <5>1. CASE i \in 1..Len(q) /\ j \in 1..Len(q)
          BY <3>7, <4>2, <4>3, <5>1
        <5>2. CASE i \in 1..Len(q) /\ j = Len(q) + 1
          BY <3>6, <3>7, <4>1, <4>3, <5>2
        <5>3. CASE i = Len(q) + 1 /\ j \in 1..Len(q)
          BY <3>6, <3>7, <4>1, <4>3, <5>3
        <5> QED
          BY <3>5, <5>1, <5>2, <5>3
      <4> QED
        BY <4>3 DEF Apart
    <3> QED
      BY <3>4, <3>8, <3>9 DEF n
  <2> QED
    BY <2>8, <2>9
<1>6. Nat \subseteq S
  <2> HIDE DEF S
  <2> QED
    BY <1>4, <1>5, NatInd
<1>7. Fine(f[N], N)
  BY <1>1, <1>6
<1> QED
  BY <1>7 DEF dhcps_coarse_tmr, f, N

LEMMA RefreshKeeps ==
  ASSUME NEW pool \in Seq(Leases), NEW mac
  PROVE  LET q == Refresh(pool, mac)
         IN  q \in Seq(Leases) /\ Len(q) = Len(pool) /\ \A i \in 1..Len(pool) : q[i].ip = pool[i].ip
<1> DEFINE q == Refresh(pool, mac)
           N == Len(pool)
<1>1. N \in Nat /\ DOMAIN pool = 1..N /\ \A i \in 1..N : pool[i] \in Leases
  OBVIOUS
<1>2. q = [i \in 1..N |-> IF pool[i].mac = mac THEN [pool[i] EXCEPT !.left = DHCPS_LEASE_TIMER] ELSE pool[i]]
  BY <1>1 DEF Refresh
<1> HIDE DEF q, N
<1>3. ASSUME NEW i \in 1..N PROVE q[i] \in Leases /\ q[i].ip = pool[i].ip
  <2> DEFINE l == pool[i]
  <2>1. q[i] = IF l.mac = mac THEN [l EXCEPT !.left = DHCPS_LEASE_TIMER] ELSE l
    BY <1>2
  <2>2. l \in Leases
    BY <1>1
  <2> HIDE DEF l
  <2>3. q[i] \in Leases /\ q[i].ip = l.ip
    <3>1. DHCPS_LEASE_TIMER \in 1..DHCPS_LEASE_TIMER
      BY PoolRange
    <3> QED
      BY <2>1, <2>2, <3>1 DEF Leases
  <2> QED
    BY <2>3 DEF l
<1>4. q \in Seq(Leases) /\ Len(q) = N
  BY <1>1, <1>2, <1>3
<1> QED
  BY <1>3, <1>4 DEF q, N

(* parse_msg: whoever asks has a lease after it, which is nobody else's as *)
(* long as the search has not started over.                                *)
LEMMA ParseKeeps ==
  ASSUME NEW s, IsServer(s), NEW mac \in Clients
  PROVE  LET p == parse_msg(s, mac).srv
         IN  /\ IsServer(p)
             /\ Fits(s) /\ ~(ScanPool(s.pool, s.plus, mac).plus > EndIp) => Fits(p)
<1> DEFINE r == ScanPool(s.pool, s.plus, mac)
           new == [mac |-> mac, ip |-> r.plus, left |-> DHCPS_LEASE_TIMER]
           pool1 == IF r.found # None THEN Refresh(s.pool, mac) ELSE Append(s.pool, new)
           again == ScanPool(pool1, StartIp, mac)
           p == parse_msg(s, mac).srv
<1>1. s.pool \in Seq(Leases) /\ s.plus \in Nat \ {0} /\ s = [pool |-> s.pool, plus |-> s.plus, spin |-> s.spin]
  BY DEF IsServer
<1>2. /\ r.plus \in Nat \ {0} /\ s.plus <= r.plus
      /\ r.found = None => \A i \in 1..Len(s.pool) : s.pool[i].ip <= s.plus => s.pool[i].ip < r.plus
  BY <1>1, ScanFinds
<1>3. p = IF r.plus <= EndIp THEN [s EXCEPT !.pool = pool1, !.plus = r.plus]
          ELSE [s EXCEPT !.pool = pool1, !.plus = again.plus, !.spin = again.plus > EndIp]
  BY DEF parse_msg
<1> HIDE DEF r, p
<1>4. new \in Leases /\ new.ip = r.plus
  <2>1. DHCPS_LEASE_TIMER \in 1..DHCPS_LEASE_TIMER
    BY PoolRange
  <2> QED
    BY <1>2, <2>1 DEF Leases
<1> HIDE DEF new
<1>5. \A i \in 1..Len(s.pool) : s.pool[i].ip \in Nat
  <2>1. \A i \in 1..Len(s.pool) : s.pool[i] \in Leases
    BY <1>1
  <2> QED
    BY <2>1 DEF Leases
<1>6. pool1 \in Seq(Leases)
  BY <1>1, <1>4, RefreshKeeps
<1>7. ASSUME Fits(s)
      PROVE  Apart(pool1) /\ \A i \in 1..Len(pool1) : pool1[i].ip <= r.plus
  <2>1. /\ \A i, j \in 1..Len(s.pool) : s.pool[i].ip = s.pool[j].ip => i = j
        /\ \A i \in 1..Len(s.pool) : s.pool[i].ip <= s.plus
    BY <1>7 DEF Fits, Apart
  <2>2. CASE r.found # None
    <3>1. pool1 = Refresh(s.pool, mac)
      BY <2>2
    <3> HIDE DEF pool1
    <3>2. Len(pool1) = Len(s.pool) /\ \A i \in 1..Len(s.pool) : pool1[i].ip = s.pool[i].ip
      BY <1>1, <3>1, RefreshKeeps
    <3>3. Apart(pool1)
      BY <2>1, <3>2 DEF Apart
    <3>4. \A i \in 1..Len(s.pool) : s.pool[i].ip <= r.plus
      BY <1>1, <1>2, <1>5, <2>1
    <3> QED
      BY <3>2, <3>3, <3>4 DEF pool1
  <2>3. CASE r.found = None
    <3>1. pool1 = Append(s.pool, new)
      BY <2>3
    <3> HIDE DEF pool1
    <3>2. /\ Len(s.pool) \in Nat /\ Len(pool1) = Len(s.pool) + 1 /\ pool1[Len(s.pool) + 1] = new
          /\ \A i \in 1..Len(s.pool) : pool1[i] = s.pool[i]
      BY <1>1, <1>4, <3>1, AppendProperties
    <3>3. \A i \in 1..Len(pool1) : i \in 1..Len(s.pool) \/ i = Len(s.pool) + 1
      BY <3>2
    <3>4. \A i \in 1..Len(s.pool) : pool1[i].ip = s.pool[i].ip /\ pool1[i].ip < r.plus
      BY <1>2, <2>1, <2>3, <3>2
    <3>5. pool1[Len(s.pool) + 1].ip = r.plus
      BY <1>4, <3>2
    <3>6. ASSUME NEW i \in 1..Len(pool1) PROVE pool1[i].ip <= r.plus
      <4>1. CASE i \in 1..Len(s.pool)
        BY <1>2, <1>5, <3>4, <4>1
      <4>2. CASE i = Len(s.pool) + 1
        BY <1>2, <3>5, <4>2
      <4> QED
        BY <3>3, <4>1, <4>2
    <3>7. ASSUME NEW i \in 1..Len(pool1), NEW j \in 1..Len(pool1), pool1[i].ip = pool1[j].ip PROVE i = j
      <4>1. CASE i \in 1..Len(s.pool) /\ j \in 1..Len(s.pool)
        BY <2>1, <3>4, <3>7, <4>1
      <4>2. CASE i \in 1..Len(s.pool) /\ j = Len(s.pool) + 1
        BY <1>2, <3>4, <3>5, <3>7, <4>2
      <4>3. CASE i = Len(s.pool) + 1 /\ j \in 1..Len(s.pool)
        BY <1>2, <3>4, <3>5, <3>7, <4>3
      <4> QED
        BY <3>3, <4>1, <4>2, <4>3
    <3> QED
      BY <3>6, <3>7 DEF Apart, pool1
  <2> QED
    BY <2>2, <2>3
<1> HIDE DEF pool1
<1>8. again.plus \in Nat \ {0}
  BY <1>6, PoolRange, ScanFinds
<1> HIDE DEF again
<1>9. CASE r.plus <= EndIp
  <2>1. p = [pool |-> pool1, plus |-> r.plus, spin |-> s.spin]
    BY <1>1, <1>3, <1>9
  <2>2. p.pool = pool1 /\ p.plus = r.plus /\ p = [pool |-> p.pool, plus |-> p.plus, spin |-> p.spin]
    BY <2>1
  <2>3. IsServer(p)
    BY <1>2, <1>6, <2>2 DEF IsServer
  <2>4. Fits(s) => Fits(p)
    BY <1>7, <2>2 DEF Fits
  <2> QED
    BY <2>3, <2>4 DEF p
<1>10. CASE ~(r.plus <= EndIp)
  <2>1. p = [pool |-> pool1, plus |-> again.plus, spin |-> again.plus > EndIp]
    BY <1>1, <1>3, <1>10
  <2>2. p.pool = pool1 /\ p.plus = again.plus /\ p = [pool |-> p.pool, plus |-> p.plus, spin |-> p.spin]
    BY <2>1
  <2>3. IsServer(p)
    BY <1>6, <1>8, <2>2 DEF IsServer
  <2>4. r.plus > EndIp
    BY <1>2, <1>10, PoolRange
  <2> QED
    BY <2>3, <2>4 DEF p, r
<1> QED
  BY <1>9, <1>10

-----------------------------------------------------------------------------
(* The steps. *)
LEMMA InitKept == Init => DhcpInv
<1> SUFFICES ASSUME Init PROVE DhcpInv
  OBVIOUS
<1>1. HasFields(NewClient) /\ NewClient.state = "OFF" /\ NewClient.out = <<>> /\ NewClient.mem = TRUE
      /\ NewClient.dhcp = FALSE /\ NewClient.pcb = FALSE /\ NewClient.armed = FALSE /\ NewClient.up = FALSE
      /\ NewClient.t2 = 0 /\ NewClient.lease = 0
  BY DEF HasFields, NewClient, ClientFields
<1>2. HasFlags(NewClient)
  BY <1>1 DEF HasFlags
<1>3. 0 \in Word /\ 0 \in Nat
  BY DEF Word
<1>4. HasCounts(NewClient)
  BY <1>1, <1>3 DEF HasCounts
<1>5. ASSUME NEW c PROVE ClientKept(c, NewClient, acks)
  BY <1>1, <1>2, <1>4 DEF ClientKept, IsClient, OnTime, Holds, Waiting, Granted, Using
<1>6. ClientsKept
  <2>1. cl = [c \in Clients |-> NewClient]
    BY DEF Init
  <2> QED
    BY <1>1, <1>5, <2>1 DEF ClientsKept
<1>7. ServerKept
  <2>1. srv.pool = <<>> /\ srv.plus = StartIp /\ srv = [pool |-> srv.pool, plus |-> srv.plus, spin |-> srv.spin]
    BY DEF Init
  <2>2. /\ \A X : <<>> \in Seq(X)
        /\ Len(<<>>) = 0
    OBVIOUS
  <2>3. IsServer(srv)
    BY <2>1, <2>2, PoolRange DEF IsServer
  <2>4. Fits(srv)
    BY <2>1, <2>2 DEF Fits, Apart
  <2>5. wrapped = FALSE
    BY DEF Init
  <2> QED
    BY <2>3, <2>4, <2>5 DEF ServerKept
<1>8. NetKept
  BY DEF Init, NetKept
<1> QED
  BY <1>6, <1>7, <1>8 DEF DhcpInv

(* The end of a step of client c. *)
LEMMA CommitKeeps ==
  ASSUME DhcpInv, NEW c \in Clients, NEW d, ClientKept(c, d, acks), NEW n \in SUBSET net,
         Commit(c, d, n)
  PROVE  /\ DhcpInv'
         /\ cl'[c].state = d.state /\ cl'[c].up = d.up
         /\ \A b \in Clients : b # c => cl'[b] = cl[b]
<1> DEFINE e == [d EXCEPT !.out = <<>>, !.mem = TRUE]
<1>1. ClientKept(c, e, acks) /\ e.out = <<>> /\ e.mem = TRUE /\ e.state = d.state /\ e.up = d.up
  BY EndKeeps
<1>2. cl' = [cl EXCEPT ![c] = e] /\ acks' = acks /\ srv' = srv /\ wrapped' = wrapped
  BY DEF Commit
<1>3. net' = n \cup {[to |-> "server", mac |-> c, type |-> m.type, xid |-> m.xid, req |-> m.req] : m \in ToSet(d.out)}
  BY DEF Commit
<1> HIDE DEF e
<1>4. cl = [b \in Clients |-> cl[b]]
  BY DEF DhcpInv, ClientsKept
<1>5. cl'[c] = e /\ (\A b \in Clients : b # c => cl'[b] = cl[b]) /\ cl' = [b \in Clients |-> cl'[b]]
  BY <1>2, <1>4
<1>6. ClientsKept'
  <2>1. ASSUME NEW b \in Clients
        PROVE  ClientKept(b, cl'[b], acks) /\ cl'[b].out = <<>> /\ cl'[b].mem = TRUE
    <3>1. CASE b = c
      BY <1>1, <1>5, <3>1
    <3>2. CASE b # c
      BY <1>5, <3>2 DEF DhcpInv, ClientsKept
    <3> QED
      BY <3>1, <3>2
  <2> QED
    BY <1>2, <1>5, <2>1 DEF ClientsKept
<1>7. ServerKept'
  BY <1>2 DEF DhcpInv, ServerKept
<1>8. NetKept'
  <2>1. ASSUME NEW m \in net'
        PROVE  m.mac \in Clients /\ (m.to = "client" /\ m.type = "ACK" => <<m.mac, m.yiaddr, m.xid>> \in acks)
    <3>1. CASE m \in net
      BY <3>1 DEF DhcpInv, NetKept
    <3>2. CASE m \notin net
      <4>1. m.to = "server" /\ m.mac = c
        BY <1>3, <2>1, <3>2
      <4> QED
        BY <4>1
    <3> QED
      BY <3>1, <3>2
  <2> QED
    BY <1>2, <2>1 DEF NetKept
<1> QED
  BY <1>1, <1>5, <1>6, <1>7, <1>8 DEF DhcpInv

(* What OldAddressGone says of a step, for one client. *)
Gone(c) == InUse(c) /\ cl'[c].state \notin {"BOUND", "RENEWING", "REBINDING"}
             => ~cl'[c].up \/ Stop(c) \/ \E mem \in BOOLEAN : Start(c, mem)

(* A step of client c that leads from a to d. *)
LEMMA LeadsTo ==
  ASSUME DhcpInv, NEW c \in Clients, NEW a, NEW d, NEW n \in SUBSET net,
         a.state = cl[c].state, a.up = cl[c].up,
         ClientKept(c, d, acks), LetsGo(a, d), Commit(c, d, n)
  PROVE  DhcpInv' /\ \A b \in Clients : Gone(b)
<1>1. /\ DhcpInv' /\ cl'[c].state = d.state /\ cl'[c].up = d.up
      /\ \A b \in Clients : b # c => cl'[b] = cl[b]
  BY CommitKeeps
<1>2. Gone(c)
  BY <1>1, Zenon DEF Gone, InUse, LetsGo, Using
<1>3. \A b \in Clients : b # c => Gone(b)
  BY <1>1, Zenon DEF Gone, InUse
<1> QED
  BY <1>1, <1>2, <1>3

LEMMA ClientStepKeeps ==
  ASSUME DhcpInv, NEW c \in Clients, ClientStep(c)
  PROVE  DhcpInv' /\ \A b \in Clients : Gone(b)
<1> DEFINE Good == DhcpInv' /\ \A b \in Clients : Gone(b)
<1>1. ClientKept(c, cl[c], acks) /\ net \in SUBSET net
  BY DEF DhcpInv, ClientsKept
<1>2. ASSUME NEW mem \in BOOLEAN
      PROVE  /\ ClientKept(c, With(c, mem), acks) /\ With(c, mem).pcb = cl[c].pcb
             /\ With(c, mem).state = cl[c].state /\ With(c, mem).up = cl[c].up
  BY <1>1, WithKeeps DEF With
<1>3. ASSUME NEW mem \in BOOLEAN, Start(c, mem) PROVE Good
  <2> DEFINE d == dhcp_start(With(c, mem))
  <2>1. ClientKept(c, d, acks)
    BY <1>2, StartKeeps DEF ClientKept
  <2>2. Commit(c, d, net)
    BY <1>3 DEF Start
  <2> HIDE DEF d
  <2>3. DhcpInv' /\ \A b \in Clients : b # c => cl'[b] = cl[b]
    BY <1>1, <2>1, <2>2, CommitKeeps
  <2>4. Gone(c)
    BY <1>3 DEF Gone
  <2>5. \A b \in Clients : b # c => Gone(b)
    BY <2>3, Zenon DEF Gone, InUse
  <2> QED
    BY <2>3, <2>4, <2>5
<1>4. ASSUME Stop(c) PROVE Good
  <2> DEFINE d == dhcp_stop(cl[c])
  <2>1. ClientKept(c, d, acks)
    BY <1>1, StopKeeps
  <2>2. Commit(c, d, net)
    BY <1>4 DEF Stop
  <2> HIDE DEF d
  <2>3. DhcpInv' /\ \A b \in Clients : b # c => cl'[b] = cl[b]
    BY <1>1, <2>1, <2>2, CommitKeeps
  <2>4. Gone(c)
    BY <1>4 DEF Gone
  <2>5. \A b \in Clients : b # c => Gone(b)
    BY <2>3, Zenon DEF Gone, InUse
  <2> QED
    BY <2>3, <2>4, <2>5
<1>5. ASSUME Release(c) PROVE Good
  <2> DEFINE d == dhcp_release(cl[c])
  <2>1. ClientKept(c, d, acks) /\ d.up = FALSE
    BY <1>1, ReleaseKeeps DEF ClientKept
  <2>2. Commit(c, d, net)
    BY <1>5 DEF Release
  <2>3. LetsGo(cl[c], d)
    BY <2>1 DEF LetsGo
  <2> HIDE DEF d
  <2> QED
    BY <1>1, <2>1, <2>2, <2>3, LeadsTo
<1>6. ASSUME Inform(c) PROVE Good
  <2> DEFINE d == dhcp_inform(cl[c])
  <2>1. ClientKept(c, d, acks) /\ LetsGo(cl[c], d)
    BY <1>1, InformKeeps
  <2>2. Commit(c, d, net)
    BY <1>6 DEF Inform
  <2> HIDE DEF d
  <2> QED
    BY <1>1, <2>1, <2>2, LeadsTo
<1>7. ASSUME LinkUp(c) PROVE Good
  <2> DEFINE d == dhcp_network_changed(cl[c])
  <2>1. ClientKept(c, d, acks) /\ LetsGo(cl[c], d)
    BY <1>1, ChangedKeeps
  <2>2. Commit(c, d, net)
    BY <1>7 DEF LinkUp
  <2> HIDE DEF d
  <2> QED
    BY <1>1, <2>1, <2>2, LeadsTo
<1>8. ASSUME ArpReply(c) PROVE Good
  <2> DEFINE d == dhcp_arp_reply(cl[c])
  <2>1. cl[c].state = "CHECKING" /\ Commit(c, d, net)
    BY <1>8 DEF ArpReply
  <2>2. ClientKept(c, d, acks) /\ LetsGo(cl[c], d)
    BY <1>1, <2>1, ArpReplyKeeps
  <2> HIDE DEF d
  <2> QED
    BY <1>1, <2>1, <2>2, LeadsTo
<1>9. ASSUME NEW mem \in BOOLEAN, FineTmr(c, mem) PROVE Good
  <2> DEFINE a == With(c, mem)
             d == dhcp_fine_tmr(a)
  <2>1. ClientKept(c, a, acks) /\ a.state = cl[c].state /\ a.up = cl[c].up
    BY <1>2
  <2>2. Commit(c, d, net)
    BY <1>9 DEF FineTmr
  <2> HIDE DEF a
  <2>3. ClientKept(c, d, acks) /\ LetsGo(a, d)
    BY <2>1, FineTmrKeeps
  <2> HIDE DEF d
  <2> QED
    BY <1>1, <2>1, <2>2, <2>3, LeadsTo
<1>10. ASSUME NEW m \in net, NEW again \in BOOLEAN, NEW mem \in BOOLEAN, Receive(c, m, again, mem)
       PROVE  Good
  <2> DEFINE a == With(c, mem)
             n == IF again THEN net ELSE net \ {m}
             d == IF cl[c].pcb THEN dhcp_recv(a, m) ELSE cl[c]
  <2>1. ClientKept(c, a, acks) /\ a.state = cl[c].state /\ a.up = cl[c].up /\ a.pcb = cl[c].pcb
    BY <1>2
  <2>2. Commit(c, d, n) /\ m.to = "client" /\ m.mac = c
    BY <1>10 DEF Receive
  <2>3. n \in SUBSET net
    OBVIOUS
  <2>4. m.type = "ACK" => <<c, m.yiaddr, m.xid>> \in acks
    BY <2>2 DEF DhcpInv, NetKept
  <2>5. cl[c].pcb \in BOOLEAN
    BY <1>1 DEF ClientKept, IsClient, HasFlags
  <2> HIDE DEF a, n
  <2>6. CASE cl[c].pcb = TRUE
    <3>1. d = dhcp_recv(a, m) /\ a.pcb = TRUE
      BY <2>1, <2>6
    <3>2. ClientKept(c, d, acks) /\ LetsGo(a, d)
      BY <2>1, <2>4, <3>1, RecvKeeps
    <3> HIDE DEF d
    <3> QED
      BY <2>1, <2>2, <2>3, <3>2, LeadsTo
  <2>7. CASE cl[c].pcb = FALSE
    <3>1. d = cl[c]
      BY <2>7
    <3>2. ClientKept(c, d, acks) /\ LetsGo(cl[c], d)
      BY <1>1, <3>1 DEF LetsGo
    <3> HIDE DEF d
    <3> QED
      BY <2>2, <2>3, <3>2, LeadsTo
  <2> QED
    BY <2>5, <2>6, <2>7
<1> QED
  BY <1>3, <1>4, <1>5, <1>6, <1>7, <1>8, <1>9, <1>10 DEF ClientStep

LEMMA HandleKeeps ==
  ASSUME DhcpInv, NEW m \in net, NEW again \in BOOLEAN, NEW known \in BOOLEAN, NEW mem \in BOOLEAN,
         HandleDhcp(m, again, known, mem)
  PROVE  DhcpInv' /\ \A b \in Clients : Gone(b)
<1> DEFINE r == parse_msg(srv, m.mac)
           answer == IF known /\ mem /\ ~r.srv.spin THEN parse_options(m, r.ip) ELSE "IDLE"
<1>1. /\ cl' = cl /\ srv' = r.srv
      /\ wrapped' = (wrapped \/ ScanPool(srv.pool, srv.plus, m.mac).plus > EndIp)
      /\ acks' = IF answer = "ACK" THEN acks \cup {<<m.mac, r.ip, m.xid>>} ELSE acks
      /\ net' = (IF again THEN net ELSE net \ {m}) \cup
                (CASE answer = "OFFER" -> send_offer(m, r.ip)
                   [] answer = "NAK"   -> send_nak(m, r.ip)
                   [] answer = "ACK"   -> send_ack(m, r.ip)
                   [] OTHER            -> {})
  BY DEF HandleDhcp
<1>2. m.mac \in Clients
  BY DEF DhcpInv, NetKept
<1>3. ServerKept'
  <2>1. /\ IsServer(r.srv)
        /\ Fits(srv) /\ ~(ScanPool(srv.pool, srv.plus, m.mac).plus > EndIp) => Fits(r.srv)
    BY <1>2, ParseKeeps DEF DhcpInv, ServerKept
  <2> HIDE DEF r
  <2>2. ~wrapped' => ~wrapped /\ ~(ScanPool(srv.pool, srv.plus, m.mac).plus > EndIp)
    BY <1>1
  <2>3. wrapped' \in BOOLEAN
    BY <1>1
  <2>4. ~wrapped' => Fits(r.srv)
    BY <2>1, <2>2 DEF DhcpInv, ServerKept
  <2> QED
    BY <1>1, <2>1, <2>3, <2>4 DEF ServerKept
<1> HIDE DEF r, answer
<1>4. acks \subseteq acks'
  BY <1>1
<1>5. ClientsKept'
  <2>1. ASSUME NEW c \in Clients
        PROVE  ClientKept(c, cl[c], acks') /\ cl[c].out = <<>> /\ cl[c].mem = TRUE
    <3>1. ClientKept(c, cl[c], acks) /\ cl[c].out = <<>> /\ cl[c].mem = TRUE
      BY DEF DhcpInv, ClientsKept
    <3> QED
      BY <1>4, <3>1, MoreAcks
  <2>2. cl = [c \in Clients |-> cl[c]]
    BY DEF DhcpInv, ClientsKept
  <2> QED
    BY <1>1, <2>1, <2>2 DEF ClientsKept
<1>6. NetKept'
  <2>1. ASSUME NEW k \in net'
        PROVE  k.mac \in Clients /\ (k.to = "client" /\ k.type = "ACK" => <<k.mac, k.yiaddr, k.xid>> \in acks')
    <3>1. CASE k \in net
      BY <1>4, <3>1 DEF DhcpInv, NetKept
    <3>2. CASE k \notin net
      <4>1. CASE answer = "OFFER"
        <5>1. k \in send_offer(m, r.ip)
          BY <1>1, <2>1, <3>2, <4>1
        <5>2. k.mac = m.mac /\ k.type = "OFFER"
          BY <5>1 DEF send_offer, add_offer_options, create_msg
        <5> QED
          BY <1>2, <5>2
      <4>2. CASE answer = "NAK"
        <5>1. k \in send_nak(m, r.ip)
          BY <1>1, <2>1, <3>2, <4>2
        <5>2. k.mac = m.mac /\ k.type = "NAK"
          BY <5>1 DEF send_nak, create_msg
        <5> QED
          BY <1>2, <5>2
      <4>3. CASE answer = "ACK"
        <5>1. k \in send_ack(m, r.ip)
          BY <1>1, <2>1, <3>2, <4>3
        <5>2. k.mac = m.mac /\ k.yiaddr = r.ip /\ k.xid = m.xid
          BY <5>1 DEF send_ack, add_offer_options, create_msg
        <5>3. <<m.mac, r.ip, m.xid>> \in acks'
          BY <1>1, <4>3
        <5> QED
          BY <1>2, <5>2, <5>3
      <4> QED
        BY <1>1, <2>1, <3>2, <4>1, <4>2, <4>3
    <3> QED
      BY <3>1, <3>2
  <2> QED
    BY <2>1 DEF NetKept
<1>7. \A b \in Clients : Gone(b)
  BY <1>1, Zenon DEF Gone, InUse
<1> QED
  BY <1>3, <1>5, <1>6, <1>7 DEF DhcpInv

LEMMA RestartKeeps ==
  ASSUME DhcpInv, ServerRestart
  PROVE  DhcpInv' /\ \A b \in Clients : Gone(b)
<1>1. /\ cl' = cl /\ net' = net /\ acks' = acks /\ wrapped' = wrapped
      /\ srv' = [[srv EXCEPT !.pool = <<>>] EXCEPT !.plus = StartIp]
  BY DEF ServerRestart, dhcps_start, dhcps_stop
<1>2. srv = [pool |-> srv.pool, plus |-> srv.plus, spin |-> srv.spin] /\ wrapped \in BOOLEAN
  BY DEF DhcpInv, ServerKept, IsServer
<1> DEFINE s == srv'
<1>3. s.pool = <<>> /\ s.plus = StartIp /\ s = [pool |-> s.pool, plus |-> s.plus, spin |-> s.spin]
  BY <1>1, <1>2
<1>4. /\ \A X : <<>> \in Seq(X)
      /\ Len(<<>>) = 0
  OBVIOUS
<1>5. IsServer(s)
  BY <1>3, <1>4, PoolRange DEF IsServer
<1>6. Fits(s)
  BY <1>3, <1>4 DEF Fits, Apart
<1>7. ServerKept'
  BY <1>1, <1>2, <1>5, <1>6 DEF ServerKept
<1>8. ClientsKept' /\ NetKept'
  BY <1>1, Zenon DEF DhcpInv, ClientsKept, NetKept
<1>9. \A b \in Clients : Gone(b)
  BY <1>1, Zenon DEF Gone, InUse
<1> QED
  BY <1>7, <1>8, <1>9 DEF DhcpInv

LEMMA LoseKeeps ==
  ASSUME DhcpInv, NEW m \in net, Lose(m)
  PROVE  DhcpInv' /\ \A b \in Clients : Gone(b)
<1>1. cl' = cl /\ net' = net \ {m} /\ acks' = acks /\ wrapped' = wrapped /\ srv' = srv
  BY DEF Lose
<1>2. ServerKept' /\ ClientsKept'
  BY <1>1, Zenon DEF DhcpInv, ServerKept, ClientsKept
<1>3. NetKept'
  BY <1>1, Zenon DEF DhcpInv, NetKept
<1>4. \A b \in Clients : Gone(b)
  BY <1>1, Zenon DEF Gone, InUse
<1> QED
  BY <1>2, <1>3, <1>4 DEF DhcpInv

(* A minute passes. *)
LEMMA TickKeeps ==
  ASSUME DhcpInv, CoarseTick
  PROVE  DhcpInv' /\ \A b \in Clients : Gone(b)
<1> DEFINE d == [c \in Clients |-> dhcp_coarse_tmr(cl[c])]
<1>1. /\ \A c \in Clients : cl[c].armed => cl[c].state \in {"RENEWING", "REBINDING", "OFF"}
      /\ cl' = [c \in Clients |-> [d[c] EXCEPT !.out = <<>>]]
      /\ net' = {[to |-> "server", mac |-> c, type |-> "REQUEST", xid |-> d[c].xid, req |-> None]
                    : c \in {e \in Clients : d[e].out # <<>>}}
      /\ srv' = IF srv.spin THEN srv ELSE [srv EXCEPT !.pool = dhcps_coarse_tmr(@)]
      /\ acks' = acks /\ wrapped' = wrapped
  BY DEF CoarseTick
<1>2. ASSUME NEW c \in Clients
      PROVE  /\ ClientKept(c, cl'[c], acks) /\ cl'[c].out = <<>> /\ cl'[c].mem = TRUE
             /\ LetsGo(cl[c], cl'[c])
  <2> DEFINE e == dhcp_coarse_tmr(cl[c])
             b == [e EXCEPT !.out = <<>>, !.mem = TRUE]
  <2>1. ClientKept(c, cl[c], acks) /\ cl[c].mem = TRUE
    BY DEF DhcpInv, ClientsKept
  <2>2. cl[c].state \in {"RENEWING", "REBINDING", "OFF", "BOUND"}
    BY <1>1, <2>1 DEF ClientKept, OnTime, Waiting
  <2>3. ClientKept(c, e, acks) /\ LetsGo(cl[c], e) /\ e.mem = TRUE
    BY <2>1, <2>2, CoarseTmrKeeps
  <2>4. cl'[c] = [e EXCEPT !.out = <<>>]
    BY <1>1
  <2> HIDE DEF e
  <2>5. ClientKept(c, b, acks) /\ b.out = <<>> /\ b.mem = TRUE /\ b.state = e.state /\ b.up = e.up
    BY <2>3, EndKeeps
  <2>6. [e EXCEPT !.out = <<>>] = b
    BY <2>3 DEF ClientKept, IsClient, HasFields, ClientFields
  <2> HIDE DEF b
  <2>7. LetsGo(cl[c], b)
    BY <2>3, <2>5, Zenon DEF LetsGo
  <2> QED
    BY <2>4, <2>5, <2>6, <2>7
<1>3. cl' = [c \in Clients |-> cl'[c]]
  BY <1>1
<1>4. ClientsKept'
  BY <1>1, <1>2, <1>3 DEF ClientsKept
<1>5. \A b \in Clients : Gone(b)
  BY <1>2, Zenon DEF Gone, InUse, LetsGo, Using
<1>6. NetKept'
  <2>1. net' = {[to |-> "server", mac |-> c, type |-> "REQUEST", xid |-> d[c].xid, req |-> None]
                  : c \in {e \in Clients : d[e].out # <<>>}}
    BY <1>1
  <2> HIDE DEF d
  <2>2. ASSUME NEW m \in net' PROVE m.mac \in Clients /\ m.to = "server"
    <3>1. PICK c \in Clients :
            m = [to |-> "server", mac |-> c, type |-> "REQUEST", xid |-> d[c].xid, req |-> None]
      BY <2>1, <2>2
    <3> QED
      BY <3>1
  <2> QED
    BY <2>2 DEF NetKept
<1>7. ServerKept'
  <2>1. IsServer(srv) /\ wrapped \in BOOLEAN /\ (~wrapped => Fits(srv))
    BY DEF DhcpInv, ServerKept
  <2>2. CASE srv.spin
    BY <1>1, <2>1, <2>2 DEF ServerKept
  <2>3. CASE ~srv.spin
    <3> DEFINE q == dhcps_coarse_tmr(srv.pool)
               s == srv'
    <3>1. /\ srv = [pool |-> srv.pool, plus |-> srv.plus, spin |-> srv.spin]
          /\ srv.pool \in Seq(Leases) /\ srv.plus \in Nat \ {0}
      BY <2>1 DEF IsServer
    <3>2. /\ q \in Seq(Leases) /\ (Apart(srv.pool) => Apart(q))
          /\ \A i \in 1..Len(q) : \E j \in 1..Len(srv.pool) : q[i].ip = srv.pool[j].ip
      BY <3>1, AgeKeeps
    <3> HIDE DEF q
    <3>3. s = [srv EXCEPT !.pool = q]
      BY <1>1, <2>3 DEF q
    <3>4. s.pool = q /\ s.plus = srv.plus /\ s = [pool |-> s.pool, plus |-> s.plus, spin |-> s.spin]
      BY <3>1, <3>3
    <3>5. IsServer(s)
      BY <3>1, <3>2, <3>4 DEF IsServer
    <3>6. Fits(srv) => Fits(s)
      BY <3>2, <3>4 DEF Fits
    <3> QED
      BY <1>1, <2>1, <3>5, <3>6 DEF ServerKept
  <2> QED
    BY <2>2, <2>3
<1> QED
  BY <1>4, <1>5, <1>6, <1>7 DEF DhcpInv

LEMMA NextKeeps ==
  ASSUME DhcpInv, Next
  PROVE  DhcpInv' /\ \A b \in Clients : Gone(b)
BY ClientStepKeeps, HandleKeeps, LoseKeeps, RestartKeeps, TickKeeps DEF Next

LEMMA StutterKeeps ==
  ASSUME DhcpInv, UNCHANGED vars
  PROVE  DhcpInv'
BY Zenon DEF vars, DhcpInv, ClientsKept, ServerKept, NetKept

LEMMA DhcpInvHolds == Spec => []DhcpInv
<1>1. Init => DhcpInv
  BY InitKept
<1>2. DhcpInv /\ [Next]_vars => DhcpInv'
  BY NextKeeps, StutterKeeps
<1> QED
  BY <1>1, <1>2, PTL DEF Spec

(***************************************************************************)
(* A client always waits for a timer that runs, and probes and uses an     *)
(* address only on an ACK of its own transaction: whatever the network     *)
(* loses, repeats or delivers late, whatever buffer is refused, and        *)
(* however often the server forgets its leases.                            *)
(***************************************************************************)
THEOREM ClientsWaitAndHold == Spec => []ClientsSound
<1>1. DhcpInv => ClientsSound
  <2> SUFFICES ASSUME DhcpInv PROVE ClientsSound
    OBVIOUS
  <2>1. ASSUME NEW c \in Clients
        PROVE  ClientKept(c, cl[c], acks) /\ cl[c].out = <<>> /\ cl[c].mem = TRUE
    BY DEF DhcpInv, ClientsKept
  <2>2. \A i \in DOMAIN srv.pool : srv.pool[i].left \in 1..DHCPS_LEASE_TIMER
    <3>1. srv.pool \in Seq(Leases)
      BY DEF DhcpInv, ServerKept, IsServer
    <3>2. \A i \in DOMAIN srv.pool : srv.pool[i] \in Leases
      BY <3>1
    <3> QED
      BY <3>2 DEF Leases
  <2>3. TypeOK
    BY <2>1, <2>2, Zenon DEF TypeOK, ClientKept, OnTime
  <2>4. NeverStuck
    BY <2>1, Zenon DEF NeverStuck, ClientKept, OnTime
  <2>5. BoundByAck
    <3>1. "CHECKING" \in Granted /\ \A s \in {"BOUND", "RENEWING", "REBINDING"} : s \in Granted /\ s \in Using
      BY DEF Granted, Using
    <3>2. ASSUME NEW c \in Clients
          PROVE  /\ cl[c].state \in Granted => <<c, cl[c].offered, cl[c].xid>> \in acks
                 /\ cl[c].up /\ cl[c].state \in Using => cl[c].ip = cl[c].offered
      BY <2>1, Zenon DEF ClientKept, Holds
    <3> QED
      BY <3>1, <3>2, Zenon DEF BoundByAck, InUse
  <2> QED
    BY <2>3, <2>4, <2>5 DEF ClientsSound
<1> QED
  BY <1>1, DhcpInvHolds, PTL

(***************************************************************************)
(* Whatever ends the use of an address takes it off the interface: a step  *)
(* that leaves the states BOUND, RENEWING and REBINDING puts the interface *)
(* down (dhcp_handle_nak, dhcp_release, dhcp_network_changed), unless it   *)
(* is a call of dhcp_start or dhcp_stop.                                   *)
(***************************************************************************)
THEOREM AddressGoesWithLease == Spec => OldAddressGone
<1>1. DhcpInv /\ [Next]_vars => [\A c \in Clients : Gone(c)]_vars
  BY NextKeeps
<1> QED
  BY <1>1, DhcpInvHolds, PTL DEF Spec, OldAddressGone, Gone

(***************************************************************************)
(* The server of the soft AP gives no address to two stations, for every   *)
(* pool and every order of requests, expired leases and restarts, as long  *)
(* as client_address_plus has not passed the end of the pool.              *)
(***************************************************************************)
THEOREM LeasesApart == Spec => []LeaseUnique
<1>1. DhcpInv => LeaseUnique
  <2> SUFFICES ASSUME DhcpInv, ~wrapped
               PROVE  \A i, j \in DOMAIN srv.pool : srv.pool[i].ip = srv.pool[j].ip => i = j
    BY DEF LeaseUnique
  <2>1. Apart(srv.pool) /\ srv.pool \in Seq(Leases)
    BY DEF DhcpInv, ServerKept, IsServer, Fits
  <2>2. DOMAIN srv.pool = 1..Len(srv.pool)
    BY <2>1
  <2> QED
    BY <2>1, <2>2 DEF Apart
<1> QED
  BY <1>1, DhcpInvHolds, PTL
=============================================================================
