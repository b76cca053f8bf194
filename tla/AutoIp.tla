------------------------------- MODULE AutoIp -------------------------------
(***************************************************************************)
(* Link-local addresses without a server (lwip/core/ipv4/autoip.c,         *)
(* compiled when LWIP_AUTOIP is 1): stations on one link, each with the    *)
(* AutoIP state of its interface.  Times count calls of autoip_tmr.  An    *)
(* ARP packet is lost or arrives before the next call of autoip_tmr (due   *)
(* has the stations whose call of this interval is still to come); a       *)
(* station takes its packets in the order sent.                            *)
(***************************************************************************)
EXTENDS Integers, Sequences, FiniteSets

CONSTANTS Stations,
          SeedOf,             \* [station |-> the two last bytes of hwaddr]
          RandOf,             \* [station |-> the number LWIP_AUTOIP_RAND makes of hwaddr]
          AddrMod,            \* 2^16 addresses in 169.254.0.0
          RANGE_START, RANGE_END,
          PROBE_WAIT, PROBE_MIN, PROBE_MAX, PROBE_NUM,
          ANNOUNCE_NUM, ANNOUNCE_INTERVAL, ANNOUNCE_WAIT,
          MAX_CONFLICTS, RATE_LIMIT_INTERVAL, DEFEND_INTERVAL,
          TriedMod,           \* 2^8: tried_llipaddr is u8_t
          MaxLost,            \* packets the link may lose
          AutoCalls           \* calls of the application and the driver

ASSUME AutoRange == 0 < RANGE_START /\ RANGE_START <= RANGE_END /\ RANGE_END < AddrMod

VARIABLE au
NoAddr == 0
Elsewhere == AddrMod          \* some address that is not link-local

-----------------------------------------------------------------------------
NoAutoip == [has |-> FALSE, state |-> "OFF", ttw |-> 0, sent_num |-> 0, ll |-> NoAddr,
             lastconflict |-> 0, tried |-> 0, ip |-> NoAddr, up |-> FALSE]
AutoInit == au = [st |-> [n \in Stations |-> NoAutoip], inbox |-> [n \in Stations |-> << >>],
                  due |-> Stations, asked |-> FALSE, lost |-> 0, calls |-> 0]

(* etharp_raw to the broadcast address.                                    *)
Send(s, n, op, sip, dip) ==
    [s EXCEPT !.inbox = [m \in Stations |->
        IF m = n THEN @[m] ELSE Append(@[m], [op |-> op, from |-> n, sip |-> sip, dip |-> dip])]]
autoip_arp_probe(s, n) == Send(s, n, "request", NoAddr, s.st[n].ll)
autoip_arp_announce(s, n) == Send(s, n, "request", s.st[n].ll, s.st[n].ll)

LWIP_AUTOIP_RAND(s, n) == RandOf[n] + s.st[n].tried
autoip_create_addr(s, n) ==
    LET size == RANGE_END - RANGE_START + 1
        a    == (RANGE_START + SeedOf[n] + s.st[n].tried) % AddrMod
        b    == IF a < RANGE_START THEN a + size ELSE a
    IN  IF b > RANGE_END THEN b - size ELSE b

autoip_start_probing(s, n) ==
    [s EXCEPT !.st[n].state = "PROBING", !.st[n].sent_num = 0,
              !.st[n].ttw = IF s.st[n].tried > MAX_CONFLICTS THEN RATE_LIMIT_INTERVAL
                            ELSE LWIP_AUTOIP_RAND(s, n) % PROBE_WAIT]
autoip_start(s, n, mem) ==
    LET s1 == [s EXCEPT !.st[n].up = FALSE, !.st[n].ip = NoAddr]
        s2 == [s1 EXCEPT !.st[n].has = TRUE, !.st[n].lastconflict = 0, !.st[n].ll = autoip_create_addr(s, n)]
    IN  IF ~s.st[n].has /\ ~mem THEN s1 ELSE autoip_start_probing(s2, n)
autoip_restart(s, n) == autoip_start([s EXCEPT !.st[n].tried = (@ + 1) % TriedMod], n, TRUE)

(* A conflict is answered once, then the address is given up.              *)
autoip_handle_arp_conflict_Ignores(s, n) == s
autoip_handle_arp_conflict(s, n) ==
    IF s.st[n].lastconflict > 0 THEN autoip_restart(s, n)
    ELSE [autoip_arp_announce(s, n) EXCEPT !.st[n].lastconflict = DEFEND_INTERVAL]

(* autoip_bind: netif_set_up sends a gratuitous ARP request.               *)
autoip_bind(s, n) ==
    LET s1 == [s EXCEPT !.st[n].ip = s.st[n].ll, !.st[n].up = TRUE]
    IN  IF s.st[n].up THEN s1 ELSE Send(s1, n, "request", s1.st[n].ip, s1.st[n].ip)

(* One interface in the loop of autoip_tmr.                                *)
ProbingTmr(s, n) ==
    IF s.st[n].ttw > 0 THEN [s EXCEPT !.st[n].ttw = @ - 1]
    ELSE IF s.st[n].sent_num >= PROBE_NUM
    THEN [s EXCEPT !.st[n].state = "ANNOUNCING", !.st[n].sent_num = 0, !.st[n].ttw = ANNOUNCE_WAIT]
    ELSE [autoip_arp_probe(s, n) EXCEPT !.st[n].sent_num = @ + 1,
             !.st[n].ttw = (LWIP_AUTOIP_RAND(s, n) % (PROBE_MAX - PROBE_MIN)) + PROBE_MIN]
AnnouncingTmr(s, n) ==
    LET s1   == IF s.st[n].sent_num = 0 THEN autoip_bind(s, n) ELSE autoip_arp_announce(s, n)
        sent == s.st[n].sent_num + 1
    IN  IF s.st[n].ttw > 0 THEN [s EXCEPT !.st[n].ttw = @ - 1]
        ELSE IF sent >= ANNOUNCE_NUM THEN [s1 EXCEPT !.st[n].state = "BOUND", !.st[n].sent_num = 0, !.st[n].ttw = 0]
        ELSE [s1 EXCEPT !.st[n].sent_num = sent, !.st[n].ttw = ANNOUNCE_INTERVAL]
autoip_tmr(s, n) ==
    LET s1 == [s EXCEPT !.st[n].lastconflict = IF @ > 0 THEN @ - 1 ELSE 0]
    IN  CASE s.st[n].state = "PROBING" -> ProbingTmr(s1, n)
          [] s.st[n].state = "ANNOUNCING" -> AnnouncingTmr(s1, n)
          [] OTHER -> s1

(* autoip_arp_reply, for an ARP packet h of another station.  Until the    *)
(* address is in use a probe for it is a conflict, too.                    *)
ProbeConflict_SourceOnly(a, h) == h.sip = a.ll
ProbeConflict(a, h) == h.sip = a.ll \/ h.dip = a.ll
Claiming(a) == a.state = "PROBING" \/ (a.state = "ANNOUNCING" /\ a.sent_num = 0)
autoip_arp_reply(s, n, h) ==
    LET a == s.st[n]
    IN  IF ~a.has \/ a.state = "OFF" THEN s
        ELSE IF Claiming(a) THEN IF ProbeConflict(a, h) THEN autoip_restart(s, n) ELSE s
        ELSE IF h.sip = a.ll THEN autoip_handle_arp_conflict(s, n) ELSE s

(* etharp_arp_input: after that, a request for the address of the          *)
(* interface is answered, link-local addresses by broadcast.               *)
Input(s, n, h) ==
    LET s1 == autoip_arp_reply(s, n, h)
        ip == s1.st[n].ip
    IN  IF h.op = "request" /\ ip # NoAddr /\ h.dip = ip THEN Send(s1, n, "reply", ip, h.sip) ELSE s1

-----------------------------------------------------------------------------
AutoCall(s) == au.calls < AutoCalls /\ au' = [s EXCEPT !.calls = @ + 1]
AutoStart(n, mem) == ~au.st[n].has /\ AutoCall(autoip_start(au, n, mem))
AutoStop(n) == au.st[n].has /\ au.st[n].state # "OFF" /\ AutoCall([au EXCEPT !.st[n].state = "OFF", !.st[n].up = FALSE])

(* The link was down and is up again: autoip_network_changed.              *)
AutoLinkUp(n) == /\ au.st[n].has /\ au.st[n].state # "OFF"
             /\ AutoCall(autoip_start_probing([au EXCEPT !.st[n].up = FALSE], n))

AutoTmr(n) ==
    /\ n \in au.due
    /\ au.due = Stations => \A m \in Stations : au.inbox[m] = << >>
    /\ au' = [(IF au.st[n].has THEN autoip_tmr(au, n) ELSE au) EXCEPT
                 !.due = IF @ = {n} THEN Stations ELSE @ \ {n}, !.asked = @ /\ au.due # {n}]
AutoDeliver(n) ==
    /\ au.inbox[n] # << >>
    /\ au' = Input([au EXCEPT !.inbox[n] = Tail(@)], n, Head(au.inbox[n]))
LosePacket(n) ==
    /\ au.inbox[n] # << >> /\ au.lost < MaxLost
    /\ au' = [au EXCEPT !.inbox[n] = Tail(@), !.lost = @ + 1]

(* A station that is up looks for some other host (etharp_request), once   *)
(* in an interval at most.                                                 *)
Ask(n) ==
    /\ au.st[n].up /\ ~au.asked /\ \A m \in Stations : au.inbox[m] = << >>
    /\ au' = Send([au EXCEPT !.asked = TRUE], n, "request", au.st[n].ip, Elsewhere)

AutoNext == \E n \in Stations :
    \/ AutoStart(n, TRUE) \/ AutoStart(n, FALSE) \/ AutoStop(n) \/ AutoLinkUp(n)
    \/ AutoTmr(n) \/ AutoDeliver(n) \/ LosePacket(n) \/ Ask(n)

-----------------------------------------------------------------------------
Duplicate == \E n, m \in Stations : n # m /\ au.st[n].up /\ au.st[m].up /\ au.st[n].ip = au.st[m].ip

(* While no packet is lost no two stations use one address, however their  *)
(* probes, restarts, links and timers interleave (autoip_arp_reply).       *)
AutoUnique == au.lost = 0 => ~Duplicate

(* The stations settle: all that are not stopped come up, each with an     *)
(* address of its own.  They do not chase each other from address to       *)
(* address for ever, and when lost packets have let two of them take one,  *)
(* one gives it up once they talk (autoip_handle_arp_conflict).            *)
AutoSettles == []<>(~Duplicate /\ \A n \in Stations : au.st[n].up \/ au.st[n].state = "OFF")
=============================================================================
