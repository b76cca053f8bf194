------------------------------ MODULE TcpPorts ------------------------------
(***************************************************************************)
(* Control blocks and local ports of TCP (lwip/core/tcp.c): the four lists *)
(* of pcbs, the newest first, and who may have which port.  Tcp has one    *)
(* connection in full; here a connection is only there, in TIME_WAIT, or   *)
(* gone.  A pcb that was accepted has the port of its listener.  tmr is    *)
(* when the pcb was last active.                                           *)
(***************************************************************************)
EXTENDS Integers, Sequences, SequencesExt, FiniteSets

CONSTANTS TcpPcbs,                 \* pcbs there is memory for
          MEMP_NUM_TCP_PCB,        \* active connections a listener lets be
          Prios,
          LocalIps,                \* addresses of the interfaces, not AnyIp
          RangeStart, RangeEnd,    \* TCP_LOCAL_PORT_RANGE_START, _END
          TcpTicks,                \* ticks of a behaviour
          TcpCalls                 \* and calls

(* tcp_new_port searches for ever once every port of the range is taken.   *)
ASSUME TcpPortRange == RangeStart \in Nat \ {0} /\ RangeEnd - RangeStart > Cardinality(TcpPcbs)

VARIABLE tp
AnyIp == 0
NoPort == 0
TcpLists == {"bound", "listen", "active", "tw"}
NewTcp == [port |-> NoPort, ip |-> AnyIp, prio |-> 0, tmr |-> 0, accepted |-> FALSE]

PortsInit == tp = [pcb |-> [p \in TcpPcbs |-> NewTcp], alloc |-> {}, lists |-> [l \in TcpLists |-> << >>],
                   port |-> RangeStart, ticks |-> 0, calls |-> TcpCalls]

On(s, l) == ToSet(s.lists[l])
Registered(s) == UNION {On(s, l) : l \in TcpLists}
TCP_REG(s, l, p) == [s EXCEPT !.lists[l] = <<p>> \o @]
TCP_RMV(s, l, p) == [s EXCEPT !.lists[l] = SelectSeq(@, LAMBDA q : q # p)]
Gone(s, l, p) == [TCP_RMV(s, l, p) EXCEPT !.pcb[p] = NewTcp, !.alloc = @ \ {p}]

-----------------------------------------------------------------------------
(* Who has to go for a new pcb: down the list, each candidate at least as  *)
(* long inactive as the one before it, and of no higher rank than it and   *)
(* the limit.                                                              *)
Inactivity(s, p) == s.ticks - s.pcb[p].tmr
Scan(s, l, rank, limit) ==
    LET L == s.lists[l]
        f[i \in 0..Len(L)] ==
            IF i = 0 THEN << >>
            ELSE LET v == f[i - 1]
                 IN  IF /\ rank[L[i]] <= (IF v = << >> THEN limit ELSE rank[v[1]])
                        /\ v # << >> => Inactivity(s, L[i]) >= Inactivity(s, v[1])
                     THEN <<L[i]>> ELSE v
    IN  f[Len(L)]
tcp_kill_timewait(s) ==
    LET v == Scan(s, "tw", [p \in TcpPcbs |-> 0], 0) IN IF v = << >> THEN s ELSE Gone(s, "tw", v[1])
tcp_kill_prio(s, prio) ==
    LET v == Scan(s, "active", [p \in TcpPcbs |-> s.pcb[p].prio], prio)
    IN  IF v = << >> THEN s ELSE Gone(s, "active", v[1])

Memory(s) == TcpPcbs \ s.alloc
tcp_alloc(s, prio) ==
    LET s1 == IF Memory(s) # {} THEN s ELSE tcp_kill_timewait(s)
        s2 == IF Memory(s1) # {} THEN s1 ELSE tcp_kill_prio(s1, prio)
        p  == CHOOSE q \in Memory(s2) : TRUE
    IN  IF Memory(s2) = {} THEN [s |-> s2, p |-> {}]
        ELSE [s |-> [s2 EXCEPT !.alloc = @ \cup {p}, !.pcb[p] = [NewTcp EXCEPT !.prio = prio, !.tmr = s.ticks]], p |-> {p}]

(* The next port of the range that no list knows.                          *)
Taken(s) == {s.pcb[p].port : p \in Registered(s)}
NextPort(port) == IF port + 1 >= RangeEnd THEN RangeStart ELSE port + 1
tcp_new_port(s) ==
    LET f[n \in 1..(RangeEnd - RangeStart + 1)] ==
            IF n = 1 THEN NextPort(s.port)
            ELSE IF f[n - 1] \in Taken(s) THEN NextPort(f[n - 1]) ELSE f[n - 1]
    IN  f[RangeEnd - RangeStart + 1]
WithNewPort(s, p) == [s EXCEPT !.port = tcp_new_port(s), !.pcb[p].port = tcp_new_port(s)]

InConflict_BoundOnly(s, ip, port) ==
    \E q \in On(s, "bound") : s.pcb[q].port = port /\ (s.pcb[q].ip = AnyIp \/ ip = AnyIp \/ s.pcb[q].ip = ip)
InConflict(s, ip, port) ==
    \E q \in Registered(s) : s.pcb[q].port = port /\ (s.pcb[q].ip = AnyIp \/ ip = AnyIp \/ s.pcb[q].ip = ip)

-----------------------------------------------------------------------------
PortsCall(s) == tp.calls > 0 /\ tp' = [s EXCEPT !.calls = @ - 1]
Fresh == tp.alloc \ Registered(tp)          \* neither bound nor failed to connect before
Unbound(p) == p \in Fresh /\ tp.pcb[p].port = NoPort

tcp_new(prio) == PortsCall(tcp_alloc(tp, prio).s)
tcp_bind(p, ip, port) ==
    LET s == IF port = NoPort THEN WithNewPort(tp, p) ELSE [tp EXCEPT !.pcb[p].port = port]
        n == s.pcb[p].port
    IN  /\ Unbound(p)
        /\ PortsCall(IF InConflict(tp, ip, n) THEN [s EXCEPT !.pcb[p].port = NoPort]
                     ELSE TCP_REG([s EXCEPT !.pcb[p].ip = ip], "bound", p))
tcp_listen(p, mem) ==
    /\ p \in On(tp, "bound")
    /\ PortsCall(IF mem THEN TCP_REG(TCP_RMV(tp, "bound", p), "listen", p) ELSE tp)

(* Without memory for the SYN the pcb keeps its new port and no list has   *)
(* it; its owner closes it.                                                *)
tcp_connect(p, ip, mem) ==
    LET s1 == [tp EXCEPT !.pcb[p].ip = IF @ = AnyIp THEN ip ELSE @]
        s2 == IF tp.pcb[p].port = NoPort THEN WithNewPort(s1, p) ELSE s1
    IN  /\ p \in On(tp, "bound") \/ Unbound(p)
        /\ PortsCall(IF mem THEN TCP_REG(TCP_RMV(s2, "bound", p), "active", p) ELSE s2)

(* A SYN for a listener; mem is memory for the answer.                     *)
ListenInput(l, ip, mem) ==
    LET a == tcp_alloc(tp, tp.pcb[l].prio)
    IN  /\ l \in On(tp, "listen") /\ (tp.pcb[l].ip \in {AnyIp, ip})
        /\ PortsCall(IF Cardinality(On(tp, "active")) = MEMP_NUM_TCP_PCB THEN tp
                     ELSE IF a.p = {} THEN a.s
                     ELSE IF ~mem THEN Gone(a.s, "active", CHOOSE q \in a.p : TRUE)
                     ELSE TCP_REG([a.s EXCEPT !.pcb = [q \in TcpPcbs |-> IF q \in a.p
                              THEN [@[q] EXCEPT !.port = tp.pcb[l].port, !.ip = ip, !.accepted = TRUE] ELSE @[q]]],
                              "active", CHOOSE q \in a.p : TRUE))

(* The rest of a connection, the close of any pcb, and time.               *)
Active(p) == p \in On(tp, "active") /\ PortsCall([tp EXCEPT !.pcb[p].tmr = tp.ticks])
TimeWait(p) == p \in On(tp, "active") /\ PortsCall(TCP_REG(TCP_RMV([tp EXCEPT !.pcb[p].tmr = tp.ticks], "active", p), "tw", p))
Ended(p) == \E l \in TcpLists : p \in On(tp, l) /\ PortsCall(Gone(tp, l, p))
ClosedFresh(p) == p \in Fresh /\ PortsCall(Gone(tp, "bound", p))
TcpTick == tp.ticks < TcpTicks /\ tp' = [tp EXCEPT !.ticks = @ + 1]

PortsNext ==
    \/ TcpTick
    \/ \E prio \in Prios : tcp_new(prio)
    \/ \E p \in TcpPcbs :
        \/ Active(p) \/ TimeWait(p) \/ Ended(p) \/ ClosedFresh(p)
        \/ \E ip \in LocalIps \cup {AnyIp}, port \in {NoPort, RangeStart} : tcp_bind(p, ip, port)
        \/ \E mem \in BOOLEAN : tcp_listen(p, mem) \/ \E ip \in LocalIps : tcp_connect(p, ip, mem)
        \/ \E ip \in LocalIps, mem \in BOOLEAN : ListenInput(p, ip, mem)

-----------------------------------------------------------------------------
(* A local port belongs to one pcb per address: whatever was bound by      *)
(* hand, given out by tcp_new_port, left in TIME_WAIT or outlives its      *)
(* listener, only connections accepted by a listener share its port.       *)
TcpPortsApart ==
    \A p, q \in Registered(tp) :
        p # q /\ ~tp.pcb[p].accepted /\ ~tp.pcb[q].accepted /\ tp.pcb[p].port = tp.pcb[q].port
            => tp.pcb[p].ip # tp.pcb[q].ip /\ AnyIp \notin {tp.pcb[p].ip, tp.pcb[q].ip}
=============================================================================
