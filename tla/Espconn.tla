------------------------------ MODULE Espconn ------------------------------
(***************************************************************************)
(* The SDK's connections on top of lwIP (lwip/app/espconn.c,               *)
(* espconn_tcp.c, espconn_udp.c).  A link is an espconn_msg: a client or a *)
(* connection the server accepted.  pcb is the memory of its TCP control   *)
(* block: after lwIP frees it, it reads as CLOSED until a new connection   *)
(* gets the same memory.  What TCP does to a connection is an environment  *)
(* that calls the callbacks; unacked are the bytes it holds for a link.    *)
(* timer is the link's os_timer, ended counts the callbacks that tell the  *)
(* application that the link is over.                                      *)
(***************************************************************************)
EXTENDS Integers, Sequences, SequencesExt, FiniteSets

CONSTANTS Links, PcbIds,
          SNDBUF, MSS,           \* of a TCP connection
          SendLengths,           \* what the application sends at a time
          MaxCon,                \* MEMP_NUM_TCP_PCB
          LinkTimer,             \* the idle time of a connection, in polls
          DisconnectWhileClosing,\* may espconn_disconnect meet a link that is closing
          EspCalls               \* calls of the application in a behaviour

NoLink == 0

ASSUME EspSizes ==
    /\ {SNDBUF, MSS, LinkTimer, MaxCon} \subseteq Nat \ {0} /\ SendLengths \subseteq Nat
    /\ NoLink \notin Links

VARIABLE esp
NewLink == [msg |-> "none", server |-> FALSE, pcb |-> NoLink, state |-> "NONE", timer |-> "none",
            cntr |-> 0, write_len |-> 0, write_total |-> 0, recv_check |-> 0, timeout |-> 0, reuse |-> FALSE,
            unacked |-> 0, stuck |-> FALSE, ended |-> 0]
NewPcb == [state |-> "CLOSED", arg |-> NoLink, err |-> FALSE, recv |-> FALSE, sent |-> FALSE, rxclosed |-> FALSE,
           alloc |-> FALSE]
EspInit == esp = [link |-> [l \in Links |-> NewLink], pcb |-> [p \in PcbIds |-> NewPcb], list |-> << >>,
                  server |-> FALSE, count_opt |-> MaxCon, freed_closed |-> FALSE, crashed |-> FALSE,
                  udp |-> [open |-> FALSE, whole |-> 0, called |-> 0, timers |-> 0], calls |-> EspCalls]

espconn_list_creat(s, l) == [s EXCEPT !.list = Append(@, l)]
Passed(q, k, l) == IF k = l THEN q ELSE Append(q, k)
Unlinked(list, l) ==
    LET f[i \in 0..Len(list)] == IF i = 0 THEN << >> ELSE Passed(f[i - 1], list[i], l) IN f
espconn_list_delete(s, l) == [s EXCEPT !.list = Unlinked(@, l)[Len(@)]]
link_cnt(s) == Cardinality({i \in DOMAIN s.list : s.link[s.list[i]].server})
FreePcb(s, p) == [s EXCEPT !.pcb[p] = NewPcb]

-----------------------------------------------------------------------------
(* The end of a link: its message is freed and the application told.       *)
(* Reconnect is what the application calls an abnormal end.                *)
FreeMsg(s, l) == [s EXCEPT !.link[l].msg = "freed", !.link[l].timer = "none", !.link[l].ended = @ + 1]
espconn_tcp_reconnect(s, l) == FreeMsg(s, l)
espconn_tcp_disconnect_successful_KeepsArg(s, l) == FreeMsg(s, l)
espconn_tcp_disconnect_successful(s, l) ==
    LET p  == s.link[l].pcb
        s1 == [s EXCEPT !.pcb[p].arg = NoLink, !.pcb[p].err = FALSE]
    IN  FreeMsg(IF s.link[l].reuse /\ s.pcb[p].state = "TIME_WAIT" THEN FreePcb(s1, p) ELSE s1, l)

(* espconn_cclose_cb and espconn_sclose_cb.                                *)
CloseTimer(s, l) ==
    IF s.pcb[s.link[l].pcb].state \in {"TIME_WAIT", "CLOSED"}
    THEN espconn_tcp_disconnect_successful(espconn_list_delete([s EXCEPT !.link[l].state = "CLOSE"], l), l)
    ELSE [s EXCEPT !.link[l].timer = "close"]

(* tcp_close as the link sees it; mem says whether the FIN found memory.   *)
tcp_close(s, p, mem) ==
    LET st == s.pcb[p].state
        s1 == [s EXCEPT !.pcb[p].rxclosed = TRUE, !.freed_closed = @ \/ ~s.pcb[p].alloc]
    IN  CASE st = "CLOSED"   -> FreePcb(s1, p)
          [] st = "SYN_SENT" -> FreePcb(s1, p)
          [] st \in {"ESTABLISHED", "CLOSE_WAIT"} /\ mem ->
                [s1 EXCEPT !.pcb[p].state = IF st = "ESTABLISHED" THEN "FIN_WAIT" ELSE "LAST_ACK"]
          [] OTHER           -> s1
Refused(s, p, mem) == s.pcb[p].state \in {"ESTABLISHED", "CLOSE_WAIT"} /\ ~mem

(* espconn_client_close and espconn_server_close.                          *)
Close(s, l, mem) ==
    LET p  == s.link[l].pcb
        ok == ~Refused(s, p, mem)
        s1 == tcp_close(s, p, mem)
    IN  [s1 EXCEPT !.link[l].timer = "close",
                   !.pcb[p].recv = IF ok THEN FALSE ELSE @, !.pcb[p].sent = IF ok THEN FALSE ELSE @]

(* espconn_client_err and esponn_server_err: lwIP has given the connection *)
(* up and freed the pcb; the application hears of it 10 ms later.  (Which  *)
(* error it is told is left out.)                                          *)
LinkErr_StaysListed(s, l) == IF l = NoLink THEN s ELSE [s EXCEPT !.link[l].state = "CLOSE", !.link[l].timer = "reconnect"]
LinkErr(s, l) ==
    IF l = NoLink THEN s
    ELSE [espconn_list_delete(s, l) EXCEPT !.link[l].state = "CLOSE", !.link[l].timer = "reconnect"]
Abort(s, p) == LinkErr(FreePcb(s, p), IF s.pcb[p].err THEN s.pcb[p].arg ELSE NoLink)

-----------------------------------------------------------------------------
(* espconn_tcp_sent: what fits, halved while memory is short; below two    *)
(* bytes it gives up, and what is left is never sent.                      *)
Fits(s, l, length) == Min({length, SNDBUF - s.link[l].unacked, 2 * MSS})
Tries(n) == {n} \cup {k \in {n \div 2, n \div 4} : k > 1}
espconn_tcp_sent(s, l, length, len, ok) ==
    IF length = 0 THEN s
    ELSE IF ok THEN [s EXCEPT !.link[l].cntr = length - len, !.link[l].write_len = @ + len, !.link[l].unacked = @ + len]
    ELSE [s EXCEPT !.link[l].state = "CLOSE", !.link[l].stuck = TRUE]

(* espconn_client_sent and espconn_server_sent: once all that was written  *)
(* is acknowledged, go on or tell the application.                         *)
LinkSent_KeepsTotal(s, l, n, len, ok) ==
    LET s1 == [s EXCEPT !.link[l].unacked = @ - n, !.link[l].write_total = @ + n, !.link[l].recv_check = 0]
    IN  IF s1.link[l].write_total # s1.link[l].write_len THEN s1
        ELSE LET s2 == [s1 EXCEPT !.link[l].write_len = 0]
             IN  IF s2.link[l].cntr = 0 THEN [s2 EXCEPT !.link[l].state = "CONNECT"]
                 ELSE espconn_tcp_sent(s2, l, s2.link[l].cntr, len, ok)
LinkSent(s, l, n, len, ok) ==
    LET s1 == [s EXCEPT !.link[l].unacked = @ - n, !.link[l].write_total = @ + n, !.link[l].recv_check = 0]
        s2 == [s1 EXCEPT !.link[l].write_total = 0, !.link[l].write_len = 0]
    IN  IF s1.link[l].write_total # s1.link[l].write_len THEN s1
        ELSE IF s2.link[l].cntr = 0 THEN [s2 EXCEPT !.link[l].state = "CONNECT"]
        ELSE espconn_tcp_sent(s2, l, s2.link[l].cntr, len, ok)

(* espconn_server_poll: an idle connection is closed, one on its way out   *)
(* is pushed.                                                              *)
espconn_server_poll(s, l, mem) ==
    LET s1 == [s EXCEPT !.link[l].recv_check = @ + 1]
        limit == IF s.link[l].timeout # 0 THEN s.link[l].timeout ELSE LinkTimer
    IN  IF s.pcb[s.link[l].pcb].state # "ESTABLISHED" THEN Close(s, l, mem)
        ELSE IF s1.link[l].recv_check = limit THEN Close([s1 EXCEPT !.link[l].recv_check = 0], l, mem)
        ELSE s1

(* espconn_tcp_accept: the new link is counted before it is refused.  A    *)
(* failed allocation behind the first leaves an empty link to the error    *)
(* callback of the abort that follows, which writes through it.            *)
TooMany_Late(s) == link_cnt(s) > s.count_opt + 1
TooMany(s) == link_cnt(s) = s.count_opt + 1
espconn_tcp_accept(s, l, p, mem) ==
    LET s1 == [s EXCEPT !.pcb[p] = [NewPcb EXCEPT !.state = "ESTABLISHED", !.alloc = TRUE, !.arg = l, !.err = TRUE],
                        !.link[l] = [NewLink EXCEPT !.msg = "live", !.server = TRUE, !.pcb = p, !.state = "CONNECT"]]
        s2 == espconn_list_creat(s1, l)
    IN  CASE mem = "heap"  -> s
          [] mem = "parts" -> [s2 EXCEPT !.crashed = TRUE]
          [] mem = "ok"    -> IF TooMany(s2) THEN Abort(s2, p)
                              ELSE [s2 EXCEPT !.pcb[p].recv = TRUE, !.pcb[p].sent = TRUE]

(* espconn_udp_sent: a datagram of up to 1024 bytes after the other; when  *)
(* the last is out, a timeout will call sent_callback.  Without a pbuf it  *)
(* just stops.                                                             *)
espconn_udp_sent_Early(s, parts, out) == [s EXCEPT !.udp.whole = @ + (IF out = parts THEN 1 ELSE 0), !.udp.timers = @ + 1]
espconn_udp_sent(s, parts, out) == IF out < parts THEN s ELSE [s EXCEPT !.udp.whole = @ + 1, !.udp.timers = @ + 1]

-----------------------------------------------------------------------------
(* The application.                                                        *)
Call(s) == /\ ~esp.crashed /\ esp.calls > 0 /\ esp' = [s EXCEPT !.calls = @ - 1]
Listed(l) == Contains(esp.list, l)
Unallocated == {p \in PcbIds : ~esp.pcb[p].alloc}

(* Clients are given local ports of their own; those of a server's links   *)
(* are the server's.  A connection that cannot be begun stays listed.      *)
espconn_tcp_client(s, l, p, ok) ==
    espconn_list_creat([s EXCEPT
        !.pcb[p] = [NewPcb EXCEPT !.state = IF ok THEN "SYN_SENT" ELSE "CLOSED", !.alloc = TRUE, !.arg = l, !.err = TRUE],
        !.link[l] = [NewLink EXCEPT !.msg = "live", !.pcb = p, !.state = "WAIT"]], l)
espconn_connect(l, p, ok) ==
    esp.link[l].msg = "none" /\ p \in Unallocated /\ Call(espconn_tcp_client(esp, l, p, ok))
espconn_tcp_server(s) == [s EXCEPT !.server = TRUE, !.count_opt = MaxCon]
espconn_accept == ~esp.server /\ link_cnt(esp) = 0 /\ Call(espconn_tcp_server(esp))
espconn_tcp_delete(s) == IF link_cnt(s) # 0 THEN s ELSE [s EXCEPT !.server = FALSE]
espconn_tcp_set_max_con_allow(n) == esp.server /\ n # esp.count_opt /\ Call([esp EXCEPT !.count_opt = n])
espconn_set_opt(l) == Listed(l) /\ ~esp.link[l].reuse /\ Call([esp EXCEPT !.link[l].reuse = TRUE])
espconn_regist_time(l, t) == Listed(l) /\ esp.link[l].timeout # t /\ Call([esp EXCEPT !.link[l].timeout = t])
espconn_tcp_disconnect(s, l, mem) == Close(s, l, mem)
espconn_disconnect(l, mem) ==
    /\ Listed(l)
    /\ DisconnectWhileClosing \/ esp.link[l].timer # "close"
    /\ Call(espconn_tcp_disconnect(esp, l, mem))
espconn_sent(l, length, len, ok) ==
    LET s == [esp EXCEPT !.link[l].state = "WRITE"]
    IN  /\ Listed(l) /\ esp.link[l].cntr = 0 /\ len \in Tries(Fits(esp, l, length))
        /\ ok => esp.pcb[esp.link[l].pcb].state \in {"SYN_SENT", "ESTABLISHED", "CLOSE_WAIT"}
        /\ Call(espconn_tcp_sent(s, l, length, len, ok))
espconn_udp_server(s) == [s EXCEPT !.udp.open = TRUE]
espconn_create == ~esp.udp.open /\ Call(espconn_udp_server(esp))
UdpSend(parts, out) == esp.udp.open /\ Call(espconn_udp_sent(esp, parts, out))
espconn_udp_disconnect(s) == [s EXCEPT !.udp.open = FALSE]
espconn_delete == \/ esp.server /\ Call(espconn_tcp_delete(esp))
                  \/ esp.udp.open /\ Call(espconn_udp_disconnect(esp))

(* The callbacks of TCP, and what happens to a pcb without one.            *)
Tcp(p, S, s) == /\ ~esp.crashed /\ esp.pcb[p].alloc /\ esp.pcb[p].state \in S /\ esp' = s
Owner(p) == esp.pcb[p].arg
espconn_client_connect(p) ==
    Tcp(p, {"SYN_SENT"}, [esp EXCEPT !.pcb[p] = [@ EXCEPT !.state = "ESTABLISHED", !.recv = TRUE, !.sent = TRUE],
                                     !.link[Owner(p)].state = "CONNECT"])
Accept(l, p, mem) ==
    /\ esp.server /\ esp.link[l].msg = "none" /\ p \in Unallocated /\ ~esp.crashed
    /\ esp' = espconn_tcp_accept(esp, l, p, mem)
LinkRecv(p) ==
    Tcp(p, {"ESTABLISHED"}, IF esp.pcb[p].rxclosed THEN Abort(esp, p)
                            ELSE [esp EXCEPT !.link[Owner(p)].state = "CONNECT", !.link[Owner(p)].recv_check = 0])
PeerFin(p, mem) ==
    \/ Tcp(p, {"ESTABLISHED"}, Close([esp EXCEPT !.pcb[p].state = "CLOSE_WAIT"], Owner(p), mem))
    \/ Tcp(p, {"FIN_WAIT"}, [esp EXCEPT !.pcb[p].state = "TIME_WAIT"])
Acked(p, n, len, ok) ==
    LET l == Owner(p)
    IN  /\ esp.pcb[p].sent /\ n \in 1..esp.link[l].unacked
        /\ len \in Tries(Fits([esp EXCEPT !.link[l].unacked = @ - n], l, esp.link[l].cntr))
        /\ Tcp(p, {"ESTABLISHED", "CLOSE_WAIT"}, LinkSent(esp, l, n, len, ok))
Poll(p, mem) ==
    /\ esp.pcb[p].sent /\ esp.link[Owner(p)].server /\ esp.link[Owner(p)].recv_check < LinkTimer
    /\ Tcp(p, {"ESTABLISHED", "CLOSE_WAIT"}, espconn_server_poll(esp, Owner(p), mem))
GivenUp(p) == Tcp(p, {"SYN_SENT", "ESTABLISHED", "CLOSE_WAIT", "FIN_WAIT", "LAST_ACK"}, Abort(esp, p))
Over(p) == Tcp(p, {"LAST_ACK", "TIME_WAIT"}, FreePcb(esp, p))
OsTimer(l) ==
    /\ ~esp.crashed
    /\ \/ esp.link[l].timer = "close" /\ esp' = CloseTimer(esp, l)
       \/ esp.link[l].timer = "reconnect" /\ esp' = espconn_tcp_reconnect(esp, l)
espconn_data_sentcb ==
    /\ ~esp.crashed /\ esp.udp.timers > 0
    /\ esp' = [esp EXCEPT !.udp.timers = @ - 1, !.udp.called = @ + 1]

EspApp ==
    \/ espconn_accept \/ espconn_create \/ espconn_delete
    \/ \E n \in 1..MaxCon : espconn_tcp_set_max_con_allow(n)
    \/ \E parts \in 1..2, out \in 0..2 : out <= parts /\ UdpSend(parts, out)
    \/ \E l \in Links : \/ espconn_set_opt(l) \/ espconn_regist_time(l, 1)
                        \/ \E p \in PcbIds, ok \in BOOLEAN : espconn_connect(l, p, ok)
                        \/ \E mem \in BOOLEAN : espconn_disconnect(l, mem)
                        \/ \E n \in SendLengths, k \in 0..(2 * MSS), ok \in BOOLEAN : espconn_sent(l, n, k, ok)
EspTcp ==
    \E p \in PcbIds :
        \/ espconn_client_connect(p) \/ LinkRecv(p) \/ GivenUp(p) \/ Over(p)
        \/ \E mem \in BOOLEAN : PeerFin(p, mem) \/ Poll(p, mem)
        \/ \E l \in Links, mem \in {"heap", "parts", "ok"} : Accept(l, p, mem)
        \/ \E n \in 1..SNDBUF, k \in 0..(2 * MSS), ok \in BOOLEAN : Acked(p, n, k, ok)
EspNext == EspApp \/ EspTcp \/ espconn_data_sentcb \/ \E l \in Links : OsTimer(l)
EspSpec == EspInit /\ [][EspNext]_esp

-----------------------------------------------------------------------------
(* A message that is freed is no longer known to anyone: not to a timer,   *)
(* not to the list, and to no pcb that could still call back; and the      *)
(* application hears of the end of a link once.                            *)
LinkEndsOnce ==
    /\ \A l \in Links : esp.link[l].ended = IF esp.link[l].msg = "freed" THEN 1 ELSE 0
    /\ \A l \in Links : esp.link[l].msg = "freed" => esp.link[l].timer = "none" /\ ~Contains(esp.list, l)
    /\ \A p \in PcbIds : esp.pcb[p].alloc /\ esp.pcb[p].arg # NoLink => esp.link[esp.pcb[p].arg].msg = "live"

(* What is left to send has bytes before it whose acknowledgement will     *)
(* send it on, and the counts agree with what TCP holds, unless a write    *)
(* was given up.                                                           *)
SendGoesOn == \A p \in PcbIds : LET l == esp.link[esp.pcb[p].arg]
    IN  esp.pcb[p].alloc /\ esp.pcb[p].sent =>
            /\ l.write_len - l.write_total = l.unacked
            /\ l.cntr > 0 => l.unacked > 0 \/ l.stuck

(* The server never serves more connections than allowed: the one too many *)
(* is refused while it counts itself.  (A limit lowered below what is      *)
(* connected stops nobody: the count is compared for equality.)            *)
LimitKept == [][link_cnt(esp) <= esp.count_opt /\ esp'.count_opt = esp.count_opt /\ ~esp'.crashed
                    => link_cnt(esp') <= esp.count_opt]_esp

(* sent_callback of a UDP espconn tells of whole messages only.            *)
UdpSentWhole == esp.udp.called + esp.udp.timers = esp.udp.whole

(* tcp_close is never called for a pcb that is already freed.              *)
ClosedWhileAlive == ~esp.freed_closed

(* A link ends once and with everyone who knows it, and until then what    *)
(* the application gave it to send goes on (espconn_tcp.c, espconn_udp.c). *)
LinksSound == LinkEndsOnce /\ SendGoesOn /\ ClosedWhileAlive /\ UdpSentWhole
=============================================================================
