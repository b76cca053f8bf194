------------------------------- MODULE Timers -------------------------------
(***************************************************************************)
(* lwIP's timeouts (lwip/core/timers.c) and ping (lwip/app/ping.c), which  *)
(* lives on them.  next_timeout is a sequence of records whose time counts *)
(* from the record before.  due is what the list stands for: the time the  *)
(* record has left from timeouts_last_time on.  sys_check_timeouts takes   *)
(* one step per expired record, diff being what is left of the time        *)
(* passed, or Idle.  Time passes in ticks of the hardware counter.         *)
(***************************************************************************)
EXTENDS Integers, Sequences, SequencesExt, FiniteSets

CONSTANTS Cyclic,           \* the timers sys_timeouts_init starts, of which
          Interval,         \* each re-arms itself after Interval[h]
          TCP_TMR_INTERVAL,
          TicksPerMs,       \* of the counter NOW() reads
          PING_TIMEOUT_MS, PingEvery, PingCount,
          Pings,            \* the ping sessions of a behaviour
          MaxNow            \* ticks of a behaviour

ASSUME TimerTimes ==
    /\ IsFiniteSet(Cyclic) /\ Cyclic # {} /\ Cyclic \cap {"tcpip", "ping_timeout", "ping_coarse_tmr"} = {}
    /\ Interval \in [Cyclic -> Nat \ {0}] /\ TCP_TMR_INTERVAL \in Nat \ {0} /\ TicksPerMs \in Nat \ {0}
    /\ PING_TIMEOUT_MS \in Nat /\ PingEvery \in Nat
    /\ PING_TIMEOUT_MS <= PingEvery       \* PING_TIMEOUT_MS is PING_COARSE, PingEvery a multiple of it
    /\ PingCount \in Nat /\ Pings \subseteq Nat \ {0}

VARIABLE tmr
NoArg == 0
Idle == -1
NoPing == [state |-> "none", sent |-> 0, left |-> 0, answered |-> 0, timeouts |-> 0]

-----------------------------------------------------------------------------
(* The record goes behind all that are due no later.                       *)
Before_Equal(L, msecs) == Cardinality({i \in DOMAIN L : L[i].due < msecs})
Before(L, msecs) == Cardinality({i \in DOMAIN L : L[i].due <= msecs})
Moved(r, by) == [r EXCEPT !.time = @ + by]
sys_timeout(s, msecs, h, arg) ==
    LET L == s.list
        k == Before(L, msecs)
        t == msecs - (IF k = 0 THEN 0 ELSE L[k].due)
        r == [h |-> h, arg |-> arg, time |-> t, due |-> msecs]
    IN  [s EXCEPT !.list = [i \in 1..(Len(L) + 1) |->
             IF i <= k THEN L[i] ELSE IF i = k + 1 THEN r ELSE IF i = k + 2 THEN Moved(L[i - 1], -t) ELSE L[i - 1]]]

sys_untimeout_Drops(s, h, arg) ==
    LET M == {i \in DOMAIN s.list : s.list[i].h = h /\ s.list[i].arg = arg}
    IN  IF M = {} THEN s ELSE [s EXCEPT !.list = RemoveAt(@, Min(M))]
sys_untimeout(s, h, arg) ==
    LET L == s.list
        M == {i \in DOMAIN L : L[i].h = h /\ L[i].arg = arg}
        k == Min(M)
    IN  IF M = {} THEN s
        ELSE [s EXCEPT !.list = [i \in 1..(Len(L) - 1) |->
                 IF i < k THEN L[i] ELSE IF i = k THEN Moved(L[i + 1], L[k].time) ELSE L[i + 1]]]

-----------------------------------------------------------------------------
(* The handlers.  tcpip_tcp_timer runs while there are connections.        *)
CyclicTimer(s, h) == sys_timeout([s EXCEPT !.fires[h] = @ + 1, !.tcp_tmr = IF h = "tcp" THEN @ + 1 ELSE @],
                                 Interval[h], h, NoArg)
tcpip_tcp_timer_Stays(s) ==
    LET s1 == [s EXCEPT !.tcp_tmr = @ + 1]
    IN  IF s.pcbs THEN sys_timeout(s1, TCP_TMR_INTERVAL, "tcpip", NoArg) ELSE s1
tcpip_tcp_timer(s) ==
    LET s1 == [s EXCEPT !.tcp_tmr = @ + 1]
    IN  IF s.pcbs THEN sys_timeout(s1, TCP_TMR_INTERVAL, "tcpip", NoArg) ELSE [s1 EXCEPT !.active = FALSE]
tcp_timer_needed(s) ==
    IF s.active \/ ~s.pcbs THEN s ELSE sys_timeout([s EXCEPT !.active = TRUE], TCP_TMR_INTERVAL, "tcpip", NoArg)

ping_timeout(s, p) == [s EXCEPT !.ping[p].timeouts = @ + 1]
ping_send(s, p) == [s EXCEPT !.seq = @ + 1, !.echo = @ \cup {s.seq + 1}, !.ping[p].sent = @ + 1]
PingOnce(s, p) ==
    sys_timeout(sys_timeout(ping_send(s, p), PING_TIMEOUT_MS, "ping_timeout", p), PingEvery, "ping_coarse_tmr", p)
ping_coarse_tmr(s, p) ==
    LET s1 == [s EXCEPT !.ping[p].left = @ - 1]
    IN  IF s1.ping[p].left # 0 THEN PingOnce(s1, p)
        ELSE [sys_untimeout(s1, "ping_coarse_tmr", p) EXCEPT !.ping[p].state = "freed", !.seq = 0]
ping_start(s, p) == PingOnce([s EXCEPT !.ping[p] = [NoPing EXCEPT !.state = "live", !.left = PingCount]], p)

(* A raw socket per session: the first one that knows the number eats the  *)
(* reply, whose ping it may be.  A number seen last is not reported again. *)
Takes(s, n) == {p \in Pings : s.ping[p].state = "live" /\ s.seq = n}
ping_recv_Early(s, n) ==
    LET p == Min(Takes(s, n))
    IN  IF Takes(s, n) = {} THEN s
        ELSE IF s.seqno = n THEN sys_untimeout(s, "ping_timeout", p)
        ELSE [sys_untimeout(s, "ping_timeout", p) EXCEPT !.ping[p].answered = @ + 1, !.seqno = n]
ping_recv(s, n) ==
    LET p == Min(Takes(s, n))
    IN  IF Takes(s, n) = {} \/ s.seqno = n THEN s
        ELSE [sys_untimeout(s, "ping_timeout", p) EXCEPT !.ping[p].answered = @ + 1, !.seqno = n]

Handler(s, r) == CASE r.h \in Cyclic          -> CyclicTimer(s, r.h)
                   [] r.h = "tcpip"           -> tcpip_tcp_timer(s)
                   [] r.h = "ping_timeout"    -> ping_timeout(s, r.arg)
                   [] r.h = "ping_coarse_tmr" -> ping_coarse_tmr(s, r.arg)

-----------------------------------------------------------------------------
(* sys_timeouts_init starts the cyclic timers in some order.               *)
sys_timeouts_init ==
    LET order == CHOOSE q \in [1..Cardinality(Cyclic) -> Cyclic] : \A h \in Cyclic : \E i \in DOMAIN q : q[i] = h
        s0 == [list |-> << >>, elapsed |-> 0, diff |-> Idle, now |-> 0, pcbs |-> FALSE, active |-> FALSE,
               fires |-> [h \in Cyclic |-> 0], tcp_tmr |-> 0, seq |-> 0, seqno |-> 0, echo |-> {},
               ping |-> [p \in Pings |-> NoPing]]
        f[i \in 0..Cardinality(Cyclic)] ==
            IF i = 0 THEN s0 ELSE sys_timeout(f[i - 1], Interval[order[i]], order[i], NoArg)
    IN  f[Cardinality(Cyclic)]

(* sys_check_timeouts: whole milliseconds count; once something expired,   *)
(* the rest of the time passed is forgotten (timeouts_last_time = now).    *)
CheckTimeouts == tmr.diff = Idle /\ tmr' = [tmr EXCEPT !.diff = tmr.elapsed \div TicksPerMs]
Expire ==
    /\ tmr.diff # Idle /\ tmr.list[1].time <= tmr.diff
    /\ LET L == tmr.list
           r == L[1]
           rest == [i \in 1..(Len(L) - 1) |-> [L[i + 1] EXCEPT !.due = @ - r.due]]
       IN  tmr' = Handler([tmr EXCEPT !.list = rest, !.diff = @ - r.time, !.elapsed = 0], r)
CheckDone == tmr.diff # Idle /\ tmr.list[1].time > tmr.diff /\ tmr' = [tmr EXCEPT !.diff = Idle]

(* Between two checks: time passes, connections come and go, pings start   *)
(* and are answered, in time, late or twice.                               *)
Passes == tmr.diff = Idle /\ tmr.now < MaxNow /\ tmr' = [tmr EXCEPT !.now = @ + 1, !.elapsed = @ + 1]
Connections(b) ==
    /\ tmr.diff = Idle /\ tmr.pcbs # b
    /\ tmr' = LET s == [tmr EXCEPT !.pcbs = b] IN IF b THEN tcp_timer_needed(s) ELSE s
PingStart(p) == tmr.diff = Idle /\ tmr.ping[p].state = "none" /\ tmr' = ping_start(tmr, p)
PingReply(n) == tmr.diff = Idle /\ tmr' = ping_recv(tmr, n)

TimersInit == tmr = sys_timeouts_init
TimersNext == \/ CheckTimeouts \/ Expire \/ CheckDone \/ Passes
              \/ \E b \in BOOLEAN : Connections(b)
              \/ \E p \in Pings : PingStart(p)
              \/ \E n \in tmr.echo : PingReply(n)
TimersSpec == TimersInit /\ [][TimersNext]_tmr
-----------------------------------------------------------------------------
(* What sys_timeout and sys_untimeout do to the times of the others leaves *)
(* every record with the time it had left, and the list in order.          *)
DeltaListTrue == \A i \in DOMAIN tmr.list :
    /\ tmr.list[i].time >= 0
    /\ tmr.list[i].due = tmr.list[i].time + (IF i = 1 THEN 0 ELSE tmr.list[i - 1].due)

Armed(h) == Cardinality({i \in DOMAIN tmr.list : tmr.list[i].h = h})

(* A cyclic timer neither dies nor doubles, and catches up without ever    *)
(* running ahead of the clock; the TCP timer runs while it is needed.      *)
TimersRun ==
    /\ \A h \in Cyclic : Armed(h) = 1 /\ tmr.fires[h] * Interval[h] * TicksPerMs <= tmr.now
    /\ tmr.pcbs => tmr.active
    /\ Armed("tcpip") = IF tmr.active THEN 1 ELSE 0

(* The timer of a ping holds its ping_msg, which is freed without a look   *)
(* at ping_timeout: no record survives its message.                        *)
NoDanglingPing == \A i \in DOMAIN tmr.list :
    tmr.list[i].arg # NoArg => tmr.ping[tmr.list[i].arg].state = "live"

(* Every ping sent is reported, as answered or as timed out, or will be.   *)
PingReported == \A p \in Pings :
    tmr.ping[p].sent <= tmr.ping[p].answered + tmr.ping[p].timeouts
                        + Cardinality({i \in DOMAIN tmr.list : tmr.list[i].h = "ping_timeout" /\ tmr.list[i].arg = p})

(* The list of timeouts is right after any insertion and removal, and      *)
(* those who live on it are called and reported to, alive (timers.c,       *)
(* ping.c).                                                                *)
TimersSound == DeltaListTrue /\ TimersRun /\ NoDanglingPing /\ PingReported
=============================================================================
