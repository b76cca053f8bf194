------------------------------- MODULE TcpPcb -------------------------------
(***************************************************************************)
(* The control block of one TCP connection (lwip/core/tcp.c): opening,     *)
(* closing, aborting, the receive window and the two timers.  The          *)
(* operators extend those of TcpOut and use its conventions; ev collects   *)
(* the callbacks made in a step and is empty between two steps.            *)
(*                                                                         *)
(* State "FREE" is a block that is not allocated.  tw counts how often the *)
(* block is linked into tcp_tw_pcbs (TCP_REG does not look).               *)
(***************************************************************************)
EXTENDS TcpOut

CONSTANTS
    InitialMss,     \* assumed until the peer's MSS option is read
    MtuMss,         \* netif mtu less the two headers: tcp_eff_send_mss
    TCP_MAXRTX, TCP_SYNMAXRTX,
    KeepCnt,        \* keep_cnt: probes before a silent peer is given up
    KeepAlive       \* SOF_KEEPALIVE is set

ASSUME PcbSizes == /\ {InitialMss, MtuMss, TCP_MAXRTX, TCP_SYNMAXRTX, KeepCnt} \subseteq Nat \ {0}
                   /\ KeepAlive \in BOOLEAN

EffMss(mss) == LWIP_MIN(mss, MtuMss)

(* tcp_alloc: a zeroed block with its defaults and a first sequence number.*)
tcp_alloc(iss) ==
    [state |-> "CLOSED", flags |-> {}, mss |-> InitialMss, tw |-> 0,
     snd_nxt |-> iss, lastack |-> iss, snd_lbb |-> iss, snd_wl1 |-> 0, snd_wl2 |-> iss,
     snd_wnd |-> 0, snd_buf |-> TCP_SND_BUF, snd_queuelen |-> 0,
     unsent |-> <<>>, unacked |-> <<>>, unsent_oversize |-> 0,
     cwnd |-> 1, ssthresh |-> 0, dupacks |-> 0, nrtx |-> 0, rtime |-> FALSE, persist |-> FALSE,
     acked |-> 0, keep_cnt_sent |-> 0,
     rcv_nxt |-> 0, rcv_wnd |-> TCP_WND, rcv_ann_wnd |-> TCP_WND, rcv_ann_right_edge |-> 0,
     refused |-> <<>>,
     out |-> <<>>, ev |-> <<>>, mem |-> TRUE, busy |-> FALSE, err |-> "ERR_OK"]

NoPcb == [tcp_alloc(0) EXCEPT !.state = "FREE"]

(* memp_free: only what the call has sent and called back remains.         *)
memp_free(p) == [NoPcb EXCEPT !.out = p.out, !.ev = p.ev, !.mem = p.mem, !.err = p.err]

Event(p, e) == [p EXCEPT !.ev = Append(@, e)]

tcp_pcb_purge(p) ==
    IF p.state \in {"CLOSED", "TIME_WAIT"} THEN p
    ELSE [p EXCEPT !.refused = <<>>, !.rtime = FALSE, !.unsent = <<>>, !.unacked = <<>>,
                   !.unsent_oversize = 0]

(* An acknowledgement that was put off is sent before the block goes.      *)
tcp_pcb_remove(p) ==
    LET q == tcp_pcb_purge(p)
        r == IF q.state # "TIME_WAIT" /\ "ACK_DELAY" \in q.flags
             THEN tcp_output(tcp_ack_now(q)) ELSE q
    IN  [r EXCEPT !.state = "CLOSED"]

(* TCP_RMV from the active list, TCP_REG into the time-wait list.          *)
ToTimeWait(p) == [p EXCEPT !.state = "TIME_WAIT", !.tw = @ + 1]

(* The application hears of it, unless the connection was over; p is the   *)
(* block before its removal, q after it.                                   *)
Abandoned(p, q, reset) ==
    IF p.state = "TIME_WAIT" THEN q
    ELSE Event(IF reset THEN tcp_rst(q, p.snd_nxt, p.rcv_nxt) ELSE q, <<"err", "ERR_ABRT">>)
tcp_abandon(p, reset) == memp_free(Abandoned(p, tcp_pcb_remove(p), reset))
tcp_abort(p) == tcp_abandon(p, TRUE)

-----------------------------------------------------------------------------
(* The receive window.                                                     *)

NewRightEdge(p) == SeqAdd(p.rcv_nxt, p.rcv_wnd)
EdgeMoves(p) == TCP_SEQ_GEQ(NewRightEdge(p),
                            SeqAdd(p.rcv_ann_right_edge, LWIP_MIN(TCP_WND \div 2, p.mss)))

(* A window is announced larger only in steps worth a segment, and never   *)
(* smaller than what was announced before.                                 *)
tcp_update_rcv_ann_wnd_Shrinks(p) == [p EXCEPT !.rcv_ann_wnd = IF EdgeMoves(p) THEN p.rcv_wnd ELSE 0]
tcp_update_rcv_ann_wnd(p) ==
    [p EXCEPT !.rcv_ann_wnd =
        IF EdgeMoves(p) THEN p.rcv_wnd
        ELSE IF TCP_SEQ_LT(p.rcv_ann_right_edge, p.rcv_nxt) THEN 0
        ELSE SeqSub(p.rcv_ann_right_edge, p.rcv_nxt)]

tcp_recved(p, len) ==
    LET q == [p EXCEPT !.rcv_wnd = LWIP_MIN(@ + len, TCP_WND)]
        inflation == IF EdgeMoves(q) THEN SeqSub(NewRightEdge(q), q.rcv_ann_right_edge) ELSE 0
        r == tcp_update_rcv_ann_wnd(q)
    IN  IF inflation >= TCP_WND \div 4 THEN tcp_output(tcp_ack_now(r)) ELSE r

-----------------------------------------------------------------------------
(* Opening and closing.                                                    *)

tcp_connect(p, iss) ==
    LET q == tcp_enqueue_flags(
                [p EXCEPT !.rcv_nxt = 0, !.snd_nxt = iss, !.lastack = SeqSub(iss, 1),
                          !.snd_lbb = SeqSub(iss, 1), !.rcv_wnd = TCP_WND, !.rcv_ann_wnd = TCP_WND,
                          !.rcv_ann_right_edge = 0, !.snd_wnd = TCP_WND, !.mss = EffMss(InitialMss),
                          !.cwnd = 1, !.ssthresh = 10 * EffMss(InitialMss), !.err = "ERR_OK"],
                {"SYN"})
    IN  IF q.err # "ERR_OK" THEN q ELSE tcp_output([q EXCEPT !.state = "SYN_SENT"])

(* Queue a FIN and move on; a full queue leaves the state alone.           *)
CloseWith(p, next) ==
    LET q == tcp_send_fin([p EXCEPT !.err = "ERR_OK"])
    IN  IF q.err # "ERR_OK" THEN q ELSE tcp_output([q EXCEPT !.state = next])

tcp_close_shutdown(p, rst_on_unacked_data) ==
    IF rst_on_unacked_data /\ (p.refused # <<>> \/ p.rcv_wnd # TCP_WND)
    THEN ToTimeWait(tcp_pcb_purge(tcp_rst(p, p.snd_nxt, p.rcv_nxt)))
    ELSE CASE p.state = "CLOSED"   -> memp_free(p)
           [] p.state = "SYN_SENT" -> memp_free(tcp_pcb_remove(p))
           [] p.state \in {"SYN_RCVD", "ESTABLISHED"} -> CloseWith(p, "FIN_WAIT_1")
           [] p.state = "CLOSE_WAIT" -> CloseWith(p, "LAST_ACK")
           [] OTHER -> [p EXCEPT !.err = "ERR_OK"]

tcp_close(p) == tcp_close_shutdown(SetFlags(p, {"RXCLOSED"}), TRUE)

tcp_shutdown(p, shut_rx, shut_tx) ==
    LET q == IF shut_rx THEN SetFlags([p EXCEPT !.refused = <<>>], {"RXCLOSED"}) ELSE p
    IN  IF shut_tx /\ q.state \in {"SYN_RCVD", "ESTABLISHED", "CLOSE_WAIT"}
        THEN tcp_close_shutdown(q, FALSE) ELSE q

-----------------------------------------------------------------------------
(* The application's receive callback: it takes the data and opens the     *)
(* window at once (tcp_recv_null does), keeps the data and calls           *)
(* tcp_recved later, refuses it (any error), or aborts the connection.     *)
TCP_EVENT_RECV_DropsRefused(p, data, cb) ==
    CASE cb = "take"   -> tcp_recved(Event(p, <<"recv", data>>), Len(data))
      [] cb = "keep"   -> Event(p, <<"recv", data>>)
      [] cb = "refuse" -> p
      [] cb = "abort"  -> tcp_abort(p)
TCP_EVENT_RECV(p, data, cb) ==
    CASE cb = "take"   -> tcp_recved(Event(p, <<"recv", data>>), Len(data))
      [] cb = "keep"   -> Event(p, <<"recv", data>>)
      [] cb = "refuse" -> [p EXCEPT !.refused = data]
      [] cb = "abort"  -> tcp_abort(p)

(* The fast timer: data the application refused is offered again, then a   *)
(* delayed acknowledgement is sent.                                        *)
OfferRefused(p, cb) ==
    IF p.refused = <<>> THEN p ELSE TCP_EVENT_RECV([p EXCEPT !.refused = <<>>], p.refused, cb)
SendDelayedAck(p) ==
    IF p.state # "FREE" /\ "ACK_DELAY" \in p.flags
    THEN ClearFlags(tcp_output(tcp_ack_now(p)), {"ACK_DELAY", "ACK_NOW"}) ELSE p
tcp_fasttmr(p, cb) == SendDelayedAck(OfferRefused(p, cb))

(* Retransmission after a timeout: back to one segment, then all of        *)
(* unacked is sent again.                                                  *)
RtoExpired(p) ==
    LET half == LWIP_MIN(p.cwnd, p.snd_wnd) \div 2
    IN  tcp_rexmit_rto([p EXCEPT !.ssthresh = IF half < 2 * p.mss THEN 2 * p.mss ELSE half,
                                 !.cwnd = p.mss])

GivenUp(p) == \/ p.state = "SYN_SENT" /\ p.nrtx = TCP_SYNMAXRTX
              \/ p.nrtx = TCP_MAXRTX

(* The slow timer on an active block.  rto: the running timer of the block *)
(* (persist or retransmission) expires; idle: tcp_ticks - tmr has passed   *)
(* the limit of the block's state ("short": the next keep-alive probe is   *)
(* due, "long": the peer is given up).  Probes are sent in turn, so "long" *)
(* comes after the last one, unless TF_RXCLOSED has stopped tmr.  With the *)
(* default pollinterval of 0 the tick ends with tcp_output.                *)
Watched(p) == KeepAlive /\ p.state \in {"ESTABLISHED", "CLOSE_WAIT"}
KeepAliveOver(p, idle) ==
    Watched(p) /\ idle = "long" /\ (p.keep_cnt_sent = KeepCnt \/ "RXCLOSED" \in p.flags)
TimerExpired(p, rto) ==
    CASE GivenUp(p) \/ ~rto -> p
      [] ~GivenUp(p) /\ rto /\ p.persist -> tcp_zero_window_probe(p)
      [] OTHER -> IF p.rtime /\ p.unacked # <<>> THEN RtoExpired(p) ELSE p
KeepAliveDue(p, idle) ==
    IF Watched(p) /\ idle = "short" /\ p.keep_cnt_sent < KeepCnt
    THEN [tcp_keepalive(p) EXCEPT !.keep_cnt_sent = @ + 1] ELSE p
RemoveIdle(p, dead) ==
    LET q == tcp_pcb_purge(p)
    IN  memp_free(Event(IF dead THEN tcp_rst(q, p.snd_nxt, p.rcv_nxt) ELSE q, <<"err", "ERR_ABRT">>))
EndSlowTmr(p, q, idle) ==
    IF \/ GivenUp(p) \/ KeepAliveOver(p, idle)
       \/ idle = "long" /\ p.state \in {"FIN_WAIT_2", "SYN_RCVD", "LAST_ACK"}
    THEN RemoveIdle(q, KeepAliveOver(p, idle)) ELSE tcp_output(q)
tcp_slowtmr(p, rto, idle) == EndSlowTmr(p, KeepAliveDue(TimerExpired(p, rto), idle), idle)
=============================================================================
