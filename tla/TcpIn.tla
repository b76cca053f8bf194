-------------------------------- MODULE TcpIn --------------------------------
(***************************************************************************)
(* The input half of lwIP's TCP (lwip/core/tcp_in.c): what one segment     *)
(* does to a control block.  cb holds the application's answers to the     *)
(* callbacks made on the way.  rd and rf stand for the file-static         *)
(* recv_data and recv_flags; TCP_QUEUE_OOSEQ is 0, so data out of order is *)
(* dropped and answered with an empty acknowledgement.                     *)
(***************************************************************************)
EXTENDS TcpPcb

(* tcp_parseopt: only a SYN carries options, the MSS of the same build.    *)
tcp_parseopt(p, s) == IF "SYN" \in s.flags THEN [p EXCEPT !.mss = TCP_MSS] ELSE p

(* An answer to a segment that fits no connection.                         *)
RstFor(p, s) == tcp_rst(p, s.ack, SeqAdd(s.seq, TCP_TCPLEN(s)))

-----------------------------------------------------------------------------
(* tcp_receive, first part: the acknowledgement.                           *)

UpdateSndWnd(p, s) ==
    IF \/ TCP_SEQ_LT(p.snd_wl1, s.seq)
       \/ p.snd_wl1 = s.seq /\ TCP_SEQ_LT(p.snd_wl2, s.ack)
       \/ p.snd_wl2 = s.ack /\ s.wnd > p.snd_wnd
    THEN [p EXCEPT !.snd_wnd = s.wnd, !.snd_wl1 = s.seq, !.snd_wl2 = s.ack,
                   !.persist = @ /\ s.wnd = 0]
    ELSE p

(* A duplicate acknowledgement: no data, the same right window edge, the   *)
(* retransmission timer running, and the number acknowledged before.       *)
IsDupAck(old, p, s) ==
    /\ TCP_TCPLEN(s) = 0
    /\ SeqAdd(p.snd_wl2, p.snd_wnd) = SeqAdd(old.snd_wl2, old.snd_wnd)
    /\ p.rtime /\ p.lastack = s.ack

(* cwnd is a u16_t that must not wrap; dupacks counts on up to 4.          *)
GrowCwnd(p, by) == [p EXCEPT !.cwnd = IF u16(@ + by) > @ THEN u16(@ + by) ELSE @]
DupAck(p) ==
    LET q == [p EXCEPT !.dupacks = LWIP_MIN(@ + 1, 4)]
    IN  IF p.dupacks >= 3 THEN GrowCwnd(q, q.mss)
        ELSE IF q.dupacks = 3 THEN tcp_rexmit_fast(q) ELSE q

(* The segments at the head of a queue that are done leave it; the FIN     *)
(* among them is not reported to the application.                          *)
DropHead_KeepsCount(p, q, done) == [rest |-> SubSeq(q, Cardinality(done) + 1, Len(q)), p |-> p]
DropHead(p, q, done) ==
    LET n == Cardinality({i \in DOMAIN q : 1..i \subseteq done})
        gone == SubSeq(q, 1, n)
        fins == Cardinality({i \in 1..n : "FIN" \in gone[i].flags})
        clen == [i \in 0..n |-> IF i = 0 THEN 0 ELSE gone[i].clen]
        pbufs == FoldFunctionOnSet(+, 0, clen, 0..n)
    IN  [rest |-> SubSeq(q, n + 1, Len(q)),
         p |-> [p EXCEPT !.acked = IF @ > fins THEN @ - fins ELSE 0, !.snd_queuelen = @ - pbufs]]

AckedOf(p, s) ==
    LET u == p.unacked
    IN  {i \in DOMAIN u : TCP_SEQ_LEQ(SeqAdd(u[i].seq, TCP_TCPLEN(u[i])), s.ack)}
KeepUnacked(d) == [d.p EXCEPT !.unacked = d.rest, !.rtime = d.rest # <<>>]
FreeAcked(p, s) == KeepUnacked(DropHead(p, p.unacked, AckedOf(p, s)))
NewAck(p, s) ==
    LET n == SeqSub(s.ack, p.lastack)
        cwnd == IF "INFR" \in p.flags THEN p.ssthresh ELSE p.cwnd
    IN  FreeAcked(GrowCwnd([p EXCEPT !.cwnd = cwnd, !.flags = @ \ {"INFR"}, !.nrtx = 0, !.acked = n,
                                     !.snd_buf = @ + n, !.dupacks = 0, !.lastack = s.ack],
                           IF cwnd < p.ssthresh THEN p.mss ELSE (p.mss * p.mss) \div cwnd), s)

(* Segments that wait to be sent again may be acknowledged meanwhile.      *)
KeepUnsent(d) == [d.p EXCEPT !.unsent = d.rest]
FreeUnsent(p, s) ==
    LET u == p.unsent
    IN  KeepUnsent(DropHead(p, u,
            {i \in DOMAIN u : TCP_SEQ_BETWEEN(s.ack, SeqAdd(u[i].seq, TCP_TCPLEN(u[i])), p.snd_nxt)}))

AckNumber(old, p, s) ==
    IF TCP_SEQ_LEQ(s.ack, p.lastack)
    THEN IF IsDupAck(old, p, s) THEN DupAck([p EXCEPT !.acked = 0])
         ELSE [p EXCEPT !.acked = 0, !.dupacks = 0]
    ELSE IF TCP_SEQ_BETWEEN(s.ack, SeqAdd(p.lastack, 1), p.snd_nxt) THEN NewAck(p, s)
    ELSE [p EXCEPT !.acked = 0]
ReceiveAck(p, s) == FreeUnsent(AckNumber(p, UpdateSndWnd(p, s), s), s)

-----------------------------------------------------------------------------
(* tcp_receive, second part: the data.  The result is the block with the   *)
(* data to deliver and the flags of the input.                             *)

(* What lies before rcv_nxt is cut off.                                    *)
TrimFront_KeepsData(p, s) ==
    IF TCP_SEQ_BETWEEN(p.rcv_nxt, SeqAdd(s.seq, 1), SeqAdd(s.seq, TCP_TCPLEN(s) - 1))
    THEN [s EXCEPT !.seq = p.rcv_nxt] ELSE s
TrimFront(p, s) ==
    LET off == SeqSub(p.rcv_nxt, s.seq)
    IN  IF TCP_SEQ_BETWEEN(p.rcv_nxt, SeqAdd(s.seq, 1), SeqAdd(s.seq, TCP_TCPLEN(s) - 1))
        THEN [s EXCEPT !.seq = p.rcv_nxt, !.data = SubSeq(@, off + 1, Len(@))] ELSE s

(* What lies beyond the window is cut off, the FIN first.                  *)
TrimToWindow(p, s) ==
    IF TCP_TCPLEN(s) > p.rcv_wnd
    THEN [s EXCEPT !.flags = @ \ {"FIN"}, !.data = SubSeq(@, 1, LWIP_MIN(p.rcv_wnd, Len(@)))]
    ELSE s

InWindow(p, seqno) == TCP_SEQ_BETWEEN(seqno, p.rcv_nxt, SeqSub(SeqAdd(p.rcv_nxt, p.rcv_wnd), 1))

AcceptInOrder(p, s) ==
    LET t == TrimToWindow(p, s)
        q == [p EXCEPT !.rcv_nxt = SeqAdd(@, TCP_TCPLEN(t)), !.rcv_wnd = @ - TCP_TCPLEN(t)]
    IN  [p |-> tcp_ack(tcp_update_rcv_ann_wnd(q)), rd |-> t.data,
         rf |-> IF "FIN" \in t.flags THEN {"GOT_FIN"} ELSE {}]

ReceiveData(p, s) ==
    LET t == TrimFront(p, s)
        p1 == IF t = s /\ TCP_SEQ_LT(s.seq, p.rcv_nxt) THEN tcp_ack_now(p) ELSE p
        only(q) == [p |-> q, rd |-> <<>>, rf |-> {}]
    IN  IF TCP_TCPLEN(s) = 0
        THEN only(IF InWindow(p, s.seq) THEN p ELSE tcp_ack_now(p))
        ELSE IF InWindow(p1, t.seq) /\ t.seq = p1.rcv_nxt THEN AcceptInOrder(p1, t)
        ELSE only(tcp_send_empty_ack(p1))

tcp_receive(p, s) == ReceiveData(IF "ACK" \in s.flags THEN ReceiveAck(p, s) ELSE p, s)

-----------------------------------------------------------------------------
(* tcp_process: the state machine of RFC 793.                              *)

Result(p) == [p |-> p, rd |-> <<>>, rf |-> {}]

(* The acknowledgement covers all that was sent, the FIN with it.          *)
AcksAll(p, s) == "ACK" \in s.flags /\ s.ack = p.snd_nxt

OnRst(p, s) ==
    IF \/ p.state = "SYN_SENT" /\ s.ack = p.snd_nxt
       \/ p.state # "SYN_SENT" /\ TCP_SEQ_BETWEEN(s.seq, p.rcv_nxt, NewRightEdge(p))
    THEN [p |-> ClearFlags(p, {"ACK_DELAY"}), rd |-> <<>>, rf |-> {"RESET"}]
    ELSE Result(p)

InSynSent(p, s) ==
    IF {"ACK", "SYN"} \subseteq s.flags /\ s.ack = SeqAdd(Head(p.unacked).seq, 1)
    THEN LET mss == EffMss(p.mss)
             q == [p EXCEPT !.snd_buf = @ + 1, !.rcv_nxt = SeqAdd(s.seq, 1),
                            !.rcv_ann_right_edge = SeqAdd(s.seq, 1), !.lastack = s.ack,
                            !.snd_wnd = s.wnd, !.snd_wl1 = SeqSub(s.seq, 1), !.state = "ESTABLISHED",
                            !.mss = mss, !.ssthresh = 10 * mss,
                            !.cwnd = IF @ = 1 THEN 2 * mss ELSE mss,
                            !.snd_queuelen = @ - 1, !.unacked = Tail(@),
                            !.rtime = Tail(p.unacked) # <<>>,
                            !.nrtx = IF Tail(p.unacked) = <<>> THEN @ ELSE 0]
         IN  Result(tcp_ack_now(Event(q, <<"connected">>)))
    ELSE IF "ACK" \in s.flags THEN Result(RstFor(p, s))
    ELSE Result(p)

(* r is what tcp_receive made of the segment that opened the connection.   *)
Opened(p, r) ==
    LET q == [r.p EXCEPT !.acked = IF @ = 0 THEN 0 ELSE @ - 1,
                         !.cwnd = IF p.cwnd = 1 THEN 2 * r.p.mss ELSE r.p.mss]
    IN  [r EXCEPT !.p = IF "GOT_FIN" \in r.rf
                        THEN tcp_ack_now([q EXCEPT !.state = "CLOSE_WAIT"]) ELSE q]

(* Any error from the accept callback but ERR_ABRT aborts the connection.  *)
InSynRcvd(p, s, cb) ==
    IF "ACK" \in s.flags
    THEN IF ~TCP_SEQ_BETWEEN(s.ack, SeqAdd(p.lastack, 1), p.snd_nxt) THEN Result(RstFor(p, s))
         ELSE IF cb.accept # "ok" THEN Result(tcp_abort([p EXCEPT !.state = "ESTABLISHED"]))
         ELSE Opened(p, tcp_receive(Event([p EXCEPT !.state = "ESTABLISHED"], <<"accept">>), s))
    ELSE IF "SYN" \in s.flags /\ s.seq = SeqSub(p.rcv_nxt, 1) THEN Result(tcp_rexmit(p))
    ELSE Result(p)

(* The states of an open connection: what a FIN and the acknowledgement of *)
(* our own FIN do after the segment was received.                          *)
AfterReceive(p, r, s) ==
    LET fin == "GOT_FIN" \in r.rf
        all == AcksAll(r.p, s)
        with(q) == [r EXCEPT !.p = q]
    IN  CASE p.state \in {"ESTABLISHED", "CLOSE_WAIT"} /\ fin ->
                with(tcp_ack_now([r.p EXCEPT !.state = "CLOSE_WAIT"]))
          [] p.state = "FIN_WAIT_1" /\ fin /\ all -> with(ToTimeWait(tcp_pcb_purge(tcp_ack_now(r.p))))
          [] p.state = "FIN_WAIT_1" /\ fin /\ ~all -> with(tcp_ack_now([r.p EXCEPT !.state = "CLOSING"]))
          [] p.state = "FIN_WAIT_1" /\ ~fin /\ all -> with([r.p EXCEPT !.state = "FIN_WAIT_2"])
          [] p.state = "FIN_WAIT_2" /\ fin -> with(ToTimeWait(tcp_pcb_purge(tcp_ack_now(r.p))))
          [] p.state = "CLOSING" /\ all -> with(ToTimeWait(tcp_pcb_purge(r.p)))
          [] p.state = "LAST_ACK" /\ all -> [r EXCEPT !.rf = @ \cup {"CLOSED"}]
          [] OTHER -> r
InOpenStates(p, s) == AfterReceive(p, tcp_receive(p, s), s)

tcp_process(p, s, cb) ==
    LET q == tcp_parseopt([p EXCEPT !.keep_cnt_sent = 0], s)
    IN  CASE "RST" \in s.flags -> OnRst(p, s)
          [] "RST" \notin s.flags /\ "SYN" \in s.flags /\ p.state \notin {"SYN_SENT", "SYN_RCVD"} ->
                Result(tcp_ack_now(p))
          [] OTHER -> CASE p.state = "SYN_SENT" -> InSynSent(q, s)
                        [] p.state = "SYN_RCVD" -> InSynRcvd(q, s, cb)
                        [] OTHER -> InOpenStates(q, s)

-----------------------------------------------------------------------------
(* tcp_input on an active block: data refused before is offered first,     *)
(* the segment is processed, the callbacks are made, and tcp_output ends.  *)

(* recv(NULL): the peer has closed.                                        *)
Released(p) == IF p.err = "ERR_OK" THEN Event(p, <<"released">>) ELSE p
TCP_EVENT_CLOSED(p, cb) ==
    LET q == Event(p, <<"closed">>)
    IN  CASE cb = "close" -> Released(tcp_close([q EXCEPT !.err = "ERR_OK"]))
          [] cb = "abort" -> tcp_abort(q)
          [] OTHER -> q

(* tcp_input_pcb = NULL, then what the callbacks queued is sent.           *)
EndInput_StillSet(p) == tcp_output(p)
EndInput(p) == tcp_output([p EXCEPT !.busy = FALSE])

DeliverSent(p) == IF p.acked > 0 THEN Event(p, <<"sent", p.acked>>) ELSE p
DeliverData(p, r, cb) ==
    IF r.rd = <<>> THEN p
    ELSE IF "RXCLOSED" \in p.flags THEN tcp_abort(p) ELSE TCP_EVENT_RECV(p, r.rd, cb.recv)
DeliverFin(p, r, cb) ==
    IF "GOT_FIN" \notin r.rf \/ p.state = "FREE" THEN p
    ELSE TCP_EVENT_CLOSED([p EXCEPT !.rcv_wnd = IF @ # TCP_WND THEN @ + 1 ELSE @], cb.closed)
SendQueued(p) == IF p.state = "FREE" THEN p ELSE EndInput(p)
Deliver(p, r, cb) == SendQueued(DeliverFin(DeliverData(DeliverSent(p), r, cb), r, cb))

AfterProcess(r, cb) ==
    CASE r.p.state = "FREE" -> r.p
      [] "RESET" \in r.rf  -> memp_free(tcp_pcb_remove(Event(r.p, <<"err", "ERR_RST">>)))
      [] "CLOSED" \in r.rf ->
            memp_free(tcp_pcb_remove(IF "RXCLOSED" \in r.p.flags THEN r.p
                                     ELSE Event(r.p, <<"err", "ERR_CLSD">>)))
      [] OTHER -> Deliver(r.p, r, cb)

ProcessInput(p, s, cb) ==
    IF p.state = "FREE" \/ (p.refused # <<>> /\ TCP_TCPLEN(s) > 0) THEN p
    ELSE AfterProcess(tcp_process([p EXCEPT !.busy = TRUE], s, cb), cb)
InputActive(p, s, cb) == ProcessInput(OfferRefused(p, cb.recv), s, cb)

-----------------------------------------------------------------------------
(* The other blocks a segment can meet.                                    *)

tcp_timewait_input(p, s) ==
    IF "RST" \in s.flags THEN p
    ELSE IF "SYN" \in s.flags /\ TCP_SEQ_BETWEEN(s.seq, p.rcv_nxt, NewRightEdge(p)) THEN RstFor(p, s)
    ELSE IF TCP_TCPLEN(s) > 0 THEN tcp_output(tcp_ack_now(p))
    ELSE p

(* A listener answers a SYN with a new block; a full heap drops the SYN.   *)
tcp_listen_input(s, iss, mem) ==
    LET n == [tcp_alloc(iss) EXCEPT !.state = "SYN_RCVD", !.rcv_nxt = SeqAdd(s.seq, 1),
                 !.rcv_ann_right_edge = SeqAdd(s.seq, 1), !.snd_wnd = s.wnd, !.ssthresh = s.wnd,
                 !.snd_wl1 = SeqSub(s.seq, 1), !.mss = EffMss(TCP_MSS), !.mem = mem]
        q == tcp_enqueue_flags(n, {"SYN", "ACK"})
        none == [NoPcb EXCEPT !.mem = mem]
    IN  IF "ACK" \in s.flags THEN tcp_rst(none, SeqAdd(s.ack, 1), SeqAdd(s.seq, TCP_TCPLEN(s)))
        ELSE IF "SYN" \in s.flags
        THEN IF q.err # "ERR_OK" THEN none ELSE tcp_output(q)
        ELSE none
=============================================================================
