------------------------------- MODULE TcpOut -------------------------------
(***************************************************************************)
(* The output half of lwIP's TCP (lwip/core/tcp_out.c): how a connection   *)
(* turns application data and flags into segments, which of them the       *)
(* windows and the Nagle rule let out, and how they are sent again.        *)
(*                                                                         *)
(* Every function is an operator from a control block to a control block,  *)
(* a record with the fields of struct tcp_pcb that steer it.  Four fields  *)
(* are not in the C struct; they carry what a call does besides changing   *)
(* the block, and are empty between two steps of the stack:                *)
(*   out   the segments handed to ip_output, oldest first;                 *)
(*   mem   FALSE when the heap refuses the allocations of this call;       *)
(*   busy  tcp_input_pcb = pcb: a callback runs inside tcp_input;          *)
(*   err   the err_t the call returned.                                    *)
(* flags is the set of the TF_ bits that are set.  rtime and persist say   *)
(* whether the retransmission and the persist timer run; how long they run *)
(* (rto, sa, sv, rttest, the back-off tables) is left to the environment.  *)
(***************************************************************************)
EXTENDS Integers, Sequences, FiniteSets, SequencesExt

CONSTANTS
    TCP_MSS,            \* largest segment this build sends
    TCP_WND,            \* receive window
    TCP_SND_BUF,        \* bytes the application may have in flight
    TCP_SND_QUEUELEN,   \* pbufs the send queue may hold
    SeqSpace,             \* sequence numbers are u32_t: here modulo SeqSpace
    U16Mod              \* u16_t: cwnd, space

ASSUME TcpSizes == /\ {TCP_MSS, TCP_WND, TCP_SND_BUF, TCP_SND_QUEUELEN} \subseteq Nat \ {0}
                   /\ TCP_SND_BUF <= TCP_WND
                   /\ SeqSpace > 4 * TCP_WND /\ U16Mod > 2 * TCP_WND

(* Sequence arithmetic: the sign of a 32 bit difference.                   *)
SeqAdd(a, n) == (a + n) % SeqSpace
SeqSub(a, b) == (a - b) % SeqSpace
TCP_SEQ_LT(a, b)  == SeqSub(a, b) >= SeqSpace \div 2
TCP_SEQ_GEQ(a, b) == ~TCP_SEQ_LT(a, b)
TCP_SEQ_LEQ(a, b) == a = b \/ TCP_SEQ_LT(a, b)
TCP_SEQ_BETWEEN(a, b, c) == TCP_SEQ_GEQ(a, b) /\ TCP_SEQ_LEQ(a, c)

u16(x) == x % U16Mod
LWIP_MIN(a, b) == IF a < b THEN a ELSE b

(* A segment: its first sequence number, its payload, the flags of its     *)
(* header, the number of pbufs that hold it and the unused bytes at the    *)
(* end of the last of them (oversize_left).  On the wire it also has the   *)
(* acknowledgement and the window of the moment it is sent.                *)
Seg(seq, data, flags, clen, left) ==
    [seq |-> seq, data |-> data, flags |-> flags, clen |-> clen, left |-> left]
Wire(s, ack, wnd) == [seq |-> s.seq, data |-> s.data, flags |-> s.flags, ack |-> ack, wnd |-> wnd]
TCP_TCPLEN_NoSyn(s) == Len(s.data) + (IF "FIN" \in s.flags THEN 1 ELSE 0)
TCP_TCPLEN(s) == Len(s.data) + (IF s.flags \cap {"SYN", "FIN"} # {} THEN 1 ELSE 0)

SetFlags(p, f) == [p EXCEPT !.flags = @ \cup f]
ClearFlags(p, f) == [p EXCEPT !.flags = @ \ f]
tcp_ack_now(p) == SetFlags(p, {"ACK_NOW"})

(* Every second segment is acknowledged at once.                           *)
tcp_ack(p) == IF "ACK_DELAY" \in p.flags THEN tcp_ack_now(ClearFlags(p, {"ACK_DELAY"}))
              ELSE SetFlags(p, {"ACK_DELAY"})

(* A header without a queued segment: it announces the current window.     *)
tcp_output_alloc_header(p, seqno, data, flags) ==
    [p EXCEPT !.out = Append(@, Wire(Seg(seqno, data, flags, 0, 0), p.rcv_nxt, p.rcv_ann_wnd)),
              !.rcv_ann_right_edge = SeqAdd(p.rcv_nxt, p.rcv_ann_wnd)]

tcp_send_empty_ack(p) ==
    IF ~p.mem THEN [p EXCEPT !.err = "ERR_BUF"]
    ELSE ClearFlags(tcp_output_alloc_header(p, p.snd_nxt, <<>>, {"ACK"}), {"ACK_DELAY", "ACK_NOW"})

tcp_rst(p, seqno, ackno) ==
    IF ~p.mem THEN p
    ELSE [p EXCEPT !.out = Append(@, Wire(Seg(seqno, <<>>, {"RST", "ACK"}, 0, 0), ackno, TCP_WND))]

tcp_keepalive(p) ==
    IF ~p.mem THEN p ELSE tcp_output_alloc_header(p, SeqSub(p.snd_nxt, 1), <<>>, {"ACK"})

(* The persist timer: one byte of the oldest outstanding segment, or its   *)
(* bare FIN.  snd_nxt does not move.                                       *)
tcp_zero_window_probe(p) ==
    LET q == p.unacked \o p.unsent
        isFin == "FIN" \in q[1].flags /\ q[1].data = <<>>
    IN  IF q = <<>> \/ ~p.mem THEN p
        ELSE tcp_output_alloc_header(p, q[1].seq, IF isFin THEN <<>> ELSE SubSeq(q[1].data, 1, 1),
                                     IF isFin THEN {"ACK", "FIN"} ELSE {"ACK"})

-----------------------------------------------------------------------------
(* Transmission.                                                           *)

(* Insertion into a queue ordered by sequence number.                      *)
InsertBySeq(q, s) ==
    LET n == Cardinality({i \in DOMAIN q : \A j \in 1..i : TCP_SEQ_LT(q[j].seq, s.seq)})
    IN  SubSeq(q, 1, n) \o <<s>> \o SubSeq(q, n + 1, Len(q))

tcp_output_segment(p, s) ==
    [p EXCEPT !.out = Append(@, Wire(s, p.rcv_nxt, p.rcv_ann_wnd)),
              !.rcv_ann_right_edge = SeqAdd(p.rcv_nxt, p.rcv_ann_wnd),
              !.rtime = TRUE]

(* Bytes from lastack to the end of segment s: what the windows limit.     *)
ReachOf(p, s) == SeqAdd(SeqSub(s.seq, p.lastack), Len(s.data))

tcp_do_output_nagle(p) ==
    \/ p.unacked = <<>>
    \/ "INFR" \in p.flags
    \/ Len(p.unsent) > 1
    \/ Len(p.unsent) = 1 /\ Len(p.unsent[1].data) >= p.mss

(* One turn of the loop of tcp_output: the head of unsent goes out.        *)
SentUpTo(p, s, next) ==
    [p EXCEPT !.snd_nxt = IF TCP_SEQ_LT(@, next) THEN next ELSE @,
              !.unacked = IF TCP_TCPLEN(s) > 0 THEN InsertBySeq(@, s) ELSE @]
SendHead(p) ==
    LET syn == p.state = "SYN_SENT"
        s == [Head(p.unsent) EXCEPT !.flags = IF syn THEN @ ELSE @ \cup {"ACK"}]
    IN  SentUpTo(tcp_output_segment([p EXCEPT !.unsent = Tail(@),
                                              !.flags = IF syn THEN @ ELSE @ \ {"ACK_DELAY", "ACK_NOW"}], s),
                 s, SeqAdd(s.seq, TCP_TCPLEN(s)))

RECURSIVE SendWhileAllowed(_, _)
SendWhileAllowed(p, wnd) ==
    IF /\ p.unsent # <<>>
       /\ ReachOf(p, Head(p.unsent)) <= wnd
       /\ tcp_do_output_nagle(p) \/ p.flags \cap {"NAGLEMEMERR", "FIN"} # {}
    THEN SendWhileAllowed(SendHead(p), wnd) ELSE p

ForgetOversize_Kept(p) == p
ForgetOversize(p) == IF p.unsent = <<>> THEN [p EXCEPT !.unsent_oversize = 0] ELSE p

(* What is left unsent because of the peer's window starts the persist     *)
(* timer.                                                                  *)
EndOutput(p) ==
    ClearFlags([p EXCEPT !.persist = \/ @
                                    \/ /\ p.unsent # <<>>
                                       /\ ReachOf(p, Head(p.unsent)) > p.snd_wnd],
               {"NAGLEMEMERR"})

tcp_output(p) ==
    LET wnd == LWIP_MIN(p.snd_wnd, p.cwnd)
    IN  IF p.busy THEN p
        ELSE IF "ACK_NOW" \in p.flags /\ (p.unsent = <<>> \/ ReachOf(p, Head(p.unsent)) > wnd)
        THEN tcp_send_empty_ack(p)
        ELSE EndOutput(ForgetOversize(SendWhileAllowed(p, wnd)))

-----------------------------------------------------------------------------
(* Queueing.                                                               *)

tcp_enqueue_flags(p, flags) ==
    IF p.snd_queuelen >= TCP_SND_QUEUELEN
    THEN SetFlags([p EXCEPT !.err = "ERR_MEM"], {"NAGLEMEMERR"})
    ELSE IF p.snd_buf = 0 THEN [p EXCEPT !.err = "ERR_MEM"]
    ELSE IF ~p.mem THEN SetFlags([p EXCEPT !.err = "ERR_MEM"], {"NAGLEMEMERR"})
    ELSE [p EXCEPT !.unsent = Append(@, Seg(p.snd_lbb, <<>>, flags, 1, 0)),
                   !.unsent_oversize = 0,
                   !.snd_lbb = SeqAdd(@, 1),
                   !.snd_buf = @ - 1,
                   !.flags = IF "FIN" \in flags THEN @ \cup {"FIN"} ELSE @,
                   !.snd_queuelen = @ + 1]

(* A FIN rides on the last unsent segment when that one has no flag yet.   *)
tcp_send_fin(p) ==
    IF p.unsent # <<>> /\ Last(p.unsent).flags \cap {"SYN", "FIN", "RST"} = {}
    THEN [p EXCEPT !.unsent[Len(p.unsent)].flags = @ \cup {"FIN"}]
    ELSE tcp_enqueue_flags(p, {"FIN"})

tcp_write_checks(p, len) ==
    IF p.state \notin {"ESTABLISHED", "CLOSE_WAIT", "SYN_SENT", "SYN_RCVD"} THEN "ERR_CONN"
    ELSE IF len = 0 THEN "ERR_OK"
    ELSE IF len > p.snd_buf \/ p.snd_queuelen >= TCP_SND_QUEUELEN THEN "ERR_MEM"
    ELSE "ERR_OK"

(* tcp_pbuf_prealloc: every pbuf is allocated TCP_MSS bytes long; what the *)
(* payload leaves unused is room for the next tcp_write.                   *)
Oversize(len) == TCP_MSS - len

(* The payload cut into new segments of at most pcb->mss bytes.            *)
CutIntoSegments(p, data, seqno) ==
    [i \in 1..((Len(data) + p.mss - 1) \div p.mss) |->
        LET a == (i - 1) * p.mss
            b == LWIP_MIN(a + p.mss, Len(data))
        IN  Seg(SeqAdd(seqno, a), SubSeq(data, a + 1, b), {}, 1, Oversize(b - a))]

(* The three phases: fill the spare room of the last unsent pbuf, chain a  *)
(* pbuf to the last unsent segment, then create segments.  A refusal of    *)
(* memory on the way changes nothing but TF_NAGLEMEMERR.                   *)
tcp_write(p, data) ==
    LET len   == Len(data)
        err   == tcp_write_checks(p, len)
        n     == Len(p.unsent)
        lastlen == IF n = 0 THEN 0 ELSE Len(p.unsent[n].data)
        used  == IF n = 0 THEN 0 ELSE LWIP_MIN(p.unsent_oversize, len)
        space == u16(p.mss - lastlen - used)
        chain == IF n > 0 /\ used < len /\ space > 0 /\ lastlen > 0
                 THEN LWIP_MIN(space, len - used) ELSE 0
        pos   == used + chain
        segs  == CutIntoSegments(p, SubSeq(data, pos + 1, len), SeqAdd(p.snd_lbb, pos))
        qlen  == p.snd_queuelen + (IF chain > 0 THEN 1 ELSE 0) + Len(segs)
        refused == \/ segs # <<>> /\ qlen > TCP_SND_QUEUELEN
                   \/ ~p.mem /\ pos + Len(segs) > used
        over  == IF segs # <<>> THEN Oversize(Len(Last(segs).data))
                 ELSE IF chain > 0 THEN Oversize(chain) ELSE p.unsent_oversize - used
        grown == IF n = 0 THEN <<>>
                 ELSE [p.unsent EXCEPT ![n].data = @ \o SubSeq(data, 1, pos),
                                       ![n].clen = @ + (IF chain > 0 THEN 1 ELSE 0),
                                       ![n].left = IF chain > 0 THEN Oversize(chain) ELSE @ - used]
    IN  IF err # "ERR_OK" THEN
            [p EXCEPT !.err = err, !.flags = IF err = "ERR_MEM" THEN @ \cup {"NAGLEMEMERR"} ELSE @]
        ELSE IF refused THEN SetFlags([p EXCEPT !.err = "ERR_MEM"], {"NAGLEMEMERR"})
        ELSE [p EXCEPT !.unsent = grown \o segs,
                       !.unsent_oversize = over,
                       !.snd_lbb = SeqAdd(@, len),
                       !.snd_buf = @ - len,
                       !.snd_queuelen = qlen,
                       !.err = "ERR_OK"]

-----------------------------------------------------------------------------
(* Retransmission.                                                         *)

tcp_rexmit_rto_Appends(p) ==
    IF p.unacked = <<>> THEN p
    ELSE tcp_output([p EXCEPT !.unsent = p.unsent \o p.unacked, !.unacked = <<>>, !.nrtx = @ + 1])
tcp_rexmit_rto(p) ==
    IF p.unacked = <<>> THEN p
    ELSE tcp_output([p EXCEPT !.unsent = p.unacked \o p.unsent, !.unacked = <<>>, !.nrtx = @ + 1])

tcp_rexmit(p) ==
    IF p.unacked = <<>> THEN p
    ELSE [p EXCEPT !.unsent = InsertBySeq(@, Head(p.unacked)),
                   !.unacked = Tail(@), !.nrtx = @ + 1]

tcp_rexmit_fast(p) ==
    LET half == LWIP_MIN(p.cwnd, p.snd_wnd) \div 2
        ss   == IF half < 2 * p.mss THEN 2 * p.mss ELSE half
    IN  IF p.unacked = <<>> \/ "INFR" \in p.flags THEN p
        ELSE SetFlags([tcp_rexmit(p) EXCEPT !.ssthresh = ss, !.cwnd = u16(ss + 3 * p.mss)], {"INFR"})
=============================================================================
