--------------------------------- MODULE Tcp ---------------------------------
(***************************************************************************)
(* Two hosts that run lwIP's TCP, a client that connects and a server that *)
(* listens, over a network that loses, duplicates and reorders.  Each host *)
(* has room for one connection block; the stack is single-threaded, so a   *)
(* step is one API call, one timer tick or one segment, callbacks and      *)
(* output included.                                                        *)
(***************************************************************************)
EXTENDS TcpIn

CONSTANTS
    ClientBytes, ServerBytes,   \* what the two applications write
    MaxWrite,    \* largest single tcp_write
    Rare,        \* callback answers and calls that count as faults
    FirstIss, IssStep,   \* tcp_next_iss: where it starts, ticks between two
    NetCap,      \* segments in flight to one host
    MaxFaults    \* losses, duplicates, refused allocations, timeouts and
                 \* rare calls of one behaviour

VARIABLES
    pcb,    \* the connection block of each host
    net,    \* segments on their way to each host
    app,    \* what each application has done and has been told
    iss,    \* tcp_next_iss
    faults  \* faults still to come
vars == <<pcb, net, app, iss, faults>>

Host == {"client", "server"}
Peer(h) == IF h = "client" THEN "server" ELSE "client"
Stream == [client |-> ClientBytes, server |-> ServerBytes]

(* wrote: bytes accepted by tcp_write; got: bytes taken from the receive   *)
(* callback; unread: of these, bytes not yet given back by tcp_recved;     *)
(* sent: total of the sent callbacks; base: sequence number of the first   *)
(* byte; ref: the application may still use the block.                     *)
NewApp == [wrote |-> 0, got |-> <<>>, unread |-> 0, sent |-> 0, eof |-> FALSE,
           base |-> 0, ref |-> FALSE, opened |-> FALSE]

Init == /\ pcb = [h \in Host |-> NoPcb]
        /\ net = [h \in Host |-> <<>>]
        /\ app = [h \in Host |-> NewApp]
        /\ iss = [h \in Host |-> FirstIss]
        /\ faults = MaxFaults

-----------------------------------------------------------------------------
(* The callbacks of a step, in the order they were made.                   *)
Told(a, e) ==
    CASE e[1] = "sent"   -> [a EXCEPT !.sent = @ + e[2]]
      [] e[1] = "recv"   -> [a EXCEPT !.got = @ \o e[2]]
      [] e[1] = "accept" -> [NewApp EXCEPT !.ref = TRUE, !.base = a.base, !.opened = TRUE]
      [] e[1] = "closed" -> [a EXCEPT !.eof = TRUE]
      [] e[1] \in {"err", "released"} -> [a EXCEPT !.ref = FALSE]
      [] e[1] = "connected" -> a

(* The end of every step at host h: the block q becomes the host's, what   *)
(* it sent enters the network, the application (as a) hears its callbacks. *)
(* keep: data of this step that tcp_recved is still owed for.              *)
Commit(h, q, n, a, keep) ==
    LET b == FoldLeft(Told, a, q.ev)
        c == [b EXCEPT !.unread = IF b.ref THEN @ + (IF keep THEN Len(b.got) - Len(a.got) ELSE 0) ELSE 0]
    IN  /\ Len(n[Peer(h)]) + Len(q.out) <= NetCap
        /\ pcb' = [pcb EXCEPT ![h] = [q EXCEPT !.out = <<>>, !.ev = <<>>, !.mem = TRUE,
                                               !.err = "ERR_OK"]]
        /\ net' = [n EXCEPT ![Peer(h)] = @ \o q.out]
        /\ app' = [app EXCEPT ![h] = c]

(* A block linked twice into tcp_tw_pcbs is a cycle: the walks of          *)
(* tcp_slowtmr and tcp_input do not come back from it.                     *)
Runs(h) == pcb[h].tw < 2

(* A step may find the heap exhausted (~ok), a segment may arrive twice, a *)
(* timer may expire, the application may do what it rarely does: each is   *)
(* one of the faults of a behaviour.                                       *)
Cost(n) == faults >= n /\ faults' = faults - n
One(b) == IF b THEN 1 ELSE 0
Memory(ok) == Cost(One(~ok))

(* The answers of the application's callbacks: the usual ones, and those   *)
(* that differ in one callback.                                            *)
Usual == [recv |-> "take", closed |-> "close", accept |-> "ok"]
Answers == {Usual} \cup {[Usual EXCEPT !.recv = x] : x \in {"keep", "refuse", "abort"}}
                   \cup {[Usual EXCEPT !.closed = x] : x \in {"none", "abort"}}
                   \cup {[Usual EXCEPT !.accept = "refuse"]}
RareAnswer(cb) == One(\E f \in DOMAIN cb : cb[f] # Usual[f] /\ cb[f] \in Rare)

With(h, ok) == [pcb[h] EXCEPT !.mem = ok]

-----------------------------------------------------------------------------
(* Calls of the application.                                               *)

Connect(ok) ==
    /\ Memory(ok) /\ pcb["client"].state = "FREE" /\ ~app["client"].opened
    /\ LET i == iss["client"]
           q == tcp_connect([tcp_alloc(i) EXCEPT !.mem = ok], SeqAdd(i, IssStep))
       IN  Commit("client", IF q.err = "ERR_OK" THEN q ELSE memp_free(q), net,
                  IF q.err = "ERR_OK"
                  THEN [NewApp EXCEPT !.ref = TRUE, !.opened = TRUE, !.base = SeqAdd(i, IssStep)]
                  ELSE NewApp, FALSE)
    /\ UNCHANGED iss

(* tcp_write of the next k bytes of the host's stream.                     *)
Write(h, k, ok) ==
    LET a == app[h]
        q == tcp_write(With(h, ok), [i \in 1..k |-> a.wrote + i])
    IN  /\ Memory(ok) /\ Runs(h) /\ a.ref /\ pcb[h].state # "FREE" /\ a.wrote + k <= Stream[h]
        /\ Commit(h, q, net, IF q.err = "ERR_OK" THEN [a EXCEPT !.wrote = @ + k] ELSE a, FALSE)
        /\ UNCHANGED iss

Output(h, ok) ==
    /\ Memory(ok) /\ Runs(h) /\ app[h].ref /\ pcb[h].unsent # <<>>
    /\ Commit(h, tcp_output(With(h, ok)), net, app[h], FALSE)
    /\ UNCHANGED iss

(* The application has read what it kept.                                  *)
Recved(h) ==
    /\ Runs(h) /\ app[h].ref /\ app[h].unread > 0
    /\ pcb[h].state \notin {"FREE", "TIME_WAIT"}
    /\ Commit(h, tcp_recved(pcb[h], app[h].unread), net, [app[h] EXCEPT !.unread = 0], FALSE)
    /\ UNCHANGED <<iss, faults>>

(* tcp_close returns an error when no FIN can be queued: the caller keeps  *)
(* the block and tries again.                                              *)
Close(h, ok) ==
    LET q == tcp_close(With(h, ok))
    IN  /\ Memory(ok) /\ Runs(h) /\ app[h].ref /\ pcb[h].state # "FREE"
        /\ Commit(h, q, net, IF q.err = "ERR_OK" THEN [app[h] EXCEPT !.ref = FALSE, !.unread = 0]
                             ELSE app[h], FALSE)
        /\ UNCHANGED iss

Shutdown(h, rx, tx) ==
    /\ Cost(One("shutdown" \in Rare)) /\ Runs(h) /\ app[h].ref /\ (rx \/ tx)
    /\ pcb[h].state \notin {"FREE", "TIME_WAIT"}
    /\ Commit(h, tcp_shutdown(pcb[h], rx, tx), net, app[h], FALSE)
    /\ UNCHANGED iss

Abort(h) ==
    /\ Cost(One("abort" \in Rare)) /\ Runs(h) /\ app[h].ref /\ pcb[h].state # "FREE"
    /\ Commit(h, tcp_abort(pcb[h]), net, app[h], FALSE)
    /\ UNCHANGED iss

-----------------------------------------------------------------------------
(* Timers.                                                                 *)

FastTmr(h, cb, ok) ==
    /\ Cost(One(~ok) + RareAnswer(cb)) /\ Runs(h) /\ pcb[h].state \notin {"FREE", "CLOSED", "TIME_WAIT"}
    /\ pcb[h].refused # <<>> \/ "ACK_DELAY" \in pcb[h].flags
    /\ cb # Usual => pcb[h].refused # <<>> /\ cb.recv # Usual.recv
    /\ Commit(h, tcp_fasttmr(With(h, ok), cb.recv), net, app[h], cb.recv = "keep")
    /\ UNCHANGED iss

SlowTmr(h, rto, idle, ok) ==
    /\ Runs(h) /\ pcb[h].state \notin {"FREE", "CLOSED", "TIME_WAIT"}
    /\ Cost(One(~ok) + One(idle # "no") + One(rto /\ \E g \in Host : net[g] # <<>>))
    /\ rto => pcb[h].persist \/ (pcb[h].rtime /\ pcb[h].nrtx <= TCP_MAXRTX)
    /\ idle # "no" => \/ KeepAlive /\ pcb[h].state \in {"ESTABLISHED", "CLOSE_WAIT"}
                      \/ idle = "long" /\ pcb[h].state \in {"FIN_WAIT_2", "SYN_RCVD", "LAST_ACK"}
    /\ Commit(h, tcp_slowtmr(With(h, ok), rto, idle), net, app[h], FALSE)
    /\ UNCHANGED iss

(* 2 MSL after the last FIN the block is freed, without a callback.        *)
TimeWaitTmr(h) ==
    /\ Runs(h) /\ pcb[h].state = "TIME_WAIT"
    /\ Commit(h, memp_free(tcp_pcb_purge(pcb[h])), net, [app[h] EXCEPT !.ref = FALSE], FALSE)
    /\ UNCHANGED <<iss, faults>>

-----------------------------------------------------------------------------
(* The network.                                                            *)

(* tcp_input: the active block, then a block in TIME_WAIT, then the        *)
(* listener of the server (which has room only when its block is free),    *)
(* and a reset when nothing matches.                                       *)
tcp_input(h, s, cb, ok) ==
    LET p == With(h, ok)
    IN  CASE p.state = "TIME_WAIT" -> tcp_timewait_input(p, s)
          [] p.state \notin {"FREE", "CLOSED", "TIME_WAIT"} -> InputActive(p, s, cb)
          [] p.state \in {"FREE", "CLOSED"} /\ h = "server" -> tcp_listen_input(s, iss[h], ok)
          [] OTHER -> IF "RST" \in s.flags THEN p ELSE RstFor(p, s)

(* A callback is made only when the segment can lead to it.                *)
Asked(h, s, cb) ==
    /\ cb.recv # Usual.recv => s.data # <<>> \/ pcb[h].refused # <<>>
    /\ cb.closed # Usual.closed => "FIN" \in s.flags
    /\ cb.accept # Usual.accept => pcb[h].state = "SYN_RCVD"

(* A segment arrives, any of those in flight, and may stay to arrive again.*)
Arrived(h, q, n, cb) ==
    LET born == pcb[h].state = "FREE" /\ q.state # "FREE"
    IN  /\ Commit(h, q, n, IF born THEN [NewApp EXCEPT !.base = SeqAdd(iss[h], 1)] ELSE app[h],
                  cb.recv = "keep")
        /\ iss' = IF born THEN [iss EXCEPT ![h] = SeqAdd(@, IssStep)] ELSE iss
Receive(h, i, cb, again, ok) ==
    /\ Runs(h) /\ Cost(One(again) + One(~ok) + RareAnswer(cb)) /\ Asked(h, net[h][i], cb)
    /\ Arrived(h, tcp_input(h, net[h][i], cb, ok),
               IF again THEN net ELSE [net EXCEPT ![h] = RemoveAt(@, i)], cb)

Lose(h, i) ==
    /\ Cost(1)
    /\ net' = [net EXCEPT ![h] = RemoveAt(@, i)]
    /\ UNCHANGED <<pcb, app, iss>>

HostStep(h, ok) ==
    \/ \E k \in 1..MaxWrite : Write(h, k, ok)
    \/ Output(h, ok)
    \/ Recved(h)
    \/ Close(h, ok)
    \/ \E rx, tx \in BOOLEAN : Shutdown(h, rx, tx)
    \/ Abort(h)
    \/ \E cb \in Answers : FastTmr(h, cb, ok)
    \/ \E rto \in BOOLEAN, idle \in {"no", "short", "long"} : SlowTmr(h, rto, idle, ok)
    \/ \E i \in DOMAIN net[h], cb \in Answers, again \in BOOLEAN : Receive(h, i, cb, again, ok)

Next == \/ \E ok \in BOOLEAN : Connect(ok) \/ \E h \in Host : HostStep(h, ok)
        \/ \E h \in Host : TimeWaitTmr(h) \/ \E i \in DOMAIN net[h] : Lose(h, i)

Spec == Init /\ [][Next]_vars

-----------------------------------------------------------------------------
Queued(p) == p.unacked \o p.unsent
Live(p) == p.state \notin {"FREE", "CLOSED", "TIME_WAIT"}
Synced(p) == Live(p) /\ p.state \notin {"SYN_SENT", "SYN_RCVD"}

(* Between two steps every block has a state of RFC 793, its windows are   *)
(* within TCP_WND and nothing is left of the step's bookkeeping.           *)
TypeOK ==
    \A h \in Host :
        /\ pcb[h].state \in {"FREE", "CLOSED", "SYN_SENT", "SYN_RCVD", "ESTABLISHED", "FIN_WAIT_1",
                            "FIN_WAIT_2", "CLOSE_WAIT", "CLOSING", "LAST_ACK", "TIME_WAIT"}
        /\ pcb[h].rcv_wnd \in 0..TCP_WND /\ pcb[h].rcv_ann_wnd \in 0..TCP_WND
        /\ pcb[h].cwnd \in 1..(U16Mod - 1)
        /\ pcb[h].out = <<>> /\ pcb[h].ev = <<>> /\ pcb[h].mem /\ ~pcb[h].busy

(* What tcp_receive hands to the application is what the peer gave to      *)
(* tcp_write: no byte twice, out of order or missing in between, whatever  *)
(* the network loses, repeats or reorders and however tcp_write, the       *)
(* windows and the retransmissions cut the stream into segments.           *)
StreamIntact == \A h \in Host :
    LET a == app[h]
    IN  /\ a.got = [i \in 1..Len(a.got) |-> i]
        /\ app[Peer(h)].opened => Len(a.got) <= app[Peer(h)].wrote

AckedBytes(h) == LWIP_MIN(SeqSub(pcb[h].lastack, app[h].base), app[h].wrote)

(* A byte is acknowledged only when the other side has it: taken by its    *)
(* application or held as refused_data.  And when recv(NULL) reports the   *)
(* end of the stream, all of the stream is there.  (An application that    *)
(* shut its receiving side has given up refused_data itself.)              *)
AckedIsHeld == \A h \in Host :
    LET held == Len(app[h].got) + Len(pcb[h].refused)
    IN  Synced(pcb[h]) /\ "RXCLOSED" \notin pcb[h].flags =>
            /\ Synced(pcb[Peer(h)]) => AckedBytes(Peer(h)) <= held
            /\ app[h].eof => held = app[Peer(h)].wrote

(* The segments of unacked and unsent together are the stream without a   *)
(* gap up to snd_lbb, each queue in order, through every move of a segment *)
(* between the two (tcp_output, tcp_rexmit, tcp_rexmit_rto).  A FIN that   *)
(* rides on data is not counted by snd_lbb.                                *)
SendQueueTiles == \A h \in Host :
    LET p == pcb[h]
        q == Queued(p)
        sorted(r) == \A i \in 1..(Len(r) - 1) : TCP_SEQ_LT(r[i].seq, r[i + 1].seq)
    IN  Live(p) =>
            /\ sorted(p.unacked) /\ sorted(p.unsent)
            /\ \A i \in DOMAIN q :
                  \/ \E j \in DOMAIN q : q[j].seq = SeqAdd(q[i].seq, TCP_TCPLEN(q[i]))
                  \/ p.snd_lbb = SeqAdd(q[i].seq, IF q[i].data = <<>> THEN 1 ELSE Len(q[i].data))

(* The send budget the application sees is never lost or created: snd_buf  *)
(* is what TCP_SND_BUF leaves of the unacknowledged bytes, snd_queuelen is *)
(* the number of pbufs queued (tcp_write, tcp_enqueue_flags, tcp_receive). *)
SendAccounts == \A h \in Host :
    LET p == pcb[h]
        clens == [i \in DOMAIN Queued(p) |-> Queued(p)[i].clen]
    IN  Live(p) => /\ SeqAdd(p.snd_buf, SeqSub(p.snd_lbb, p.lastack)) = TCP_SND_BUF
                   /\ p.snd_queuelen = FoldLeft(+, 0, clens)

(* tcp_write copies into the spare room it believes the last unsent pbuf   *)
(* has: the room is there (the assertion "unsent_oversize mismatch").      *)
OversizeTrue == \A h \in Host :
    LET p == pcb[h]
    IN  p.unsent_oversize > 0 => p.unsent # <<>> /\ p.unsent_oversize <= Last(p.unsent).left

(* tcp_process reads unacked->tcphdr in SYN_SENT without a look: the SYN   *)
(* is always there, also while it is sent again.                           *)
SynQueued == \A h \in Host : pcb[h].state = "SYN_SENT" => pcb[h].unacked # <<>>

(* A window once announced is not taken back: the right edge a peer has    *)
(* been told of never moves left while the connection lives.               *)
WindowKept == [][\A h \in Host :
    Synced(pcb[h]) /\ Synced(pcb'[h]) /\ iss'[h] = iss[h] =>
        TCP_SEQ_GEQ(pcb'[h].rcv_ann_right_edge, pcb[h].rcv_ann_right_edge)]_vars

(* What a block has queued and what it counts agree, through every         *)
(* tcp_write, acknowledgement, timeout and refused allocation.             *)
SendQueueSound == TypeOK /\ SendQueueTiles /\ SendAccounts /\ OversizeTrue /\ SynQueued
=============================================================================
