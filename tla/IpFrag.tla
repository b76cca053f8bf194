------------------------------- MODULE IpFrag -------------------------------
(***************************************************************************)
(* IP fragments (lwip/core/ipv4/ip_frag.c, compiled when IP_REASSEMBLY and *)
(* IP_FRAG are 1).  Offsets and lengths count units of 8 bytes.  A         *)
(* fragment has the datagram it belongs to (source, destination and        *)
(* identification), its place, whether more follow, the number of pbufs it *)
(* came in and whether its header has options.  q is reassdatagrams, the   *)
(* newest first.  dangling is set when the list would keep a freed entry;  *)
(* the model ends there.                                                   *)
(***************************************************************************)
EXTENDS Integers, Sequences, SequencesExt, FiniteSetsExt

CONSTANTS Datagrams,          \* [id |-> length of the datagram]
          Mtu,                \* payload of a frame, in units, for ip_frag
          Detours,            \* fragments cut otherwise on another route
          PbufsOf,            \* [id |-> pbufs of each fragment]
          IP_REASS_MAX_PBUFS,
          IP_REASS_MAXAGE,
          FragCalls           \* fragments that arrive

VARIABLE re

-----------------------------------------------------------------------------
(* ip_frag: nfb units a frame, the rest in the last one.  When memory runs *)
(* out half way the fragments before are sent: any of them may arrive.     *)
ip_frag(id, length) ==
    {[id |-> id, start |-> k * Mtu, end |-> Min({(k + 1) * Mtu, length}), mf |-> (k + 1) * Mtu < length,
      clen |-> PbufsOf[id], options |-> FALSE] : k \in 0..((length - 1) \div Mtu)}
OnTheWire == Detours \cup UNION {ip_frag(id, Datagrams[id]) : id \in DOMAIN Datagrams}

ReassInit == re = [q |-> << >>, pbufcount |-> 0, out |-> << >>, dangling |-> FALSE, calls |-> 0]

Clen(frags) == FoldFunction(LAMBDA f, n : f.clen + n, 0, frags)

(* ip_reass_dequeue_datagram: prev is trusted to be the entry before i.    *)
ip_reass_dequeue_datagram(s, i, prev) ==
    IF i = 1 \/ prev = i - 1 THEN [s EXCEPT !.q = RemoveAt(@, i)] ELSE [s EXCEPT !.dangling = TRUE]

(* ICMP time exceeded is sent when the first fragment is there.            *)
ip_reass_free_complete_datagram(s, i, prev) ==
    LET r == s.q[i]
    IN  [ip_reass_dequeue_datagram(s, i, prev) EXCEPT
            !.pbufcount = @ - Clen(r.frags),
            !.out = IF r.frags[1].start = 0 THEN Append(@, [what |-> "exceeded", id |-> r.id]) ELSE @]

(* ip_reass_remove_oldest_datagram: of the others the one with the least   *)
(* time left, the last of them on a tie; prev is the last but one of the   *)
(* list.  The loop goes on while too little is freed and there are others. *)
OldestOther(s, id) ==
    LET others == {i \in DOMAIN s.q : s.q[i].id # id}
    IN  IF others = {} THEN 0
        ELSE Max({i \in others : \A j \in others : s.q[i].timer <= s.q[j].timer})
RemoveRound(s, id) ==
    IF OldestOther(s, id) = 0 THEN s ELSE ip_reass_free_complete_datagram(s, OldestOther(s, id), Len(s.q) - 1)
ip_reass_remove_oldest_datagram(s, id, needed) ==
    LET others(t) == Cardinality({i \in DOMAIN t.q : t.q[i].id # id})
        round[k \in 0..Len(s.q)] ==
            IF k = 0 THEN [s |-> RemoveRound(s, id), others |-> others(s)]
            ELSE LET g == round[k - 1]
                 IN  IF s.pbufcount - g.s.pbufcount < needed /\ g.others > 1 /\ ~g.s.dangling
                     THEN [s |-> RemoveRound(g.s, id), others |-> others(g.s)] ELSE g
    IN  round[Len(s.q)].s

(* ip_reass_enqueue_new_datagram; mem says which allocations fail.         *)
NewDatagram(f) == [id |-> f.id, first |-> f.start = 0, frags |-> << >>, last |-> FALSE, len |-> 0, timer |-> IP_REASS_MAXAGE]
ip_reass_enqueue_new_datagram(s, f, mem) ==
    LET s1 == IF mem = "ok" THEN s ELSE ip_reass_remove_oldest_datagram(s, f.id, f.clen)
        ok == mem = "ok" \/ (mem = "retry" /\ s.pbufcount - s1.pbufcount >= f.clen)
    IN  [s |-> IF ok /\ ~s1.dangling THEN [s1 EXCEPT !.q = <<NewDatagram(f)>> \o @] ELSE s1, ok |-> ok]

(* ip_reass_chain_frag_into_datagram_and_validate.  The walk stops at k:   *)
(* the first fragment that f does not lie behind.  Holes are looked for    *)
(* between the fragments before k and, behind f, up to the end: not        *)
(* between f and the one before it, when f goes into the middle.           *)
StopsAt(frags, f) ==
    Min({k \in DOMAIN frags : f.start <= frags[k].start \/ f.start < frags[k].end} \cup {Len(frags) + 1})
Discarded(frags, f) ==
    LET k == StopsAt(frags, f) IN
        /\ k <= Len(frags)
        /\ f.start < frags[k].start => k > 1 /\ (f.start < frags[k - 1].end \/ f.end > frags[k].start)
Joined(frags, i) == frags[i].end = frags[i + 1].start
NoHoleFound_BehindOnly(frags, f) ==
    LET k   == StopsAt(frags, f)
        new == InsertAt(frags, k, f)
    IN  new[1].start = 0 /\ \A i \in k..(Len(new) - 1) : Joined(new, i)
NoHoleFound_AtEnd(frags, f) ==
    LET new == InsertAt(frags, StopsAt(frags, f), f)
    IN  StopsAt(frags, f) = Len(new) /\ new[1].start = 0 /\ \A i \in 1..(Len(new) - 1) : Joined(new, i)
NoHoleFound(frags, f) ==
    LET k   == StopsAt(frags, f)
        new == InsertAt(frags, k, f)
    IN  /\ \A i \in 1..(k - 2) : Joined(new, i)
        /\ k = Len(new) /\ k > 1 => Joined(new, k - 1)
        /\ new[1].start = 0
        /\ \A i \in k..(Len(new) - 1) : Joined(new, i)
Inserted(frags, f) == InsertAt(frags, StopsAt(frags, f), f)

(* The entry of a datagram after fragment f of it: header and length are   *)
(* taken over even if the fragment is then thrown away.                    *)
Noted(r, f) == [r EXCEPT !.first = @ \/ f.start = 0, !.last = @ \/ ~f.mf, !.len = IF f.mf THEN @ ELSE f.end]

ip_reass_Into(s, i, f) ==
    LET r   == Noted(s.q[i], f)
        new == Inserted(r.frags, f)
    IN  IF Discarded(r.frags, f) THEN [s EXCEPT !.q[i] = r]
        ELSE IF r.last /\ NoHoleFound(r.frags, f)
        THEN [ip_reass_dequeue_datagram(s, i, i - 1) EXCEPT
                 !.pbufcount = @ + f.clen - Clen(new),
                 !.out = Append(@, [what |-> "datagram", id |-> r.id, frags |-> new, len |-> r.len, first |-> r.first,
                                    by |-> f])]
        ELSE [s EXCEPT !.q[i] = [r EXCEPT !.frags = new], !.pbufcount = @ + f.clen]

TooFull_Late(s, f) == s.pbufcount > IP_REASS_MAX_PBUFS
TooFull(s, f) == s.pbufcount + f.clen > IP_REASS_MAX_PBUFS
ip_reass(s, f, mem) ==
    LET s1   == IF TooFull(s, f) THEN ip_reass_remove_oldest_datagram(s, f.id, f.clen) ELSE s
        at   == {i \in DOMAIN s1.q : s1.q[i].id = f.id}
        e    == ip_reass_enqueue_new_datagram(s1, f, mem)
    IN  IF f.options THEN s
        ELSE IF s1.dangling \/ TooFull(s1, f) THEN s1
        ELSE IF at # {} THEN ip_reass_Into(s1, Min(at), f)
        ELSE IF e.ok /\ ~e.s.dangling THEN ip_reass_Into(e.s, 1, f) ELSE e.s

(* ip_reass_tmr, every second.                                             *)
ip_reass_tmr_OnlyCounts(s) == [s EXCEPT !.q = [i \in DOMAIN @ |-> [@[i] EXCEPT !.timer = IF @ > 0 THEN @ - 1 ELSE 0]]]
ip_reass_tmr(s) ==
    LET turn[i \in 0..Len(s.q)] ==          \* from the end, so that indices stay
            IF i = 0 THEN s
            ELSE LET t == turn[i - 1]
                     k == Len(s.q) - i + 1
                 IN  IF s.q[k].timer > 0 THEN [t EXCEPT !.q[k].timer = @ - 1]
                     ELSE ip_reass_free_complete_datagram(t, k, k - 1)
    IN  turn[Len(s.q)]

-----------------------------------------------------------------------------
Arrives(f, mem) ==
    /\ ~re.dangling /\ re.calls < FragCalls
    /\ re' = ip_reass([re EXCEPT !.out = << >>, !.calls = @ + 1], f, mem)
ReassTick == ~re.dangling /\ re' = ip_reass_tmr([re EXCEPT !.out = << >>])
ReassNext == (\E f \in OnTheWire, mem \in {"ok", "retry", "none"} : Arrives(f, mem)) \/ ReassTick

-----------------------------------------------------------------------------
(* ip_reass_pbufcount is exact, whichever of the ways a fragment can go:   *)
(* kept, thrown away, delivered, pushed out or timed out.  It never passes *)
(* IP_REASS_MAX_PBUFS, a datagram has one entry, and no entry is without   *)
(* a fragment, whose header ip_reass_free_complete_datagram reads.         *)
ReassAccounts == ~re.dangling =>
    /\ re.pbufcount = FoldFunction(LAMBDA r, n : Clen(r.frags) + n, 0, re.q)
    /\ re.pbufcount <= IP_REASS_MAX_PBUFS
    /\ \A i \in DOMAIN re.q : re.q[i].frags # << >> /\ \A j \in DOMAIN re.q : i # j => re.q[i].id # re.q[j].id

(* What ip_reass passes on begins with the first fragment, under the first *)
(* fragment's header, ends where the last one ends, is of one datagram and *)
(* has no hole but one: right before the fragment that came last, where    *)
(* the code does not look when that one went into the middle.              *)
DeliveredWhole ==
    \A k \in DOMAIN re.out : re.out[k].what = "datagram" => LET d == re.out[k] IN
        /\ d.first /\ d.frags[1].start = 0 /\ Last(d.frags).end = d.len /\ d.len = Datagrams[d.id]
        /\ \A i \in DOMAIN d.frags : d.frags[i].id = d.id
        /\ \A i \in 1..(Len(d.frags) - 1) : d.frags[i + 1] # d.by => Joined(d.frags, i)

(* A datagram is passed on with the fragment that completes it: none waits *)
(* with its last fragment and all before it in the queue.                  *)
NoneWaitsComplete == ~re.dangling =>
    \A i \in DOMAIN re.q : LET f == re.q[i].frags IN
        ~(f[1].start = 0 /\ ~Last(f).mf /\ \A k \in 1..(Len(f) - 1) : Joined(f, k))

(* Under the timer no datagram stays incomplete for ever: when no more     *)
(* fragments come the queue empties, and its memory is free again.         *)
ReassEnds == []<>(re.dangling \/ re.q = << >>)

(* Fragments are counted, put together right and passed on in time         *)
(* (ip_frag.c).                                                            *)
ReassSound == ReassAccounts /\ DeliveredWhole /\ NoneWaitsComplete
=============================================================================
