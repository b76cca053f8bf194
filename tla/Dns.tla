-------------------------------- MODULE Dns --------------------------------
(***************************************************************************)
(* lwIP's resolver (lwip/core/dns.c): a table of requests, a timer that    *)
(* retries and changes server, and answers that arrive late, twice or      *)
(* never.  A name is a sequence of labels.  A request is known by its      *)
(* number: found of an entry is the number of the request whose callback   *)
(* it holds, open are the requests whose caller still waits, result what   *)
(* their callbacks were given.  sent are the queries on their way, whose   *)
(* answers may come at any time; id is the slot, the only thing that ties  *)
(* an answer to a request besides the name in it.                          *)
(***************************************************************************)
EXTENDS Integers, Sequences, SequencesExt

CONSTANTS Names,
          DNS_TABLE_SIZE, DNS_MAX_SERVERS, DNS_MAX_RETRIES,
          DNS_MAX_TTL,
          TtlMod,           \* 2^32, the width of ttl
          SeqnoMod,           \* 2^8, the width of dns_seqno
          Ttls,             \* times to live in answers
          AskAgainOn,       \* in which callbacks the application asks again
          DnsCalls          \* requests of a behaviour

ASSUME DnsSizes == DNS_TABLE_SIZE \in Nat \ {0} /\ DNS_MAX_TTL < TtlMod /\ DnsCalls \in Nat

VARIABLE dns
NoName == << >>
NoResult == << >>
Failed == <<"fail">>
Slots == 0..(DNS_TABLE_SIZE - 1)
DnsUnused == [state |-> "UNUSED", numdns |-> 0, tmr |-> 0, retries |-> 0, seqno |-> 0, ttl |-> 0,
              name |-> NoName, found |-> 0]

(* dns_init binds the port and enters the first server.                    *)
dns_init == [table |-> [i \in Slots |-> DnsUnused], seqno |-> 0, servers |-> {0}, peer |-> 0, sent |-> {},
             asked |-> << >>, open |-> {}, result |-> << >>, twice |-> FALSE, nomem |-> FALSE]
dns_setserver(s, numdns) == IF numdns < DNS_MAX_SERVERS THEN [s EXCEPT !.servers = @ \cup {numdns}] ELSE s

(* The socket is connected to the server asked last: answers of another    *)
(* one no longer come through.                                             *)
dns_send(s, i) ==
    LET e == s.table[i]
    IN  IF s.nomem THEN s
        ELSE [s EXCEPT !.peer = e.numdns, !.sent = @ \cup {[id |-> i, name |-> e.name, server |-> e.numdns]}]

FirstAsk(s, i) ==
    LET e == s.table[i]
    IN  dns_send([s EXCEPT !.table[i] = [e EXCEPT !.state = "ASKING", !.numdns = 0, !.tmr = 1, !.retries = 0]], i)

(* A free entry, else the finished one with the largest distance from      *)
(* dns_seqno.  The distance is an int: after dns_seqno has wrapped it is   *)
(* negative, and such an entry is not taken.                               *)
Oldest(s) ==
    LET f[i \in 0..DNS_TABLE_SIZE] ==
            IF i = 0 THEN [lseq |-> 0, lseqi |-> 0]
            ELSE LET e == s.table[i - 1]
                     d == s.seqno - e.seqno
                 IN  IF e.state = "DONE" /\ d > f[i - 1].lseq THEN [lseq |-> d, lseqi |-> i - 1] ELSE f[i - 1]
    IN  f[DNS_TABLE_SIZE].lseqi
Free(s) == {i \in Slots : s.table[i].state = "UNUSED"}
Placed_Busy(s) == IF Free(s) # {} THEN {Min(Free(s))} ELSE {Oldest(s)}
Placed(s) == IF Free(s) # {} THEN {Min(Free(s))}
             ELSE {i \in Slots : i = Oldest(s) /\ s.table[i].state = "DONE"}

dns_enqueue(s, name) ==
    LET id == Len(s.asked) + 1
        s1 == [s EXCEPT !.asked = Append(@, name), !.result = Append(@, NoResult)]
        i  == CHOOSE j \in Placed(s) : TRUE
    IN  IF Placed(s) = {} THEN s1
        ELSE FirstAsk([s1 EXCEPT !.table[i] = [s.table[i] EXCEPT !.state = "NEW", !.seqno = s.seqno, !.name = name, !.found = id],
                                 !.seqno = (@ + 1) % SeqnoMod, !.open = @ \cup {id}], i)

(* A dotted address is answered at once; the table is never searched for a *)
(* finished entry (the call of dns_lookup is commented out).               *)
dns_gethostbyname(s, name) == IF name = NoName \/ Len(s.asked) = DnsCalls THEN s ELSE dns_enqueue(s, name)

(* found(name, ipaddr, arg): the application may ask for a name in it.     *)
Found(s, i, result, why, again) ==
    LET id == s.table[i].found
        s1 == [s EXCEPT !.open = @ \ {id}, !.twice = @ \/ id \notin s.open, !.result[id] = result]
    IN  IF id = 0 THEN s ELSE IF why \in AskAgainOn THEN dns_gethostbyname(s1, again) ELSE s1
Unused(s, i) == [s EXCEPT !.table[i] = [s.table[i] EXCEPT !.state = "UNUSED", !.found = 0]]

-----------------------------------------------------------------------------
(* One entry at the timer: wait, ask again more and more slowly, turn to   *)
(* the next server, give up.                                               *)
NextServer(s, e) == e.numdns + 1 < DNS_MAX_SERVERS /\ e.numdns + 1 \in s.servers
Retry_Forever(s, i, again) == dns_send([s EXCEPT !.table[i].retries = 1, !.table[i].tmr = 1], i)
Retry(s, i, again) ==
    LET e == s.table[i]
        r == e.retries + 1
    IN  IF r # DNS_MAX_RETRIES THEN dns_send([s EXCEPT !.table[i] = [e EXCEPT !.retries = r, !.tmr = r]], i)
        ELSE IF NextServer(s, e)
             THEN [s EXCEPT !.table[i] = [e EXCEPT !.numdns = e.numdns + 1, !.tmr = 1, !.retries = 0]]
             ELSE Unused(Found([s EXCEPT !.table[i] = [e EXCEPT !.retries = r, !.tmr = 0]], i, Failed, "timeout", again), i)

dns_check_entry(s, i, again) ==
    LET e == s.table[i]
        t == (e.ttl - 1) % TtlMod
    IN  CASE e.state = "ASKING" -> IF e.tmr = 1 THEN Retry(s, i, again) ELSE [s EXCEPT !.table[i].tmr = @ - 1]
          [] e.state = "DONE"   -> IF t = 0 THEN Unused(s, i) ELSE [s EXCEPT !.table[i].ttl = t]
          [] OTHER              -> s

(* After how many entries: the callback of one may put a request into      *)
(* another that is still to come.                                          *)
Checked(s, again) ==
    LET f[i \in 0..DNS_TABLE_SIZE] == IF i = 0 THEN s ELSE dns_check_entry(f[i - 1], i - 1, again)
    IN  f
dns_check_entries(s, again) == Checked(s, again)[DNS_TABLE_SIZE]

(* The labels of the answer are compared, not how many the query has left. *)
dns_compare_name_Any(query, response) == TRUE
dns_compare_name(query, response) == IsPrefix(response, query)

(* An answer to query q: an address with its time to live, or none.        *)
dns_recv(s, q, kind, ttl, again) ==
    LET i  == q.id
        e  == [s.table[i] EXCEPT !.state = "DONE"]
        ok == kind = "address" /\ dns_compare_name(s.table[i].name, q.name)
    IN  IF s.table[i].state # "ASKING" THEN s
        ELSE IF ok
        THEN Found([s EXCEPT !.table[i] = [e EXCEPT !.ttl = IF ttl > DNS_MAX_TTL THEN DNS_MAX_TTL ELSE ttl]],
                   i, q.name, "answer", again)
        ELSE Unused(Found([s EXCEPT !.table[i] = e], i, Failed, "error", again), i)

-----------------------------------------------------------------------------
DnsAgain == {NoName} \cup {name \in Names : AskAgainOn # {} /\ Len(dns.asked) < DnsCalls}
DnsBecomes(s) == dns' = [s EXCEPT !.nomem = FALSE]

DnsSetServer(n) == n \notin dns.servers /\ dns' = dns_setserver(dns, n)
DnsAsk(name) == Len(dns.asked) < DnsCalls /\ DnsBecomes(dns_gethostbyname(dns, name))
DnsAnswer(q, kind, ttl, again) == q.server = dns.peer /\ DnsBecomes(dns_recv(dns, q, kind, ttl, again))
(* nomem: no pbuf for the queries of this tick (a first query that is not  *)
(* sent is one that is lost).                                              *)
DnsTick(nomem, again) ==
    /\ \E i \in Slots : dns.table[i].state # "UNUSED"
    /\ DnsBecomes(dns_check_entries([dns EXCEPT !.nomem = nomem], again))

DnsInit == dns = dns_init
DnsNext ==
    \/ \E n \in 1..(DNS_MAX_SERVERS - 1) : DnsSetServer(n)
    \/ \E name \in Names : DnsAsk(name)
    \/ \E nomem \in BOOLEAN, again \in DnsAgain : DnsTick(nomem, again)
    \/ \E q \in dns.sent, again \in DnsAgain :
        \/ \E ttl \in Ttls : DnsAnswer(q, "address", ttl, again)
        \/ DnsAnswer(q, "error", 0, again)
DnsSpec == DnsInit /\ [][DnsNext]_dns

-----------------------------------------------------------------------------
(* Whose callback is still due is asked for by exactly one entry, and no   *)
(* callback runs twice: a late or repeated answer, an entry taken over     *)
(* while it counts down, and a callback that asks again leave this so.     *)
CallbackOnce ==
    /\ ~dns.twice
    /\ \A id \in dns.open : \E i \in Slots : /\ dns.table[i].found = id /\ dns.table[i].state = "ASKING"
                                             /\ \A j \in Slots \ {i} : dns.table[j].found # id

(* An address given to a callback is the one of the name asked for, also   *)
(* when the answer belongs to an earlier request of the same slot.         *)
AnswersOwnName == \A id \in 1..Len(dns.asked) : dns.result[id] \in {NoResult, Failed, dns.asked[id]}

(* Every callback comes, whatever is lost: of the requests of a behaviour  *)
(* (at most DnsCalls, each with a number of its own) none stays open.      *)
DnsAnswered == []<>(dns.open = {})

(* Each caller hears once, and of the name it asked for (dns.c).           *)
DnsSound == CallbackOnce /\ AnswersOwnName
=============================================================================
