--------------------------- MODULE EspconnProofs ---------------------------
(***************************************************************************)
(* The links of espconn, for every number of links and control blocks, any *)
(* sizes and any number of calls.  The invariant is about values s of esp: *)
(* the functions of espconn_tcp.c take one to the next, and each is shown  *)
(* to keep it (Goes).                                                      *)
(***************************************************************************)
EXTENDS Espconn, Induction, SequenceTheorems, FiniteSetTheorems
-----------------------------------------------------------------------------
(* The shape of the records. *)
LinkFields == {"msg", "server", "pcb", "state", "timer", "cntr", "write_len", "write_total",
               "recv_check", "timeout", "reuse", "unacked", "stuck", "ended"}
IsLink(x) == x = [f \in LinkFields |-> x[f]]

PcbFields == {"state", "arg", "err", "recv", "sent", "rxclosed", "alloc"}
IsPcb(y) == y = [f \in PcbFields |-> y[f]]

EspFields == {"link", "pcb", "list", "server", "count_opt", "freed_closed", "crashed", "udp", "calls"}
IsEsp(s) ==
  /\ s = [f \in EspFields |-> s[f]]
  /\ s.link = [l \in Links |-> s.link[l]] /\ \A l \in Links : IsLink(s.link[l])
  /\ s.pcb = [p \in PcbIds |-> s.pcb[p]] /\ \A p \in PcbIds : IsPcb(s.pcb[p])
  /\ s.list \in Seq(Links) /\ s.count_opt \in Nat

(* A link is told to be over when its message is freed, and has no timer   *)
(* before it is made or after that.                                        *)
OverOnce(x) ==
  /\ x.ended = IF x.msg = "freed" THEN 1 ELSE 0
  /\ x.timer \in {"none", "close", "reconnect"} /\ (x.msg # "live" => x.timer = "none")

(* The counts of what a link sends. *)
Counts(x) ==
  /\ x.cntr \in Nat /\ x.unacked \in Nat /\ x.write_len \in Nat /\ x.write_total \in Nat
  /\ x.write_len - x.write_total = x.unacked /\ x.unacked <= SNDBUF
  /\ x.cntr > 0 => x.unacked > 0 \/ x.stuck

(* What a control block calls back is a link that is listed, and that has  *)
(* this block; one with a connection has a link to call back.              *)
CallsBack(P, L, p) ==
  /\ P[p].alloc /\ P[p].arg # NoLink =>
       /\ P[p].arg \in Links /\ L[P[p].arg].msg = "live" /\ L[P[p].arg].timer # "reconnect"
       /\ L[P[p].arg].pcb = p /\ P[p].err
  /\ P[p].alloc /\ P[p].state \notin {"CLOSED", "TIME_WAIT"} => P[p].arg # NoLink
  /\ P[p].alloc /\ P[p].sent => P[p].state \in {"ESTABLISHED", "CLOSE_WAIT"}

(* A link that no timer is about to end has its block, and nobody else has *)
(* it.  The block of a closing link may be another's by now.               *)
Open(x) == x.msg = "live" /\ x.timer = "none"
HasBlock(P, L, l) ==
  /\ L[l].msg = "live" => L[l].pcb \in PcbIds
  /\ Open(L[l]) =>
       /\ P[L[l].pcb].alloc
       /\ P[L[l].pcb].state \in {"CLOSED", "SYN_SENT", "ESTABLISHED", "CLOSE_WAIT"}
       /\ P[L[l].pcb].arg = l \/ (P[L[l].pcb].arg = NoLink /\ P[L[l].pcb].state = "CLOSED")
Alone(L) == \A l, m \in Links : Open(L[l]) /\ Open(L[m]) /\ L[l].pcb = L[m].pcb => l = m

(* The list has the links that are made and have not had an error, once. *)
Once(K) == \A i, j \in 1..Len(K) : K[i] = K[j] => i = j
Lists(K, L) == \A l \in Links : Contains(K, l) <=> L[l].msg = "live" /\ L[l].timer # "reconnect"

EspKept(s) ==
  /\ IsEsp(s)
  /\ \A l \in Links : OverOnce(s.link[l]) /\ Counts(s.link[l]) /\ HasBlock(s.pcb, s.link, l)
  /\ \A p \in PcbIds : CallsBack(s.pcb, s.link, p)
  /\ Alone(s.link) /\ Once(s.list) /\ Lists(s.list, s.link)
  /\ s.freed_closed = FALSE
UdpKept(u) == /\ u = [f \in {"open", "whole", "called", "timers"} |-> u[f]]
              /\ u.called \in Int /\ u.timers \in Int /\ u.whole \in Int
              /\ u.called + u.timers = u.whole

-----------------------------------------------------------------------------
(* The list. *)
LEMMA UnlinkedUnfold ==
  ASSUME NEW K, Len(K) \in Nat, NEW l
  PROVE  Unlinked(K, l) = [i \in 0..Len(K) |-> IF i = 0 THEN <<>> ELSE Passed(Unlinked(K, l)[i - 1], K[i], l)]
<1> DEFINE Solves(g, z) == g = [i \in 0..z |-> IF i = 0 THEN <<>> ELSE Passed(g[i - 1], K[i], l)]
           S == {z \in Nat : \E g : Solves(g, z)}
<1>1. 0 \in S
  <2> DEFINE g == [i \in 0..0 |-> <<>>]
  <2>1. g = [i \in 0..0 |-> IF i = 0 THEN <<>> ELSE Passed(g[i - 1], K[i], l)]
    OBVIOUS
  <2> QED
    BY <2>1
<1>2. ASSUME NEW z \in Nat, z \in S PROVE z + 1 \in S
  <2>1. PICK g : Solves(g, z)
    BY <1>2
  <2> DEFINE h == [i \in 0..(z + 1) |-> IF i = z + 1 THEN Passed(g[z], K[z + 1], l) ELSE g[i]]
  <2>2. \A i \in 0..z : g[i] = IF i = 0 THEN <<>> ELSE Passed(g[i - 1], K[i], l)
    BY <2>1
  <2>3. ASSUME NEW i \in 0..(z + 1)
        PROVE  h[i] = IF i = 0 THEN <<>> ELSE Passed(h[i - 1], K[i], l)
    <3>1. CASE i = 0
      BY <2>2, <3>1
    <3>2. CASE i = z + 1
      <4>1. h[i] = Passed(g[z], K[z + 1], l) /\ h[i - 1] = g[z] /\ i # 0
        BY <3>2
      <4> QED
        BY <3>2, <4>1
    <3>3. CASE i \in 1..z
      <4>1. h[i] = g[i] /\ h[i - 1] = g[i - 1] /\ i # 0
        BY <3>3
      <4> QED
        BY <2>2, <3>3, <4>1
    <3> QED
      BY <3>1, <3>2, <3>3
  <2>4. h = [i \in 0..(z + 1) |-> h[i]]
    OBVIOUS
  <2> HIDE DEF h
  <2>5. Solves(h, z + 1)
    BY <2>3, <2>4
  <2> QED
    BY <2>5
<1>3. Nat \subseteq S
  <2> HIDE DEF S
  <2> QED
    BY <1>1, <1>2, NatInd
<1>4. \E g : Solves(g, Len(K))
  BY <1>3
<1> QED
  BY <1>4 DEF Unlinked

(* Taking a link out of a list leaves the others in it, once. *)
LEMMA DeleteKeeps ==
  ASSUME NEW K \in Seq(Links), Once(K), NEW l \in Links
  PROVE  LET Q == Unlinked(K, l)[Len(K)]
         IN  /\ Q \in Seq(Links) /\ Once(Q)
             /\ \A m \in Links : Contains(Q, m) <=> Contains(K, m) /\ m # l
<1> DEFINE f == Unlinked(K, l)
           N == Len(K)
           Fine(q, z) == /\ q \in Seq(Links) /\ Once(q)
                         /\ \A m \in Links : (\E i \in 1..Len(q) : q[i] = m) <=> (\E i \in 1..z : K[i] = m) /\ m # l
           S == {z \in Nat : z <= N => Fine(f[z], z)}
<1>1. N \in Nat /\ \A i \in 1..N : K[i] \in Links
  BY ElementOfSeq, LenProperties
<1>2. /\ f[0] = <<>>
      /\ \A z \in Nat : z + 1 <= N => f[z + 1] = Passed(f[z], K[z + 1], l)
  <2>1. f = [i \in 0..N |-> IF i = 0 THEN <<>> ELSE Passed(f[i - 1], K[i], l)]
    BY <1>1, UnlinkedUnfold
  <2> HIDE DEF f
  <2>2. f[0] = <<>>
    BY <1>1, <2>1
  <2>3. ASSUME NEW z \in Nat, z + 1 <= N PROVE f[z + 1] = Passed(f[z], K[z + 1], l)
    <3>1. z + 1 \in 0..N /\ z + 1 # 0 /\ z + 1 - 1 = z
      BY <1>1, <2>3
    <3> QED
      BY <2>1, <3>1
  <2> QED
    BY <2>2, <2>3
<1> HIDE DEF f
<1>3. 0 \in S
  <2>1. <<>> \in Seq(Links) /\ Len(<<>>) = 0
    OBVIOUS
  <2>2. Fine(<<>>, 0)
    BY <2>1 DEF Once
  <2> HIDE DEF Fine
  <2> QED
    BY <1>2, <2>2
<1>4. ASSUME NEW z \in Nat, z \in S PROVE z + 1 \in S
  <2> HIDE DEF Fine
  <2> SUFFICES ASSUME z + 1 <= N PROVE Fine(f[z + 1], z + 1)
    OBVIOUS
  <2> DEFINE q == f[z]
             k == K[z + 1]
  <2>0. z <= N /\ z + 1 \in 1..N
    BY <1>1
  <2>1. Fine(q, z) /\ k \in Links /\ f[z + 1] = Passed(q, k, l) /\ z + 1 \in 1..N
    BY <1>1, <1>2, <1>4, <2>0
  <2> USE DEF Fine
  <2>2. \A i \in 1..z : K[i] # k
    BY <1>1, <2>1 DEF Once
  <2> HIDE DEF q, k
  <2>3. CASE k = l
    <3>1. f[z + 1] = q
      BY <2>1, <2>3 DEF Passed
    <3>2. ASSUME NEW m \in Links, m # l
          PROVE  (\E i \in 1..(z + 1) : K[i] = m) <=> (\E i \in 1..z : K[i] = m)
      BY <2>3, <3>2 DEF k
    <3> QED
      BY <2>1, <3>1, <3>2
  <2>4. CASE k # l
    <3> DEFINE r == Append(q, k)
    <3>1. /\ f[z + 1] = r /\ r \in Seq(Links) /\ Len(q) \in Nat /\ Len(r) = Len(q) + 1
          /\ r[Len(q) + 1] = k /\ \A i \in 1..Len(q) : r[i] = q[i]
      BY <2>1, <2>4 DEF Passed
    <3> HIDE DEF r
    <3>2. \A i \in 1..Len(q) : q[i] # k
      <4>1. ~ \E i \in 1..z : K[i] = k
        BY <2>2
      <4> QED
        BY <2>1, <4>1
    <3>3. Once(r)
      BY <2>1, <3>1, <3>2 DEF Once
    <3>4. ASSUME NEW m \in Links
          PROVE  (\E i \in 1..Len(r) : r[i] = m) <=> (\E i \in 1..(z + 1) : K[i] = m) /\ m # l
      <4>1. (\E i \in 1..Len(r) : r[i] = m) <=> (\E i \in 1..Len(q) : q[i] = m) \/ m = k
        BY <3>1
      <4>2. (\E i \in 1..(z + 1) : K[i] = m) <=> (\E i \in 1..z : K[i] = m) \/ m = k
        BY DEF k
      <4> QED
        BY <2>1, <2>4, <4>1, <4>2
    <3> QED
      BY <3>1, <3>3, <3>4
  <2> QED
    BY <2>3, <2>4
<1>5. Nat \subseteq S
  <2> HIDE DEF S
  <2> QED
    BY <1>3, <1>4, NatInd
<1>6. Fine(f[N], N)
  BY <1>1, <1>5
<1> QED
  BY <1>6 DEF f, Contains

(* A link that is new to the list. *)
LEMMA AppendKeeps ==
  ASSUME NEW K \in Seq(Links), Once(K), NEW l \in Links, ~Contains(K, l)
  PROVE  LET Q == Append(K, l)
         IN  /\ Q \in Seq(Links) /\ Once(Q)
             /\ \A m \in Links : Contains(Q, m) <=> Contains(K, m) \/ m = l
<1> DEFINE Q == Append(K, l)
<1>1. /\ Q \in Seq(Links) /\ Len(K) \in Nat /\ Len(Q) = Len(K) + 1
      /\ Q[Len(K) + 1] = l /\ \A i \in 1..Len(K) : Q[i] = K[i]
  OBVIOUS
<1> HIDE DEF Q
<1>2. Once(Q)
  BY <1>1 DEF Once, Contains
<1>3. \A m \in Links : Contains(Q, m) <=> Contains(K, m) \/ m = l
  BY <1>1 DEF Contains
<1> QED
  BY <1>1, <1>2, <1>3 DEF Q

-----------------------------------------------------------------------------
(* Link l, control block p and the list get new values. *)
Put(s, l, x, p, y, K) ==
  [s EXCEPT !.link = [s.link EXCEPT ![l] = x], !.pcb = [s.pcb EXCEPT ![p] = y], !.list = K]

(* What Put leaves alone and what it sets. *)
LEMMA PutIs ==
  ASSUME NEW s, IsEsp(s), NEW l \in Links, NEW x, IsLink(x), NEW p \in PcbIds, NEW y, IsPcb(y),
         NEW K \in Seq(Links)
  PROVE  LET r == Put(s, l, x, p, y, K)
         IN  /\ IsEsp(r) /\ r.list = K /\ r.udp = s.udp /\ r.freed_closed = s.freed_closed
             /\ r.link[l] = x /\ \A m \in Links : m # l => r.link[m] = s.link[m]
             /\ r.pcb[p] = y /\ \A q \in PcbIds : q # p => r.pcb[q] = s.pcb[q]
<1> DEFINE L == [s.link EXCEPT ![l] = x]
           P == [s.pcb EXCEPT ![p] = y]
           r == [s EXCEPT !.link = L, !.pcb = P, !.list = K]
<1>1. /\ L = [m \in Links |-> L[m]] /\ (\A m \in Links : IsLink(L[m]))
      /\ L[l] = x /\ \A m \in Links : m # l => L[m] = s.link[m]
  BY DEF IsEsp
<1>2. /\ P = [q \in PcbIds |-> P[q]] /\ (\A q \in PcbIds : IsPcb(P[q]))
      /\ P[p] = y /\ \A q \in PcbIds : q # p => P[q] = s.pcb[q]
  BY DEF IsEsp
<1> HIDE DEF L, P
<1>3. /\ r = [f \in EspFields |-> r[f]] /\ r.link = L /\ r.pcb = P /\ r.list = K
      /\ r.udp = s.udp /\ r.freed_closed = s.freed_closed /\ r.count_opt = s.count_opt
  BY DEF IsEsp, EspFields
<1>4. s.count_opt \in Nat
  BY DEF IsEsp
<1> HIDE DEF r
<1>5. IsEsp(r)
  BY <1>1, <1>2, <1>3, <1>4 DEF IsEsp
<1> QED
  BY <1>1, <1>2, <1>3, <1>5 DEF Put, r, L, P

(* No other link that is open has block p. *)
Sole(s, l, p) == \A m \in Links : m # l => ~(Open(s.link[m]) /\ s.link[m].pcb = p)

(* No link is listed in r for the server that was not in s. *)
NoMore(s, r) == \A l \in Links : Contains(r.list, l) /\ r.link[l].server
                                   => Contains(s.list, l) /\ s.link[l].server

Goes(s, r) == EspKept(r) /\ r.udp = s.udp /\ NoMore(s, r)

(* Two functions, one after the other. *)
LEMMA GoesOn ==
  ASSUME NEW s, NEW r, NEW t, Goes(s, r), Goes(r, t)
  PROVE  Goes(s, t)
BY DEF Goes, NoMore

(* What a new link record and a new block record must satisfy. *)
LinkFits(s, l, x, p, y) ==
  /\ OverOnce(x) /\ Counts(x)
  /\ x.msg = "live" => x.pcb = p
  /\ s.link[l].msg = "live" /\ s.link[l].timer # "reconnect" => s.link[l].pcb = p
  /\ Open(x) => /\ Sole(s, l, p) /\ y.alloc
                /\ y.state \in {"CLOSED", "SYN_SENT", "ESTABLISHED", "CLOSE_WAIT"}
                /\ y.arg = l \/ (y.arg = NoLink /\ y.state = "CLOSED")
BlockFits(s, l, x, p, y) ==
  /\ y.alloc /\ y.arg # NoLink => y.arg = l /\ x.msg = "live" /\ x.timer # "reconnect" /\ y.err
  /\ y.alloc /\ y.state \notin {"CLOSED", "TIME_WAIT"} => y.arg # NoLink
  /\ y.alloc /\ y.sent => y.state \in {"ESTABLISHED", "CLOSE_WAIT"}
  /\ Sole(s, l, p) \/ (y.alloc /\ y.arg = NoLink /\ y.state = "CLOSED")
ListFits(s, l, x, K) ==
  /\ K \in Seq(Links) /\ Once(K)
  /\ \A m \in Links : Contains(K, m) <=> IF m = l THEN x.msg = "live" /\ x.timer # "reconnect"
                                         ELSE Contains(s.list, m)

(* Values that fit keep the invariant. *)
LEMMA PutKeeps ==
  ASSUME NEW s, EspKept(s), NEW l \in Links, NEW x, IsLink(x), NEW p \in PcbIds, NEW y, IsPcb(y),
         NEW K, LinkFits(s, l, x, p, y), BlockFits(s, l, x, p, y), ListFits(s, l, x, K)
  PROVE  EspKept(Put(s, l, x, p, y, K))
<1> DEFINE r == Put(s, l, x, p, y, K)
<1>1. /\ IsEsp(r) /\ r.list = K /\ r.udp = s.udp /\ r.freed_closed = s.freed_closed
      /\ r.link[l] = x /\ \A m \in Links : m # l => r.link[m] = s.link[m]
      /\ r.pcb[p] = y /\ \A q \in PcbIds : q # p => r.pcb[q] = s.pcb[q]
  <2>1. IsEsp(s) /\ K \in Seq(Links)
    BY DEF EspKept, ListFits
  <2> QED
    BY <2>1, PutIs
<1> HIDE DEF r
<1>2. \A m \in Links : OverOnce(r.link[m]) /\ Counts(r.link[m])
  BY <1>1 DEF EspKept, LinkFits
<1>3. ASSUME NEW m \in Links PROVE HasBlock(r.pcb, r.link, m)
  <2>1. CASE m = l
    BY <1>1, <2>1 DEF HasBlock, LinkFits, Open
  <2>2. CASE m # l
    <3>1. r.link[m] = s.link[m] /\ HasBlock(s.pcb, s.link, m)
      BY <1>1, <2>2 DEF EspKept
    <3>2. CASE Open(s.link[m]) /\ s.link[m].pcb = p
      <4>1. y.alloc /\ y.arg = NoLink /\ y.state = "CLOSED"
        BY <2>2, <3>2 DEF BlockFits, Sole
      <4> QED
        BY <1>1, <3>1, <3>2, <4>1 DEF HasBlock
    <3>3. CASE ~(Open(s.link[m]) /\ s.link[m].pcb = p)
      BY <1>1, <3>1, <3>3 DEF HasBlock, Open
    <3> QED
      BY <3>2, <3>3
  <2> QED
    BY <2>1, <2>2
<1>4. ASSUME NEW q \in PcbIds PROVE CallsBack(r.pcb, r.link, q)
  <2>1. CASE q = p
    BY <1>1, <2>1 DEF CallsBack, BlockFits, LinkFits
  <2>2. CASE q # p
    <3>1. r.pcb[q] = s.pcb[q] /\ CallsBack(s.pcb, s.link, q)
      BY <1>1, <2>2 DEF EspKept
    <3>2. CASE s.pcb[q].alloc /\ s.pcb[q].arg # NoLink
      <4>1. s.pcb[q].arg # l /\ s.pcb[q].arg \in Links
        BY <2>2, <3>1, <3>2 DEF CallsBack, LinkFits
      <4> QED
        BY <1>1, <3>1, <3>2, <4>1 DEF CallsBack
    <3>3. CASE ~(s.pcb[q].alloc /\ s.pcb[q].arg # NoLink)
      BY <1>1, <3>1, <3>3 DEF CallsBack
    <3> QED
      BY <3>2, <3>3
  <2> QED
    BY <2>1, <2>2
<1>5. Alone(r.link)
  BY <1>1 DEF EspKept, Alone, LinkFits, Sole, Open
<1>6. Once(r.list) /\ Lists(r.list, r.link)
  BY <1>1 DEF EspKept, ListFits, Lists
<1>7. r.freed_closed = FALSE
  BY <1>1 DEF EspKept
<1> QED
  BY <1>1, <1>2, <1>3, <1>4, <1>5, <1>6, <1>7 DEF EspKept, r

(* Nor do they give the server a link it had not. *)
LEMMA PutGoes ==
  ASSUME NEW s, EspKept(s), NEW l \in Links, NEW x, IsLink(x), NEW p \in PcbIds, NEW y, IsPcb(y),
         NEW K, LinkFits(s, l, x, p, y), BlockFits(s, l, x, p, y), ListFits(s, l, x, K),
         x.msg = "live" /\ x.timer # "reconnect" /\ x.server => Contains(s.list, l) /\ s.link[l].server
  PROVE  Goes(s, Put(s, l, x, p, y, K))
<1> DEFINE r == Put(s, l, x, p, y, K)
<1>1. EspKept(r)
  BY PutKeeps
<1>2. /\ r.list = K /\ r.udp = s.udp
      /\ r.link[l] = x /\ \A m \in Links : m # l => r.link[m] = s.link[m]
  <2>1. IsEsp(s) /\ K \in Seq(Links)
    BY DEF EspKept, ListFits
  <2> QED
    BY <2>1, PutIs
<1> HIDE DEF r
<1>3. NoMore(s, r)
  BY <1>2 DEF NoMore, ListFits
<1> QED
  BY <1>1, <1>2, <1>3 DEF Goes, r

(* When no other open link can have the block. *)
LEMMA SoleIf ==
  ASSUME NEW s, EspKept(s), NEW l \in Links, NEW p \in PcbIds,
         \/ ~s.pcb[p].alloc \/ s.pcb[p].arg = l \/ (Open(s.link[l]) /\ s.link[l].pcb = p)
         \/ s.pcb[p].state \notin {"CLOSED", "SYN_SENT", "ESTABLISHED", "CLOSE_WAIT"}
  PROVE  Sole(s, l, p)
<1> SUFFICES ASSUME NEW m \in Links, m # l, Open(s.link[m]), s.link[m].pcb = p
             PROVE  FALSE
  BY DEF Sole
<1>1. /\ s.pcb[p].alloc
      /\ s.pcb[p].state \in {"CLOSED", "SYN_SENT", "ESTABLISHED", "CLOSE_WAIT"}
      /\ s.pcb[p].arg = m \/ s.pcb[p].arg = NoLink
  BY DEF EspKept, HasBlock
<1>2. l # NoLink
  BY EspSizes
<1>3. ~(Open(s.link[l]) /\ s.link[l].pcb = p)
  BY DEF EspKept, Alone
<1> QED
  BY <1>1, <1>2, <1>3

(* A link's own counts and settings change. *)
SetLink(s, l, x) == [s EXCEPT !.link = [s.link EXCEPT ![l] = x]]
Alike(x, y) == y.msg = x.msg /\ y.timer = x.timer /\ y.pcb = x.pcb /\ y.server = x.server /\ y.ended = x.ended

(* What SetLink leaves alone and what it sets. *)
LEMMA SetLinkIs ==
  ASSUME NEW s, IsEsp(s), NEW l \in Links, NEW x, IsLink(x)
  PROVE  LET r == SetLink(s, l, x)
         IN  /\ IsEsp(r) /\ r.list = s.list /\ r.udp = s.udp /\ r.freed_closed = s.freed_closed
             /\ r.pcb = s.pcb
             /\ r.link[l] = x /\ \A m \in Links : m # l => r.link[m] = s.link[m]
<1> DEFINE L == [s.link EXCEPT ![l] = x]
           r == [s EXCEPT !.link = L]
<1>1. /\ L = [m \in Links |-> L[m]] /\ (\A m \in Links : IsLink(L[m]))
      /\ L[l] = x /\ \A m \in Links : m # l => L[m] = s.link[m]
  BY DEF IsEsp
<1> HIDE DEF L
<1>2. /\ r = [f \in EspFields |-> r[f]] /\ r.link = L /\ r.pcb = s.pcb /\ r.list = s.list
      /\ r.udp = s.udp /\ r.freed_closed = s.freed_closed /\ r.count_opt = s.count_opt
  BY DEF IsEsp, EspFields
<1>3. s.count_opt \in Nat /\ s.list \in Seq(Links) /\ s.pcb = [p \in PcbIds |-> s.pcb[p]]
      /\ \A p \in PcbIds : IsPcb(s.pcb[p])
  BY DEF IsEsp
<1> HIDE DEF r
<1>4. IsEsp(r)
  BY <1>1, <1>2, <1>3 DEF IsEsp
<1> QED
  BY <1>1, <1>2, <1>4 DEF SetLink, r, L

(* A link that is as live as before, with counts that agree. *)
LEMMA SetLinkGoes ==
  ASSUME NEW s, EspKept(s), NEW l \in Links, NEW x, IsLink(x), Alike(s.link[l], x), Counts(x)
  PROVE  Goes(s, SetLink(s, l, x))
<1> DEFINE r == SetLink(s, l, x)
<1>1. /\ IsEsp(r) /\ r.list = s.list /\ r.udp = s.udp /\ r.freed_closed = s.freed_closed
      /\ r.pcb = s.pcb
      /\ r.link[l] = x /\ \A m \in Links : m # l => r.link[m] = s.link[m]
  BY SetLinkIs DEF EspKept
<1> HIDE DEF r
<1>2. \A m \in Links : /\ Alike(s.link[m], r.link[m]) /\ Counts(r.link[m])
                       /\ OverOnce(s.link[m])
  BY <1>1 DEF Alike, EspKept
<1>3. \A m \in Links : OverOnce(r.link[m])
  BY <1>2 DEF Alike, OverOnce
<1>4. \A m \in Links : HasBlock(r.pcb, r.link, m)
  BY <1>1, <1>2, SMTT(30) DEF Alike, EspKept, HasBlock, Open
<1>5. \A p \in PcbIds : CallsBack(r.pcb, r.link, p)
  BY <1>1, <1>2 DEF Alike, EspKept, CallsBack
<1>6. Alone(r.link)
  BY <1>2 DEF Alike, EspKept, Alone, Open
<1>7. Once(r.list) /\ Lists(r.list, r.link) /\ r.freed_closed = FALSE
  BY <1>1, <1>2 DEF Alike, EspKept, Lists
<1>8. EspKept(r)
  BY <1>1, <1>2, <1>3, <1>4, <1>5, <1>6, <1>7 DEF EspKept
<1>9. NoMore(s, r)
  BY <1>1, <1>2 DEF NoMore, Alike
<1> QED
  BY <1>1, <1>8, <1>9 DEF Goes, r

(* A control block goes on in its connection, or ends without one. *)
SetPcb(s, p, y) == [s EXCEPT !.pcb = [s.pcb EXCEPT ![p] = y]]
Nobody(s, p) == \A m \in Links : ~(Open(s.link[m]) /\ s.link[m].pcb = p)

(* What SetPcb leaves alone and what it sets. *)
LEMMA SetPcbIs ==
  ASSUME NEW s, IsEsp(s), NEW p \in PcbIds, NEW y, IsPcb(y)
  PROVE  LET r == SetPcb(s, p, y)
         IN  /\ IsEsp(r) /\ r.list = s.list /\ r.udp = s.udp /\ r.freed_closed = s.freed_closed
             /\ r.link = s.link
             /\ r.pcb[p] = y /\ \A q \in PcbIds : q # p => r.pcb[q] = s.pcb[q]
<1> DEFINE P == [s.pcb EXCEPT ![p] = y]
           r == [s EXCEPT !.pcb = P]
<1>1. /\ P = [q \in PcbIds |-> P[q]] /\ (\A q \in PcbIds : IsPcb(P[q]))
      /\ P[p] = y /\ \A q \in PcbIds : q # p => P[q] = s.pcb[q]
  BY DEF IsEsp
<1> HIDE DEF P
<1>2. /\ r = [f \in EspFields |-> r[f]] /\ r.pcb = P /\ r.link = s.link /\ r.list = s.list
      /\ r.udp = s.udp /\ r.freed_closed = s.freed_closed /\ r.count_opt = s.count_opt
  BY DEF IsEsp, EspFields
<1>3. s.count_opt \in Nat /\ s.list \in Seq(Links) /\ s.link = [l \in Links |-> s.link[l]]
      /\ \A l \in Links : IsLink(s.link[l])
  BY DEF IsEsp
<1> HIDE DEF r
<1>4. IsEsp(r)
  BY <1>1, <1>2, <1>3 DEF IsEsp
<1> QED
  BY <1>1, <1>2, <1>4 DEF SetPcb, r, P

(* A block that keeps its link, or that no open link has. *)
LEMMA SetPcbGoes ==
  ASSUME NEW s, EspKept(s), NEW p \in PcbIds, NEW y, IsPcb(y),
         y.alloc => s.pcb[p].alloc /\ y.arg = s.pcb[p].arg /\ y.err = s.pcb[p].err,
         y.alloc /\ y.state \notin {"CLOSED", "TIME_WAIT"} => y.arg # NoLink,
         y.alloc /\ y.sent => y.state \in {"ESTABLISHED", "CLOSE_WAIT"},
         Nobody(s, p) \/ (y.alloc /\ y.state \in {"ESTABLISHED", "CLOSE_WAIT"})
  PROVE  Goes(s, SetPcb(s, p, y))
<1> DEFINE r == SetPcb(s, p, y)
<1>1. /\ IsEsp(r) /\ r.list = s.list /\ r.udp = s.udp /\ r.freed_closed = s.freed_closed
      /\ r.link = s.link
      /\ r.pcb[p] = y /\ \A q \in PcbIds : q # p => r.pcb[q] = s.pcb[q]
  BY SetPcbIs DEF EspKept
<1> HIDE DEF r
<1>2. ASSUME NEW m \in Links PROVE HasBlock(r.pcb, r.link, m)
  <2>1. HasBlock(s.pcb, s.link, m)
    BY DEF EspKept
  <2>2. CASE Open(s.link[m]) /\ s.link[m].pcb = p
    BY <1>1, <2>1, <2>2 DEF HasBlock, Nobody
  <2>3. CASE ~(Open(s.link[m]) /\ s.link[m].pcb = p)
    BY <1>1, <2>1, <2>3 DEF HasBlock, Open
  <2> QED
    BY <2>2, <2>3
<1>3. ASSUME NEW q \in PcbIds PROVE CallsBack(r.pcb, r.link, q)
  <2>1. CallsBack(s.pcb, s.link, q)
    BY DEF EspKept
  <2>2. CASE q = p /\ y.alloc
    <3>1. y.arg = s.pcb[p].arg /\ (s.pcb[p].err => y.err) /\ s.pcb[p].alloc
      BY <2>2
    <3> QED
      BY <1>1, <2>1, <2>2, <3>1 DEF CallsBack
  <2>3. CASE q = p /\ ~y.alloc
    BY <1>1, <2>3 DEF CallsBack
  <2>4. CASE q # p
    BY <1>1, <2>1, <2>4 DEF CallsBack
  <2> QED
    BY <2>2, <2>3, <2>4
<1>4. EspKept(r)
  BY <1>1, <1>2, <1>3 DEF EspKept
<1>5. NoMore(s, r)
  BY <1>1 DEF NoMore
<1> QED
  BY <1>1, <1>4, <1>5 DEF Goes, r

-----------------------------------------------------------------------------
(* Closing. *)
LEMMA NewPcbIs == /\ IsPcb(NewPcb) /\ NewPcb.alloc = FALSE /\ NewPcb.arg = NoLink /\ NewPcb.err = FALSE
                  /\ NewPcb.sent = FALSE /\ NewPcb.recv = FALSE /\ NewPcb.state = "CLOSED"
BY DEF NewPcb, IsPcb, PcbFields

(* What tcp_close and the end of the callbacks make of a block. *)
Shut(b, y) ==
  \/ y = NewPcb
  \/ /\ y.alloc = b.alloc /\ y.arg = b.arg /\ y.err = b.err
     /\ b.state \notin {"CLOSED", "SYN_SENT"} /\ y.state \notin {"CLOSED", "SYN_SENT"}
     /\ y.state = b.state \/ b.state \in {"ESTABLISHED", "CLOSE_WAIT"}
     /\ y.sent => b.sent /\ y.state = b.state

(* espconn_client_close and espconn_server_close set one link and its block. *)
LEMMA CloseIs ==
  ASSUME NEW s, EspKept(s), NEW l \in Links, s.link[l].pcb \in PcbIds,
         s.pcb[s.link[l].pcb].alloc, NEW mem \in BOOLEAN
  PROVE  \E y : /\ IsPcb(y) /\ Shut(s.pcb[s.link[l].pcb], y)
                /\ Close(s, l, mem)
                     = Put(s, l, [s.link[l] EXCEPT !.timer = "close"], s.link[l].pcb, y, s.list)
<1> DEFINE p  == s.link[l].pcb
           b  == s.pcb[p]
           x  == [s.link[l] EXCEPT !.timer = "close"]
           ok == ~Refused(s, p, mem)
           s1 == [s EXCEPT !.pcb[p].rxclosed = TRUE, !.freed_closed = @ \/ ~s.pcb[p].alloc]
           R(t) == [t EXCEPT !.link[l].timer = "close",
                             !.pcb[p].recv = IF ok THEN FALSE ELSE @, !.pcb[p].sent = IF ok THEN FALSE ELSE @]
           b1 == [b EXCEPT !.rxclosed = TRUE]
           E(c) == [c EXCEPT !.recv = IF ok THEN FALSE ELSE @, !.sent = IF ok THEN FALSE ELSE @]
<1>1. IsEsp(s) /\ IsPcb(b) /\ IsLink(s.link[l]) /\ s.freed_closed = FALSE /\ p \in PcbIds
  BY DEF EspKept, IsEsp
<1>2. (s.freed_closed \/ ~s.pcb[p].alloc) = FALSE
  BY <1>1
<1>3. Close(s, l, mem) = R(tcp_close(s, p, mem))
  BY DEF Close
<1>4. s1 = SetPcb(s, p, b1)
  BY <1>1, <1>2 DEF SetPcb, IsEsp, EspFields
<1>5. /\ IsPcb(b1) /\ b1.alloc = b.alloc /\ b1.arg = b.arg /\ b1.err = b.err
      /\ b1.state = b.state /\ b1.sent = b.sent
  BY <1>1 DEF IsPcb, PcbFields
<1>6. ASSUME NEW c, IsPcb(c)
      PROVE  /\ R(SetPcb(s, p, c)) = Put(s, l, x, p, E(c), s.list)
             /\ IsPcb(E(c)) /\ E(c).alloc = c.alloc /\ E(c).arg = c.arg /\ E(c).err = c.err
             /\ E(c).state = c.state /\ (E(c).sent => c.sent /\ ~ok)
  <2>1. /\ IsPcb(E(c)) /\ E(c).alloc = c.alloc /\ E(c).arg = c.arg /\ E(c).err = c.err
        /\ E(c).state = c.state
    BY <1>6 DEF IsPcb, PcbFields
  <2>2. E(c).sent => c.sent /\ ~ok
    <3> HIDE DEF ok
    <3>1. E(c).sent = IF ok THEN FALSE ELSE c.sent
      BY <1>6 DEF IsPcb, PcbFields
    <3> HIDE DEF E
    <3>2. ok => E(c).sent = FALSE
      BY <3>1
    <3>3. ~ok => E(c).sent = c.sent
      BY <3>1
    <3> QED
      BY <3>2, <3>3
  <2>3. R(SetPcb(s, p, c)) = Put(s, l, x, p, E(c), s.list)
    <3> DEFINE u == SetPcb(s, p, c)
               v == IF ok THEN FALSE ELSE c.recv
               w == IF ok THEN FALSE ELSE c.sent
               L1 == [s.link EXCEPT ![l] = x]
               P1 == [s.pcb EXCEPT ![p] = E(c)]
    <3>1. /\ IsEsp(u) /\ u.link = s.link /\ u.pcb = [s.pcb EXCEPT ![p] = c] /\ u.pcb[p] = c
      BY <1>1, <1>6, SetPcbIs, ZenonT(30) DEF SetPcb, IsEsp, EspFields
    <3>2. u = [s EXCEPT !.pcb = [s.pcb EXCEPT ![p] = c]]
      BY DEF SetPcb
    <3> HIDE DEF u
    <3>3. R(u) = [u EXCEPT !.link[l].timer = "close", !.pcb[p].recv = v, !.pcb[p].sent = w]
      BY <3>1
    <3>4. E(c) = [[c EXCEPT !.recv = v] EXCEPT !.sent = w]
      OBVIOUS
    <3> HIDE DEF v, w, E
    <3>5. [u.link EXCEPT ![l].timer = "close"] = L1
      BY <1>1, <3>1 DEF IsEsp
    <3>6. [u.pcb EXCEPT ![p].recv = v, ![p].sent = w] = P1
      BY <1>1, <3>1, <3>4 DEF IsEsp
    <3> HIDE DEF L1, P1, R
    <3>7. R(u) = [u EXCEPT !.link = L1, !.pcb = P1]
      BY <3>1, <3>3, <3>5, <3>6 DEF IsEsp, EspFields
    <3>8. [u EXCEPT !.link = L1, !.pcb = P1] = [s EXCEPT !.link = L1, !.pcb = P1, !.list = s.list]
      BY <1>1, <3>2 DEF IsEsp, EspFields
    <3> QED
      BY <3>7, <3>8 DEF u, L1, P1, Put
  <2> QED
    BY <2>1, <2>2, <2>3
<1> HIDE DEF b1, E, R, s1, x
<1>7. CASE b.state \in {"CLOSED", "SYN_SENT"}
  <2>1. tcp_close(s, p, mem) = FreePcb(s1, p)
    BY <1>7 DEF tcp_close, s1
  <2>2. FreePcb(s1, p) = SetPcb(s, p, NewPcb)
    BY <1>1, <1>4, <1>5 DEF FreePcb, SetPcb, IsEsp, EspFields
  <2>3. E(NewPcb) = NewPcb
    BY NewPcbIs DEF E, IsPcb, PcbFields
  <2>4. Close(s, l, mem) = Put(s, l, x, p, NewPcb, s.list)
    BY <1>3, <1>6, <2>1, <2>2, <2>3, NewPcbIs
  <2> QED
    BY <2>4, NewPcbIs DEF Shut, x
<1>8. CASE b.state \in {"ESTABLISHED", "CLOSE_WAIT"} /\ mem
  <2> DEFINE n == IF b.state = "ESTABLISHED" THEN "FIN_WAIT" ELSE "LAST_ACK"
             c == [b1 EXCEPT !.state = n]
  <2>1. tcp_close(s, p, mem) = [s1 EXCEPT !.pcb[p].state = n]
    BY <1>8 DEF tcp_close, s1
  <2>2. [s1 EXCEPT !.pcb[p].state = n] = SetPcb(s, p, c)
    BY <1>1, <1>4, <1>5 DEF SetPcb, IsEsp, EspFields
  <2>3. IsPcb(c) /\ c.alloc = b.alloc /\ c.arg = b.arg /\ c.err = b.err /\ c.state = n
    BY <1>5 DEF IsPcb, PcbFields
  <2>4. ok
    BY <1>8 DEF Refused
  <2> HIDE DEF c
  <2>5. Close(s, l, mem) = Put(s, l, x, p, E(c), s.list)
    BY <1>3, <1>6, <2>1, <2>2, <2>3, SMTT(30)
  <2>6. IsPcb(E(c)) /\ Shut(b, E(c))
    <3>1. /\ IsPcb(E(c)) /\ E(c).alloc = c.alloc /\ E(c).arg = c.arg /\ E(c).err = c.err
          /\ E(c).state = c.state /\ (E(c).sent => c.sent /\ ~ok)
      BY <1>6, <2>3
    <3> QED
      BY <1>8, <2>3, <2>4, <3>1 DEF Shut
  <2> QED
    BY <2>5, <2>6 DEF x
<1>9. CASE b.state \notin {"CLOSED", "SYN_SENT"} /\ ~(b.state \in {"ESTABLISHED", "CLOSE_WAIT"} /\ mem)
  <2>1. tcp_close(s, p, mem) = s1
    BY <1>9 DEF tcp_close, s1
  <2>2. Close(s, l, mem) = Put(s, l, x, p, E(b1), s.list)
    BY <1>3, <1>4, <1>5, <1>6, <2>1
  <2>3. IsPcb(E(b1)) /\ Shut(b, E(b1))
    <3>1. /\ IsPcb(E(b1)) /\ E(b1).alloc = b1.alloc /\ E(b1).arg = b1.arg /\ E(b1).err = b1.err
          /\ E(b1).state = b1.state /\ (E(b1).sent => b1.sent /\ ~ok)
      BY <1>5, <1>6
    <3>2. b1.sent => b.sent
      BY <1>5
    <3> QED
      BY <1>5, <1>9, <3>1, <3>2 DEF Shut
  <2> QED
    BY <2>2, <2>3 DEF x
<1> QED
  BY <1>7, <1>8, <1>9

(* espconn_client_close, espconn_server_close: the link of a block that    *)
(* calls back, or that is open, begins to close.                           *)
LEMMA CloseGoes ==
  ASSUME NEW s, EspKept(s), NEW l \in Links, s.link[l].msg = "live", s.link[l].timer # "reconnect",
         s.pcb[s.link[l].pcb].alloc, s.pcb[s.link[l].pcb].arg = l \/ Open(s.link[l]),
         NEW mem \in BOOLEAN
  PROVE  Goes(s, Close(s, l, mem))
<1> DEFINE p == s.link[l].pcb
           b == s.pcb[p]
           x == [s.link[l] EXCEPT !.timer = "close"]
<1>1. IsLink(s.link[l]) /\ p \in PcbIds /\ HasBlock(s.pcb, s.link, l)
  BY DEF EspKept, IsEsp, HasBlock
<1>2. PICK y : IsPcb(y) /\ Shut(b, y) /\ Close(s, l, mem) = Put(s, l, x, p, y, s.list)
  BY <1>1, CloseIs
<1>3. /\ IsLink(x) /\ x.timer = "close" /\ x.msg = "live" /\ x.pcb = p /\ x.server = s.link[l].server
      /\ x.ended = s.link[l].ended
  BY <1>1 DEF IsLink, LinkFields
<1>4. Counts(x)
  <2>1. Counts(s.link[l])
    BY DEF EspKept
  <2>2. /\ x.cntr = s.link[l].cntr /\ x.unacked = s.link[l].unacked /\ x.write_len = s.link[l].write_len
        /\ x.write_total = s.link[l].write_total /\ x.stuck = s.link[l].stuck
    BY <1>1 DEF IsLink, LinkFields
  <2> HIDE DEF x
  <2> QED
    BY <2>1, <2>2 DEF Counts
<1> HIDE DEF x
<1>5. LinkFits(s, l, x, p, y)
  <2>1. OverOnce(s.link[l])
    BY DEF EspKept
  <2> QED
    BY <1>3, <1>4, <2>1 DEF LinkFits, OverOnce, Open
<1>6. Sole(s, l, p)
  BY <1>1, SoleIf
<1>7. BlockFits(s, l, x, p, y)
  <2>1. CallsBack(s.pcb, s.link, p)
    BY <1>1 DEF EspKept
  <2>2. CASE y = NewPcb
    BY <1>6, <2>2, NewPcbIs DEF BlockFits
  <2>3. CASE y # NewPcb
    <3>1. b.arg = l
      BY <1>1, <1>2, <2>3 DEF HasBlock, Shut
    <3>2. b.err /\ l # NoLink
      BY <2>1, <3>1, EspSizes DEF CallsBack
    <3>3. y.arg = l /\ y.err /\ (y.alloc /\ y.sent => y.state \in {"ESTABLISHED", "CLOSE_WAIT"})
      BY <1>2, <2>1, <2>3, <3>1, <3>2 DEF Shut, CallsBack
    <3> QED
      BY <1>3, <1>6, <3>2, <3>3 DEF BlockFits
  <2> QED
    BY <2>2, <2>3
<1>8. ListFits(s, l, x, s.list)
  BY <1>3 DEF ListFits, EspKept, IsEsp, Lists
<1>9. Contains(s.list, l)
  BY DEF EspKept, Lists
<1> QED
  BY <1>1, <1>2, <1>3, <1>5, <1>7, <1>8, <1>9, PutGoes

(* A link taken from the list. *)
LEMMA ListDelete ==
  ASSUME NEW s, EspKept(s), NEW l \in Links, NEW x, ~(x.msg = "live" /\ x.timer # "reconnect")
  PROVE  ListFits(s, l, x, Unlinked(s.list, l)[Len(s.list)])
<1>1. s.list \in Seq(Links) /\ Once(s.list)
  BY DEF EspKept, IsEsp
<1> QED
  BY <1>1, DeleteKeeps DEF ListFits

(* Freeing the message of a link, in one step. *)
LEMMA FreeMsgIs ==
  ASSUME NEW v, v = [f \in EspFields |-> v[f]], NEW l
  PROVE  FreeMsg(v, l) = [v EXCEPT !.link = [v.link EXCEPT ![l].msg = "freed", ![l].timer = "none",
                                                          ![l].ended = v.link[l].ended + 1]]
<1> DEFINE A == [v.link EXCEPT ![l].msg = "freed"]
           B == [A EXCEPT ![l].timer = "none"]
           v1 == [v EXCEPT !.link = A]
           v2 == [v1 EXCEPT !.link = B]
<1> QED
  BY DEF FreeMsg, EspFields

(* The end of a connection that the link learns from its error callback. *)
LEMMA AbortGoes ==
  ASSUME NEW s, EspKept(s), NEW p \in PcbIds, s.pcb[p].alloc, s.pcb[p].arg # NoLink
  PROVE  Goes(s, Abort(s, p)) /\ ~Contains(Abort(s, p).list, s.pcb[p].arg)
<1> DEFINE l == s.pcb[p].arg
           x == [s.link[l] EXCEPT !.state = "CLOSE", !.timer = "reconnect"]
           K == Unlinked(s.list, l)[Len(s.list)]
<1>1. /\ CallsBack(s.pcb, s.link, p) /\ IsEsp(s)
      /\ l \in Links /\ s.link[l].msg = "live" /\ s.link[l].timer # "reconnect" /\ s.link[l].pcb = p
      /\ s.pcb[p].err
  BY DEF EspKept, CallsBack
<1>2. IsLink(s.link[l]) /\ OverOnce(s.link[l]) /\ Counts(s.link[l])
  BY <1>1 DEF EspKept, IsEsp
<1>3. Abort(s, p) = Put(s, l, x, p, NewPcb, K)
  <2> DEFINE u == SetPcb(s, p, NewPcb)
  <2>1. /\ IsEsp(u) /\ u.link = s.link /\ u.list = s.list
    BY <1>1, NewPcbIs, SetPcbIs
  <2>2. u = [s EXCEPT !.pcb = [s.pcb EXCEPT ![p] = NewPcb]]
    BY DEF SetPcb
  <2>3. Abort(s, p) = [espconn_list_delete(u, l) EXCEPT !.link[l].state = "CLOSE", !.link[l].timer = "reconnect"]
    BY <1>1 DEF Abort, LinkErr, FreePcb, SetPcb
  <2> HIDE DEF u, l
  <2>4. espconn_list_delete(u, l) = [u EXCEPT !.list = K]
    BY <2>1 DEF espconn_list_delete
  <2> DEFINE L1 == [s.link EXCEPT ![l] = x]
             v == [u EXCEPT !.list = K]
  <2>5. v.link = s.link /\ v = [f \in EspFields |-> v[f]]
    BY <2>1 DEF IsEsp, EspFields
  <2>6. [s.link EXCEPT ![l].state = "CLOSE", ![l].timer = "reconnect"] = L1
    BY <1>1, <1>2 DEF IsEsp
  <2> HIDE DEF v, L1, x, K
  <2>7. Abort(s, p) = [v EXCEPT !.link = L1]
    <3>1. Abort(s, p) = [v EXCEPT !.link[l].state = "CLOSE", !.link[l].timer = "reconnect"]
      BY <2>3, <2>4 DEF v
    <3>2. [v EXCEPT !.link[l].state = "CLOSE", !.link[l].timer = "reconnect"]
            = [v EXCEPT !.link = [v.link EXCEPT ![l].state = "CLOSE", ![l].timer = "reconnect"]]
      BY <2>5 DEF EspFields
    <3> QED
      BY <2>5, <2>6, <3>1, <3>2
  <2>8. [v EXCEPT !.link = L1] = [s EXCEPT !.link = L1, !.pcb = [s.pcb EXCEPT ![p] = NewPcb], !.list = K]
    BY <1>1, <2>2 DEF v, IsEsp, EspFields
  <2> QED
    BY <2>7, <2>8 DEF Put, L1
<1>4. /\ IsLink(x) /\ x.timer = "reconnect" /\ x.msg = "live" /\ x.pcb = p
      /\ x.ended = s.link[l].ended
      /\ x.cntr = s.link[l].cntr /\ x.unacked = s.link[l].unacked /\ x.write_len = s.link[l].write_len
      /\ x.write_total = s.link[l].write_total /\ x.stuck = s.link[l].stuck
  BY <1>1, <1>2 DEF IsLink, LinkFields
<1> HIDE DEF x, K, l
<1>5. ListFits(s, l, x, K)
  BY <1>1, <1>4, ListDelete DEF K
<1>6. LinkFits(s, l, x, p, NewPcb)
  BY <1>1, <1>2, <1>4 DEF LinkFits, OverOnce, Counts, Open
<1>7. BlockFits(s, l, x, p, NewPcb)
  <2>1. Sole(s, l, p)
    BY <1>1, SoleIf DEF l
  <2> QED
    BY <2>1, NewPcbIs DEF BlockFits
<1>8. Goes(s, Abort(s, p))
  BY <1>1, <1>3, <1>4, <1>5, <1>6, <1>7, NewPcbIs, PutGoes
<1>9. Abort(s, p).list = K
  BY <1>1, <1>3, <1>4, <1>5, NewPcbIs, PutIs DEF ListFits
<1>10. ~Contains(K, l)
  BY <1>1, <1>4, <1>5 DEF ListFits
<1> QED
  BY <1>8, <1>9, <1>10 DEF l

(* espconn_cclose_cb, espconn_sclose_cb. *)
LEMMA CloseTimerGoes ==
  ASSUME NEW s, EspKept(s), NEW l \in Links, s.link[l].timer = "close"
  PROVE  Goes(s, CloseTimer(s, l))
<1> DEFINE p == s.link[l].pcb
           b == s.pcb[p]
<1>1. /\ IsEsp(s) /\ IsLink(s.link[l]) /\ OverOnce(s.link[l]) /\ Counts(s.link[l])
      /\ s.link[l].msg = "live" /\ p \in PcbIds /\ IsPcb(b) /\ CallsBack(s.pcb, s.link, p)
  BY DEF EspKept, IsEsp, HasBlock, OverOnce
<1>2. CASE b.state \notin {"TIME_WAIT", "CLOSED"}
  <2> DEFINE x == [s.link[l] EXCEPT !.timer = "close"]
  <2>1. CloseTimer(s, l) = SetLink(s, l, x)
    BY <1>1, <1>2 DEF CloseTimer, SetLink, IsEsp, EspFields
  <2>2. x = s.link[l]
    BY <1>1 DEF IsLink, LinkFields
  <2> QED
    BY <1>1, <2>1, <2>2, SetLinkGoes DEF Alike
<1>3. CASE b.state \in {"TIME_WAIT", "CLOSED"}
  <2> DEFINE x == [s.link[l] EXCEPT !.state = "CLOSE", !.msg = "freed", !.timer = "none", !.ended = @ + 1]
             K == Unlinked(s.list, l)[Len(s.list)]
             b1 == [b EXCEPT !.arg = NoLink, !.err = FALSE]
             y == IF s.link[l].reuse /\ b.state = "TIME_WAIT" THEN NewPcb ELSE b1
  <2>1. /\ IsPcb(b1) /\ b1.arg = NoLink /\ b1.alloc = b.alloc /\ b1.state = b.state /\ b1.sent = b.sent
    BY <1>1 DEF IsPcb, PcbFields
  <2>2. IsPcb(y) /\ y.arg = NoLink /\ (y.alloc => b.alloc) /\ (y.sent => b.sent) /\ y.state \in {"TIME_WAIT", "CLOSED"}
        /\ (b.state = "CLOSED" => y = b1)
    <3>1. CASE y = NewPcb /\ b.state = "TIME_WAIT"
      BY <3>1, NewPcbIs
    <3>2. CASE y = b1
      <4>1. (b1.alloc => b.alloc) /\ (b1.sent => b.sent)
        BY <2>1
      <4> QED
        BY <1>3, <2>1, <3>2, <4>1
    <3> QED
      BY <3>1, <3>2
  <2>3. /\ IsLink(x) /\ x.timer = "none" /\ x.msg = "freed" /\ x.ended = s.link[l].ended + 1
        /\ x.cntr = s.link[l].cntr /\ x.unacked = s.link[l].unacked /\ x.write_len = s.link[l].write_len
        /\ x.write_total = s.link[l].write_total /\ x.stuck = s.link[l].stuck
    BY <1>1 DEF IsLink, LinkFields
  <2>4. CloseTimer(s, l) = Put(s, l, x, p, y, K)
    <3> DEFINE x1 == [s.link[l] EXCEPT !.state = "CLOSE"]
               u == [s EXCEPT !.link = [s.link EXCEPT ![l] = x1], !.list = K]
               L1 == [s.link EXCEPT ![l] = x]
               P1 == [s.pcb EXCEPT ![p] = y]
               v == [u EXCEPT !.pcb = P1]
    <3>1. espconn_list_delete([s EXCEPT !.link[l].state = "CLOSE"], l) = u
      <4> DEFINE t == [s EXCEPT !.link = [s.link EXCEPT ![l] = x1]]
      <4>1. t = [s EXCEPT !.link[l].state = "CLOSE"]
        OBVIOUS
      <4>2. t.list = s.list /\ t = [f \in EspFields |-> t[f]]
        BY <1>1 DEF IsEsp, EspFields
      <4>3. u = [t EXCEPT !.list = K]
        OBVIOUS
      <4> HIDE DEF t, u, K
      <4> QED
        BY <4>1, <4>2, <4>3 DEF espconn_list_delete, K
    <3>2. CloseTimer(s, l) = espconn_tcp_disconnect_successful(u, l)
      BY <1>3, <3>1 DEF CloseTimer
    <3>3. /\ u.link[l] = x1 /\ x1.pcb = p /\ x1.reuse = s.link[l].reuse /\ u.pcb = s.pcb /\ u = [f \in EspFields |-> u[f]]
          /\ u.link = [s.link EXCEPT ![l] = x1]
      BY <1>1 DEF IsEsp, EspFields, IsLink, LinkFields
    <3> HIDE DEF u
    <3> DEFINE w == [u EXCEPT !.pcb[p].arg = NoLink, !.pcb[p].err = FALSE]
    <3>4. w = [u EXCEPT !.pcb = [s.pcb EXCEPT ![p] = b1]]
      <4>1. [s.pcb EXCEPT ![p].arg = NoLink, ![p].err = FALSE] = [s.pcb EXCEPT ![p] = b1]
        BY <1>1 DEF IsEsp
      <4> HIDE DEF b1
      <4> QED
        BY <3>3, <4>1 DEF EspFields
    <3>5. espconn_tcp_disconnect_successful(u, l)
            = FreeMsg(IF s.link[l].reuse /\ b.state = "TIME_WAIT" THEN FreePcb(w, p) ELSE w, l)
      BY <3>3 DEF espconn_tcp_disconnect_successful
    <3> HIDE DEF w
    <3>6. w.pcb = [s.pcb EXCEPT ![p] = b1] /\ w = [f \in EspFields |-> w[f]]
      BY <3>3, <3>4 DEF EspFields
    <3>7. (IF s.link[l].reuse /\ b.state = "TIME_WAIT" THEN FreePcb(w, p) ELSE w) = v
      <4>1. CASE s.link[l].reuse /\ b.state = "TIME_WAIT"
        <5>1. P1 = [s.pcb EXCEPT ![p] = NewPcb]
          BY <4>1
        <5>2. [w.pcb EXCEPT ![p] = NewPcb] = P1
          BY <1>1, <3>6, <5>1 DEF IsEsp
        <5> HIDE DEF P1
        <5>3. FreePcb(w, p) = [w EXCEPT !.pcb = P1]
          BY <5>2 DEF FreePcb
        <5> QED
          BY <3>3, <3>4, <4>1, <5>3 DEF EspFields
      <4>2. CASE ~(s.link[l].reuse /\ b.state = "TIME_WAIT")
        BY <3>4, <4>2
      <4> QED
        BY <4>1, <4>2
    <3> HIDE DEF P1, y, b1
    <3>8. v.link = [s.link EXCEPT ![l] = x1] /\ v = [f \in EspFields |-> v[f]]
      BY <3>3 DEF EspFields
    <3>9. [v.link EXCEPT ![l].msg = "freed", ![l].timer = "none", ![l].ended = v.link[l].ended + 1] = L1
      <4> HIDE DEF v
      <4>1. v.link[l] = x1 /\ x1.ended = s.link[l].ended
        BY <1>1, <3>8 DEF IsEsp, IsLink, LinkFields
      <4>2. x = [x1 EXCEPT !.msg = "freed", !.timer = "none", !.ended = s.link[l].ended + 1]
        BY <1>1 DEF IsLink, LinkFields
      <4> HIDE DEF x, x1
      <4> QED
        BY <1>1, <3>8, <4>1, <4>2 DEF IsEsp
    <3> HIDE DEF v, L1, x, x1
    <3>10. FreeMsg(v, l) = [v EXCEPT !.link = L1]
      <4>1. FreeMsg(v, l) = [v EXCEPT !.link = [v.link EXCEPT ![l].msg = "freed", ![l].timer = "none",
                                                              ![l].ended = v.link[l].ended + 1]]
        BY <3>8, FreeMsgIs
      <4> QED
        BY <3>9, <4>1
    <3>11. [v EXCEPT !.link = L1] = [s EXCEPT !.link = L1, !.pcb = P1, !.list = K]
      BY <1>1, <3>8 DEF v, u, IsEsp, EspFields
    <3> QED
      BY <3>2, <3>5, <3>7, <3>10, <3>11 DEF Put, L1, P1
  <2> HIDE DEF x, y, K
  <2>5. ListFits(s, l, x, K)
    BY <2>3, ListDelete DEF K
  <2>6. LinkFits(s, l, x, p, y)
    BY <1>1, <2>3 DEF LinkFits, OverOnce, Counts, Open
  <2>7. BlockFits(s, l, x, p, y)
    <3>1. Sole(s, l, p) \/ (y.alloc /\ y.arg = NoLink /\ y.state = "CLOSED")
      <4> SUFFICES ASSUME NEW m \in Links, m # l, Open(s.link[m]), s.link[m].pcb = p
                   PROVE  y.alloc /\ y.arg = NoLink /\ y.state = "CLOSED"
        BY DEF Sole
      <4>1. b.alloc /\ b.state = "CLOSED"
        BY <1>3 DEF EspKept, HasBlock
      <4> QED
        BY <2>1, <2>2, <4>1
    <3>2. ~(y.alloc /\ y.sent)
      BY <1>1, <1>3, <2>2 DEF CallsBack
    <3> QED
      BY <2>2, <3>1, <3>2 DEF BlockFits
  <2> QED
    BY <1>1, <2>2, <2>3, <2>4, <2>5, <2>6, <2>7, PutGoes
<1> QED
  BY <1>2, <1>3
(* The application is told of an error. *)
LEMMA ReconnectGoes ==
  ASSUME NEW s, EspKept(s), NEW l \in Links, s.link[l].timer = "reconnect"
  PROVE  Goes(s, espconn_tcp_reconnect(s, l))
<1> DEFINE e == s.link[l].ended + 1
           x == [s.link[l] EXCEPT !.msg = "freed", !.timer = "none", !.ended = e]
           r == SetLink(s, l, x)
<1>1. /\ IsEsp(s) /\ IsLink(s.link[l]) /\ OverOnce(s.link[l]) /\ Counts(s.link[l])
      /\ s.link[l].msg = "live"
  BY DEF EspKept, IsEsp, OverOnce
<1>2. espconn_tcp_reconnect(s, l) = r
  <2> HIDE DEF e
  <2>1. [s.link EXCEPT ![l].msg = "freed", ![l].timer = "none", ![l].ended = e] = [s.link EXCEPT ![l] = x]
    BY <1>1 DEF IsEsp
  <2>2. s = [f \in EspFields |-> s[f]]
    BY <1>1 DEF IsEsp
  <2>3. FreeMsg(s, l) = [s EXCEPT !.link = [s.link EXCEPT ![l].msg = "freed", ![l].timer = "none", ![l].ended = e]]
    BY <2>2, FreeMsgIs DEF e
  <2> HIDE DEF x
  <2> QED
    BY <2>1, <2>3 DEF espconn_tcp_reconnect, SetLink
<1>3. /\ IsLink(x) /\ x.timer = "none" /\ x.msg = "freed" /\ x.ended = s.link[l].ended + 1
      /\ x.cntr = s.link[l].cntr /\ x.unacked = s.link[l].unacked /\ x.write_len = s.link[l].write_len
      /\ x.write_total = s.link[l].write_total /\ x.stuck = s.link[l].stuck
  BY <1>1 DEF IsLink, LinkFields
<1> HIDE DEF x, e
<1>4. OverOnce(x) /\ Counts(x)
  BY <1>1, <1>3 DEF OverOnce, Counts
<1>5. /\ IsEsp(r) /\ r.list = s.list /\ r.udp = s.udp /\ r.freed_closed = s.freed_closed
      /\ r.pcb = s.pcb
      /\ r.link[l] = x /\ \A m \in Links : m # l => r.link[m] = s.link[m]
  BY <1>1, <1>3, SetLinkIs
<1> HIDE DEF r
<1>6. \A m \in Links : OverOnce(r.link[m]) /\ Counts(r.link[m])
  BY <1>4, <1>5 DEF EspKept
<1>7. \A m \in Links : HasBlock(r.pcb, r.link, m)
  <2>1. ~(x.msg = "live") /\ ~Open(x)
    BY <1>3 DEF Open
  <2> QED
    BY <1>5, <2>1 DEF EspKept, HasBlock
<1>8. ASSUME NEW q \in PcbIds PROVE CallsBack(r.pcb, r.link, q)
  <2>1. CallsBack(s.pcb, s.link, q)
    BY DEF EspKept
  <2>2. s.pcb[q].alloc /\ s.pcb[q].arg # NoLink => s.pcb[q].arg # l
    BY <2>1 DEF CallsBack
  <2> QED
    BY <1>5, <2>1, <2>2 DEF CallsBack
<1>9. Alone(r.link)
  BY <1>3, <1>5 DEF EspKept, Alone, Open
<1>10. Lists(r.list, r.link) /\ Once(r.list) /\ r.freed_closed = FALSE
  BY <1>1, <1>3, <1>5 DEF EspKept, Lists
<1>11. EspKept(r)
  BY <1>5, <1>6, <1>7, <1>8, <1>9, <1>10 DEF EspKept
<1>12. NoMore(s, r)
  <2>1. ~Contains(s.list, l)
    BY DEF EspKept, Lists
  <2> QED
    BY <1>5, <2>1 DEF NoMore
<1> QED
  BY <1>2, <1>5, <1>11, <1>12 DEF Goes

-----------------------------------------------------------------------------
(* A link that is made, for a block that was free. *)
Made(x, p, srv) == /\ IsLink(x) /\ x.msg = "live" /\ x.timer = "none" /\ x.pcb = p /\ x.server = srv
                   /\ x.ended = 0 /\ x.cntr = 0 /\ x.unacked = 0 /\ x.write_len = 0 /\ x.write_total = 0
Begun(y, l) == /\ IsPcb(y) /\ y.alloc = TRUE /\ y.arg = l /\ y.err = TRUE /\ y.sent = FALSE
               /\ y.state \in {"CLOSED", "SYN_SENT", "ESTABLISHED"}

(* The record of a link before it is made. *)
LEMMA NewLinkIs ==
  /\ IsLink(NewLink) /\ NewLink.msg = "none" /\ NewLink.timer = "none" /\ NewLink.server = FALSE
  /\ NewLink.ended = 0 /\ NewLink.cntr = 0 /\ NewLink.unacked = 0 /\ NewLink.write_len = 0
  /\ NewLink.write_total = 0
BY DEF NewLink, IsLink, LinkFields

(* It joins the list, once. *)
LEMMA NewLinkKeeps ==
  ASSUME NEW s, EspKept(s), NEW l \in Links, s.link[l].msg = "none", NEW p \in PcbIds, ~s.pcb[p].alloc,
         NEW x, NEW srv, Made(x, p, srv), NEW y, Begun(y, l)
  PROVE  LET r == Put(s, l, x, p, y, Append(s.list, l))
         IN  EspKept(r) /\ ~Contains(s.list, l) /\ Contains(r.list, l)
<1> DEFINE K == Append(s.list, l)
           r == Put(s, l, x, p, y, K)
<1>1. IsEsp(s) /\ ~Contains(s.list, l) /\ s.list \in Seq(Links) /\ Once(s.list)
  BY DEF EspKept, IsEsp, Lists
<1>2. /\ K \in Seq(Links) /\ Once(K)
      /\ \A m \in Links : Contains(K, m) <=> Contains(s.list, m) \/ m = l
  BY <1>1, AppendKeeps
<1> HIDE DEF K
<1>3. ListFits(s, l, x, K)
  BY <1>2 DEF ListFits, Made
<1>4. Sole(s, l, p)
  BY SoleIf
<1>5. LinkFits(s, l, x, p, y)
  <2>1. OverOnce(x) /\ Counts(x)
    BY EspSizes DEF Made, OverOnce, Counts
  <2> QED
    BY <1>4, <2>1 DEF LinkFits, Made, Begun
<1>6. BlockFits(s, l, x, p, y)
  BY <1>4, EspSizes DEF BlockFits, Made, Begun
<1>7. EspKept(r)
  BY <1>3, <1>5, <1>6, PutKeeps DEF Made, Begun
<1>8. r.list = K
  BY <1>1, <1>2, PutIs DEF Made, Begun
<1> QED
  BY <1>1, <1>2, <1>7, <1>8 DEF K

(* espconn_tcp_client. *)
LEMMA ClientGoes ==
  ASSUME NEW s, EspKept(s), NEW l \in Links, s.link[l].msg = "none", NEW p \in PcbIds, ~s.pcb[p].alloc,
         NEW ok \in BOOLEAN
  PROVE  Goes(s, espconn_tcp_client(s, l, p, ok))
<1> DEFINE st == IF ok THEN "SYN_SENT" ELSE "CLOSED"
           y == [NewPcb EXCEPT !.state = st, !.alloc = TRUE, !.arg = l, !.err = TRUE]
           x == [NewLink EXCEPT !.msg = "live", !.pcb = p, !.state = "WAIT"]
           K == Append(s.list, l)
           r == Put(s, l, x, p, y, K)
<1>1. IsEsp(s)
  BY DEF EspKept
<1>2. Made(x, p, FALSE)
  BY NewLinkIs DEF Made, IsLink, LinkFields
<1>3. Begun(y, l)
  <2>1. st \in {"CLOSED", "SYN_SENT", "ESTABLISHED"}
    OBVIOUS
  <2> HIDE DEF st
  <2> QED
    BY <2>1, NewPcbIs DEF Begun, IsPcb, PcbFields
<1>4. espconn_tcp_client(s, l, p, ok) = r
  <2> DEFINE t == [s EXCEPT !.pcb[p] = y, !.link[l] = x]
  <2>1. espconn_tcp_client(s, l, p, ok) = [t EXCEPT !.list = Append(@, l)]
    BY DEF espconn_tcp_client, espconn_list_creat
  <2> HIDE DEF x, y
  <2>2. t.list = s.list /\ [t EXCEPT !.list = K] = r
    BY <1>1 DEF Put, IsEsp, EspFields
  <2> HIDE DEF t
  <2> QED
    BY <2>1, <2>2
<1> HIDE DEF x, y
<1>5. EspKept(r)
  BY <1>2, <1>3, NewLinkKeeps
<1>6. /\ r.list = K /\ r.udp = s.udp /\ s.list \in Seq(Links)
      /\ r.link[l] = x /\ \A m \in Links : m # l => r.link[m] = s.link[m]
  <2>1. s.list \in Seq(Links)
    BY <1>1 DEF IsEsp
  <2>2. K \in Seq(Links)
    BY <2>1
  <2>3. IsLink(x) /\ IsPcb(y)
    BY <1>2, <1>3 DEF Made, Begun
  <2> HIDE DEF K
  <2> QED
    BY <1>1, <2>1, <2>2, <2>3, PutIs
<1>7. \A m \in Links : Contains(K, m) /\ m # l => Contains(s.list, m)
  BY <1>6 DEF Contains
<1> HIDE DEF r, K
<1>8. NoMore(s, r)
  <2>1. x.server = FALSE
    BY <1>2 DEF Made
  <2>2. ~r.link[l].server
    BY <1>6, <2>1
  <2> QED
    BY <1>6, <1>7, <2>2 DEF NoMore
<1> QED
  BY <1>4, <1>5, <1>6, <1>8 DEF Goes
-----------------------------------------------------------------------------
(* How many links the server has. *)
Served(s) == {l \in Links : Contains(s.list, l) /\ s.link[l].server}

(* link_cnt counts positions of the list: as many as links. *)
LEMMA CountIs ==
  ASSUME NEW s, EspKept(s)
  PROVE  /\ IsFiniteSet(Served(s)) /\ link_cnt(s) = Cardinality(Served(s))
         /\ link_cnt(s) \in Nat
<1> DEFINE K == s.list
           I == {i \in DOMAIN K : s.link[K[i]].server}
           S == Served(s)
           f == [i \in I |-> K[i]]
<1>1. K \in Seq(Links) /\ Once(K) /\ Len(K) \in Nat /\ DOMAIN K = 1..Len(K)
      /\ \A i \in 1..Len(K) : K[i] \in Links
  BY DEF EspKept, IsEsp
<1> HIDE DEF K
<1>2. IsFiniteSet(I)
  <2>1. IsFiniteSet(1..Len(K))
    BY <1>1, FS_Interval
  <2>2. I \in SUBSET (1..Len(K))
    BY <1>1
  <2> HIDE DEF I
  <2> QED
    BY <2>1, <2>2, FS_Subset
<1>3. \A i \in I : i \in 1..Len(K) /\ K[i] \in S
  BY <1>1 DEF Served, Contains, K
<1>4. \A l \in S : \E i \in I : K[i] = l
  BY <1>1 DEF Served, Contains, K
<1>5. \A i, j \in I : K[i] = K[j] => i = j
  BY <1>1, <1>3 DEF Once
<1>6. link_cnt(s) = Cardinality(I)
  BY DEF link_cnt, K
<1> HIDE DEF I, S
<1>7. f \in Bijection(I, S)
  BY <1>3, <1>4, <1>5 DEF Bijection, Injection, IsInjective, Surjection
<1>8. ExistsBijection(I, S)
  BY <1>7 DEF ExistsBijection
<1>9. IsFiniteSet(S) /\ Cardinality(S) = Cardinality(I)
  BY <1>2, <1>8, FS_Bijection
<1>10. Cardinality(S) \in Nat
  BY <1>9, FS_CardinalityType
<1> QED
  BY <1>6, <1>9, <1>10 DEF S

(* The count falls with the links. *)
LEMMA CountFalls ==
  ASSUME NEW s, EspKept(s), NEW r, EspKept(r), Served(r) \subseteq Served(s)
  PROVE  link_cnt(r) <= link_cnt(s)
<1>1. /\ IsFiniteSet(Served(s)) /\ link_cnt(s) = Cardinality(Served(s)) /\ link_cnt(r) = Cardinality(Served(r))
  BY CountIs
<1>2. Served(r) \in SUBSET Served(s)
  OBVIOUS
<1> QED
  BY <1>1, <1>2, FS_Subset

(* No function but accept raises it. *)
LEMMA GoesFalls ==
  ASSUME NEW s, EspKept(s), NEW r, Goes(s, r)
  PROVE  link_cnt(r) <= link_cnt(s)
<1>1. Served(r) \subseteq Served(s)
  BY DEF Goes, NoMore, Served
<1> QED
  BY <1>1, CountFalls DEF Goes

(* What a step may do: the server has no more links than allowed. *)
Within(s, r) == link_cnt(s) <= s.count_opt /\ r.count_opt = s.count_opt /\ ~r.crashed
                  => link_cnt(r) <= s.count_opt
Step(s, r) == EspKept(r) /\ UdpKept(r.udp) /\ Within(s, r)

(* So each of them is a step that keeps the limit. *)
LEMMA GoesSteps ==
  ASSUME NEW s, EspKept(s), UdpKept(s.udp), NEW r, Goes(s, r)
  PROVE  Step(s, r)
<1>1. link_cnt(r) <= link_cnt(s) /\ link_cnt(r) \in Nat /\ link_cnt(s) \in Nat /\ s.count_opt \in Nat
  BY GoesFalls, CountIs DEF Goes, EspKept, IsEsp
<1> QED
  BY <1>1 DEF Step, Within, Goes

(* Nothing of the links changes. *)
Aside(s, r) == /\ IsEsp(r) /\ r.link = s.link /\ r.pcb = s.pcb /\ r.list = s.list
               /\ r.freed_closed = s.freed_closed
(* The invariant is not about the rest. *)
LEMMA AsideKeeps ==
  ASSUME NEW s, EspKept(s), NEW r, Aside(s, r)
  PROVE  EspKept(r) /\ NoMore(s, r)
BY DEF Aside, EspKept, NoMore

(* The count of calls is of the rest. *)
LEMMA CallGoes ==
  ASSUME NEW s, NEW t, Goes(s, t), NEW n
  PROVE  Goes(s, [t EXCEPT !.calls = n])
<1> DEFINE r == [t EXCEPT !.calls = n]
<1>1. Aside(t, r) /\ r.udp = t.udp
  BY DEF Goes, EspKept, Aside, IsEsp, EspFields
<1> HIDE DEF r
<1>2. Goes(t, r)
  BY <1>1, AsideKeeps DEF Goes
<1> QED
  BY <1>2, GoesOn DEF r
-----------------------------------------------------------------------------
(* Sending.  What is tried is no more than what fits and something of it. *)
LEMMA TriesFit ==
  ASSUME NEW length \in Nat, NEW room \in Nat, NEW len \in Tries(Min({length, room, 2 * MSS}))
  PROVE  /\ len \in Nat /\ len <= length /\ len <= room
         /\ length > 0 /\ room > 0 => len > 0
<1> DEFINE n == Min({length, room, 2 * MSS})
<1>1. MSS \in Nat /\ MSS > 0
  BY EspSizes
<1>2. 2 * MSS \in Nat /\ 2 * MSS > 0
  BY <1>1
<1>3. \E v \in {length, room, 2 * MSS} : \A w \in {length, room, 2 * MSS} : v <= w
  <2>1. CASE length <= room /\ length <= 2 * MSS
    BY <2>1
  <2>2. CASE room <= length /\ room <= 2 * MSS
    BY <2>2
  <2>3. CASE 2 * MSS <= length /\ 2 * MSS <= room
    BY <1>2, <2>3
  <2> QED
    BY <1>2, <2>1, <2>2, <2>3
<1>4. n \in {length, room, 2 * MSS} /\ \A w \in {length, room, 2 * MSS} : n <= w
  BY <1>3 DEF Min
<1> HIDE DEF n
<1>5. n \in Nat /\ n <= length /\ n <= room /\ (length > 0 /\ room > 0 => n > 0)
  BY <1>2, <1>4
<1>6. len = n \/ (len \in {n \div 2, n \div 4} /\ len > 1)
  BY DEF Tries, n
<1>7. n \div 2 \in Nat /\ n \div 2 <= n /\ n \div 4 \in Nat /\ n \div 4 <= n
  BY <1>5
<1> QED
  BY <1>5, <1>6, <1>7

(* A field of a link's record. *)
LEMMA LinkField ==
  ASSUME NEW s, IsEsp(s), NEW l \in Links, NEW x, IsLink(x)
  PROVE  \A z : SetLink(SetLink(s, l, x), l, z) = SetLink(s, l, z)
<1> SUFFICES ASSUME NEW z PROVE SetLink(SetLink(s, l, x), l, z) = SetLink(s, l, z)
  OBVIOUS
<1> DEFINE L == [s.link EXCEPT ![l] = x]
           M == [s.link EXCEPT ![l] = z]
<1>1. [L EXCEPT ![l] = z] = M
  BY DEF IsEsp
<1>2. SetLink(SetLink(s, l, x), l, z) = [[s EXCEPT !.link = L] EXCEPT !.link = [L EXCEPT ![l] = z]]
  <2> HIDE DEF L
  <2>1. [s EXCEPT !.link = L].link = L
    BY DEF IsEsp, EspFields
  <2> QED
    BY <2>1 DEF SetLink, L
<1> HIDE DEF L, M
<1>3. [[s EXCEPT !.link = L] EXCEPT !.link = M] = [s EXCEPT !.link = M]
  BY DEF IsEsp, EspFields
<1> QED
  BY <1>1, <1>2, <1>3 DEF SetLink, M

(* What sending makes of a link. *)
Sends(x, length, len, ok) ==
  IF ok THEN [x EXCEPT !.cntr = length - len, !.write_len = @ + len, !.unacked = @ + len]
  ELSE [x EXCEPT !.state = "CLOSE", !.stuck = TRUE]

(* espconn_tcp_sent changes its link only. *)
LEMMA SendsIs ==
  ASSUME NEW s, IsEsp(s), NEW l \in Links, NEW length, length # 0, NEW len, NEW ok \in BOOLEAN
  PROVE  espconn_tcp_sent(s, l, length, len, ok) = SetLink(s, l, Sends(s.link[l], length, len, ok))
<1> DEFINE x == s.link[l]
           c == length - len
           w == x.write_len + len
           u == x.unacked + len
           A == [x EXCEPT !.cntr = c]
           B == [A EXCEPT !.write_len = w]
           C == [B EXCEPT !.unacked = u]
<1>1. IsLink(x)
  BY DEF IsEsp
<1>2. CASE ok
  <2>1. A.write_len = x.write_len /\ B.unacked = x.unacked
    BY <1>1 DEF IsLink, LinkFields
  <2>2. Sends(x, length, len, ok) = C
    BY <1>2, <2>1 DEF Sends
  <2>3. espconn_tcp_sent(s, l, length, len, ok)
          = [s EXCEPT !.link[l].cntr = length - len, !.link[l].write_len = @ + len, !.link[l].unacked = @ + len]
    BY <1>2 DEF espconn_tcp_sent
  <2>4. [s EXCEPT !.link[l].cntr = length - len, !.link[l].write_len = @ + len, !.link[l].unacked = @ + len]
          = [s EXCEPT !.link[l].cntr = c, !.link[l].write_len = w, !.link[l].unacked = u]
    BY <1>1, <2>1 DEF IsEsp, EspFields
  <2> HIDE DEF c, w, u
  <2>5. [s.link EXCEPT ![l].cntr = c, ![l].write_len = w, ![l].unacked = u] = [s.link EXCEPT ![l] = C]
    BY <1>1 DEF IsEsp
  <2>6. [s EXCEPT !.link[l].cntr = c, !.link[l].write_len = w, !.link[l].unacked = u]
          = [s EXCEPT !.link = [s.link EXCEPT ![l].cntr = c, ![l].write_len = w, ![l].unacked = u]]
    BY DEF IsEsp, EspFields
  <2> HIDE DEF C
  <2> QED
    BY <2>2, <2>3, <2>4, <2>5, <2>6 DEF SetLink
<1>3. CASE ~ok
  <2> DEFINE D == [x EXCEPT !.state = "CLOSE", !.stuck = TRUE]
  <2>1. Sends(x, length, len, ok) = D
    BY <1>3 DEF Sends
  <2>2. espconn_tcp_sent(s, l, length, len, ok) = [s EXCEPT !.link[l].state = "CLOSE", !.link[l].stuck = TRUE]
    BY <1>3 DEF espconn_tcp_sent
  <2>3. [s.link EXCEPT ![l].state = "CLOSE", ![l].stuck = TRUE] = [s.link EXCEPT ![l] = D]
    BY <1>1 DEF IsEsp
  <2>4. [s EXCEPT !.link[l].state = "CLOSE", !.link[l].stuck = TRUE]
          = [s EXCEPT !.link = [s.link EXCEPT ![l].state = "CLOSE", ![l].stuck = TRUE]]
    BY DEF IsEsp, EspFields
  <2> HIDE DEF D
  <2> QED
    BY <2>1, <2>2, <2>3, <2>4 DEF SetLink
<1> QED
  BY <1>2, <1>3

(* The counts agree after it. *)
LEMMA SendsCounts ==
  ASSUME NEW x, IsLink(x), NEW length \in Nat, length # 0, NEW len, NEW ok \in BOOLEAN,
         x.cntr \in Nat, x.unacked \in Nat, x.write_len \in Nat, x.write_total \in Nat,
         x.write_len - x.write_total = x.unacked, x.unacked <= SNDBUF,
         len \in Tries(Min({length, SNDBUF - x.unacked, 2 * MSS}))
  PROVE  LET y == Sends(x, length, len, ok)
         IN  IsLink(y) /\ Alike(x, y) /\ Counts(y)
<1>1. SNDBUF \in Nat /\ SNDBUF > 0
  BY EspSizes
<1>2. SNDBUF - x.unacked \in Nat
  BY <1>1
<1>3. /\ len \in Nat /\ len <= length /\ len <= SNDBUF - x.unacked
      /\ SNDBUF - x.unacked > 0 => len > 0
  BY <1>2, TriesFit
<1> DEFINE y == Sends(x, length, len, ok)
<1>4. CASE ok
  <2>1. y = [x EXCEPT !.cntr = length - len, !.write_len = @ + len, !.unacked = @ + len]
    BY <1>4 DEF Sends
  <2>2. /\ IsLink(y) /\ Alike(x, y)
        /\ y.cntr = length - len /\ y.write_len = x.write_len + len /\ y.unacked = x.unacked + len
        /\ y.write_total = x.write_total
    <3> HIDE DEF y
    <3> QED
      BY <2>1 DEF IsLink, LinkFields, Alike
  <2> HIDE DEF y
  <2>3. /\ y.cntr \in Nat /\ y.unacked \in Nat /\ y.write_len \in Nat /\ y.write_total \in Nat
        /\ y.write_len - y.write_total = y.unacked /\ y.unacked <= SNDBUF
        /\ y.unacked > 0
    BY <1>1, <1>3, <2>2
  <2> QED
    BY <2>2, <2>3 DEF Counts, y
<1>5. CASE ~ok
  <2>1. y = [x EXCEPT !.state = "CLOSE", !.stuck = TRUE]
    BY <1>5 DEF Sends
  <2>2. /\ IsLink(y) /\ Alike(x, y) /\ y.cntr = x.cntr /\ y.write_len = x.write_len
        /\ y.unacked = x.unacked /\ y.write_total = x.write_total /\ y.stuck = TRUE
    <3> HIDE DEF y
    <3> QED
      BY <2>1 DEF IsLink, LinkFields, Alike
  <2> HIDE DEF y
  <2>3. y.stuck
    BY <2>2
  <2> QED
    BY <2>2, <2>3 DEF Counts, y
<1> QED
  BY <1>4, <1>5
(* espconn_client_sent, espconn_server_sent. *)
LEMMA SentGoes ==
  ASSUME NEW s, EspKept(s), NEW l \in Links, NEW n \in 1..s.link[l].unacked, NEW len, NEW ok \in BOOLEAN,
         len \in Tries(Min({s.link[l].cntr, SNDBUF - (s.link[l].unacked - n), 2 * MSS}))
  PROVE  Goes(s, LinkSent(s, l, n, len, ok))
<1> DEFINE x == s.link[l]
           u == x.unacked - n
           w == x.write_total + n
           x1 == [x EXCEPT !.unacked = u, !.write_total = w, !.recv_check = 0]
           x2 == [x1 EXCEPT !.write_total = 0, !.write_len = 0]
           s1 == [s EXCEPT !.link[l].unacked = @ - n, !.link[l].write_total = @ + n, !.link[l].recv_check = 0]
           s2 == [s1 EXCEPT !.link[l].write_total = 0, !.link[l].write_len = 0]
<1>1. IsEsp(s) /\ IsLink(x) /\ Counts(x)
  BY DEF EspKept, IsEsp
<1>2. /\ IsLink(x1) /\ Alike(x, x1) /\ x1.unacked = u /\ x1.write_total = w /\ x1.write_len = x.write_len
      /\ x1.cntr = x.cntr /\ x1.stuck = x.stuck
  <2> HIDE DEF u, w
  <2> QED
    BY <1>1 DEF IsLink, LinkFields, Alike
<1>3. u \in Nat /\ u <= SNDBUF /\ w \in Nat /\ x.write_len \in Nat /\ x.cntr \in Nat /\ x.write_len - w = u
  <2>1. SNDBUF \in Nat
    BY EspSizes
  <2> QED
    BY <1>1, <2>1 DEF Counts
<1>4. s1 = SetLink(s, l, x1)
  <2>1. s1 = [s EXCEPT !.link[l].unacked = u, !.link[l].write_total = w, !.link[l].recv_check = 0]
    BY <1>1 DEF IsEsp, EspFields, IsLink, LinkFields
  <2> HIDE DEF u, w
  <2>2. [s.link EXCEPT ![l].unacked = u, ![l].write_total = w, ![l].recv_check = 0] = [s.link EXCEPT ![l] = x1]
    BY <1>1 DEF IsEsp
  <2>3. [s EXCEPT !.link[l].unacked = u, !.link[l].write_total = w, !.link[l].recv_check = 0]
          = [s EXCEPT !.link = [s.link EXCEPT ![l].unacked = u, ![l].write_total = w, ![l].recv_check = 0]]
    BY <1>1 DEF IsEsp, EspFields
  <2> HIDE DEF x1, s1
  <2> QED
    BY <2>1, <2>2, <2>3 DEF SetLink
<1> HIDE DEF x1, s1, u, w
<1>5. IsEsp(s1) /\ s1.link[l] = x1
  BY <1>1, <1>2, <1>4, SetLinkIs
<1>6. /\ IsLink(x2) /\ Alike(x, x2) /\ x2.unacked = u /\ x2.write_total = 0 /\ x2.write_len = 0
      /\ x2.cntr = x.cntr /\ x2.stuck = x.stuck
  BY <1>2 DEF IsLink, LinkFields, Alike
<1>7. s2 = SetLink(s, l, x2)
  <2>1. [s1.link EXCEPT ![l].write_total = 0, ![l].write_len = 0] = [s1.link EXCEPT ![l] = x2]
    BY <1>5 DEF IsEsp
  <2>2. s2 = [s1 EXCEPT !.link = [s1.link EXCEPT ![l].write_total = 0, ![l].write_len = 0]]
    BY <1>5 DEF IsEsp, EspFields
  <2> HIDE DEF x2, s2
  <2>3. s2 = SetLink(s1, l, x2)
    BY <2>1, <2>2 DEF SetLink
  <2> QED
    BY <1>1, <1>2, <1>4, <2>3, LinkField
<1> HIDE DEF x2, s2
<1>8. IsEsp(s2) /\ s2.link[l] = x2
  BY <1>1, <1>6, <1>7, SetLinkIs
<1>9. LinkSent(s, l, n, len, ok)
        = IF x1.write_total # x1.write_len THEN s1
          ELSE IF x2.cntr = 0 THEN [s2 EXCEPT !.link[l].state = "CONNECT"]
          ELSE espconn_tcp_sent(s2, l, x2.cntr, len, ok)
  <2>1. LinkSent(s, l, n, len, ok)
          = IF s1.link[l].write_total # s1.link[l].write_len THEN s1
            ELSE IF s2.link[l].cntr = 0 THEN [s2 EXCEPT !.link[l].state = "CONNECT"]
            ELSE espconn_tcp_sent(s2, l, s2.link[l].cntr, len, ok)
    BY DEF LinkSent, s1, s2
  <2> QED
    BY <1>5, <1>8, <2>1
<1>10. CASE x1.write_total # x1.write_len
  <2>1. Counts(x1)
    BY <1>2, <1>3, <1>10 DEF Counts
  <2> QED
    BY <1>2, <1>4, <1>9, <1>10, <2>1, SetLinkGoes
<1>11. CASE x1.write_total = x1.write_len /\ x2.cntr = 0
  <2> DEFINE x3 == [x2 EXCEPT !.state = "CONNECT"]
  <2>1. LinkSent(s, l, n, len, ok) = SetLink(s2, l, x3)
    BY <1>8, <1>9, <1>11 DEF SetLink, IsEsp, EspFields
  <2>2. SetLink(s2, l, x3) = SetLink(s, l, x3)
    BY <1>1, <1>6, <1>7, LinkField
  <2>3. /\ IsLink(x3) /\ Alike(x, x3) /\ x3.unacked = u /\ x3.write_total = 0 /\ x3.write_len = 0
        /\ x3.cntr = 0
    BY <1>6, <1>11 DEF IsLink, LinkFields, Alike
  <2>4. u = 0
    BY <1>2, <1>3, <1>11
  <2> HIDE DEF x3
  <2>5. Counts(x3)
    BY <1>3, <2>3, <2>4 DEF Counts
  <2> QED
    BY <2>1, <2>2, <2>3, <2>5, SetLinkGoes
<1>12. CASE x1.write_total = x1.write_len /\ x2.cntr # 0
  <2> DEFINE x3 == Sends(x2, x2.cntr, len, ok)
  <2>1. LinkSent(s, l, n, len, ok) = espconn_tcp_sent(s2, l, x2.cntr, len, ok)
    BY <1>9, <1>12
  <2>2. LinkSent(s, l, n, len, ok) = SetLink(s2, l, x3)
    BY <1>8, <1>12, <2>1, SendsIs
  <2>3. SetLink(s2, l, x3) = SetLink(s, l, x3)
    BY <1>1, <1>6, <1>7, LinkField
  <2>4. u = 0
    BY <1>2, <1>3, <1>12
  <2>5. len \in Tries(Min({x2.cntr, SNDBUF - x2.unacked, 2 * MSS}))
    BY <1>6 DEF u
  <2>6. IsLink(x3) /\ Alike(x2, x3) /\ Counts(x3)
    <3>1. /\ x2.cntr \in Nat /\ x2.cntr # 0 /\ x2.unacked \in Nat /\ x2.write_len \in Nat /\ x2.write_total \in Nat
          /\ x2.write_len - x2.write_total = x2.unacked /\ x2.unacked <= SNDBUF
      BY <1>3, <1>6, <1>12, <2>4
    <3> QED
      BY <1>6, <2>5, <3>1, SendsCounts
  <2> HIDE DEF x3
  <2>7. Alike(x, x3)
    BY <1>6, <2>6 DEF Alike
  <2> QED
    BY <2>2, <2>3, <2>6, <2>7, SetLinkGoes
<1> QED
  BY <1>10, <1>11, <1>12

(* espconn_server_poll. *)
LEMMA PollGoes ==
  ASSUME NEW s, EspKept(s), NEW p \in PcbIds, s.pcb[p].alloc, s.pcb[p].arg # NoLink, NEW mem \in BOOLEAN
  PROVE  Goes(s, espconn_server_poll(s, s.pcb[p].arg, mem))
<1> DEFINE l == s.pcb[p].arg
           x == s.link[l]
           x1 == [x EXCEPT !.recv_check = @ + 1]
           s1 == [s EXCEPT !.link[l].recv_check = @ + 1]
           x2 == [x1 EXCEPT !.recv_check = 0]
           s2 == [s1 EXCEPT !.link[l].recv_check = 0]
<1>1. /\ IsEsp(s) /\ l \in Links /\ x.msg = "live" /\ x.timer # "reconnect" /\ x.pcb = p
      /\ IsLink(x) /\ Counts(x)
  BY DEF EspKept, IsEsp, CallsBack
<1>2. s1 = SetLink(s, l, x1)
  BY <1>1 DEF SetLink, IsEsp, EspFields
<1>3. /\ IsLink(x1) /\ Alike(x, x1) /\ x1.unacked = x.unacked /\ x1.write_total = x.write_total
      /\ x1.write_len = x.write_len /\ x1.cntr = x.cntr /\ x1.stuck = x.stuck
  BY <1>1 DEF IsLink, LinkFields, Alike
<1> HIDE DEF l, x1, s1
<1>4. Goes(s, s1)
  <2>1. Counts(x1)
    BY <1>1, <1>3 DEF Counts
  <2> QED
    BY <1>1, <1>2, <1>3, <2>1, SetLinkGoes
<1>5. IsEsp(s1) /\ s1.link[l] = x1
  BY <1>1, <1>2, <1>3, SetLinkIs
<1>6. s2 = SetLink(s, l, x2)
  <2>1. s2 = SetLink(s1, l, x2)
    BY <1>5 DEF SetLink, IsEsp, EspFields
  <2> QED
    BY <1>1, <1>2, <1>3, <2>1, LinkField
<1>7. /\ IsLink(x2) /\ Alike(x, x2) /\ x2.unacked = x.unacked /\ x2.write_total = x.write_total
      /\ x2.write_len = x.write_len /\ x2.cntr = x.cntr /\ x2.stuck = x.stuck
  BY <1>3 DEF IsLink, LinkFields, Alike
<1> HIDE DEF x2, s2
<1>8. Goes(s, s2)
  <2>1. Counts(x2)
    BY <1>1, <1>7 DEF Counts
  <2> QED
    BY <1>1, <1>6, <1>7, <2>1, SetLinkGoes
<1>9. s2.pcb = s.pcb /\ s2.link[l] = x2
  BY <1>1, <1>6, <1>7, SetLinkIs
<1>10. Goes(s, Close(s, l, mem))
  BY <1>1, CloseGoes DEF l
<1>11. Goes(s2, Close(s2, l, mem))
  <2>1. /\ EspKept(s2) /\ s2.link[l].msg = "live" /\ s2.link[l].timer # "reconnect" /\ s2.link[l].pcb = p
        /\ s2.pcb[p].alloc /\ s2.pcb[p].arg = l
    BY <1>1, <1>7, <1>8, <1>9 DEF Goes, Alike, l
  <2> QED
    BY <1>1, <2>1, CloseGoes
<1>12. espconn_server_poll(s, l, mem) \in {Close(s, l, mem), Close(s2, l, mem), s1}
  BY DEF espconn_server_poll, s1, s2
<1>13. Goes(s, Close(s2, l, mem))
  BY <1>8, <1>11, GoesOn
<1> QED
  BY <1>4, <1>10, <1>12, <1>13 DEF l
(* espconn_tcp_accept: the link it refuses has left the list again. *)
LEMMA AcceptSteps ==
  ASSUME NEW s, EspKept(s), UdpKept(s.udp), NEW l \in Links, s.link[l].msg = "none", NEW p \in PcbIds,
         ~s.pcb[p].alloc, NEW mem \in {"heap", "parts", "ok"}
  PROVE  Step(s, espconn_tcp_accept(s, l, p, mem))
<1> DEFINE y == [NewPcb EXCEPT !.state = "ESTABLISHED", !.alloc = TRUE, !.arg = l, !.err = TRUE]
           x == [NewLink EXCEPT !.msg = "live", !.server = TRUE, !.pcb = p, !.state = "CONNECT"]
           K == Append(s.list, l)
           r == Put(s, l, x, p, y, K)
           s1 == [s EXCEPT !.pcb[p] = y, !.link[l] = x]
           s2 == espconn_list_creat(s1, l)
<1>1. IsEsp(s) /\ s.list \in Seq(Links) /\ s.count_opt \in Nat
  BY DEF EspKept, IsEsp
<1>2. Made(x, p, TRUE)
  BY NewLinkIs DEF Made, IsLink, LinkFields
<1>3. Begun(y, l) /\ y.state = "ESTABLISHED"
  BY NewPcbIs DEF Begun, IsPcb, PcbFields
<1>4. s2 = r
  <2> HIDE DEF x, y
  <2>1. s1.list = s.list /\ [s1 EXCEPT !.list = K] = r
    BY <1>1 DEF Put, IsEsp, EspFields
  <2>2. s2 = [s1 EXCEPT !.list = Append(s1.list, l)]
    BY DEF espconn_list_creat
  <2> HIDE DEF s1, s2
  <2> QED
    BY <2>1, <2>2
<1>5. espconn_tcp_accept(s, l, p, mem)
        = CASE mem = "heap"  -> s
            [] mem = "parts" -> [s2 EXCEPT !.crashed = TRUE]
            [] mem = "ok"    -> IF TooMany(s2) THEN Abort(s2, p)
                                ELSE [s2 EXCEPT !.pcb[p].recv = TRUE, !.pcb[p].sent = TRUE]
  BY DEF espconn_tcp_accept
<1> HIDE DEF x, y, s2
<1>6. EspKept(r) /\ ~Contains(s.list, l) /\ Contains(r.list, l)
  BY <1>2, <1>3, NewLinkKeeps
<1>7. K \in Seq(Links) /\ \A m \in Links : m # l /\ Contains(K, m) => Contains(s.list, m)
  BY <1>1 DEF Contains
<1>8. /\ r.list = K /\ r.udp = s.udp /\ r.link[l] = x /\ r.pcb[p] = y
      /\ \A m \in Links : m # l => r.link[m] = s.link[m]
  <2>1. IsLink(x) /\ IsPcb(y)
    BY <1>2, <1>3 DEF Made, Begun
  <2> HIDE DEF K
  <2> QED
    BY <1>1, <1>7, <2>1, PutIs
<1>9. r.count_opt = s.count_opt
  <2> DEFINE L1 == [s.link EXCEPT ![l] = x]
             P1 == [s.pcb EXCEPT ![p] = y]
  <2> HIDE DEF L1, P1, K
  <2>1. [s EXCEPT !.link = L1, !.pcb = P1, !.list = K].count_opt = s.count_opt
    BY <1>1 DEF IsEsp, EspFields
  <2> QED
    BY <2>1 DEF Put, L1, P1
<1> HIDE DEF r, K
<1>10. Served(r) \subseteq Served(s) \cup {l} /\ l \notin Served(s)
  BY <1>6, <1>7, <1>8 DEF Served
<1>11. link_cnt(r) <= link_cnt(s) + 1 /\ link_cnt(r) \in Nat /\ link_cnt(s) \in Nat
  <2>1. /\ IsFiniteSet(Served(s)) /\ link_cnt(s) = Cardinality(Served(s)) /\ link_cnt(s) \in Nat
        /\ link_cnt(r) = Cardinality(Served(r)) /\ link_cnt(r) \in Nat
    BY <1>6, CountIs
  <2>2. /\ IsFiniteSet(Served(s) \cup {l})
        /\ Cardinality(Served(s) \cup {l}) = Cardinality(Served(s)) + 1
    BY <1>10, <2>1, FS_AddElement
  <2>3. Cardinality(Served(r)) <= Cardinality(Served(s) \cup {l})
    BY <1>10, <2>2, FS_Subset
  <2> QED
    BY <2>1, <2>2, <2>3
<1>12. CASE mem = "heap"
  <2>1. espconn_tcp_accept(s, l, p, mem) = s
    BY <1>5, <1>12
  <2> QED
    BY <2>1 DEF Step, Within
<1>13. CASE mem = "parts"
  <2> DEFINE t == [r EXCEPT !.crashed = TRUE]
  <2>1. espconn_tcp_accept(s, l, p, mem) = t
    BY <1>4, <1>5, <1>13
  <2>2. Aside(r, t) /\ t.udp = r.udp /\ t.crashed = TRUE
    BY <1>6 DEF EspKept, Aside, IsEsp, EspFields
  <2> HIDE DEF t
  <2>3. EspKept(t) /\ t.crashed
    BY <1>6, <2>2, AsideKeeps
  <2>4. Within(s, t)
    BY <2>3 DEF Within
  <2>5. UdpKept(t.udp)
    BY <1>8, <2>2
  <2> QED
    BY <2>1, <2>3, <2>4, <2>5 DEF Step
<1>14. CASE mem = "ok" /\ TooMany(r)
  <2> DEFINE t == Abort(r, p)
  <2>1. espconn_tcp_accept(s, l, p, mem) = t
    BY <1>4, <1>5, <1>14
  <2>2. r.pcb[p].alloc /\ r.pcb[p].arg = l /\ l # NoLink
    BY <1>3, <1>8, EspSizes DEF Begun
  <2>3. Goes(r, t) /\ ~Contains(t.list, l)
    BY <1>6, <2>2, AbortGoes
  <2> HIDE DEF t
  <2>4. EspKept(t) /\ t.udp = s.udp
    BY <1>8, <2>3 DEF Goes
  <2>5. Served(t) \subseteq Served(s)
    BY <1>10, <2>3 DEF Goes, NoMore, Served
  <2>6. link_cnt(t) <= link_cnt(s) /\ link_cnt(t) \in Nat
    BY <2>4, <2>5, CountFalls, CountIs
  <2>7. Within(s, t)
    BY <1>1, <1>11, <2>6 DEF Within
  <2> QED
    BY <2>1, <2>4, <2>7 DEF Step
<1>15. CASE mem = "ok" /\ ~TooMany(r)
  <2> DEFINE y1 == [y EXCEPT !.recv = TRUE, !.sent = TRUE]
             t == SetPcb(r, p, y1)
  <2>1. espconn_tcp_accept(s, l, p, mem) = t
    <3>1. espconn_tcp_accept(s, l, p, mem) = [r EXCEPT !.pcb[p].recv = TRUE, !.pcb[p].sent = TRUE]
      BY <1>4, <1>5, <1>15
    <3>2. IsEsp(r)
      BY <1>6 DEF EspKept
    <3>3. [r.pcb EXCEPT ![p].recv = TRUE, ![p].sent = TRUE] = [r.pcb EXCEPT ![p] = y1]
      BY <1>8, <3>2 DEF IsEsp
    <3>4. [r EXCEPT !.pcb[p].recv = TRUE, !.pcb[p].sent = TRUE]
            = [r EXCEPT !.pcb = [r.pcb EXCEPT ![p].recv = TRUE, ![p].sent = TRUE]]
      BY <3>2 DEF IsEsp, EspFields
    <3> HIDE DEF y1
    <3> QED
      BY <3>1, <3>3, <3>4 DEF SetPcb
  <2>2. /\ IsPcb(y1) /\ y1.alloc = TRUE /\ y1.arg = l /\ y1.err = TRUE /\ y1.state = "ESTABLISHED"
    BY <1>3 DEF Begun, IsPcb, PcbFields
  <2> HIDE DEF y1
  <2>3. y1.alloc /\ r.pcb[p].alloc /\ y1.arg = r.pcb[p].arg /\ y1.err = r.pcb[p].err /\ l # NoLink
    BY <1>3, <1>8, <2>2, EspSizes DEF Begun
  <2>4. Goes(r, t)
    BY <1>6, <2>2, <2>3, SetPcbGoes
  <2> HIDE DEF t
  <2>5. link_cnt(t) <= link_cnt(r) /\ EspKept(t) /\ t.udp = s.udp /\ link_cnt(t) \in Nat
    BY <1>6, <1>8, <2>4, GoesFalls, CountIs DEF Goes
  <2>6. link_cnt(r) # s.count_opt + 1
    BY <1>9, <1>15 DEF TooMany
  <2>7. Within(s, t)
    BY <1>1, <1>11, <2>5, <2>6 DEF Within
  <2> QED
    BY <2>1, <2>5, <2>7 DEF Step
<1> QED
  BY <1>12, <1>13, <1>14, <1>15
-----------------------------------------------------------------------------
(* The actions. *)
EspI == EspKept(esp) /\ UdpKept(esp.udp)

(* A step that changes the rest. *)
LEMMA AsideSteps ==
  ASSUME NEW s, EspKept(s), NEW r, Aside(s, r), UdpKept(r.udp)
  PROVE  Step(s, r)
<1>1. EspKept(r)
  BY AsideKeeps
<1>2. link_cnt(r) = link_cnt(s)
  BY DEF Aside, link_cnt
<1> QED
  BY <1>1, <1>2 DEF Step, Within

(* A call of the application that works on a link. *)
LEMMA CallSteps ==
  ASSUME EspI, NEW t, Goes(esp, t), Call(t)
  PROVE  Step(esp, esp')
<1>1. esp' = [t EXCEPT !.calls = t.calls - 1]
  BY DEF Call
<1>2. Goes(esp, esp')
  BY <1>1, CallGoes
<1> QED
  BY <1>2, GoesSteps DEF EspI

(* A call that does not. *)
LEMMA CallAside ==
  ASSUME EspI, NEW t, Aside(esp, t), UdpKept(t.udp), Call(t)
  PROVE  Step(esp, esp')
<1> DEFINE n == t.calls - 1
<1> HIDE DEF n
<1>1. esp' = [t EXCEPT !.calls = n]
  BY DEF Call, n
<1>2. Aside(t, [t EXCEPT !.calls = n]) /\ [t EXCEPT !.calls = n].udp = t.udp
  BY DEF Aside, IsEsp, EspFields
<1>3. Aside(esp, esp') /\ esp'.udp = t.udp
  BY <1>1, <1>2 DEF Aside
<1> QED
  BY <1>3, AsideSteps DEF EspI

(* A listed link is live and its error callback has not come. *)
LEMMA ListedIs ==
  ASSUME EspI, NEW l \in Links, Listed(l)
  PROVE  /\ esp.link[l].msg = "live" /\ esp.link[l].timer \in {"none", "close"}
         /\ IsEsp(esp) /\ IsLink(esp.link[l]) /\ Counts(esp.link[l])
<1>1. esp.link[l].msg = "live" /\ esp.link[l].timer # "reconnect"
  BY DEF EspI, EspKept, Lists, Listed
<1> QED
  BY <1>1 DEF EspI, EspKept, OverOnce, IsEsp

(* So is the link a connected block calls back. *)
LEMMA OwnerIs ==
  ASSUME EspI, NEW p \in PcbIds, esp.pcb[p].alloc, esp.pcb[p].state \notin {"CLOSED", "TIME_WAIT"}
  PROVE  /\ Owner(p) \in Links /\ Owner(p) # NoLink /\ esp.pcb[p].arg = Owner(p)
         /\ esp.link[Owner(p)].msg = "live" /\ esp.link[Owner(p)].timer # "reconnect"
         /\ esp.link[Owner(p)].pcb = p /\ IsEsp(esp) /\ IsLink(esp.link[Owner(p)]) /\ IsPcb(esp.pcb[p])
         /\ Counts(esp.link[Owner(p)]) /\ OverOnce(esp.link[Owner(p)]) /\ CallsBack(esp.pcb, esp.link, p)
<1>1. CallsBack(esp.pcb, esp.link, p) /\ IsEsp(esp)
  BY DEF EspI, EspKept
<1>2. /\ esp.pcb[p].arg # NoLink /\ esp.pcb[p].arg \in Links
      /\ esp.link[esp.pcb[p].arg].msg = "live" /\ esp.link[esp.pcb[p].arg].timer # "reconnect"
      /\ esp.link[esp.pcb[p].arg].pcb = p
  BY <1>1 DEF CallsBack
<1> QED
  BY <1>1, <1>2 DEF EspI, EspKept, IsEsp, Owner

(* The server, the limit and the UDP connection. *)
LEMMA UdpSteps ==
  ASSUME EspI, NEW u, UdpKept(u), Call([esp EXCEPT !.udp = u])
  PROVE  Step(esp, esp')
<1> DEFINE t == [esp EXCEPT !.udp = u]
<1>1. Aside(esp, t) /\ t.udp = u
  BY DEF EspI, EspKept, Aside, IsEsp, EspFields
<1> HIDE DEF t
<1> QED
  BY <1>1, CallAside DEF t

(* espconn_accept, espconn_create, espconn_delete, the limit and a UDP message. *)
LEMMA AsidesStep ==
  ASSUME EspI,
         \/ espconn_accept \/ espconn_create \/ espconn_delete
         \/ \E n \in 1..MaxCon : espconn_tcp_set_max_con_allow(n)
         \/ \E parts \in 1..2, out \in 0..2 : out <= parts /\ UdpSend(parts, out)
  PROVE  Step(esp, esp')
<1>1. IsEsp(esp) /\ UdpKept(esp.udp) /\ MaxCon \in Nat
  BY EspSizes DEF EspI, EspKept
<1>2. CASE espconn_accept
  <2> DEFINE t == [esp EXCEPT !.server = TRUE, !.count_opt = MaxCon]
  <2>1. Call(t)
    BY <1>2 DEF espconn_accept, espconn_tcp_server
  <2>2. Aside(esp, t) /\ t.udp = esp.udp
    BY <1>1 DEF Aside, IsEsp, EspFields
  <2> HIDE DEF t
  <2> QED
    BY <1>1, <2>1, <2>2, CallAside
<1>3. CASE espconn_create
  <2> DEFINE u == [esp.udp EXCEPT !.open = TRUE]
  <2>1. Call([esp EXCEPT !.udp = u])
    BY <1>3 DEF espconn_create, espconn_udp_server
  <2>2. UdpKept(u)
    BY <1>1 DEF UdpKept
  <2> HIDE DEF u
  <2> QED
    BY <2>1, <2>2, UdpSteps
<1>4. CASE espconn_delete
  <2>1. CASE Call(espconn_tcp_delete(esp))
    <3> DEFINE t == [esp EXCEPT !.server = FALSE]
    <3>1. Aside(esp, t) /\ t.udp = esp.udp
      BY <1>1 DEF Aside, IsEsp, EspFields
    <3>2. Aside(esp, esp)
      BY <1>1 DEF Aside
    <3>3. espconn_tcp_delete(esp) = esp \/ espconn_tcp_delete(esp) = t
      BY DEF espconn_tcp_delete
    <3> HIDE DEF t
    <3>4. Aside(esp, espconn_tcp_delete(esp)) /\ espconn_tcp_delete(esp).udp = esp.udp
      BY <3>1, <3>2, <3>3
    <3> QED
      BY <1>1, <2>1, <3>4, CallAside
  <2>2. CASE Call(espconn_udp_disconnect(esp))
    <3> DEFINE u == [esp.udp EXCEPT !.open = FALSE]
    <3>1. Call([esp EXCEPT !.udp = u])
      BY <2>2 DEF espconn_udp_disconnect
    <3>2. UdpKept(u)
      BY <1>1 DEF UdpKept
    <3> HIDE DEF u
    <3> QED
      BY <3>1, <3>2, UdpSteps
  <2> QED
    BY <1>4, <2>1, <2>2 DEF espconn_delete
<1>5. CASE \E n \in 1..MaxCon : espconn_tcp_set_max_con_allow(n)
  <2>1. PICK n \in 1..MaxCon : espconn_tcp_set_max_con_allow(n)
    BY <1>5
  <2> DEFINE t == [esp EXCEPT !.count_opt = n]
  <2>2. Call(t)
    BY <2>1 DEF espconn_tcp_set_max_con_allow
  <2>3. n \in Nat
    BY <1>1
  <2>4. Aside(esp, t) /\ t.udp = esp.udp
    BY <1>1, <2>3 DEF Aside, IsEsp, EspFields
  <2> HIDE DEF t
  <2> QED
    BY <1>1, <2>2, <2>4, CallAside
<1>6. CASE \E parts \in 1..2, out \in 0..2 : out <= parts /\ UdpSend(parts, out)
  <2>1. PICK parts \in 1..2, out \in 0..2 : UdpSend(parts, out)
    BY <1>6
  <2>2. CASE out < parts
    <3>1. Call(esp) /\ Aside(esp, esp)
      BY <1>1, <2>1, <2>2 DEF UdpSend, espconn_udp_sent, Aside
    <3> QED
      BY <1>1, <3>1, CallAside
  <2>3. CASE ~(out < parts)
    <3> DEFINE w == esp.udp.whole + 1
               k == esp.udp.timers + 1
               u == [esp.udp EXCEPT !.whole = w, !.timers = k]
    <3>1. espconn_udp_sent(esp, parts, out) = [esp EXCEPT !.udp.whole = @ + 1, !.udp.timers = @ + 1]
      BY <2>3 DEF espconn_udp_sent
    <3>2. [esp EXCEPT !.udp.whole = @ + 1, !.udp.timers = @ + 1] = [esp EXCEPT !.udp.whole = w, !.udp.timers = k]
      BY <1>1 DEF IsEsp, EspFields, UdpKept
    <3>3. w \in Int /\ k \in Int /\ esp.udp.called + k = w
      BY <1>1 DEF UdpKept
    <3> HIDE DEF w, k
    <3>4. UdpKept(u)
      BY <1>1, <3>3 DEF UdpKept
    <3>5. [esp EXCEPT !.udp.whole = w, !.udp.timers = k] = [esp EXCEPT !.udp = u]
      BY <1>1 DEF IsEsp, EspFields
    <3> HIDE DEF u
    <3>6. Call([esp EXCEPT !.udp = u])
      BY <2>1, <3>1, <3>2, <3>5 DEF UdpSend
    <3> QED
      BY <3>4, <3>6, UdpSteps
  <2> QED
    BY <2>2, <2>3
<1> QED
  BY <1>2, <1>3, <1>4, <1>5, <1>6

(* espconn_data_sentcb. *)
LEMMA UdpTimerSteps ==
  ASSUME EspI, espconn_data_sentcb
  PROVE  Step(esp, esp')
<1> DEFINE k == esp.udp.timers - 1
           c == esp.udp.called + 1
           u == [esp.udp EXCEPT !.timers = k, !.called = c]
           t == [esp EXCEPT !.udp = u]
<1>1. IsEsp(esp) /\ UdpKept(esp.udp)
  BY DEF EspI, EspKept
<1>2. esp' = [esp EXCEPT !.udp.timers = @ - 1, !.udp.called = @ + 1]
  BY DEF espconn_data_sentcb
<1>3. [esp EXCEPT !.udp.timers = @ - 1, !.udp.called = @ + 1] = [esp EXCEPT !.udp.timers = k, !.udp.called = c]
  BY <1>1 DEF IsEsp, EspFields, UdpKept
<1>4. k \in Int /\ c \in Int /\ c + k = esp.udp.whole
  BY <1>1 DEF UdpKept
<1> HIDE DEF k, c
<1>5. UdpKept(u)
  BY <1>1, <1>4 DEF UdpKept
<1>6. [esp EXCEPT !.udp.timers = k, !.udp.called = c] = t
  BY <1>1 DEF IsEsp, EspFields
<1> HIDE DEF u
<1>7. Aside(esp, t) /\ t.udp = u
  BY <1>1 DEF Aside, IsEsp, EspFields
<1> QED
  BY <1>2, <1>3, <1>5, <1>6, <1>7, AsideSteps DEF EspI
(* What the application does with a link. *)
LEMMA OptionsStep ==
  ASSUME EspI, NEW l \in Links, espconn_set_opt(l) \/ espconn_regist_time(l, 1)
  PROVE  Step(esp, esp')
<1> DEFINE x == esp.link[l]
<1>1. /\ IsEsp(esp) /\ IsLink(x) /\ Counts(x)
  BY ListedIs DEF espconn_set_opt, espconn_regist_time
<1>2. CASE espconn_set_opt(l)
  <2> DEFINE z == [x EXCEPT !.reuse = TRUE]
  <2>1. /\ IsLink(z) /\ Alike(x, z) /\ z.unacked = x.unacked /\ z.write_total = x.write_total
        /\ z.write_len = x.write_len /\ z.cntr = x.cntr /\ z.stuck = x.stuck
    BY <1>1 DEF IsLink, LinkFields, Alike
  <2>2. Call(SetLink(esp, l, z))
    BY <1>2 DEF espconn_set_opt, SetLink
  <2> HIDE DEF z
  <2>3. Counts(z)
    BY <1>1, <2>1 DEF Counts
  <2> QED
    BY <2>1, <2>2, <2>3, SetLinkGoes, CallSteps DEF EspI
<1>3. CASE espconn_regist_time(l, 1)
  <2> DEFINE z == [x EXCEPT !.timeout = 1]
  <2>1. /\ IsLink(z) /\ Alike(x, z) /\ z.unacked = x.unacked /\ z.write_total = x.write_total
        /\ z.write_len = x.write_len /\ z.cntr = x.cntr /\ z.stuck = x.stuck
    BY <1>1 DEF IsLink, LinkFields, Alike
  <2>2. Call(SetLink(esp, l, z))
    BY <1>3 DEF espconn_regist_time, SetLink
  <2> HIDE DEF z
  <2>3. Counts(z)
    BY <1>1, <2>1 DEF Counts
  <2> QED
    BY <2>1, <2>2, <2>3, SetLinkGoes, CallSteps DEF EspI
<1> QED
  BY <1>2, <1>3

(* espconn_connect. *)
LEMMA ConnectSteps ==
  ASSUME EspI, NEW l \in Links, NEW p \in PcbIds, NEW ok \in BOOLEAN, espconn_connect(l, p, ok)
  PROVE  Step(esp, esp')
<1>1. esp.link[l].msg = "none" /\ ~esp.pcb[p].alloc /\ Call(espconn_tcp_client(esp, l, p, ok))
  BY DEF espconn_connect, Unallocated
<1>2. Goes(esp, espconn_tcp_client(esp, l, p, ok))
  BY <1>1, ClientGoes DEF EspI
<1> QED
  BY <1>1, <1>2, CallSteps

(* espconn_disconnect of a link that is open. *)
LEMMA DisconnectSteps ==
  ASSUME EspI, ~DisconnectWhileClosing, NEW l \in Links, NEW mem \in BOOLEAN, espconn_disconnect(l, mem)
  PROVE  Step(esp, esp')
<1>1. Listed(l) /\ esp.link[l].timer # "close" /\ Call(Close(esp, l, mem))
  BY DEF espconn_disconnect, espconn_tcp_disconnect
<1>2. Open(esp.link[l]) /\ EspKept(esp)
  BY <1>1, ListedIs DEF Open, EspI
<1>3. esp.pcb[esp.link[l].pcb].alloc
  BY <1>2 DEF EspKept, HasBlock
<1>4. Goes(esp, Close(esp, l, mem))
  BY <1>2, <1>3, CloseGoes DEF Open
<1> QED
  BY <1>1, <1>4, CallSteps

(* espconn_sent. *)
LEMMA SendSteps ==
  ASSUME EspI, NEW l \in Links, NEW n \in SendLengths, NEW k, NEW ok \in BOOLEAN, espconn_sent(l, n, k, ok)
  PROVE  Step(esp, esp')
<1> DEFINE x == esp.link[l]
           z == [x EXCEPT !.state = "WRITE"]
           s == SetLink(esp, l, z)
<1>1. Listed(l) /\ x.cntr = 0 /\ k \in Tries(Min({n, SNDBUF - x.unacked, 2 * MSS}))
  BY DEF espconn_sent, Fits
<1>2. IsEsp(esp) /\ IsLink(x) /\ Counts(x) /\ n \in Nat
  BY <1>1, ListedIs, EspSizes
<1>3. Call(espconn_tcp_sent(s, l, n, k, ok))
  BY DEF espconn_sent, SetLink
<1>4. /\ IsLink(z) /\ Alike(x, z) /\ z.unacked = x.unacked /\ z.write_total = x.write_total
      /\ z.write_len = x.write_len /\ z.cntr = x.cntr /\ z.stuck = x.stuck
  BY <1>2 DEF IsLink, LinkFields, Alike
<1> HIDE DEF z
<1>5. Counts(z)
  BY <1>2, <1>4 DEF Counts
<1>6. Goes(esp, s) /\ IsEsp(s) /\ s.link[l] = z
  BY <1>2, <1>4, <1>5, SetLinkGoes, SetLinkIs DEF EspI
<1> HIDE DEF s
<1>7. CASE n = 0
  <2>1. Call(s)
    BY <1>3, <1>7 DEF espconn_tcp_sent
  <2> QED
    BY <1>6, <2>1, CallSteps
<1>8. CASE n # 0
  <2> DEFINE y == Sends(z, n, k, ok)
  <2>1. espconn_tcp_sent(s, l, n, k, ok) = SetLink(s, l, y)
    BY <1>6, <1>8, SendsIs
  <2>2. IsLink(y) /\ Alike(z, y) /\ Counts(y)
    <3>1. /\ z.cntr \in Nat /\ z.unacked \in Nat /\ z.write_len \in Nat /\ z.write_total \in Nat
          /\ z.write_len - z.write_total = z.unacked /\ z.unacked <= SNDBUF
      BY <1>5 DEF Counts
    <3>2. k \in Tries(Min({n, SNDBUF - z.unacked, 2 * MSS}))
      BY <1>1, <1>4
    <3> QED
      BY <1>2, <1>4, <1>8, <3>1, <3>2, SendsCounts
  <2> HIDE DEF y
  <2>3. Goes(s, SetLink(s, l, y))
    BY <1>6, <2>2, SetLinkGoes DEF Goes
  <2>4. Goes(esp, SetLink(s, l, y))
    BY <1>6, <2>3, GoesOn
  <2> QED
    BY <1>3, <2>1, <2>4, CallSteps
<1> QED
  BY <1>7, <1>8

-----------------------------------------------------------------------------
(* The callbacks of TCP. *)
LEMMA ConnectedSteps ==
  ASSUME EspI, NEW p \in PcbIds, espconn_client_connect(p)
  PROVE  Step(esp, esp')
<1> DEFINE l == Owner(p)
           x == [esp.link[l] EXCEPT !.state = "CONNECT"]
           y == [esp.pcb[p] EXCEPT !.state = "ESTABLISHED", !.recv = TRUE, !.sent = TRUE]
<1>1. /\ esp.pcb[p].alloc /\ esp.pcb[p].state = "SYN_SENT"
      /\ esp' = [esp EXCEPT !.pcb[p] = y, !.link[l].state = "CONNECT"]
  BY DEF espconn_client_connect, Tcp
<1>2. /\ l \in Links /\ l # NoLink /\ esp.pcb[p].arg = l
      /\ esp.link[l].msg = "live" /\ esp.link[l].timer # "reconnect"
      /\ esp.link[l].pcb = p /\ IsEsp(esp) /\ IsLink(esp.link[l]) /\ IsPcb(esp.pcb[p])
      /\ Counts(esp.link[l]) /\ OverOnce(esp.link[l]) /\ CallsBack(esp.pcb, esp.link, p)
  BY <1>1, OwnerIs
<1>3. IsPcb(y) /\ y.alloc = esp.pcb[p].alloc /\ y.arg = l /\ y.err = esp.pcb[p].err /\ y.state = "ESTABLISHED"
  BY <1>2 DEF IsPcb, PcbFields
<1>4. /\ IsLink(x) /\ Alike(esp.link[l], x) /\ x.unacked = esp.link[l].unacked
      /\ x.write_total = esp.link[l].write_total /\ x.write_len = esp.link[l].write_len
      /\ x.cntr = esp.link[l].cntr /\ x.stuck = esp.link[l].stuck
  BY <1>2 DEF IsLink, LinkFields, Alike
<1> HIDE DEF y, l
<1>5. esp' = Put(esp, l, x, p, y, esp.list)
  <2>1. [esp.link EXCEPT ![l].state = "CONNECT"] = [esp.link EXCEPT ![l] = x]
    OBVIOUS
  <2> HIDE DEF x
  <2> DEFINE L1 == [esp.link EXCEPT ![l] = x]
             P1 == [esp.pcb EXCEPT ![p] = y]
             t == [esp EXCEPT !.pcb = P1]
  <2>2. t.link = esp.link
    BY <1>2 DEF IsEsp, EspFields
  <2>3. esp' = [t EXCEPT !.link = L1]
    BY <1>1, <2>1, <2>2
  <2> HIDE DEF L1, P1
  <2>4. [t EXCEPT !.link = L1] = [esp EXCEPT !.link = L1, !.pcb = P1, !.list = esp.list]
    BY <1>2 DEF IsEsp, EspFields
  <2> QED
    BY <2>3, <2>4 DEF Put, L1, P1
<1> HIDE DEF x
<1>6. Sole(esp, l, p)
  BY <1>2, SoleIf DEF EspI
<1>7. LinkFits(esp, l, x, p, y)
  <2>1. y.alloc
    BY <1>1, <1>3
  <2> QED
    BY <1>2, <1>3, <1>4, <1>6, <2>1 DEF LinkFits, OverOnce, Counts, Alike
<1>8. BlockFits(esp, l, x, p, y)
  <2>1. y.err
    BY <1>1, <1>2, <1>3 DEF CallsBack
  <2> QED
    BY <1>2, <1>3, <1>4, <1>6, <2>1 DEF BlockFits, Alike
<1>9. ListFits(esp, l, x, esp.list) /\ Contains(esp.list, l)
  BY <1>2, <1>4 DEF EspI, EspKept, IsEsp, Lists, ListFits, Alike
<1>10. x.server => esp.link[l].server
  BY <1>4 DEF Alike
<1>11. Goes(esp, esp')
  BY <1>2, <1>3, <1>4, <1>5, <1>7, <1>8, <1>9, <1>10, PutGoes DEF EspI
<1> QED
  BY <1>11, GoesSteps DEF EspI

(* espconn_client_recv, espconn_server_recv. *)
LEMMA RecvSteps ==
  ASSUME EspI, NEW p \in PcbIds, LinkRecv(p)
  PROVE  Step(esp, esp')
<1> DEFINE l == Owner(p)
           z == [esp.link[l] EXCEPT !.state = "CONNECT", !.recv_check = 0]
<1>1. /\ esp.pcb[p].alloc /\ esp.pcb[p].state = "ESTABLISHED"
      /\ esp' = IF esp.pcb[p].rxclosed THEN Abort(esp, p)
                ELSE [esp EXCEPT !.link[l].state = "CONNECT", !.link[l].recv_check = 0]
  BY DEF LinkRecv, Tcp
<1>2. /\ l \in Links /\ l # NoLink /\ esp.pcb[p].arg = l /\ IsEsp(esp) /\ IsLink(esp.link[l])
      /\ Counts(esp.link[l])
  BY <1>1, OwnerIs
<1>3. CASE esp.pcb[p].rxclosed
  <2>1. esp' = Abort(esp, p)
    BY <1>1, <1>3
  <2>2. Goes(esp, Abort(esp, p))
    BY <1>1, <1>2, AbortGoes DEF EspI
  <2> QED
    BY <2>1, <2>2, GoesSteps DEF EspI
<1>4. CASE ~esp.pcb[p].rxclosed
  <2>1. esp' = [esp EXCEPT !.link[l].state = "CONNECT", !.link[l].recv_check = 0]
    BY <1>1, <1>4
  <2>2. /\ IsLink(z) /\ Alike(esp.link[l], z) /\ z.unacked = esp.link[l].unacked
        /\ z.write_total = esp.link[l].write_total /\ z.write_len = esp.link[l].write_len
        /\ z.cntr = esp.link[l].cntr /\ z.stuck = esp.link[l].stuck
    BY <1>2 DEF IsLink, LinkFields, Alike
  <2> HIDE DEF l
  <2>3. [esp.link EXCEPT ![l].state = "CONNECT", ![l].recv_check = 0] = [esp.link EXCEPT ![l] = z]
    BY <1>2 DEF IsEsp
  <2>4. [esp EXCEPT !.link[l].state = "CONNECT", !.link[l].recv_check = 0]
          = [esp EXCEPT !.link = [esp.link EXCEPT ![l].state = "CONNECT", ![l].recv_check = 0]]
    BY <1>2 DEF IsEsp, EspFields
  <2> HIDE DEF z
  <2>5. esp' = SetLink(esp, l, z)
    BY <2>1, <2>3, <2>4 DEF SetLink
  <2>6. Counts(z)
    BY <1>2, <2>2 DEF Counts
  <2>7. Goes(esp, SetLink(esp, l, z))
    BY <1>2, <2>2, <2>6, SetLinkGoes DEF EspI
  <2> QED
    BY <2>5, <2>7, GoesSteps DEF EspI
<1> QED
  BY <1>3, <1>4
(* A connection on its way out has no open link. *)
LEMMA NobodyIf ==
  ASSUME EspI, NEW p \in PcbIds, esp.pcb[p].state \in {"FIN_WAIT", "LAST_ACK", "TIME_WAIT"}
  PROVE  Nobody(esp, p)
BY DEF EspI, EspKept, HasBlock, Nobody

(* The peer has closed. *)
LEMMA FinSteps ==
  ASSUME EspI, NEW p \in PcbIds, NEW mem \in BOOLEAN, PeerFin(p, mem)
  PROVE  Step(esp, esp')
<1> DEFINE l == Owner(p)
           b == esp.pcb[p]
<1>1. IsEsp(esp) /\ IsPcb(b)
  BY DEF EspI, EspKept, IsEsp
<1>2. CASE Tcp(p, {"ESTABLISHED"}, Close([esp EXCEPT !.pcb[p].state = "CLOSE_WAIT"], Owner(p), mem))
  <2> DEFINE y == [b EXCEPT !.state = "CLOSE_WAIT"]
             t == SetPcb(esp, p, y)
  <2>1. b.alloc /\ b.state = "ESTABLISHED" /\ esp' = Close(t, l, mem)
    BY <1>2 DEF Tcp, SetPcb
  <2>2. /\ l \in Links /\ l # NoLink /\ b.arg = l
        /\ esp.link[l].msg = "live" /\ esp.link[l].timer # "reconnect" /\ esp.link[l].pcb = p
    BY <2>1, OwnerIs
  <2>3. IsPcb(y) /\ y.alloc = b.alloc /\ y.arg = b.arg /\ y.err = b.err /\ y.state = "CLOSE_WAIT"
    BY <1>1 DEF IsPcb, PcbFields
  <2> HIDE DEF y
  <2>4. y.alloc
    BY <2>1, <2>3
  <2>5. Goes(esp, t)
    BY <2>1, <2>2, <2>3, <2>4, SetPcbGoes DEF EspI
  <2>6. t.link = esp.link /\ t.pcb[p] = y
    BY <1>1, <2>3, SetPcbIs
  <2> HIDE DEF t
  <2>7. Goes(t, Close(t, l, mem))
    BY <2>2, <2>3, <2>4, <2>5, <2>6, CloseGoes DEF Goes
  <2>8. Goes(esp, esp')
    BY <2>1, <2>5, <2>7, GoesOn
  <2> QED
    BY <2>8, GoesSteps DEF EspI
<1>3. CASE Tcp(p, {"FIN_WAIT"}, [esp EXCEPT !.pcb[p].state = "TIME_WAIT"])
  <2> DEFINE y == [b EXCEPT !.state = "TIME_WAIT"]
             t == SetPcb(esp, p, y)
  <2>1. b.alloc /\ b.state = "FIN_WAIT" /\ esp' = t
    BY <1>3 DEF Tcp, SetPcb
  <2>2. /\ IsPcb(y) /\ y.alloc = b.alloc /\ y.arg = b.arg /\ y.err = b.err /\ y.state = "TIME_WAIT"
        /\ y.sent = b.sent
    BY <1>1 DEF IsPcb, PcbFields
  <2> HIDE DEF y
  <2>3. ~b.sent
    BY <2>1 DEF EspI, EspKept, CallsBack
  <2>4. Nobody(esp, p) /\ y.alloc /\ ~y.sent
    BY <2>1, <2>2, <2>3, NobodyIf
  <2>5. Goes(esp, t)
    BY <2>1, <2>2, <2>4, SetPcbGoes DEF EspI
  <2> QED
    BY <2>1, <2>5, GoesSteps DEF EspI
<1> QED
  BY <1>2, <1>3 DEF PeerFin

(* The peer has acknowledged. *)
LEMMA AckedSteps ==
  ASSUME EspI, NEW p \in PcbIds, NEW n, NEW k, NEW ok \in BOOLEAN, Acked(p, n, k, ok)
  PROVE  Step(esp, esp')
<1> DEFINE l == Owner(p)
           x == esp.link[l]
           t == [esp EXCEPT !.link[l].unacked = @ - n]
<1>1. /\ esp.pcb[p].alloc /\ esp.pcb[p].state \in {"ESTABLISHED", "CLOSE_WAIT"} /\ n \in 1..x.unacked
      /\ k \in Tries(Min({x.cntr, SNDBUF - t.link[l].unacked, 2 * MSS}))
      /\ esp' = LinkSent(esp, l, n, k, ok)
  BY DEF Acked, Tcp, Fits
<1>2. l \in Links /\ IsEsp(esp) /\ IsLink(x)
  BY <1>1, OwnerIs
<1>3. t.link[l].unacked = x.unacked - n
  BY <1>2 DEF IsEsp, EspFields, IsLink, LinkFields
<1>4. Goes(esp, LinkSent(esp, l, n, k, ok))
  BY <1>1, <1>2, <1>3, SentGoes DEF EspI
<1> QED
  BY <1>1, <1>4, GoesSteps DEF EspI

(* The slow timer of TCP. *)
LEMMA PollSteps ==
  ASSUME EspI, NEW p \in PcbIds, NEW mem \in BOOLEAN, Poll(p, mem)
  PROVE  Step(esp, esp')
<1>1. /\ esp.pcb[p].alloc /\ esp.pcb[p].state \in {"ESTABLISHED", "CLOSE_WAIT"}
      /\ esp' = espconn_server_poll(esp, esp.pcb[p].arg, mem)
  BY DEF Poll, Tcp, Owner
<1>2. Goes(esp, espconn_server_poll(esp, esp.pcb[p].arg, mem))
  BY <1>1, OwnerIs, PollGoes DEF EspI
<1> QED
  BY <1>1, <1>2, GoesSteps DEF EspI

(* TCP gives a connection up. *)
LEMMA GivenUpSteps ==
  ASSUME EspI, NEW p \in PcbIds, GivenUp(p)
  PROVE  Step(esp, esp')
<1>1. /\ esp.pcb[p].alloc /\ esp.pcb[p].state \notin {"CLOSED", "TIME_WAIT"} /\ esp' = Abort(esp, p)
  BY DEF GivenUp, Tcp
<1>2. Goes(esp, Abort(esp, p))
  BY <1>1, OwnerIs, AbortGoes DEF EspI
<1> QED
  BY <1>1, <1>2, GoesSteps DEF EspI

(* The last acknowledgement, or the end of TIME_WAIT. *)
LEMMA OverSteps ==
  ASSUME EspI, NEW p \in PcbIds, Over(p)
  PROVE  Step(esp, esp')
<1>1. esp.pcb[p].state \in {"LAST_ACK", "TIME_WAIT"} /\ esp' = SetPcb(esp, p, NewPcb)
  BY DEF Over, Tcp, FreePcb, SetPcb
<1>2. Nobody(esp, p)
  BY <1>1, NobodyIf
<1>3. Goes(esp, SetPcb(esp, p, NewPcb))
  BY <1>2, NewPcbIs, SetPcbGoes DEF EspI
<1> QED
  BY <1>1, <1>3, GoesSteps DEF EspI

(* A connection comes in. *)
LEMMA AcceptedSteps ==
  ASSUME EspI, NEW p \in PcbIds, NEW l \in Links, NEW mem \in {"heap", "parts", "ok"}, Accept(l, p, mem)
  PROVE  Step(esp, esp')
<1>1. esp.link[l].msg = "none" /\ ~esp.pcb[p].alloc /\ esp' = espconn_tcp_accept(esp, l, p, mem)
  BY DEF Accept, Unallocated
<1> QED
  BY <1>1, AcceptSteps DEF EspI

(* The timer of a link. *)
LEMMA TimerSteps ==
  ASSUME EspI, NEW l \in Links, OsTimer(l)
  PROVE  Step(esp, esp')
<1>1. CASE esp.link[l].timer = "close" /\ esp' = CloseTimer(esp, l)
  BY <1>1, CloseTimerGoes, GoesSteps DEF EspI
<1>2. CASE esp.link[l].timer = "reconnect" /\ esp' = espconn_tcp_reconnect(esp, l)
  BY <1>2, ReconnectGoes, GoesSteps DEF EspI
<1> QED
  BY <1>1, <1>2 DEF OsTimer

-----------------------------------------------------------------------------
(* The invariant holds at the start ... *)
LEMMA EspStarts == EspInit => EspI
<1> SUFFICES ASSUME EspInit PROVE EspI
  OBVIOUS
<1> DEFINE u == [open |-> FALSE, whole |-> 0, called |-> 0, timers |-> 0]
           L == [l \in Links |-> NewLink]
           P == [p \in PcbIds |-> NewPcb]
<1>1. MaxCon \in Nat
  BY EspSizes
<1>2. esp = [link |-> L, pcb |-> P, list |-> << >>,
             server |-> FALSE, count_opt |-> MaxCon, freed_closed |-> FALSE, crashed |-> FALSE,
             udp |-> u, calls |-> EspCalls]
  BY DEF EspInit
<1>3. L = [l \in Links |-> L[l]] /\ (\A l \in Links : L[l] = NewLink)
  OBVIOUS
<1>4. P = [p \in PcbIds |-> P[p]] /\ (\A p \in PcbIds : P[p] = NewPcb)
  OBVIOUS
<1>5. UdpKept(u)
  BY DEF UdpKept
<1> HIDE DEF u, L, P
<1>6. /\ esp = [f \in EspFields |-> esp[f]] /\ esp.link = L /\ esp.pcb = P /\ esp.list = <<>> /\ esp.count_opt = MaxCon
      /\ esp.freed_closed = FALSE /\ esp.udp = u
  BY <1>2 DEF EspFields
<1>7. IsEsp(esp)
  <2>1. <<>> \in Seq(Links)
    OBVIOUS
  <2>2. (\A l \in Links : IsLink(L[l])) /\ \A p \in PcbIds : IsPcb(P[p])
    BY <1>3, <1>4, NewLinkIs, NewPcbIs
  <2>3. esp.link = [l \in Links |-> esp.link[l]] /\ esp.pcb = [p \in PcbIds |-> esp.pcb[p]]
    BY <1>3, <1>4, <1>6
  <2> QED
    BY <1>1, <1>6, <2>1, <2>2, <2>3 DEF IsEsp
<1>8. \A l \in Links : OverOnce(L[l]) /\ Counts(L[l]) /\ HasBlock(P, L, l)
  <2>1. OverOnce(NewLink) /\ Counts(NewLink)
    BY NewLinkIs, EspSizes DEF OverOnce, Counts
  <2> QED
    BY <1>3, <2>1, NewLinkIs DEF HasBlock, Open
<1>9. \A p \in PcbIds : CallsBack(P, L, p)
  BY <1>4, NewPcbIs DEF CallsBack
<1>10. Alone(L)
  BY <1>3, NewLinkIs DEF Alone, Open
<1>11. Once(<<>>) /\ Lists(<<>>, L)
  BY <1>3, NewLinkIs DEF Once, Lists, Contains
<1> QED
  BY <1>5, <1>6, <1>7, <1>8, <1>9, <1>10, <1>11 DEF EspI, EspKept

(* ... every action is such a step ... *)
LEMMA EspSteps ==
  ASSUME ~DisconnectWhileClosing, EspI, EspNext
  PROVE  Step(esp, esp')
<1>1. CASE EspApp
  <2>1. CASE \/ espconn_accept \/ espconn_create \/ espconn_delete
             \/ \E n \in 1..MaxCon : espconn_tcp_set_max_con_allow(n)
             \/ \E parts \in 1..2, out \in 0..2 : out <= parts /\ UdpSend(parts, out)
    BY <2>1, AsidesStep
  <2>2. ASSUME NEW l \in Links,
               \/ espconn_set_opt(l) \/ espconn_regist_time(l, 1)
               \/ \E p \in PcbIds, ok \in BOOLEAN : espconn_connect(l, p, ok)
               \/ \E mem \in BOOLEAN : espconn_disconnect(l, mem)
               \/ \E n \in SendLengths, k \in 0..(2 * MSS), ok \in BOOLEAN : espconn_sent(l, n, k, ok)
        PROVE  Step(esp, esp')
    BY <2>2, OptionsStep, ConnectSteps, DisconnectSteps, SendSteps
  <2> QED
    BY <1>1, <2>1, <2>2 DEF EspApp
<1>2. CASE EspTcp
  <2>1. PICK p \in PcbIds :
          \/ espconn_client_connect(p) \/ LinkRecv(p) \/ GivenUp(p) \/ Over(p)
          \/ \E mem \in BOOLEAN : PeerFin(p, mem) \/ Poll(p, mem)
          \/ \E l \in Links, mem \in {"heap", "parts", "ok"} : Accept(l, p, mem)
          \/ \E n \in 1..SNDBUF, k \in 0..(2 * MSS), ok \in BOOLEAN : Acked(p, n, k, ok)
    BY <1>2 DEF EspTcp
  <2> QED
    BY <2>1, ConnectedSteps, RecvSteps, GivenUpSteps, OverSteps, FinSteps, PollSteps, AcceptedSteps, AckedSteps
<1>3. CASE espconn_data_sentcb
  BY <1>3, UdpTimerSteps
<1>4. CASE \E l \in Links : OsTimer(l)
  BY <1>4, TimerSteps
<1> QED
  BY <1>1, <1>2, <1>3, <1>4 DEF EspNext

(* ... so it stays ... *)
LEMMA EspStays ==
  ASSUME ~DisconnectWhileClosing
  PROVE  EspI /\ [EspNext]_esp => EspI'
<1> SUFFICES ASSUME EspI, [EspNext]_esp PROVE EspI'
  OBVIOUS
<1>1. CASE EspNext
  BY <1>1, EspSteps DEF Step, EspI
<1>2. CASE UNCHANGED esp
  BY <1>2 DEF EspI
<1> QED
  BY <1>1, <1>2

(* ... and implies the properties. *)
LEMMA EspSound == EspI => LinksSound
<1> SUFFICES ASSUME EspI PROVE LinksSound
  OBVIOUS
<1>1. LinkEndsOnce
  BY DEF EspI, EspKept, LinkEndsOnce, OverOnce, CallsBack, Lists
<1>2. SendGoesOn
  <2> SUFFICES ASSUME NEW p \in PcbIds, esp.pcb[p].alloc, esp.pcb[p].sent
               PROVE  LET l == esp.link[esp.pcb[p].arg]
                      IN  /\ l.write_len - l.write_total = l.unacked
                          /\ l.cntr > 0 => l.unacked > 0 \/ l.stuck
    BY DEF SendGoesOn
  <2>1. esp.pcb[p].state \in {"ESTABLISHED", "CLOSE_WAIT"}
    BY DEF EspI, EspKept, CallsBack
  <2>2. Counts(esp.link[esp.pcb[p].arg])
    BY <2>1, OwnerIs
  <2> QED
    BY <2>2 DEF Counts
<1>3. ClosedWhileAlive /\ UdpSentWhole
  BY DEF EspI, EspKept, UdpKept, ClosedWhileAlive, UdpSentWhole
<1> QED
  BY <1>1, <1>2, <1>3 DEF LinksSound

(* A link of espconn ends once and with everyone who knows it, what is     *)
(* left to send has bytes ahead of it whose acknowledgement sends it on,   *)
(* tcp_close is called for no freed pcb, and a UDP message is told sent    *)
(* when it is (espconn_tcp.c, espconn_udp.c), for any number of links,     *)
(* pcbs and sizes, as long as the application does not call                *)
(* espconn_disconnect for a link that is closing.                          *)
THEOREM LinksEndOnce ==
  ASSUME ~DisconnectWhileClosing
  PROVE  EspSpec => []LinksSound
<1>1. EspInit => EspI
  BY EspStarts
<1>2. EspI /\ [EspNext]_esp => EspI'
  BY EspStays
<1>3. EspI => LinksSound
  BY EspSound
<1> QED
  BY <1>1, <1>2, <1>3, PTL DEF EspSpec

(* The server of espconn_tcp_accept never comes to serve more links than   *)
(* the limit allows: the one too many has left the list when the call      *)
(* returns.                                                                *)
THEOREM ServerKeepsLimit ==
  ASSUME ~DisconnectWhileClosing
  PROVE  EspSpec => LimitKept
<1>1. EspInit => EspI
  BY EspStarts
<1>2. EspI /\ [EspNext]_esp => EspI'
  BY EspStays
<1>3. EspI /\ [EspNext]_esp => [link_cnt(esp) <= esp.count_opt /\ esp'.count_opt = esp.count_opt /\ ~esp'.crashed
                                  => link_cnt(esp') <= esp.count_opt]_esp
  BY EspSteps DEF Step, Within
<1> QED
  BY <1>1, <1>2, <1>3, PTL DEF EspSpec, LimitKept
=============================================================================
