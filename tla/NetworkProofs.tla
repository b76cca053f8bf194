--------------------------- MODULE NetworkProofs ---------------------------
(***************************************************************************)
(* The ARP cache under the whole IP layer, for every number of interfaces, *)
(* slots, frames, destinations and calls: no pbuf is lost or freed twice,  *)
(* an address has one entry and a unicast frame goes to the station that   *)
(* claimed the address last.  At the end, the heap of mem.c, for every     *)
(* size of the ram, of struct mem and of the alignment.                    *)
(***************************************************************************)
EXTENDS Network, Heap, Induction, FiniteSetTheorems, SequenceTheorems

-----------------------------------------------------------------------------
(* Queues and the packets in them.                                         *)
IsQueue(q) == q \in Seq({q[i] : i \in DOMAIN q})

LEMMA QueueIs ==
  ASSUME NEW q, IsQueue(q)
  PROVE  Len(q) \in Nat /\ DOMAIN q = 1..Len(q) /\ (q = <<>> <=> Len(q) = 0)
BY LenProperties, EmptySeq DEF IsQueue

LEMMA EmptyQueue == IsQueue(<<>>) /\ Len(<<>>) = 0 /\ DOMAIN <<>> = {}
BY DEF IsQueue

LEMMA AppendQueue ==
  ASSUME NEW q, IsQueue(q), NEW p
  PROVE  /\ IsQueue(Append(q, p)) /\ Len(Append(q, p)) = Len(q) + 1
         /\ \A i \in DOMAIN q : Append(q, p)[i] = q[i]
         /\ Append(q, p)[Len(q) + 1] = p
         /\ DOMAIN Append(q, p) = 1..(Len(q) + 1)
<1> DEFINE S == {q[i] : i \in DOMAIN q}
           T == S \cup {p}
           r == Append(q, p)
<1>1. q \in Seq(S) /\ S \subseteq T /\ p \in T
  BY DEF IsQueue
<1> HIDE DEF S, T
<1>2. q \in Seq(T)
  BY <1>1, SeqMonotonic
<1>3. /\ r \in Seq(T) /\ Len(r) = Len(q) + 1 /\ r[Len(q) + 1] = p
      /\ \A i \in 1..Len(q) : r[i] = q[i]
  BY <1>1, <1>2, AppendProperties
<1>4. DOMAIN r = 1..Len(r) /\ DOMAIN q = 1..Len(q) /\ Len(q) \in Nat
  BY <1>2, <1>3, LenProperties
<1> HIDE DEF r
<1>5. r \in [1..Len(r) -> {r[i] : i \in DOMAIN r}]
  <2>1. r = [i \in 1..Len(r) |-> r[i]]
    BY <1>3, LenProperties
  <2> HIDE DEF r
  <2> QED
    BY <1>4, <2>1
<1>6. IsQueue(r)
  <2>1. Len(r) \in Nat
    BY <1>3, <1>4
  <2> QED
    BY <1>5, <2>1 DEF IsQueue
<1> QED
  BY <1>3, <1>4, <1>6 DEF r

-----------------------------------------------------------------------------
(* The packets that wait in a table: a table that differs in one entry     *)
(* differs by that entry's queue.                                          *)
Size == Cardinality(Slots)
Total(a) == LET f[i \in 0..Size] == IF i = 0 THEN 0 ELSE f[i - 1] + Len(a[i].q)
            IN  f[Size]
IsTotal(f, a) == f = [i \in 0..Size |-> IF i = 0 THEN 0 ELSE f[i - 1] + Len(a[i].q)]

LEMMA SizeIs == Size \in Nat /\ Slots = 1..Size /\ Size > 0
<1>1. Size \in Nat
  BY ArpSizes, FS_CardinalityType DEF Size
<1>2. Slots = 1..Size /\ Slots # {}
  BY ArpSizes DEF Size
<1> QED
  BY <1>1, <1>2

(* The loops of the code, one step of each; c holds what does not change.  *)
(* A recursive definition of such a loop has a solution.                   *)
Turn(c, x, i) ==
  IF c.loop = "total" THEN x + Len(c.arp[i].q)
  ELSE IF c.loop = "tmr" THEN Age(x, i)
  ELSE IF c.loop = "cleanup"
  THEN IF c.s.arp[i].state # "EMPTY" /\ EntryNetif(c.s.arp[i]) = c.n THEN free_entry(x, i) ELSE x
  ELSE pbuf_free(etharp_send_ip(x, c.n, c.mac, c.e.ip, c.e.q[i]))
IsLoop(f, c, x, n) == f = [i \in 0..n |-> IF i = 0 THEN x ELSE Turn(c, f[i - 1], i)]

LEMMA LoopUnfold ==
  ASSUME NEW c, NEW x, NEW n \in Nat
  PROVE  \E f : IsLoop(f, c, x, n)
<1> DEFINE S == {z \in Nat : \E g : IsLoop(g, c, x, z)}
<1>1. 0 \in S
  <2> DEFINE g == [i \in 0..0 |-> x]
  <2>1. IsLoop(g, c, x, 0)
    BY DEF IsLoop
  <2> QED
    BY <2>1
<1>2. ASSUME NEW z \in Nat, z \in S PROVE z + 1 \in S
  <2>1. PICK g : IsLoop(g, c, x, z)
    BY <1>2
  <2> DEFINE k == [i \in 0..(z + 1) |-> IF i = z + 1 THEN Turn(c, g[z], i) ELSE g[i]]
  <2>2. \A i \in 0..z : g[i] = IF i = 0 THEN x ELSE Turn(c, g[i - 1], i)
    BY <2>1 DEF IsLoop
  <2>3. ASSUME NEW i \in 0..(z + 1) PROVE k[i] = IF i = 0 THEN x ELSE Turn(c, k[i - 1], i)
    <3>1. CASE i = 0
      BY <2>2, <3>1
    <3>2. CASE i = z + 1
      <4>1. k[i] = Turn(c, g[z], i) /\ k[i - 1] = g[z] /\ i # 0
        BY <3>2
      <4> QED
        BY <3>2, <4>1
    <3>3. CASE i \in 1..z
      <4>1. k[i] = g[i] /\ k[i - 1] = g[i - 1] /\ i # 0
        BY <3>3
      <4> QED
        BY <2>2, <3>3, <4>1
    <3> QED
      BY <3>1, <3>2, <3>3
  <2>4. k = [i \in 0..(z + 1) |-> k[i]]
    OBVIOUS
  <2> HIDE DEF k
  <2>5. IsLoop(k, c, x, z + 1)
    BY <2>3, <2>4 DEF IsLoop
  <2> QED
    BY <2>5
<1> HIDE DEF S
<1>3. n \in S
  BY <1>1, <1>2, NatInd
<1> QED
  BY <1>3 DEF S

LEMMA TotalUnfold ==
  ASSUME NEW a
  PROVE  \E f : IsTotal(f, a) /\ Total(a) = f[Size]
<1> DEFINE c == [loop |-> "total", arp |-> a]
<1>1. PICK g : IsLoop(g, c, 0, Size)
  BY SizeIs, LoopUnfold
<1>2. \A x, i : Turn(c, x, i) = x + Len(a[i].q)
  BY DEF Turn
<1> HIDE DEF c
<1>3. IsTotal(g, a)
  BY <1>1, <1>2 DEF IsLoop, IsTotal
<1> DEFINE f == CHOOSE k : IsTotal(k, a)
<1>4. IsTotal(f, a)
  BY <1>3
<1>5. Total(a) = f[Size]
  BY DEF Total, IsTotal
<1> QED
  BY <1>4, <1>5

IsTable(a) == a = [i \in Slots |-> a[i]] /\ \A i \in Slots : IsQueue(a[i].q)

LEMMA TotalOfPut ==
  ASSUME NEW a, NEW b, IsTable(a), IsTable(b), NEW i \in Slots, \A j \in Slots : j # i => b[j] = a[j]
  PROVE  Total(a) \in Nat /\ Total(b) = Total(a) - Len(a[i].q) + Len(b[i].q)
<1>1. PICK f : IsTotal(f, a) /\ Total(a) = f[Size]
  BY TotalUnfold
<1>2. PICK g : IsTotal(g, b) /\ Total(b) = g[Size]
  BY TotalUnfold
<1>3. \A k \in Slots : Len(a[k].q) \in Nat /\ Len(b[k].q) \in Nat
  BY QueueIs DEF IsTable
<1>4. /\ f[0] = 0 /\ g[0] = 0
      /\ \A k \in Slots : f[k] = f[k - 1] + Len(a[k].q) /\ g[k] = g[k - 1] + Len(b[k].q)
  BY <1>1, <1>2, SizeIs DEF IsTotal
<1> DEFINE Fits(n) == n <= Size => /\ f[n] \in Nat /\ g[n] \in Nat
                                   /\ g[n] = IF n < i THEN f[n] ELSE f[n] - Len(a[i].q) + Len(b[i].q)
           S == {n \in Nat : Fits(n)}
<1>5. 0 \in S
  BY <1>4, SizeIs
<1>6. ASSUME NEW n \in Nat, n \in S PROVE n + 1 \in S
  <2> SUFFICES ASSUME n + 1 <= Size PROVE Fits(n + 1)
    OBVIOUS
  <2>1. n + 1 \in Slots /\ n + 1 - 1 = n /\ Fits(n) /\ n <= Size
    BY <1>6, SizeIs
  <2>2. f[n + 1] = f[n] + Len(a[n + 1].q) /\ g[n + 1] = g[n] + Len(b[n + 1].q)
    BY <1>4, <2>1
  <2>3. n + 1 # i => b[n + 1] = a[n + 1]
    BY <2>1
  <2>4. i \in Nat /\ Size \in Nat /\ Len(a[i].q) \in Nat /\ Len(b[i].q) \in Nat
        /\ Len(a[n + 1].q) \in Nat /\ Len(b[n + 1].q) \in Nat
    BY <1>3, <2>1, SizeIs
  <2> DEFINE x == Len(a[i].q)
             y == Len(b[i].q)
             u == Len(a[n + 1].q)
             v == Len(b[n + 1].q)
             m == n + 1
  <2>5. f[n] \in Nat /\ g[n] \in Nat /\ g[n] = IF n < i THEN f[n] ELSE f[n] - x + y
    BY <2>1
  <2>6. f[m] = f[n] + u /\ g[m] = g[n] + v /\ (m = i => u = x /\ v = y) /\ (m # i => u = v)
    BY <2>2, <2>3
  <2>7. x \in Nat /\ y \in Nat /\ u \in Nat /\ v \in Nat
    BY <2>4
  <2> HIDE DEF x, y, u, v
  <2>8. (n < i <=> m <= i) /\ (m < i <=> m <= i /\ m # i)
    BY <2>4
  <2> HIDE DEF m
  <2>9. f[m] \in Nat /\ g[m] \in Nat /\ g[m] = IF m < i THEN f[m] ELSE f[m] - x + y
    <3>1. CASE m <= i /\ m # i
      BY <2>5, <2>6, <2>7, <2>8, <3>1
    <3>2. CASE m = i
      <4>1. m <= i /\ ~(m < i)
        BY <2>4, <3>2
      <4> QED
        BY <2>5, <2>6, <2>7, <2>8, <3>2, <4>1
    <3>3. CASE ~(m <= i)
      <4>1. m # i /\ ~(m < i) /\ ~(n < i)
        BY <2>4, <2>8, <3>3
      <4>2. g[n] = f[n] - x + y /\ u = v
        BY <2>5, <2>6, <4>1
      <4> QED
        BY <2>5, <2>6, <2>7, <4>1, <4>2
    <3> QED
      BY <3>1, <3>2, <3>3
  <2>10. Fits(m)
    BY <2>9 DEF x, y
  <2> HIDE DEF Fits
  <2> QED
    BY <2>10 DEF m
<1>7. Size \in S
  <2> HIDE DEF S
  <2> QED
    BY <1>5, <1>6, NatInd, SizeIs
<1> QED
  BY <1>1, <1>2, <1>7, SizeIs

-----------------------------------------------------------------------------
(* The host, while a call works on it.  L is what the stations have        *)
(* claimed; d is the number of pbufs that the call holds.                  *)
HostFields == {"ifs", "list", "def", "arp", "hint", "udp", "ulist", "raw", "rlist", "tcp", "groups",
               "live", "out", "got", "fail"}
IsHost(s) == s = [f \in HostFields |-> s[f]]

EntryFields == {"state", "ip", "mac", "ctime", "q"}
IsEntry(e) ==
  /\ e = [f \in EntryFields |-> e[f]]
  /\ e.state \in {"EMPTY", "PENDING", "STABLE"}
  /\ e.state = "EMPTY" => e = Empty
  /\ e.ctime \in 0..(ARP_MAXAGE - 1)
  /\ IsQueue(e.q) /\ (e.q # <<>> => e.state = "PENDING")

(* The station with the address ip claimed it last with this mac.          *)
Knows(L, ip, mac) == ip \in DOMAIN L /\ L[ip].mac = mac

(* The addresses in a table are different ones.                            *)
Single(a) == \A i, j \in Slots : a[i].state # "EMPTY" /\ a[j].state # "EMPTY" /\ a[i].ip = a[j].ip => i = j
Known(a, L) == \A i \in Slots : a[i].state = "STABLE" => Knows(L, a[i].ip, a[i].mac)
Entries(a) == a = [i \in Slots |-> a[i]] /\ \A i \in Slots : IsEntry(a[i])

Sent(o, L) == IsQueue(o) /\ \A k \in DOMAIN o : o[k].hop # None => Knows(L, o[k].hop, o[k].mac)

Held(s, d) == s.live = Total(s.arp) + d
ArpKept(s, L, d) ==
  /\ IsHost(s) /\ Entries(s.arp) /\ Single(s.arp) /\ Known(s.arp, L)
  /\ s.hint \in Slots /\ s.def \in Netifs \cup {None}
  /\ Sent(s.out, L) /\ Held(s, d)

(* A host that differs in nothing the cache is about.                      *)
SameArp(s, t) ==
  /\ IsHost(t) /\ t.arp = s.arp /\ t.hint = s.hint /\ t.def = s.def /\ t.out = s.out /\ t.live = s.live

LEMMA SameKeeps ==
  ASSUME NEW s, NEW t, NEW L, NEW d, ArpKept(s, L, d), SameArp(s, t)
  PROVE  ArpKept(t, L, d)
BY DEF ArpKept, SameArp, Held

LEMMA EntriesTable ==
  ASSUME NEW a, Entries(a)
  PROVE  IsTable(a)
BY DEF Entries, IsTable, IsEntry

LEMMA EmptyIs ==
  /\ IsEntry(Empty) /\ Empty.state = "EMPTY" /\ Empty.q = <<>> /\ Empty.ip = 0 /\ Empty.ctime = 0 /\ Empty.mac = "none"
  /\ Empty = [f \in EntryFields |-> Empty[f]]
<1>1. /\ Empty.state = "EMPTY" /\ Empty.q = <<>> /\ Empty.ip = 0 /\ Empty.ctime = 0 /\ Empty.mac = "none"
      /\ Empty = [f \in EntryFields |-> Empty[f]]
  BY DEF Empty, EntryFields
<1>2. 0 \in 0..(ARP_MAXAGE - 1)
  BY ArpSizes
<1> QED
  BY <1>1, <1>2, EmptyQueue DEF IsEntry

(* One entry is replaced, and its packets with it.                         *)
PutEntry(s, i, e) ==
  [s EXCEPT !.live = s.live - Len(s.arp[i].q) + Len(e.q), !.arp = [s.arp EXCEPT ![i] = e]]

(* A table may come to know more: K is what was known before.              *)
KnownBut(a, L, i) == \A j \in Slots : j # i /\ a[j].state = "STABLE" => Knows(L, a[j].ip, a[j].mac)
Alone(a, i, ip) == \A j \in Slots : j # i /\ a[j].state # "EMPTY" => a[j].ip # ip

LEMMA PutLearns ==
  ASSUME NEW s, NEW K, NEW L, NEW d \in Int, ArpKept(s, K, d), NEW i \in Slots, NEW e, IsEntry(e),
         KnownBut(s.arp, L, i), Sent(s.out, L),
         e.state # "EMPTY" => Alone(s.arp, i, e.ip),
         e.state = "STABLE" => Knows(L, e.ip, e.mac)
  PROVE  LET t == PutEntry(s, i, e)
         IN  /\ ArpKept(t, L, d) /\ t.arp[i] = e /\ (\A j \in Slots : j # i => t.arp[j] = s.arp[j])
             /\ \A f \in HostFields \ {"arp", "live"} : t[f] = s[f]
<1> DEFINE a == s.arp
           b == [a EXCEPT ![i] = e]
           n == s.live - Len(a[i].q) + Len(e.q)
           t == [s EXCEPT !.live = n, !.arp = b]
<1>1. IsHost(s) /\ Entries(a) /\ Single(a) /\ KnownBut(a, L, i) /\ Held(s, d)
  BY DEF ArpKept
<1>2. b = [j \in Slots |-> b[j]] /\ b[i] = e /\ \A j \in Slots : j # i => b[j] = a[j]
  <2> HIDE DEF a
  <2> QED
    BY <1>1 DEF Entries
<1>3. PutEntry(s, i, e) = t
  BY DEF PutEntry
<1> HIDE DEF a, b
<1>4. Entries(b)
  BY <1>1, <1>2 DEF Entries
<1>5. Single(b)
  BY <1>1, <1>2 DEF Single, Alone, a
<1>6. Known(b, L)
  BY <1>1, <1>2 DEF Known, KnownBut
<1>7. Total(a) \in Nat /\ Total(b) = Total(a) - Len(a[i].q) + Len(b[i].q) /\ Len(a[i].q) \in Nat /\ Len(e.q) \in Nat
  <2>1. Total(a) \in Nat /\ Total(b) = Total(a) - Len(a[i].q) + Len(b[i].q)
    BY <1>1, <1>2, <1>4, EntriesTable, TotalOfPut
  <2>2. IsQueue(a[i].q) /\ IsQueue(e.q)
    BY <1>1 DEF Entries, IsEntry
  <2> QED
    BY <2>1, <2>2, QueueIs
<1>8. n = Total(b) + d
  <2>1. s.live = Total(a) + d
    BY <1>1 DEF Held, a
  <2> QED
    BY <1>2, <1>7, <2>1
<1> HIDE DEF n
<1>9. /\ IsHost(t) /\ t.arp = b /\ t.live = n
      /\ \A f \in HostFields \ {"arp", "live"} : t[f] = s[f]
  BY <1>1 DEF IsHost, HostFields
<1> HIDE DEF t
<1>10. ArpKept(t, L, d)
  <2>1. t.hint = s.hint /\ t.def = s.def /\ t.out = s.out
    BY <1>9 DEF HostFields
  <2> QED
    BY <1>4, <1>5, <1>6, <1>8, <1>9, <2>1 DEF ArpKept, Held
<1> QED
  BY <1>2, <1>3, <1>9, <1>10 DEF a

LEMMA PutKeeps ==
  ASSUME NEW s, NEW L, NEW d \in Int, ArpKept(s, L, d), NEW i \in Slots, NEW e, IsEntry(e),
         e.state # "EMPTY" => Alone(s.arp, i, e.ip),
         e.state = "STABLE" => Knows(L, e.ip, e.mac)
  PROVE  ArpKept(PutEntry(s, i, e), L, d)
<1>1. KnownBut(s.arp, L, i) /\ Sent(s.out, L)
  BY DEF ArpKept, Known, KnownBut
<1> QED
  BY <1>1, PutLearns

(* How a call's other steps change the host.                               *)
LEMMA LiveIs ==
  ASSUME NEW s, NEW L, NEW d \in Int, ArpKept(s, L, d)
  PROVE  s.live \in Int /\ s.live = Total(s.arp) + d /\ Total(s.arp) \in Nat
<1>1. IsTable(s.arp)
  BY EntriesTable DEF ArpKept
<1>2. 1 \in Slots
  BY SizeIs
<1>3. Total(s.arp) \in Nat
  BY <1>1, <1>2, TotalOfPut
<1> QED
  BY <1>3 DEF ArpKept, Held

LEMMA LiveKeeps ==
  ASSUME NEW s, NEW L, NEW d \in Int, ArpKept(s, L, d), NEW n \in Int
  PROVE  ArpKept([s EXCEPT !.live = s.live + n], L, d + n)
<1> DEFINE t == [s EXCEPT !.live = s.live + n]
<1>1. IsHost(s)
  BY DEF ArpKept
<1>2. IsHost(t) /\ t.live = s.live + n /\ \A f \in HostFields \ {"live"} : t[f] = s[f]
  BY <1>1 DEF IsHost, HostFields
<1> HIDE DEF t
<1>3. t.arp = s.arp /\ t.hint = s.hint /\ t.def = s.def /\ t.out = s.out
  BY <1>2 DEF HostFields
<1>4. Held(t, d + n)
  BY <1>2, <1>3, LiveIs DEF Held
<1>5. ArpKept(t, L, d + n)
  BY <1>2, <1>3, <1>4 DEF ArpKept
<1> QED
  BY <1>5 DEF t

LEMMA FreeKeeps ==
  ASSUME NEW s, NEW L, NEW d \in Int, ArpKept(s, L, d)
  PROVE  ArpKept(pbuf_free(s), L, d - 1)
<1>1. -1 \in Int /\ s.live + -1 = s.live - 1 /\ d + -1 = d - 1
  BY LiveIs
<1>2. pbuf_free(s) = [s EXCEPT !.live = s.live + -1]
  BY <1>1 DEF pbuf_free
<1>3. ArpKept([s EXCEPT !.live = s.live + -1], L, d + -1)
  BY <1>1, LiveKeeps
<1> QED
  BY <1>1, <1>2, <1>3

LEMMA TakeKeeps ==
  ASSUME NEW s, NEW L, NEW d \in Int, ArpKept(s, L, d)
  PROVE  ArpKept([s EXCEPT !.live = @ + 1], L, d + 1)
<1>1. [s EXCEPT !.live = @ + 1] = [s EXCEPT !.live = s.live + 1]
  OBVIOUS
<1> QED
  BY <1>1, LiveKeeps

LEMMA TransmitKeeps ==
  ASSUME NEW s, NEW L, NEW d, ArpKept(s, L, d), NEW n, NEW mac, NEW hop, NEW p,
         hop # None => Knows(L, hop, mac)
  PROVE  ArpKept(Transmit(s, n, mac, hop, p), L, d)
<1> DEFINE x == [if |-> n, mac |-> mac, hop |-> hop, pkt |-> p]
           o == Append(s.out, x)
           t == [s EXCEPT !.out = o]
<1>1. IsHost(s) /\ Sent(s.out, L)
  BY DEF ArpKept
<1>2. x.hop = hop /\ x.mac = mac
  OBVIOUS
<1> HIDE DEF x
<1>3. /\ IsQueue(o) /\ DOMAIN o = 1..(Len(s.out) + 1) /\ o[Len(s.out) + 1] = x
      /\ \A k \in DOMAIN s.out : o[k] = s.out[k]
  BY <1>1, AppendQueue DEF Sent
<1>4. DOMAIN s.out = 1..Len(s.out) /\ Len(s.out) \in Nat
  BY <1>1, QueueIs DEF Sent
<1> HIDE DEF o
<1>5. Sent(o, L)
  <2>1. ASSUME NEW k \in DOMAIN o PROVE o[k].hop # None => Knows(L, o[k].hop, o[k].mac)
    <3>1. CASE k \in DOMAIN s.out
      BY <1>1, <1>3, <3>1 DEF Sent
    <3>2. CASE k \notin DOMAIN s.out
      <4>1. k = Len(s.out) + 1
        BY <1>3, <1>4, <3>2
      <4> QED
        BY <1>2, <1>3, <4>1
    <3> QED
      BY <3>1, <3>2
  <2> QED
    BY <1>3, <2>1 DEF Sent
<1>6. /\ IsHost(t) /\ t.out = o /\ t.arp = s.arp /\ t.hint = s.hint /\ t.def = s.def /\ t.live = s.live
  BY <1>1 DEF IsHost, HostFields
<1>7. Transmit(s, n, mac, hop, p) = t
  BY DEF Transmit, o, x
<1> HIDE DEF t
<1> QED
  BY <1>5, <1>6, <1>7 DEF ArpKept, Held

-----------------------------------------------------------------------------
(* free_entry, and the timer.                                              *)
IsPut(t, s, i, e) ==
  /\ IsHost(s) /\ IsHost(t)
  /\ t.arp = [s.arp EXCEPT ![i] = e] /\ t.live = s.live - Len(s.arp[i].q) + Len(e.q)
  /\ \A f \in HostFields \ {"arp", "live"} : t[f] = s[f]
LEMMA PutIs ==
  ASSUME NEW s, NEW i, NEW e, NEW t, IsPut(t, s, i, e)
  PROVE  t = PutEntry(s, i, e)
<1> DEFINE b == [s.arp EXCEPT ![i] = e]
           n == s.live - Len(s.arp[i].q) + Len(e.q)
           u == [s EXCEPT !.live = n, !.arp = b]
<1>1. /\ t.arp = b /\ t.live = n /\ IsHost(s) /\ IsHost(t)
      /\ \A f \in HostFields \ {"arp", "live"} : t[f] = s[f]
  BY DEF IsPut
<1> HIDE DEF b, n
<1>2. IsHost(u) /\ u.arp = b /\ u.live = n /\ \A f \in HostFields \ {"arp", "live"} : u[f] = s[f]
  BY <1>1 DEF IsHost, HostFields
<1>3. u = PutEntry(s, i, e)
  BY DEF PutEntry, b, n
<1> HIDE DEF u
<1>4. \A f \in HostFields : u[f] = t[f]
  <2>1. u["arp"] = t["arp"] /\ u["live"] = t["live"]
    BY <1>1, <1>2
  <2> QED
    BY <1>1, <1>2, <2>1
<1> QED
  BY <1>1, <1>2, <1>3, <1>4 DEF IsHost

LEMMA EntryIs ==
  ASSUME NEW s, NEW L, NEW d, ArpKept(s, L, d), NEW i \in Slots
  PROVE  IsEntry(s.arp[i]) /\ Len(s.arp[i].q) \in Nat
BY QueueIs DEF ArpKept, Entries, IsEntry

LEMMA FreeIsPut ==
  ASSUME NEW s, NEW L, NEW d \in Int, ArpKept(s, L, d), NEW i \in Slots
  PROVE  free_entry(s, i) = PutEntry(s, i, Empty)
<1> DEFINE t == free_entry(s, i)
           b == [s.arp EXCEPT ![i] = Empty]
           n == s.live - Len(s.arp[i].q)
           u == [s EXCEPT !.live = n, !.arp = b]
<1>1. IsHost(s) /\ s.live \in Int /\ Len(s.arp[i].q) \in Nat /\ Len(Empty.q) = 0
  BY LiveIs, EntryIs, EmptyIs, EmptyQueue DEF ArpKept
<1>2. t = u
  <2>1. "arp" \in DOMAIN s /\ "live" \in DOMAIN s
    BY <1>1 DEF IsHost, HostFields
  <2> QED
    BY <2>1 DEF free_entry
<1>3. n = s.live - Len(s.arp[i].q) + Len(Empty.q)
  BY <1>1
<1> HIDE DEF b, n
<1>4. IsHost(u) /\ u.arp = b /\ u.live = n /\ \A f \in HostFields \ {"arp", "live"} : u[f] = s[f]
  BY <1>1 DEF IsHost, HostFields
<1> HIDE DEF u, t
<1>5. u.live = s.live - Len(s.arp[i].q) + Len(Empty.q) /\ u.arp = [s.arp EXCEPT ![i] = Empty]
  BY <1>3, <1>4 DEF b
<1>6. u = PutEntry(s, i, Empty)
  <2>1. IsPut(u, s, i, Empty)
    BY <1>1, <1>4, <1>5 DEF IsPut
  <2> QED
    BY <2>1, PutIs
<1> QED
  BY <1>2, <1>6 DEF t

LEMMA FreeEntryKeeps ==
  ASSUME NEW s, NEW L, NEW d \in Int, ArpKept(s, L, d), NEW i \in Slots
  PROVE  ArpKept(free_entry(s, i), L, d)
BY FreeIsPut, PutKeeps, EmptyIs

(* An entry changes and keeps its queue.                                   *)
LEMMA QueueStays ==
  ASSUME NEW s, NEW L, NEW d \in Int, ArpKept(s, L, d), NEW i \in Slots, NEW e, e.q = s.arp[i].q
  PROVE  [s EXCEPT !.arp = [s.arp EXCEPT ![i] = e]] = PutEntry(s, i, e)
<1> DEFINE b == [s.arp EXCEPT ![i] = e]
           u == [s EXCEPT !.arp = b]
<1>1. IsHost(s) /\ s.live \in Int /\ Len(s.arp[i].q) \in Nat
  BY LiveIs, EntryIs DEF ArpKept
<1>2. s.live = s.live - Len(s.arp[i].q) + Len(e.q)
  BY <1>1
<1> HIDE DEF b
<1>3. IsHost(u) /\ u.arp = b /\ u.live = s.live /\ \A f \in HostFields \ {"arp", "live"} : u[f] = s[f]
  BY <1>1 DEF IsHost, HostFields
<1> HIDE DEF u
<1>4. u.live = s.live - Len(s.arp[i].q) + Len(e.q) /\ u.arp = [s.arp EXCEPT ![i] = e]
  BY <1>2, <1>3 DEF b
<1>5. u = PutEntry(s, i, e)
  <2>1. IsPut(u, s, i, e)
    BY <1>1, <1>3, <1>4 DEF IsPut
  <2> QED
    BY <2>1, PutIs
<1> QED
  BY <1>5 DEF u, b

LEMMA AgeKeeps ==
  ASSUME NEW s, NEW L, NEW d \in Int, ArpKept(s, L, d), NEW i \in Slots
  PROVE  ArpKept(Age(s, i), L, d)
<1> DEFINE o == s.arp[i]
           e == [o EXCEPT !.ctime = o.ctime + 1]
<1>1. CASE o.state = "EMPTY"
  BY <1>1 DEF Age
<1>2. CASE o.state # "EMPTY" /\ Expired(o)
  <2>1. Age(s, i) = free_entry(s, i)
    BY <1>2 DEF Age
  <2> QED
    BY <2>1, FreeEntryKeeps
<1>3. CASE o.state # "EMPTY" /\ ~Expired(o)
  <2>1. IsEntry(o) /\ IsHost(s)
    BY EntryIs DEF ArpKept
  <2>2. Age(s, i) = [s EXCEPT !.arp = [s.arp EXCEPT ![i] = e]]
    <3>1. Age(s, i) = [s EXCEPT !.arp[i].ctime = @ + 1]
      BY <1>3 DEF Age
    <3> QED
      BY <3>1
  <2> HIDE DEF o
  <2>3. o.ctime + 1 \in 0..(ARP_MAXAGE - 1)
    BY <1>3, <2>1, ArpSizes DEF IsEntry, Expired
  <2>4. IsEntry(e) /\ e.state = o.state /\ e.ip = o.ip /\ e.mac = o.mac /\ e.q = o.q
    BY <1>3, <2>1, <2>3 DEF IsEntry, EntryFields
  <2> HIDE DEF e
  <2>5. Age(s, i) = PutEntry(s, i, e)
    BY <2>2, <2>4, QueueStays DEF o
  <2>6. Alone(s.arp, i, e.ip)
    BY <1>3, <2>4 DEF ArpKept, Single, Alone, o
  <2>7. e.state = "STABLE" => Knows(L, e.ip, e.mac)
    BY <2>4 DEF ArpKept, Known, o
  <2> QED
    BY <2>4, <2>5, <2>6, <2>7, PutKeeps
<1> HIDE DEF o, e
<1> QED
  BY <1>1, <1>2, <1>3

LEMMA TmrKeeps ==
  ASSUME NEW s, NEW L, NEW d \in Int, ArpKept(s, L, d)
  PROVE  ArpKept(etharp_tmr(s), L, d)
<1> DEFINE c == [loop |-> "tmr"]
           IsTmr(f) == f = [i \in 0..Cardinality(Slots) |-> IF i = 0 THEN s ELSE Age(f[i - 1], i)]
           f == CHOOSE g : IsTmr(g)
<1>1. PICK g : IsLoop(g, c, s, Size)
  BY SizeIs, LoopUnfold
<1>2. \A x, i : Turn(c, x, i) = Age(x, i)
  BY DEF Turn
<1> HIDE DEF c
<1>3. IsTmr(g)
  BY <1>1, <1>2 DEF IsLoop, Size
<1>4. IsTmr(f)
  BY <1>3
<1>5. etharp_tmr(s) = f[Size]
  BY DEF etharp_tmr, Size
<1> HIDE DEF f
<1>6. f[0] = s /\ \A i \in Slots : f[i] = Age(f[i - 1], i)
  BY <1>4, SizeIs DEF Size
<1> DEFINE S == {n \in Nat : n <= Size => ArpKept(f[n], L, d)}
<1>7. 0 \in S
  BY <1>6
<1>8. ASSUME NEW n \in Nat, n \in S PROVE n + 1 \in S
  <2> SUFFICES ASSUME n + 1 <= Size PROVE ArpKept(f[n + 1], L, d)
    OBVIOUS
  <2>1. n + 1 \in Slots /\ n + 1 - 1 = n /\ ArpKept(f[n], L, d)
    BY <1>8, SizeIs
  <2>2. f[n + 1] = Age(f[n], n + 1)
    BY <1>6, <2>1
  <2> QED
    BY <2>1, <2>2, AgeKeeps
<1>9. Size \in S
  <2> HIDE DEF S
  <2> QED
    BY <1>7, <1>8, NatInd, SizeIs
<1> QED
  BY <1>5, <1>9, SizeIs

LEMMA CleanupKeeps ==
  ASSUME NEW s, NEW L, NEW d \in Int, ArpKept(s, L, d), NEW m
  PROVE  ArpKept(etharp_cleanup_netif(s, m), L, d)
<1> DEFINE c == [loop |-> "cleanup", s |-> s, n |-> m]
           IsClean(f) == f = [i \in 0..Cardinality(Slots) |->
                                 IF i = 0 THEN s
                                 ELSE IF s.arp[i].state # "EMPTY" /\ EntryNetif(s.arp[i]) = m THEN free_entry(f[i - 1], i)
                                 ELSE f[i - 1]]
           f == CHOOSE g : IsClean(g)
<1>1. PICK g : IsLoop(g, c, s, Size)
  BY SizeIs, LoopUnfold
<1>2. \A x, i : Turn(c, x, i) = IF s.arp[i].state # "EMPTY" /\ EntryNetif(s.arp[i]) = m THEN free_entry(x, i) ELSE x
  BY DEF Turn
<1> HIDE DEF c
<1>3. IsClean(g)
  BY <1>1, <1>2 DEF IsLoop, Size
<1>4. IsClean(f)
  BY <1>3
<1>5. etharp_cleanup_netif(s, m) = f[Size]
  BY DEF etharp_cleanup_netif, Size
<1> HIDE DEF f
<1>6. f[0] = s /\ \A i \in Slots : f[i] = free_entry(f[i - 1], i) \/ f[i] = f[i - 1]
  BY <1>4, SizeIs DEF Size
<1> DEFINE S == {n \in Nat : n <= Size => ArpKept(f[n], L, d)}
<1>7. 0 \in S
  BY <1>6
<1>8. ASSUME NEW n \in Nat, n \in S PROVE n + 1 \in S
  <2> SUFFICES ASSUME n + 1 <= Size PROVE ArpKept(f[n + 1], L, d)
    OBVIOUS
  <2>1. n + 1 \in Slots /\ n + 1 - 1 = n /\ ArpKept(f[n], L, d)
    BY <1>8, SizeIs
  <2>2. f[n + 1] = free_entry(f[n], n + 1) \/ f[n + 1] = f[n]
    BY <1>6, <2>1
  <2> QED
    BY <2>1, <2>2, FreeEntryKeeps
<1>9. Size \in S
  <2> HIDE DEF S
  <2> QED
    BY <1>7, <1>8, NatInd, SizeIs
<1> QED
  BY <1>5, <1>9, SizeIs

-----------------------------------------------------------------------------
(* find_entry.                                                             *)
LEMMA MinOfIs ==
  ASSUME NEW S \in SUBSET Nat, S # {}
  PROVE  MinOf(S) \in S
<1>1. \E i \in S : \A j \in S : i <= j
  BY LeastNat
<1> QED
  BY <1>1 DEF MinOf

LEMMA OldestIs ==
  ASSUME NEW s, NEW L, NEW d, ArpKept(s, L, d), NEW S \in SUBSET Slots, S # {}
  PROVE  OldestOf(s, S) \in S
<1> DEFINE c(i) == s.arp[i].ctime
           T == {ARP_MAXAGE - c(i) : i \in S}
<1>1. \A i \in S : i \in Nat /\ i <= Size /\ c(i) \in Nat /\ c(i) <= ARP_MAXAGE
  <2>1. \A i \in S : i \in Nat /\ i <= Size
    BY SizeIs
  <2>2. \A i \in S : s.arp[i].ctime \in 0..(ARP_MAXAGE - 1)
    BY EntryIs DEF IsEntry
  <2> QED
    BY <2>1, <2>2, ArpSizes
<1>2. T \in SUBSET Nat /\ T # {}
  BY <1>1, ArpSizes
<1>3. PICK x \in T : \A y \in T : x <= y
  BY <1>2, LeastNat
<1>4. PICK m \in S : x = ARP_MAXAGE - c(m)
  BY <1>3
<1> HIDE DEF c
<1>5. \A j \in S : c(j) <= c(m)
  <2>1. ASSUME NEW j \in S PROVE c(j) <= c(m)
    <3>1. ARP_MAXAGE - c(m) <= ARP_MAXAGE - c(j)
      BY <1>3, <1>4
    <3>2. c(j) \in Nat /\ c(m) \in Nat /\ ARP_MAXAGE \in Nat
      BY <1>1, ArpSizes
    <3> QED
      BY <3>1, <3>2
  <2> QED
    BY <2>1
<1> DEFINE U == {i \in S : c(i) = c(m)}
           V == {Size - i : i \in U}
<1>6. V \in SUBSET Nat /\ V # {}
  BY <1>1, SizeIs
<1>7. PICK v \in V : \A y \in V : v <= y
  BY <1>6, LeastNat
<1>8. PICK k \in U : v = Size - k
  BY <1>7
<1>9. \A j \in S : c(j) < c(k) \/ (c(j) = c(k) /\ j <= k)
  <2>1. ASSUME NEW j \in S PROVE c(j) < c(k) \/ (c(j) = c(k) /\ j <= k)
    <3>1. c(j) \in Nat /\ c(k) \in Nat /\ c(j) <= c(k) /\ j \in Nat /\ k \in Nat /\ Size \in Nat
      BY <1>1, <1>5, <1>8, SizeIs
    <3>2. CASE c(j) = c(k)
      <4>1. Size - k <= Size - j
        BY <1>7, <1>8, <3>2
      <4> QED
        BY <3>1, <3>2, <4>1
    <3>3. CASE c(j) # c(k)
      BY <3>1, <3>3
    <3> QED
      BY <3>2, <3>3
  <2> QED
    BY <2>1
<1>10. \E i \in S : \A j \in S : \/ s.arp[j].ctime < s.arp[i].ctime
                                 \/ s.arp[j].ctime = s.arp[i].ctime /\ j <= i
  BY <1>8, <1>9 DEF c
<1> QED
  BY <1>10 DEF OldestOf

LEMMA RecycledIs ==
  ASSUME NEW s, NEW L, NEW d, ArpKept(s, L, d), Slots \ Used(s) = {}
  PROVE  Recycled(s) \in Slots
<1> DEFINE stable == {i \in Slots : s.arp[i].state = "STABLE"}
           idle   == {i \in Slots : s.arp[i].state = "PENDING" /\ s.arp[i].q = <<>>}
           S == IF stable # {} THEN stable ELSE IF idle # {} THEN idle ELSE Used(s)
<1>1. S \in SUBSET Slots /\ S # {}
  BY ArpSizes DEF Used
<1>2. Recycled(s) = OldestOf(s, S)
  BY DEF Recycled
<1> HIDE DEF S
<1> QED
  BY <1>1, <1>2, OldestIs

(* What find_entry returns: the entry of the address, none, or a blank one *)
(* that no other entry has the address of.                                 *)
Blank(ip) == [Empty EXCEPT !.ip = ip]
Nobody(s, ip) == \A j \in Slots : s.arp[j].state # "EMPTY" => s.arp[j].ip # ip
Found(r, s, ip) == r.h = s /\ r.i \in Slots /\ s.arp[r.i].state # "EMPTY" /\ s.arp[r.i].ip = ip
NotFound(r, s, ip, flag) == r.h = s /\ r.i = None /\ Nobody(s, ip) /\ flag = "FIND_ONLY"
Made(r, s, ip, flag) == r.i \in Slots /\ Nobody(s, ip) /\ r.h = PutEntry(s, r.i, Blank(ip)) /\ flag # "FIND_ONLY"

LEMMA BlankIs ==
  ASSUME NEW ip
  PROVE  /\ Blank(ip).state = "EMPTY" /\ Blank(ip).ip = ip /\ Blank(ip).q = <<>> /\ Blank(ip).ctime = 0
         /\ Blank(ip) = [f \in EntryFields |-> Blank(ip)[f]]
BY DEF Blank, Empty, EntryFields

LEMMA MakeBlank ==
  ASSUME NEW s, NEW L, NEW d \in Int, ArpKept(s, L, d), NEW ip, NEW i \in Slots
  PROVE  LET x == free_entry(s, i)
         IN  [x EXCEPT !.arp[i].ip = ip, !.arp[i].ctime = 0] = PutEntry(s, i, Blank(ip))
<1> DEFINE x == free_entry(s, i)
           b == [s.arp EXCEPT ![i] = Empty]
           z == [s.arp EXCEPT ![i] = Blank(ip)]
           u == [x EXCEPT !.arp[i].ip = ip, !.arp[i].ctime = 0]
           w == [x EXCEPT !.arp = z]
<1>1. IsHost(s) /\ s.live \in Int /\ Len(s.arp[i].q) \in Nat /\ s.arp = [j \in Slots |-> s.arp[j]]
  BY LiveIs, EntryIs DEF ArpKept, Entries
<1>2. x = PutEntry(s, i, Empty)
  BY FreeIsPut
<1>3. /\ IsHost(x) /\ x.arp = b /\ x.live = s.live - Len(s.arp[i].q) + Len(Empty.q)
      /\ \A f \in HostFields \ {"arp", "live"} : x[f] = s[f]
  <2> DEFINE n == s.live - Len(s.arp[i].q) + Len(Empty.q)
             y == [s EXCEPT !.live = n, !.arp = b]
  <2>1. x = y
    BY <1>2 DEF PutEntry
  <2> HIDE DEF x, n, b
  <2>2. IsHost(y) /\ y.arp = b /\ y.live = n /\ \A f \in HostFields \ {"arp", "live"} : y[f] = s[f]
    BY <1>1 DEF IsHost, HostFields
  <2> HIDE DEF y
  <2> QED
    BY <2>1, <2>2 DEF n
<1> HIDE DEF x
<1>4. u = w
  <2> DEFINE e1 == [Empty EXCEPT !.ip = ip]
             b1 == [s.arp EXCEPT ![i] = e1]
             x1 == [x EXCEPT !.arp[i].ip = ip]
  <2>1. x1 = [x EXCEPT !.arp = b1]
    <3>1. x1 = [x EXCEPT !.arp = [x.arp EXCEPT ![i] = [x.arp[i] EXCEPT !.ip = ip]]]
      OBVIOUS
    <3>2. x.arp[i] = Empty
      BY <1>1, <1>3
    <3>3. [x.arp EXCEPT ![i] = e1] = b1
      BY <1>1, <1>3
    <3> QED
      BY <3>1, <3>2, <3>3
  <2>a. [e1 EXCEPT !.ctime = 0] = Blank(ip)
    <3>1. e1 = [f \in EntryFields |-> e1[f]] /\ e1.ctime = 0
      BY DEF Empty, EntryFields
    <3>2. e1 = Blank(ip)
      BY DEF Blank
    <3> HIDE DEF e1
    <3> QED
      BY <3>1, <3>2 DEF EntryFields
  <2>2. b1[i] = e1 /\ b1 = [j \in Slots |-> b1[j]] /\ [e1 EXCEPT !.ctime = 0] = Blank(ip)
    <3> HIDE DEF e1
    <3> QED
      BY <1>1, <2>a
  <2>3. u = [x1 EXCEPT !.arp = [x1.arp EXCEPT ![i] = [x1.arp[i] EXCEPT !.ctime = 0]]]
    OBVIOUS
  <2>4. [b1 EXCEPT ![i] = Blank(ip)] = z
    BY <1>1
  <2> HIDE DEF x1, b1, e1, z
  <2>5. x1.arp = b1 /\ [x1 EXCEPT !.arp = z] = w
    BY <1>3, <2>1 DEF IsHost, HostFields
  <2> QED
    BY <2>2, <2>3, <2>4, <2>5
<1> HIDE DEF u, z
<1>5. IsHost(w) /\ w.arp = z /\ w.live = x.live /\ \A f \in HostFields \ {"arp", "live"} : w[f] = s[f]
  BY <1>3 DEF IsHost, HostFields
<1>6. Len(Empty.q) = Len(Blank(ip).q)
  BY BlankIs, EmptyIs
<1> HIDE DEF w
<1>7. IsPut(w, s, i, Blank(ip))
  BY <1>1, <1>3, <1>5, <1>6 DEF IsPut, z
<1>8. w = PutEntry(s, i, Blank(ip))
  BY <1>7, PutIs
<1> QED
  BY <1>4, <1>8 DEF u, x

LEMMA FindIs ==
  ASSUME NEW s, NEW L, NEW d \in Int, ArpKept(s, L, d), NEW ip, NEW flag
  PROVE  LET r == find_entry(s, ip, flag)
         IN  Found(r, s, ip) \/ NotFound(r, s, ip, flag) \/ Made(r, s, ip, flag)
<1> DEFINE r == find_entry(s, ip, flag)
           free == Slots \ Used(s)
           i == IF free # {} THEN MinOf(free) ELSE Recycled(s)
           x == IF free # {} THEN s ELSE free_entry(s, i)
           y == [x EXCEPT !.arp[i].ip = ip, !.arp[i].ctime = 0]
<1>1. Slots \subseteq Nat
  BY SizeIs
<1>2. CASE FoundAt(s, ip) # {}
  <2>1. MinOf(FoundAt(s, ip)) \in FoundAt(s, ip)
    <3>1. FoundAt(s, ip) \in SUBSET Nat
      BY <1>1 DEF FoundAt, Used
    <3> QED
      BY <1>2, <3>1, MinOfIs
  <2>2. r.h = s /\ r.i = MinOf(FoundAt(s, ip))
    BY <1>2 DEF find_entry
  <2> HIDE DEF r
  <2>3. Found(r, s, ip)
    BY <2>1, <2>2 DEF Found, FoundAt, Used
  <2> QED
    BY <2>3 DEF r
<1>3. FoundAt(s, ip) = {} => Nobody(s, ip)
  BY DEF FoundAt, Used, Nobody
<1>4. CASE FoundAt(s, ip) = {} /\ flag = "FIND_ONLY"
  <2>1. r.h = s /\ r.i = None
    BY <1>4 DEF find_entry
  <2> HIDE DEF r
  <2>2. NotFound(r, s, ip, flag)
    BY <1>3, <1>4, <2>1 DEF NotFound
  <2> QED
    BY <2>2 DEF r
<1>5. CASE FoundAt(s, ip) = {} /\ flag # "FIND_ONLY"
  <2>1. r.h = y /\ r.i = i
    <3>1. r = [h |-> y, i |-> i]
      BY <1>5 DEF find_entry
    <3> HIDE DEF r, y, i
    <3> QED
      BY <3>1
  <2>2. i \in Slots
    <3>1. CASE free # {}
      <4>1. free \in SUBSET Nat
        BY <1>1
      <4> QED
        BY <3>1, <4>1, MinOfIs
    <3>2. CASE free = {}
      BY <3>2, RecycledIs
    <3> QED
      BY <3>1, <3>2
  <2>3. x = free_entry(s, i)
    <3>1. CASE free # {}
      <4>1. i \in free /\ x = s
        <5>1. free \in SUBSET Nat
          BY <1>1
        <5> QED
          BY <3>1, <5>1, MinOfIs
      <4>2. s.arp[i].state = "EMPTY"
        BY <4>1 DEF Used
      <4> HIDE DEF i, x, free
      <4>3. s.arp[i] = Empty /\ IsHost(s) /\ s.live \in Int /\ s.arp = [j \in Slots |-> s.arp[j]]
        BY <2>2, <4>2, EntryIs, LiveIs DEF IsEntry, ArpKept, Entries
      <4>4. free_entry(s, i) = s
        <5>1. Len(s.arp[i].q) = 0
          BY <4>3, EmptyIs, EmptyQueue
        <5>2. s.live - 0 = s.live /\ [s.arp EXCEPT ![i] = Empty] = s.arp
          BY <4>3
        <5>3. free_entry(s, i) = [s EXCEPT !.live = s.live - Len(s.arp[i].q), !.arp = [s.arp EXCEPT ![i] = Empty]]
          BY <4>3 DEF free_entry, IsHost, HostFields
        <5>4. [s EXCEPT !.live = s.live, !.arp = s.arp] = s
          BY <4>3 DEF IsHost, HostFields
        <5> QED
          BY <5>1, <5>2, <5>3, <5>4
      <4> QED
        BY <4>1, <4>4
    <3>2. CASE free = {}
      BY <3>2
    <3> QED
      BY <3>1, <3>2
  <2> HIDE DEF x, i, r
  <2>4. y = PutEntry(s, i, Blank(ip))
    BY <2>2, <2>3, MakeBlank
  <2> HIDE DEF y
  <2>5. Made(r, s, ip, flag)
    BY <1>3, <1>5, <2>1, <2>2, <2>4 DEF Made
  <2> QED
    BY <2>5 DEF r
<1> HIDE DEF r
<1>6. Found(r, s, ip) \/ NotFound(r, s, ip, flag) \/ Made(r, s, ip, flag)
  BY <1>2, <1>4, <1>5 DEF r
<1> QED
  BY <1>6 DEF r

-----------------------------------------------------------------------------
(* update_arp_entry.                                                       *)
SetEntry(x, i, e) == [x EXCEPT !.arp = [x.arp EXCEPT ![i] = e]]
HasTable(x) == IsHost(x) /\ x.arp = [i \in Slots |-> x.arp[i]]

LEMMA SetEntryIs ==
  ASSUME NEW x, HasTable(x), NEW i \in Slots, NEW e, NEW g
  PROVE  /\ HasTable(SetEntry(x, i, e)) /\ SetEntry(x, i, e).arp[i] = e
         /\ SetEntry(x, i, e).live = x.live
         /\ SetEntry(SetEntry(x, i, e), i, g) = SetEntry(x, i, g)
<1> DEFINE b == [x.arp EXCEPT ![i] = e]
           k == [x.arp EXCEPT ![i] = g]
           y == [x EXCEPT !.arp = b]
<1>1. IsHost(x) /\ x.arp = [j \in Slots |-> x.arp[j]]
  BY DEF HasTable
<1>2. b = [j \in Slots |-> b[j]] /\ b[i] = e /\ [b EXCEPT ![i] = g] = k
  BY <1>1
<1> HIDE DEF b, k
<1>3. IsHost(y) /\ y.arp = b /\ y.live = x.live /\ [y EXCEPT !.arp = k] = [x EXCEPT !.arp = k]
  BY <1>1 DEF IsHost, HostFields
<1>4. y = SetEntry(x, i, e)
  BY DEF SetEntry, b
<1> HIDE DEF y
<1>5. SetEntry(y, i, g) = SetEntry(x, i, g)
  BY <1>2, <1>3 DEF SetEntry, k
<1>6. HasTable(y) /\ y.arp[i] = e /\ y.live = x.live
  BY <1>2, <1>3 DEF HasTable
<1> QED
  BY <1>4, <1>5, <1>6

LEMMA SendQueueKeeps ==
  ASSUME NEW s, NEW L, NEW d \in Int, NEW i \in Slots, NEW n, NEW mac, IsQueue(s.arp[i].q),
         ArpKept([s EXCEPT !.arp[i].q = <<>>], L, d + Len(s.arp[i].q)), Knows(L, s.arp[i].ip, mac)
  PROVE  ArpKept(SendQueue(s, n, i, mac), L, d)
<1> DEFINE e == s.arp[i]
           z == [s EXCEPT !.arp[i].q = <<>>]
           N == Len(e.q)
           c == [loop |-> "send", n |-> n, mac |-> mac, e |-> e]
           Step(x, k) == pbuf_free(etharp_send_ip(x, n, mac, e.ip, e.q[k]))
           IsSend(f) == f = [k \in 0..N |-> IF k = 0 THEN z ELSE Step(f[k - 1], k)]
           f == CHOOSE g : IsSend(g)
<1>0. N \in Nat
  BY QueueIs
<1> HIDE DEF N
<1>1. PICK g : IsLoop(g, c, z, N)
  BY <1>0, LoopUnfold
<1>2. \A x, k : Turn(c, x, k) = pbuf_free(etharp_send_ip(x, n, mac, e.ip, e.q[k]))
  BY DEF Turn
<1> HIDE DEF c, z
<1>3. IsSend(g)
  BY <1>1, <1>2 DEF IsLoop
<1>4. IsSend(f)
  BY <1>3
<1>5. SendQueue(s, n, i, mac) = f[N]
  <2> USE DEF N, z
  <2> QED
    BY DEF SendQueue
<1> HIDE DEF f
<1>6. f[0] = z /\ \A k \in 1..N : f[k] = pbuf_free(Transmit(f[k - 1], n, mac, e.ip, e.q[k]))
  <2> HIDE DEF Step
  <2>a. \A k \in 0..N : f[k] = IF k = 0 THEN z ELSE Step(f[k - 1], k)
    BY <1>4
  <2>b. 0 \in 0..N /\ \A k \in 1..N : k \in 0..N /\ k # 0
    BY <1>0
  <2>1. f[0] = z /\ \A k \in 1..N : f[k] = Step(f[k - 1], k)
    BY <2>a, <2>b, Zenon
  <2>2. \A x, k : Step(x, k) = pbuf_free(Transmit(x, n, mac, e.ip, e.q[k]))
    BY DEF Step, etharp_send_ip
  <2> HIDE DEF e
  <2> QED
    BY <2>1, <2>2
<1> DEFINE S == {k \in Nat : k <= N => ArpKept(f[k], L, d + N - k)}
<1>7. 0 \in S
  <2>1. d + N - 0 = d + N /\ ArpKept(z, L, d + N)
    BY <1>0 DEF z, N
  <2> QED
    BY <1>6, <2>1
<1>8. ASSUME NEW k \in Nat, k \in S PROVE k + 1 \in S
  <2> SUFFICES ASSUME k + 1 <= N PROVE ArpKept(f[k + 1], L, d + N - (k + 1))
    OBVIOUS
  <2> DEFINE x == Transmit(f[k], n, mac, e.ip, e.q[k + 1])
             w == d + N - k
  <2>1. k + 1 \in 1..N /\ k + 1 - 1 = k /\ ArpKept(f[k], L, w) /\ w \in Int /\ w - 1 = d + N - (k + 1)
    BY <1>0, <1>8
  <2> HIDE DEF w
  <2>2. ArpKept(x, L, w)
    BY <2>1, TransmitKeeps
  <2>3. f[k + 1] = pbuf_free(x)
    BY <1>6, <2>1
  <2> HIDE DEF x
  <2>4. ArpKept(pbuf_free(x), L, w - 1)
    BY <2>1, <2>2, FreeKeeps
  <2> QED
    BY <2>1, <2>3, <2>4
<1>9. N \in S
  <2> HIDE DEF S
  <2> QED
    BY <1>0, <1>7, <1>8, NatInd
<1>10. ArpKept(f[N], L, d + N - N) /\ d + N - N = d
  BY <1>0, <1>9
<1> QED
  BY <1>5, <1>10

(* What is claimed in a frame, and when the cache hears it.                *)
LearnedAs(K, L, ip, mac) == Knows(L, ip, mac) /\ \A a \in DOMAIN K : a # ip => a \in DOMAIN L /\ L[a] = K[a]
Unfit(s, ip, n) == ip = AnyAddr \/ ip4_addr_isbroadcast(s, ip, n) \/ ip_addr_ismulticast(ip)

LEMMA UpdateEntryKeeps ==
  ASSUME NEW s, NEW K, NEW L, NEW d \in Int, ArpKept(s, K, d), Sent(s.out, L), NEW n, NEW ip, NEW mac, NEW flag,
         ~Unfit(s, ip, n), LearnedAs(K, L, ip, mac)
  PROVE  ArpKept(update_arp_entry(s, n, ip, mac, flag), L, d)
<1> DEFINE r == find_entry(s, ip, flag)
           i == r.i
           x == r.h
           z == [x EXCEPT !.arp[i].state = "STABLE", !.arp[i].mac = mac, !.arp[i].ctime = 0]
<1>1. update_arp_entry(s, n, ip, mac, flag) = IF i = None THEN s ELSE SendQueue(z, n, i, mac)
  BY DEF update_arp_entry, Unfit
<1>2. Found(r, s, ip) \/ NotFound(r, s, ip, flag) \/ Made(r, s, ip, flag)
  BY FindIs
<1> HIDE DEF r
<1>3. None \notin Slots
  BY SizeIs DEF None
<1>4. \A j \in Slots : s.arp[j].state = "STABLE" /\ s.arp[j].ip # ip => Knows(L, s.arp[j].ip, s.arp[j].mac)
  BY DEF LearnedAs, ArpKept, Known, Knows
<1>5. CASE NotFound(r, s, ip, flag)
  <2>1. Known(s.arp, L)
    BY <1>4, <1>5 DEF NotFound, Nobody, Known
  <2>2. ArpKept(s, L, d)
    BY <2>1 DEF ArpKept
  <2> QED
    BY <1>1, <1>5, <2>2 DEF NotFound
<1>6. CASE Found(r, s, ip) \/ Made(r, s, ip, flag)
  <2> DEFINE o == x.arp[i]
             e1 == [o EXCEPT !.state = "STABLE"]
             e2 == [e1 EXCEPT !.mac = mac]
             e3 == [e2 EXCEPT !.ctime = 0]
             e == [e3 EXCEPT !.q = <<>>]
             w == [z EXCEPT !.arp[i].q = <<>>]
  <2>1. i \in Slots /\ i # None
    BY <1>3, <1>6 DEF Found, Made
  <2>2. /\ HasTable(s) /\ IsEntry(s.arp[i]) /\ Len(s.arp[i].q) \in Nat /\ s.live \in Int
    BY <2>1, EntryIs, LiveIs DEF ArpKept, Entries, HasTable
  <2>3. /\ HasTable(x) /\ o.ip = ip /\ IsQueue(o.q) /\ o = [f \in EntryFields |-> o[f]]
        /\ x.live = s.live - Len(s.arp[i].q) + Len(o.q)
        /\ (\A f \in HostFields \ {"arp", "live"} : x[f] = s[f])
        /\ \A k : SetEntry(x, i, k).arp = [s.arp EXCEPT ![i] = k]
        /\ Alone(s.arp, i, ip)
    <3>1. CASE Found(r, s, ip)
      <4>1. x = s /\ o = s.arp[i] /\ o.ip = ip /\ o.state # "EMPTY"
        BY <3>1 DEF Found
      <4>2. Alone(s.arp, i, ip)
        BY <2>1, <4>1 DEF ArpKept, Single, Alone
      <4>3. \A k : SetEntry(s, i, k).arp = [s.arp EXCEPT ![i] = k]
        BY <2>2 DEF SetEntry, HasTable, IsHost, HostFields
      <4>4. s.live = s.live - Len(s.arp[i].q) + Len(s.arp[i].q)
        BY <2>2
      <4> HIDE DEF x, i, o
      <4> QED
        BY <2>2, <4>1, <4>2, <4>3, <4>4 DEF IsEntry
    <3>2. CASE Made(r, s, ip, flag)
      <4>1. x = PutEntry(s, i, Blank(ip)) /\ Nobody(s, ip)
        BY <3>2 DEF Made
      <4> DEFINE b == [s.arp EXCEPT ![i] = Blank(ip)]
                 m == s.live - Len(s.arp[i].q) + Len(Blank(ip).q)
                 y == [s EXCEPT !.live = m, !.arp = b]
      <4>2. y = x
        BY <4>1 DEF PutEntry
      <4>3. b = [j \in Slots |-> b[j]] /\ b[i] = Blank(ip) /\ \A k : [b EXCEPT ![i] = k] = [s.arp EXCEPT ![i] = k]
        <5> HIDE DEF i
        <5> QED
          BY <2>1, <2>2 DEF HasTable
      <4> HIDE DEF i, x, b, m
      <4>4. IsHost(y) /\ y.arp = b /\ y.live = m /\ \A f \in HostFields \ {"arp", "live"} : y[f] = s[f]
        BY <2>2 DEF HasTable, IsHost, HostFields
      <4> HIDE DEF y
      <4>5. o = Blank(ip) /\ HasTable(x)
        BY <4>2, <4>3, <4>4 DEF HasTable
      <4>6. \A k : SetEntry(x, i, k).arp = [x.arp EXCEPT ![i] = k]
        BY <4>5 DEF SetEntry, HasTable, IsHost, HostFields
      <4>7. Alone(s.arp, i, ip)
        BY <4>1 DEF Alone, Nobody
      <4> HIDE DEF o
      <4>8. o.ip = ip /\ IsQueue(o.q) /\ o = [f \in EntryFields |-> o[f]]
        BY <4>5, BlankIs, EmptyQueue
      <4>9. x.live = s.live - Len(s.arp[i].q) + Len(o.q)
        BY <4>2, <4>4, <4>5 DEF m
      <4> QED
        BY <4>2, <4>3, <4>4, <4>5, <4>6, <4>7, <4>8, <4>9
    <3> QED
      BY <1>6, <3>1, <3>2
  <2> HIDE DEF x, i
  <2>4. /\ z = SetEntry(x, i, e3) /\ w = SetEntry(x, i, e) /\ z.arp[i] = e3
    <3> DEFINE x1 == [x EXCEPT !.arp[i].state = "STABLE"]
               x2 == [x1 EXCEPT !.arp[i].mac = mac]
               x3 == [x2 EXCEPT !.arp[i].ctime = 0]
    <3>1. z = x3
      OBVIOUS
    <3>2. x1 = SetEntry(x, i, e1)
      BY DEF SetEntry
    <3>3. x2 = SetEntry(x1, i, [x1.arp[i] EXCEPT !.mac = mac])
      BY DEF SetEntry
    <3>4. x3 = SetEntry(x2, i, [x2.arp[i] EXCEPT !.ctime = 0])
      BY DEF SetEntry
    <3>5. w = SetEntry(z, i, [z.arp[i] EXCEPT !.q = <<>>])
      BY DEF SetEntry
    <3> HIDE DEF x1, x2, x3, z, w, o, e1
    <3>6. x1.arp[i] = e1 /\ \A k : SetEntry(x1, i, k) = SetEntry(x, i, k)
      BY <2>1, <2>3, <3>2, SetEntryIs
    <3>7. x2 = SetEntry(x, i, e2)
      BY <3>3, <3>6
    <3> HIDE DEF e2
    <3>8. x2.arp[i] = e2 /\ \A k : SetEntry(x2, i, k) = SetEntry(x, i, k)
      BY <2>1, <2>3, <3>7, SetEntryIs
    <3>9. x3 = SetEntry(x, i, e3)
      BY <3>4, <3>8
    <3> HIDE DEF e3
    <3>10. z.arp[i] = e3 /\ \A k : SetEntry(z, i, k) = SetEntry(x, i, k)
      BY <2>1, <2>3, <3>1, <3>9, SetEntryIs
    <3> QED
      BY <3>1, <3>5, <3>9, <3>10
  <2>5. /\ e3.ip = ip /\ e3.q = o.q /\ e3 = [f \in EntryFields |-> e3[f]]
        /\ e3.state = "STABLE" /\ e3.mac = mac /\ e3.ctime = 0
    <3> HIDE DEF o
    <3>1. e1 = [f \in EntryFields |-> e1[f]] /\ e1.ip = ip /\ e1.q = o.q /\ e1.state = "STABLE"
      BY <2>3 DEF EntryFields
    <3> HIDE DEF e1
    <3>2. e2 = [f \in EntryFields |-> e2[f]] /\ e2.ip = ip /\ e2.q = o.q /\ e2.state = "STABLE" /\ e2.mac = mac
      BY <3>1 DEF EntryFields
    <3> HIDE DEF e2
    <3> QED
      BY <3>2 DEF EntryFields
  <2> HIDE DEF e3, z, w
  <2>6. IsEntry(e) /\ e.state = "STABLE" /\ e.ip = ip /\ e.mac = mac /\ e.q = <<>>
    <3>1. 0 \in 0..(ARP_MAXAGE - 1)
      BY ArpSizes
    <3>2. e = [f \in EntryFields |-> e[f]] /\ e.ip = ip /\ e.q = <<>> /\ e.state = "STABLE" /\ e.mac = mac /\ e.ctime = 0
      BY <2>5 DEF EntryFields
    <3> HIDE DEF e
    <3> QED
      BY <3>1, <3>2, EmptyQueue DEF IsEntry
  <2> HIDE DEF e, o
  <2> DEFINE p == PutEntry(s, i, e)
             N == Len(o.q)
  <2>7. ArpKept(p, L, d)
    <3>1. KnownBut(s.arp, L, i)
      BY <1>4, <2>3 DEF KnownBut, Alone
    <3>2. Knows(L, ip, mac)
      BY DEF LearnedAs
    <3>3. e.state # "EMPTY" => Alone(s.arp, i, e.ip)
      BY <2>3, <2>6
    <3>4. e.state = "STABLE" => Knows(L, e.ip, e.mac)
      BY <2>6, <3>2
    <3> HIDE DEF p
    <3>5. ArpKept(PutEntry(s, i, e), L, d)
      BY <2>1, <2>6, <3>1, <3>3, <3>4, PutLearns
    <3> QED
      BY <3>5 DEF p
  <2>8. N \in Nat /\ Len(<<>>) = 0
    BY <2>3, QueueIs, EmptyQueue
  <2>9. w = [p EXCEPT !.live = p.live + N]
    <3> DEFINE b == [s.arp EXCEPT ![i] = e]
               m == s.live - Len(s.arp[i].q) + Len(e.q)
               p1 == [s EXCEPT !.live = m, !.arp = b]
               v == [p1 EXCEPT !.live = p1.live + N]
    <3>1. p = p1
      BY DEF PutEntry
    <3>2. m + N = x.live
      BY <2>2, <2>3, <2>6, <2>8
    <3>3. w.arp = b /\ w.live = x.live /\ IsHost(w) /\ \A f \in HostFields \ {"arp", "live"} : w[f] = s[f]
      <4>a. HasTable(w) /\ w.live = x.live
        BY <2>1, <2>3, <2>4, SetEntryIs
      <4>1. w.arp = b /\ w.live = x.live /\ IsHost(w)
        BY <2>3, <2>4, <4>a DEF HasTable
      <4>2. \A f \in HostFields \ {"arp", "live"} : w[f] = x[f]
        BY <2>3, <2>4 DEF SetEntry, HasTable, IsHost, HostFields
      <4> QED
        BY <2>3, <4>1, <4>2
    <3> HIDE DEF b, m, p
    <3>4. IsHost(p1) /\ p1.arp = b /\ p1.live = m /\ \A f \in HostFields \ {"arp", "live"} : p1[f] = s[f]
      BY <2>2 DEF HasTable, IsHost, HostFields
    <3> HIDE DEF p1
    <3>5. IsHost(v) /\ v.arp = b /\ v.live = m + N /\ \A f \in HostFields \ {"arp", "live"} : v[f] = s[f]
      BY <3>4 DEF IsHost, HostFields
    <3> HIDE DEF v
    <3>6. \A f \in HostFields : w[f] = v[f]
      <4>1. w["arp"] = v["arp"] /\ w["live"] = v["live"]
        BY <3>2, <3>3, <3>5
      <4> QED
        BY <3>3, <3>5, <4>1
    <3>7. w = v
      BY <3>3, <3>5, <3>6 DEF IsHost
    <3> QED
      BY <3>1, <3>7 DEF v
  <2>10. ArpKept(w, L, d + N)
    BY <2>7, <2>8, <2>9, LiveKeeps
  <2>11. z.arp[i].q = o.q /\ z.arp[i].ip = ip /\ Knows(L, ip, mac)
    BY <2>4, <2>5 DEF LearnedAs
  <2>12. ArpKept(SendQueue(z, n, i, mac), L, d)
    BY <2>1, <2>3, <2>10, <2>11, SendQueueKeeps DEF w
  <2> QED
    BY <1>1, <2>1, <2>12
<1> QED
  BY <1>2, <1>5, <1>6

LEMMA UnfitIgnored ==
  ASSUME NEW s, NEW n, NEW ip, NEW mac, NEW flag, Unfit(s, ip, n)
  PROVE  update_arp_entry(s, n, ip, mac, flag) = s
BY DEF update_arp_entry, Unfit

-----------------------------------------------------------------------------
(* etharp_query and etharp_output.                                         *)
LEMMA RequestKeeps ==
  ASSUME NEW s, NEW L, NEW d, ArpKept(s, L, d), NEW n, NEW ip
  PROVE  ArpKept(etharp_request(s, n, ip), L, d) /\ etharp_request(s, n, ip).arp = s.arp
<1> DEFINE p == [proto |-> "ARP_REQUEST", src |-> s.ifs[n].ip, dst |-> ip]
           t == Transmit(s, n, Bcast, None, p)
<1>1. etharp_request(s, n, ip) = IF "pbuf" \in s.fail THEN s ELSE t
  BY DEF etharp_request
<1> HIDE DEF p
<1>2. ArpKept(t, L, d)
  BY TransmitKeeps
<1>3. t.arp = s.arp
  BY DEF Transmit, ArpKept, IsHost, HostFields
<1> HIDE DEF t
<1> QED
  BY <1>1, <1>2, <1>3

LEMMA EnqueueKeeps ==
  ASSUME NEW s, NEW L, NEW d \in Int, ArpKept(s, L, d), NEW i \in Slots, s.arp[i].state = "PENDING", NEW p
  PROVE  ArpKept(Enqueue(s, i, p), L, d)
<1> DEFINE o == s.arp[i]
           Q == Append(o.q, p)
           e == [o EXCEPT !.q = Q]
           x == [s EXCEPT !.live = @ + 1]
           y == [s EXCEPT !.live = @ + 1, !.arp[i].q = Append(@, p)]
<1>1. ArpKept(pbuf_free(x), L, d)
  <2>1. ArpKept(x, L, d + 1) /\ d + 1 \in Int /\ d + 1 - 1 = d
    BY TakeKeeps
  <2> HIDE DEF x
  <2> QED
    BY <2>1, FreeKeeps
<1>2. IsEntry(o) /\ Len(o.q) \in Nat /\ HasTable(s) /\ s.live \in Int
  BY EntryIs, LiveIs DEF ArpKept, Entries, HasTable
<1>3. IsQueue(Q) /\ Len(Q) = Len(o.q) + 1
  BY <1>2, AppendQueue DEF IsEntry
<1>4. y = PutEntry(s, i, e)
  <2> DEFINE b == [s.arp EXCEPT ![i] = e]
             n == s.live + 1
             u == [s EXCEPT !.live = n, !.arp = b]
  <2>1. y = u
    <3>1. "arp" \in DOMAIN s /\ "live" \in DOMAIN s
      BY <1>2 DEF HasTable, IsHost, HostFields
    <3> QED
      BY <3>1
  <2>2. e.q = Q
    <3> HIDE DEF Q, o
    <3> QED
      BY <1>2 DEF IsEntry, EntryFields
  <2>3. n = s.live - Len(s.arp[i].q) + Len(e.q)
    <3> HIDE DEF Q, e
    <3> DEFINE a == Len(o.q)
               v == s.live
    <3>1. a \in Nat /\ v \in Int
      BY <1>2
    <3>2. Len(e.q) = a + 1
      BY <1>3, <2>2
    <3> HIDE DEF a, v
    <3>3. v + 1 = v - a + (a + 1)
      BY <3>1
    <3>4. n = v + 1 /\ s.live - Len(s.arp[i].q) + Len(e.q) = v - a + Len(e.q)
      BY DEF a, v
    <3> QED
      BY <3>2, <3>3, <3>4
  <2> HIDE DEF b, n, e, Q, y
  <2>4. IsHost(u) /\ u.arp = b /\ u.live = n /\ \A f \in HostFields \ {"arp", "live"} : u[f] = s[f]
    BY <1>2 DEF HasTable, IsHost, HostFields
  <2> HIDE DEF u
  <2>5. IsPut(u, s, i, e)
    BY <1>2, <2>3, <2>4 DEF IsPut, HasTable, b
  <2> QED
    BY <2>1, <2>5, PutIs
<1>5. IsEntry(e) /\ e.state = "PENDING" /\ e.ip = o.ip
  <2> HIDE DEF Q
  <2>1. o.state = "PENDING"
    OBVIOUS
  <2> HIDE DEF o
  <2>2. e = [f \in EntryFields |-> e[f]] /\ e.state = o.state /\ e.ip = o.ip /\ e.ctime = o.ctime /\ e.q = Q
    BY <1>2 DEF IsEntry, EntryFields
  <2> HIDE DEF e
  <2> QED
    BY <1>2, <1>3, <2>1, <2>2 DEF IsEntry
<1> HIDE DEF e, y
<1>6. ArpKept(PutEntry(s, i, e), L, d)
  <2>1. Alone(s.arp, i, e.ip)
    BY <1>5 DEF ArpKept, Single, Alone
  <2> QED
    BY <1>5, <2>1, PutKeeps
<1>7. Enqueue(s, i, p) = IF "pbuf" \in s.fail THEN s ELSE IF "memp" \in s.fail THEN pbuf_free(x) ELSE y
  BY DEF Enqueue, y
<1> HIDE DEF x
<1> QED
  BY <1>1, <1>4, <1>6, <1>7

(* The entry that etharp_query works on.                                   *)
Asked(s, n, ip, p) ==
  LET r == find_entry(s, ip, "TRY_HARD")
  IN  IF r.h.arp[r.i].state = "EMPTY" THEN [r.h EXCEPT !.arp[r.i].state = "PENDING"] ELSE r.h

LEMMA AskedIs ==
  ASSUME NEW s, NEW L, NEW d \in Int, ArpKept(s, L, d), NEW n, NEW ip, NEW p
  PROVE  LET r == find_entry(s, ip, "TRY_HARD")
             x == Asked(s, n, ip, p)
         IN  ArpKept(x, L, d) /\ r.i \in Slots /\ x.arp[r.i].state # "EMPTY" /\ x.arp[r.i].ip = ip
<1> DEFINE r == find_entry(s, ip, "TRY_HARD")
           i == r.i
           x == Asked(s, n, ip, p)
<1>1. Found(r, s, ip) \/ Made(r, s, ip, "TRY_HARD")
  BY FindIs DEF NotFound
<1>2. x = IF r.h.arp[i].state = "EMPTY" THEN [r.h EXCEPT !.arp[i].state = "PENDING"] ELSE r.h
  BY DEF Asked
<1> HIDE DEF r, x
<1>3. CASE Found(r, s, ip)
  BY <1>2, <1>3 DEF Found, r, x
<1>4. CASE Made(r, s, ip, "TRY_HARD")
  <2> DEFINE e == [Blank(ip) EXCEPT !.state = "PENDING"]
             y == PutEntry(s, i, Blank(ip))
             z == [y EXCEPT !.arp[i].state = "PENDING"]
  <2>1. i \in Slots /\ r.h = y /\ Nobody(s, ip)
    BY <1>4 DEF Made
  <2> HIDE DEF i
  <2>2. HasTable(s) /\ s.live \in Int /\ Len(s.arp[i].q) \in Nat
    BY <2>1, EntryIs, LiveIs DEF ArpKept, Entries, HasTable
  <2>3. /\ HasTable(y) /\ y.arp[i] = Blank(ip) /\ y.live = s.live - Len(s.arp[i].q) + Len(Blank(ip).q)
        /\ (\A f \in HostFields \ {"arp", "live"} : y[f] = s[f])
        /\ [y.arp EXCEPT ![i] = e] = [s.arp EXCEPT ![i] = e]
    <3> DEFINE b == [s.arp EXCEPT ![i] = Blank(ip)]
               m == s.live - Len(s.arp[i].q) + Len(Blank(ip).q)
               u == [s EXCEPT !.live = m, !.arp = b]
    <3>1. y = u
      BY DEF PutEntry
    <3> HIDE DEF y, e
    <3>2. b = [j \in Slots |-> b[j]] /\ b[i] = Blank(ip) /\ [b EXCEPT ![i] = e] = [s.arp EXCEPT ![i] = e]
      BY <2>1, <2>2 DEF HasTable
    <3> HIDE DEF b, m
    <3>3. IsHost(u) /\ u.arp = b /\ u.live = m /\ \A f \in HostFields \ {"arp", "live"} : u[f] = s[f]
      BY <2>2 DEF HasTable, IsHost, HostFields
    <3> HIDE DEF u
    <3> QED
      BY <3>1, <3>2, <3>3 DEF HasTable, m
  <2> HIDE DEF y
  <2>4. z = [y EXCEPT !.arp = [s.arp EXCEPT ![i] = e]]
    <3>1. z = [y EXCEPT !.arp = [y.arp EXCEPT ![i] = [y.arp[i] EXCEPT !.state = "PENDING"]]]
      OBVIOUS
    <3> QED
      BY <2>3, <3>1
  <2>5. /\ e = [f \in EntryFields |-> e[f]] /\ e.state = "PENDING" /\ e.ip = ip /\ e.q = <<>> /\ e.ctime = 0
        /\ Len(e.q) = Len(Blank(ip).q)
    <3>1. e = [f \in EntryFields |-> e[f]] /\ e.state = "PENDING" /\ e.ip = ip /\ e.q = <<>> /\ e.ctime = 0
      BY BlankIs DEF EntryFields
    <3> HIDE DEF e
    <3> QED
      BY <3>1, BlankIs
  <2> HIDE DEF e
  <2>6. IsEntry(e)
    <3>1. 0 \in 0..(ARP_MAXAGE - 1)
      BY ArpSizes
    <3> QED
      BY <2>5, <3>1, EmptyQueue DEF IsEntry
  <2>7. z = PutEntry(s, i, e)
    <3> DEFINE b == [s.arp EXCEPT ![i] = e]
               u == [y EXCEPT !.arp = b]
    <3> HIDE DEF b, z
    <3>1. IsHost(u) /\ u.arp = b /\ u.live = y.live /\ \A f \in HostFields \ {"arp", "live"} : u[f] = s[f]
      BY <2>3 DEF HasTable, IsHost, HostFields
    <3>2. z = u
      BY <2>4 DEF b
    <3> HIDE DEF u
    <3>3. IsPut(u, s, i, e)
      BY <2>2, <2>3, <2>5, <3>1 DEF IsPut, HasTable, b
    <3> QED
      BY <3>2, <3>3, PutIs
  <2> HIDE DEF z
  <2>8. Alone(s.arp, i, e.ip)
    BY <2>1, <2>5 DEF Nobody, Alone
  <2>9. /\ ArpKept(PutEntry(s, i, e), L, d) /\ PutEntry(s, i, e).arp[i] = e
    <3>1. KnownBut(s.arp, L, i) /\ Sent(s.out, L)
      BY DEF ArpKept, Known, KnownBut
    <3>2. e.state # "EMPTY" => Alone(s.arp, i, e.ip)
      BY <2>8
    <3>3. e.state = "STABLE" => Knows(L, e.ip, e.mac)
      BY <2>5
    <3> QED
      BY <2>1, <2>6, <3>1, <3>2, <3>3, PutLearns
  <2>10. x = z
    BY <1>2, <2>1, <2>3, BlankIs DEF z
  <2> QED
    BY <2>1, <2>5, <2>7, <2>9, <2>10 DEF i, r, x
<1> QED
  BY <1>1, <1>3, <1>4 DEF r, x

LEMMA QueryKeeps ==
  ASSUME NEW s, NEW L, NEW d \in Int, ArpKept(s, L, d), NEW n, NEW ip, NEW p
  PROVE  ArpKept(etharp_query(s, n, ip, p), L, d)
<1> DEFINE r == find_entry(s, ip, "TRY_HARD")
           i == r.i
           x == Asked(s, n, ip, p)
           e == x.arp[i]
           y == IF e.state = "PENDING" \/ p = NoPacket THEN etharp_request(x, n, ip) ELSE x
           z == [y EXCEPT !.hint = i]
<1>1. etharp_query(s, n, ip, p) =
        IF Unfit(s, ip, n) THEN s
        ELSE IF p = NoPacket THEN y
        ELSE IF e.state = "STABLE" THEN etharp_send_ip(z, n, e.mac, ip, p)
        ELSE Enqueue(y, i, p)
  <2>1. etharp_query(s, n, ip, p) =
          IF ip4_addr_isbroadcast(s, ip, n) \/ ip_addr_ismulticast(ip) \/ ip = AnyAddr THEN s
          ELSE IF p = NoPacket THEN y
          ELSE IF e.state = "STABLE" THEN etharp_send_ip(z, n, e.mac, ip, p)
          ELSE Enqueue(y, i, p)
    BY Zenon DEF etharp_query, Asked
  <2> HIDE DEF y, z, e, i
  <2> QED
    BY <2>1 DEF Unfit
<1>2. ArpKept(x, L, d) /\ i \in Slots /\ e.state # "EMPTY" /\ e.ip = ip
  BY AskedIs
<1> HIDE DEF i, x
<1>3. ArpKept(y, L, d) /\ y.arp = x.arp
  BY <1>2, RequestKeeps
<1> HIDE DEF y
<1>4. IsEntry(e)
  BY <1>2, EntryIs
<1>5. ArpKept(z, L, d)
  <2>1. IsHost(z) /\ z.hint = i /\ \A f \in HostFields \ {"hint"} : z[f] = y[f]
    BY <1>3 DEF ArpKept, IsHost, HostFields
  <2>2. z.arp = y.arp /\ z.out = y.out /\ z.def = y.def /\ z.live = y.live
    BY <2>1 DEF HostFields
  <2> HIDE DEF z
  <2> QED
    BY <1>2, <1>3, <2>1, <2>2 DEF ArpKept, Held
<1>6. e.state = "STABLE" => Knows(L, ip, e.mac)
  BY <1>2 DEF ArpKept, Known
<1> HIDE DEF z
<1>7. e.state = "STABLE" => ArpKept(etharp_send_ip(z, n, e.mac, ip, p), L, d)
  BY <1>5, <1>6, TransmitKeeps DEF etharp_send_ip
<1>8. e.state = "PENDING" => ArpKept(Enqueue(y, i, p), L, d)
  BY <1>2, <1>3, EnqueueKeeps
<1>9. e.state = "STABLE" \/ e.state = "PENDING"
  BY <1>2, <1>4 DEF IsEntry
<1> HIDE DEF e
<1> QED
  BY <1>1, <1>3, <1>7, <1>8, <1>9

LEMMA OutputKeeps ==
  ASSUME NEW s, NEW L, NEW d \in Int, ArpKept(s, L, d), NEW n, NEW p, NEW ip
  PROVE  ArpKept(etharp_output(s, n, p, ip), L, d)
<1> DEFINE hop == NextHop(s, n, ip)
           b == etharp_send_ip(s, n, Bcast, None, p)
           m == etharp_send_ip(s, n, "01:00:5e", None, p)
           c == etharp_send_ip(s, n, s.arp[s.hint].mac, hop, p)
<1>1. etharp_output(s, n, p, ip) =
        IF ip4_addr_isbroadcast(s, ip, n) THEN b
        ELSE IF ip_addr_ismulticast(ip) THEN m
        ELSE IF hop = AnyAddr THEN s
        ELSE IF HintServes(s, hop) THEN c
        ELSE etharp_query(s, n, hop, p)
  BY DEF etharp_output
<1> HIDE DEF hop
<1>2. ArpKept(b, L, d) /\ ArpKept(m, L, d)
  BY TransmitKeeps DEF etharp_send_ip
<1>3. HintServes(s, hop) => Knows(L, hop, s.arp[s.hint].mac)
  BY DEF HintServes, ArpKept, Known
<1>4. HintServes(s, hop) => ArpKept(c, L, d)
  BY <1>3, TransmitKeeps DEF etharp_send_ip
<1>5. ArpKept(etharp_query(s, n, hop, p), L, d)
  BY QueryKeeps
<1> HIDE DEF b, m, c
<1> QED
  BY <1>1, <1>2, <1>4, <1>5

-----------------------------------------------------------------------------
(* The IP layer above the cache: what each call leaves alone, and what it  *)
(* takes and frees.                                                        *)
LEMMA OutputIfKeeps ==
  ASSUME NEW s, NEW L, NEW d \in Int, ArpKept(s, L, d), NEW p, NEW n
  PROVE  ArpKept(ip_output_if(s, p, n), L, d)
BY OutputKeeps DEF ip_output_if

LEMMA IpOutputKeeps ==
  ASSUME NEW s, NEW L, NEW d \in Int, ArpKept(s, L, d), NEW p
  PROVE  ArpKept(ip_output(s, p), L, d)
BY OutputIfKeeps DEF ip_output

(* An allocation and a free around a step that keeps the balance.          *)
LEMMA ResponseKeeps ==
  ASSUME NEW s, NEW L, NEW d \in Int, ArpKept(s, L, d), NEW p
  PROVE  ArpKept(icmp_send_response(s, p), L, d)
<1> DEFINE x == [s EXCEPT !.live = @ + 1]
           y == ip_output(x, Packet(AnyAddr, p.src, "ICMP_DUR", 0, 0))
<1>1. d + 1 \in Int /\ (d + 1) - 1 = d
  OBVIOUS
<1>2. ArpKept(x, L, d + 1)
  BY TakeKeeps
<1> HIDE DEF x
<1>3. ArpKept(y, L, d + 1)
  BY <1>1, <1>2, IpOutputKeeps
<1>4. icmp_send_response(s, p) = IF "pbuf" \in s.fail THEN s ELSE pbuf_free(y)
  BY Zenon DEF icmp_send_response, x
<1> HIDE DEF y
<1>5. ArpKept(pbuf_free(y), L, (d + 1) - 1)
  BY <1>1, <1>3, FreeKeeps
<1> QED
  BY <1>1, <1>4, <1>5

LEMMA IcmpInputKeeps ==
  ASSUME NEW s, NEW L, NEW d \in Int, ArpKept(s, L, d), NEW p, NEW n
  PROVE  ArpKept(icmp_input(s, p, n), L, d - 1)
<1> DEFINE x == [s EXCEPT !.live = @ + 1]
           y == IF p.room THEN s ELSE CopyForReply(s)
           z == EchoReply(y, p, n)
<1>1. ArpKept(CopyForReply(s), L, d)
  <2>1. d + 1 \in Int /\ (d + 1) - 1 = d
    OBVIOUS
  <2>2. ArpKept(x, L, d + 1)
    BY TakeKeeps
  <2>3. CopyForReply(s) = pbuf_free(x)
    BY DEF CopyForReply
  <2> HIDE DEF x
  <2>4. ArpKept(pbuf_free(x), L, (d + 1) - 1)
    BY <2>1, <2>2, FreeKeeps
  <2> QED
    BY <2>1, <2>3, <2>4
<1>2. ArpKept(y, L, d)
  BY <1>1
<1>3. icmp_input(s, p, n) = pbuf_free(z) \/ icmp_input(s, p, n) = pbuf_free(s)
  BY Zenon DEF icmp_input
<1> HIDE DEF y
<1>4. ArpKept(z, L, d)
  BY <1>2, OutputIfKeeps DEF EchoReply
<1> HIDE DEF z
<1>5. ArpKept(pbuf_free(z), L, d - 1) /\ ArpKept(pbuf_free(s), L, d - 1)
  BY <1>4, FreeKeeps
<1> QED
  BY <1>3, <1>5

LEMMA RawInputKeeps ==
  ASSUME NEW s, NEW L, NEW d \in Int, ArpKept(s, L, d), NEW p, NEW eats
  PROVE  LET r == raw_input(s, p, eats)
         IN  \/ r.h = s /\ r.eaten = FALSE
             \/ ArpKept(r.h, L, d - 1) /\ r.eaten = TRUE
<1> DEFINE takers == SelectSeq(s.rlist, LAMBDA r : RawMatches(s, r, p) /\ r \in eats)
           x == [s EXCEPT !.rlist = MoveToFront(@, Head(takers)),
                          !.got = Append(@, [pcb |-> Head(takers), pkt |-> p])]
           r == raw_input(s, p, eats)
<1>1. r = IF takers = <<>> THEN [h |-> s, eaten |-> FALSE] ELSE [h |-> pbuf_free(x), eaten |-> TRUE]
  BY Zenon DEF raw_input
<1>2. SameArp(s, x)
  BY DEF ArpKept, SameArp, IsHost, HostFields
<1>3. ArpKept(x, L, d)
  BY <1>2, SameKeeps
<1> HIDE DEF x, takers, r
<1>4. ArpKept(pbuf_free(x), L, d - 1)
  BY <1>3, FreeKeeps
<1> QED
  BY <1>1, <1>4 DEF r

LEMMA RawCallsKeep ==
  ASSUME NEW s, NEW L, NEW d \in Int, ArpKept(s, L, d), NEW r, NEW ip, NEW proto
  PROVE  /\ ArpKept(raw_new(s, r, proto), L, d) /\ ArpKept(raw_bind(s, r, ip), L, d)
         /\ ArpKept(raw_connect(s, r, ip), L, d) /\ ArpKept(raw_remove(s, r), L, d)
<1>1. SameArp(s, raw_new(s, r, proto))
  BY DEF raw_new, ArpKept, SameArp, IsHost, HostFields
<1>2. SameArp(s, raw_bind(s, r, ip))
  BY DEF raw_bind, ArpKept, SameArp, IsHost, HostFields
<1>3. SameArp(s, raw_connect(s, r, ip))
  BY DEF raw_connect, ArpKept, SameArp, IsHost, HostFields
<1>4. SameArp(s, raw_remove(s, r))
  BY DEF raw_remove, ArpKept, SameArp, IsHost, HostFields
<1> QED
  BY <1>1, <1>2, <1>3, <1>4, SameKeeps

(* A pbuf of its own for the header, and what is sent with it.             *)
LEMMA HeaderKeeps ==
  ASSUME NEW s, NEW L, NEW d \in Int, ArpKept(s, L, d), NEW room, NEW p, NEW n
  PROVE  LET x == WithHeader(s, room)
         IN  /\ ArpKept(WithoutHeader(x, room), L, d)
             /\ ArpKept(WithoutHeader(ip_output_if(x, p, n), room), L, d)
<1> DEFINE x == WithHeader(s, room)
           y == ip_output_if(x, p, n)
           k == IF room THEN d ELSE d + 1
<1>1. k \in Int
  OBVIOUS
<1>2. ArpKept(x, L, k)
  BY TakeKeeps DEF WithHeader
<1> HIDE DEF x
<1>3. ArpKept(y, L, k)
  BY <1>1, <1>2, OutputIfKeeps
<1> HIDE DEF y
<1>4. \A t : ArpKept(t, L, k) => ArpKept(WithoutHeader(t, room), L, d)
  <2> SUFFICES ASSUME NEW t, ArpKept(t, L, k) PROVE ArpKept(WithoutHeader(t, room), L, d)
    OBVIOUS
  <2>1. CASE room
    BY <2>1 DEF WithoutHeader
  <2>2. CASE ~room
    <3>1. d + 1 \in Int /\ (d + 1) - 1 = d
      OBVIOUS
    <3>2. ArpKept(t, L, d + 1)
      BY <2>2
    <3>3. ArpKept(pbuf_free(t), L, (d + 1) - 1)
      BY <3>1, <3>2, FreeKeeps
    <3> QED
      BY <2>2, <3>1, <3>3 DEF WithoutHeader
  <2> QED
    BY <2>1, <2>2
<1> HIDE DEF k
<1> QED
  BY <1>2, <1>3, <1>4 DEF x, y

LEMMA RawSendKeeps ==
  ASSUME NEW s, NEW L, NEW d \in Int, ArpKept(s, L, d), NEW r, NEW ip, NEW room
  PROVE  ArpKept(raw_sendto(s, r, ip, room), L, d)
<1> DEFINE n == ip_route(s, ip)
           x == WithHeader(s, room)
           p == Packet(s.raw[r].lip, ip, s.raw[r].proto, 0, 0)
           y == WithoutHeader(x, room)
           z == WithoutHeader(ip_output_if(x, p, n), room)
<1>1. raw_sendto(s, r, ip, room) = IF ~room /\ "pbuf" \in s.fail THEN s ELSE IF n = None THEN y ELSE z
  BY Zenon DEF raw_sendto
<1> HIDE DEF n, p
<1>2. ArpKept(y, L, d) /\ ArpKept(z, L, d)
  BY HeaderKeeps
<1> HIDE DEF y, z
<1> QED
  BY <1>1, <1>2

LEMMA ReorderedKeeps ==
  ASSUME NEW s, NEW L, NEW d \in Int, ArpKept(s, L, d), NEW c, NEW p
  PROVE  ArpKept(Reordered(s, c, p), L, d)
<1> DEFINE x == [s EXCEPT !.ulist = MoveToFront(@, c)]
<1>1. SameArp(s, x)
  BY DEF ArpKept, SameArp, IsHost, HostFields
<1>2. Reordered(s, c, p) = x \/ Reordered(s, c, p) = s
  BY Zenon DEF Reordered
<1> HIDE DEF x
<1> QED
  BY <1>1, <1>2, SameKeeps

LEMMA DeliverKeeps ==
  ASSUME NEW s, NEW L, NEW d \in Int, ArpKept(s, L, d), NEW c, NEW p, NEW n
  PROVE  ArpKept(Deliver(s, c, p, n), L, d)
<1> DEFINE x == [s EXCEPT !.got = Append(@, [pcb |-> c, pkt |-> p])]
           y == icmp_send_response(s, p)
<1>1. SameArp(s, x)
  BY DEF ArpKept, SameArp, IsHost, HostFields
<1>2. Deliver(s, c, p, n) = x \/ Deliver(s, c, p, n) = s \/ Deliver(s, c, p, n) = y
  BY Zenon DEF Deliver
<1> HIDE DEF x
<1> QED
  BY <1>1, <1>2, SameKeeps, ResponseKeeps

LEMMA UdpInputKeeps ==
  ASSUME NEW s, NEW L, NEW d \in Int, ArpKept(s, L, d), NEW p, NEW n
  PROVE  ArpKept(udp_input(s, p, n), L, d - 1)
<1> DEFINE c == PcbFor(s, p, n)
           x == Reordered(s, c, p)
           y == Deliver(x, c, p, n)
<1>1. udp_input(s, p, n) = pbuf_free(y)
  BY Zenon DEF udp_input
<1> HIDE DEF c
<1>2. ArpKept(x, L, d)
  BY ReorderedKeeps
<1> HIDE DEF x
<1>3. ArpKept(y, L, d)
  BY <1>2, DeliverKeeps
<1> HIDE DEF y
<1> QED
  BY <1>1, <1>3, FreeKeeps

LEMMA LinkedKeeps ==
  ASSUME NEW s, NEW L, NEW d \in Int, ArpKept(s, L, d), NEW c
  PROVE  ArpKept(Linked(s, c), L, d)
<1> DEFINE x == [s EXCEPT !.ulist = <<c>> \o @]
<1>1. SameArp(s, x)
  BY DEF ArpKept, SameArp, IsHost, HostFields
<1>2. Linked(s, c) = x \/ Linked(s, c) = s
  BY Zenon DEF Linked
<1> HIDE DEF x
<1> QED
  BY <1>1, <1>2, SameKeeps

LEMMA BindKeeps ==
  ASSUME NEW s, NEW L, NEW d \in Int, ArpKept(s, L, d), NEW c, NEW ip, NEW port
  PROVE  ArpKept(udp_bind(s, c, ip, port).h, L, d)
<1> DEFINE q == IF port = 0 THEN EphemeralPort(s) ELSE port
           x == [s EXCEPT !.udp[c].lip = ip]
           y == [s EXCEPT !.udp[c].lip = ip, !.udp[c].lport = q]
           z == Linked(y, c)
<1>1. udp_bind(s, c, ip, port) = IF InUse(s, c, ip, port) THEN [h |-> s, err |-> "USE"]
                                 ELSE IF q = 0 THEN [h |-> x, err |-> "USE"]
                                 ELSE [h |-> z, err |-> "OK"]
  BY Zenon DEF udp_bind
<1> HIDE DEF q
<1>2. SameArp(s, x) /\ SameArp(s, y)
  BY DEF ArpKept, SameArp, IsHost, HostFields
<1> HIDE DEF x, y
<1>3. ArpKept(x, L, d) /\ ArpKept(y, L, d)
  BY <1>2, SameKeeps
<1>4. ArpKept(z, L, d)
  BY <1>3, LinkedKeeps
<1> HIDE DEF z
<1> QED
  BY <1>1, <1>3, <1>4

LEMMA BoundKeeps ==
  ASSUME NEW s, NEW L, NEW d \in Int, ArpKept(s, L, d), NEW c
  PROVE  ArpKept(Bound(s, c).h, L, d)
<1> DEFINE b == udp_bind(s, c, s.udp[c].lip, 0)
<1>1. Bound(s, c) = IF s.udp[c].lport # 0 THEN [h |-> s, err |-> "OK"] ELSE b
  BY Zenon DEF Bound
<1>2. ArpKept(b.h, L, d)
  BY BindKeeps
<1> HIDE DEF b
<1> QED
  BY <1>1, <1>2

LEMMA ConnectKeeps ==
  ASSUME NEW s, NEW L, NEW d \in Int, ArpKept(s, L, d), NEW c, NEW ip, NEW port
  PROVE  ArpKept(udp_connect(s, c, ip, port), L, d)
<1> DEFINE b == Bound(s, c)
           x == b.h
           y == [x EXCEPT !.udp[c].rip = ip, !.udp[c].rport = port, !.udp[c].conn = TRUE]
<1>1. udp_connect(s, c, ip, port) = IF b.err # "OK" THEN x ELSE Linked(y, c)
  BY Zenon DEF udp_connect
<1>2. ArpKept(x, L, d)
  BY BoundKeeps
<1> HIDE DEF x
<1>3. SameArp(x, y)
  <2>1. IsHost(x)
    BY <1>2 DEF ArpKept
  <2> QED
    BY <2>1 DEF SameArp, IsHost, HostFields
<1> HIDE DEF y, b
<1>4. ArpKept(Linked(y, c), L, d)
  BY <1>2, <1>3, SameKeeps, LinkedKeeps
<1> QED
  BY <1>1, <1>2, <1>4

LEMMA UdpCallsKeep ==
  ASSUME NEW s, NEW L, NEW d \in Int, ArpKept(s, L, d), NEW c
  PROVE  /\ ArpKept(udp_disconnect(s, c), L, d) /\ ArpKept(udp_recv(s, c), L, d)
         /\ ArpKept(udp_remove(s, c), L, d)
<1>1. SameArp(s, udp_disconnect(s, c))
  BY DEF udp_disconnect, ArpKept, SameArp, IsHost, HostFields
<1>2. SameArp(s, udp_recv(s, c))
  BY DEF udp_recv, ArpKept, SameArp, IsHost, HostFields
<1>3. SameArp(s, udp_remove(s, c))
  BY DEF udp_remove, ArpKept, SameArp, IsHost, HostFields
<1> QED
  BY <1>1, <1>2, <1>3, SameKeeps

LEMMA SendToIfKeeps ==
  ASSUME NEW s, NEW L, NEW d \in Int, ArpKept(s, L, d), NEW c, NEW ip, NEW port, NEW n, NEW room
  PROVE  ArpKept(udp_sendto_if(s, c, ip, port, n, room), L, d)
<1> DEFINE b == Bound(s, c)
           t == b.h
           l == t.udp[c].lip
           x == WithHeader(t, room)
           p == Packet(l, ip, "UDP", t.udp[c].lport, port)
           y == WithoutHeader(x, room)
           z == WithoutHeader(ip_output_if(x, p, n), room)
<1>1. udp_sendto_if(s, c, ip, port, n, room) =
        IF b.err # "OK" \/ (~room /\ "pbuf" \in s.fail) THEN t
        ELSE IF l \notin {AnyAddr, s.ifs[n].ip} THEN y ELSE z
  BY Zenon DEF udp_sendto_if
<1>2. ArpKept(t, L, d)
  BY BoundKeeps
<1> HIDE DEF p, t
<1>3. ArpKept(y, L, d) /\ ArpKept(z, L, d)
  BY <1>2, HeaderKeeps
<1> HIDE DEF y, z, l, b
<1> QED
  BY <1>1, <1>2, <1>3

LEMMA SendToKeeps ==
  ASSUME NEW s, NEW L, NEW d \in Int, ArpKept(s, L, d), NEW c, NEW ip, NEW port, NEW room
  PROVE  ArpKept(udp_sendto(s, c, ip, port, room), L, d)
<1> DEFINE n == ip_route(s, IF ip_addr_ismulticast(ip) THEN AnyAddr ELSE ip)
<1>1. udp_sendto(s, c, ip, port, room) = IF n = None THEN s ELSE udp_sendto_if(s, c, ip, port, n, room)
  BY Zenon DEF udp_sendto
<1> HIDE DEF n
<1> QED
  BY <1>1, SendToIfKeeps

-----------------------------------------------------------------------------
(* The interfaces.                                                         *)
LEMMA UpKeeps ==
  ASSUME NEW s, NEW L, NEW d \in Int, ArpKept(s, L, d), NEW n
  PROVE  ArpKept(netif_set_up(s, n), L, d) /\ ArpKept(netif_set_link_up(s, n), L, d)
<1> DEFINE x == [s EXCEPT !.ifs[n].up = TRUE]
           y == [s EXCEPT !.ifs[n].link = TRUE]
<1>1. SameArp(s, x) /\ SameArp(s, y)
  BY DEF ArpKept, SameArp, IsHost, HostFields
<1>2. netif_set_up(s, n) \in {s, x, etharp_request(x, n, x.ifs[n].ip)}
  BY Zenon DEF netif_set_up, etharp_gratuitous
<1>3. netif_set_link_up(s, n) \in {s, y, etharp_request(y, n, y.ifs[n].ip)}
  BY Zenon DEF netif_set_link_up, etharp_gratuitous
<1> HIDE DEF x, y
<1>4. ArpKept(x, L, d) /\ ArpKept(y, L, d)
  BY <1>1, SameKeeps
<1>5. ArpKept(etharp_request(x, n, x.ifs[n].ip), L, d) /\ ArpKept(etharp_request(y, n, y.ifs[n].ip), L, d)
  BY <1>4, RequestKeeps
<1> QED
  BY <1>2, <1>3, <1>4, <1>5

LEMMA DownKeeps ==
  ASSUME NEW s, NEW L, NEW d \in Int, ArpKept(s, L, d), NEW n
  PROVE  ArpKept(netif_set_down(s, n), L, d) /\ ArpKept(netif_set_link_down(s, n), L, d)
<1> DEFINE x == [s EXCEPT !.ifs[n].up = FALSE]
<1>1. SameArp(s, x) /\ SameArp(s, netif_set_link_down(s, n))
  BY DEF netif_set_link_down, ArpKept, SameArp, IsHost, HostFields
<1>2. netif_set_down(s, n) \in {s, etharp_cleanup_netif(x, n)}
  BY Zenon DEF netif_set_down
<1> HIDE DEF x
<1>3. ArpKept(x, L, d) /\ ArpKept(netif_set_link_down(s, n), L, d)
  BY <1>1, SameKeeps
<1>4. ArpKept(etharp_cleanup_netif(x, n), L, d)
  BY <1>3, CleanupKeeps
<1> QED
  BY <1>2, <1>3, <1>4

LEMMA SetAddrKeeps ==
  ASSUME NEW s, NEW L, NEW d \in Int, ArpKept(s, L, d), NEW n, NEW ip, NEW mask, NEW gw
  PROVE  ArpKept(netif_set_addr(s, n, ip, mask, gw), L, d)
<1>1. ArpKept(netif_set_ipaddr(s, n, ip), L, d)
  <2> DEFINE old == s.ifs[n].ip
             kept == {t \in s.tcp : t.lip # old \/ ~t.active}
             moved(t) == IF t.lip = old /\ old # AnyAddr /\ ~t.active THEN [t EXCEPT !.lip = ip] ELSE t
             T == {moved(t) : t \in kept}
             x == [s EXCEPT !.tcp = T, !.ifs[n].ip = ip]
  <2>1. netif_set_ipaddr(s, n, ip) = IF ip = old THEN s ELSE x
    BY Zenon DEF netif_set_ipaddr
  <2> HIDE DEF T
  <2>2. SameArp(s, x)
    BY DEF ArpKept, SameArp, IsHost, HostFields
  <2> HIDE DEF x, old
  <2> QED
    BY <2>1, <2>2, SameKeeps
<1>2. \A t : ArpKept(t, L, d) => ArpKept(netif_set_netmask(t, n, mask), L, d)
  <2> SUFFICES ASSUME NEW t, ArpKept(t, L, d) PROVE SameArp(t, netif_set_netmask(t, n, mask))
    BY SameKeeps
  <2> QED
    BY DEF netif_set_netmask, ArpKept, SameArp, IsHost, HostFields
<1>3. \A t : ArpKept(t, L, d) => ArpKept(netif_set_gw(t, n, gw), L, d)
  <2> SUFFICES ASSUME NEW t, ArpKept(t, L, d) PROVE SameArp(t, netif_set_gw(t, n, gw))
    BY SameKeeps
  <2> QED
    BY DEF netif_set_gw, ArpKept, SameArp, IsHost, HostFields
<1> QED
  BY <1>1, <1>2, <1>3 DEF netif_set_addr

LEMMA NetifCallsKeep ==
  ASSUME NEW s, NEW L, NEW d \in Int, ArpKept(s, L, d), NEW n \in Netifs, NEW ip, NEW mask, NEW gw
  PROVE  /\ ArpKept(netif_add(s, n, ip, mask, gw), L, d)
         /\ ArpKept(netif_set_default(s, n), L, d)
         /\ ArpKept(netif_remove(s, n), L, d)
<1>1. \A t, v : ArpKept(t, L, d) /\ v \in Netifs \cup {None} => ArpKept(netif_set_default(t, v), L, d)
  <2> SUFFICES ASSUME NEW t, NEW v \in Netifs \cup {None}, ArpKept(t, L, d)
               PROVE  ArpKept([t EXCEPT !.def = v], L, d)
    BY DEF netif_set_default
  <2> DEFINE x == [t EXCEPT !.def = v]
  <2>1. /\ IsHost(x) /\ x.arp = t.arp /\ x.hint = t.hint /\ x.def = v /\ x.out = t.out /\ x.live = t.live
    BY DEF ArpKept, IsHost, HostFields
  <2> HIDE DEF x
  <2>2. ArpKept(x, L, d)
    BY <2>1 DEF ArpKept, Held
  <2> QED
    BY <2>2 DEF x
<1>2. ArpKept(netif_add(s, n, ip, mask, gw), L, d)
  <2> DEFINE z == [s EXCEPT !.ifs[n] = [NewNetif EXCEPT !.added = TRUE]]
             y == netif_set_addr(z, n, ip, mask, gw)
             x == [y EXCEPT !.list = <<n>> \o @]
  <2>1. netif_add(s, n, ip, mask, gw) = x
    BY Zenon DEF netif_add
  <2>2. SameArp(s, z)
    BY DEF ArpKept, SameArp, IsHost, HostFields
  <2> HIDE DEF z
  <2>3. ArpKept(y, L, d)
    BY <2>2, SameKeeps, SetAddrKeeps
  <2> HIDE DEF y
  <2>4. SameArp(y, x)
    BY <2>3 DEF ArpKept, SameArp, IsHost, HostFields
  <2> HIDE DEF x
  <2> QED
    BY <2>1, <2>3, <2>4, SameKeeps
<1>3. ArpKept(netif_remove(s, n), L, d)
  <2> DEFINE y == netif_set_down(s, n)
             x == [y EXCEPT !.list = Unlink(@, n), !.ifs[n].added = FALSE]
  <2>1. netif_remove(s, n) = IF s.def = n THEN netif_set_default(x, None) ELSE x
    BY Zenon DEF netif_remove
  <2>2. ArpKept(y, L, d)
    BY DownKeeps
  <2> HIDE DEF y
  <2>3. SameArp(y, x)
    BY <2>2 DEF ArpKept, SameArp, IsHost, HostFields
  <2> HIDE DEF x
  <2>4. ArpKept(x, L, d)
    BY <2>2, <2>3, SameKeeps
  <2> QED
    BY <1>1, <2>1, <2>4
<1> QED
  BY <1>1, <1>2, <1>3

-----------------------------------------------------------------------------
(* A frame comes in: its pbuf is taken and freed, whatever becomes of it.  *)
LEMMA UpperKeeps ==
  ASSUME NEW s, NEW L, NEW d \in Int, ArpKept(s, L, d), NEW p, NEW n
  PROVE  ArpKept(Upper(s, p, n), L, d - 1)
<1> DEFINE x == icmp_send_response(s, p)
           B == ip4_addr_isbroadcast(s, p.dst, n) \/ ip_addr_ismulticast(p.dst)
           y == IF B THEN s ELSE x
<1>1. Upper(s, p, n) = CASE p.proto = "UDP"  -> udp_input(s, p, n)
                         [] p.proto = "ICMP" -> icmp_input(s, p, n)
                         [] p.proto \in {"TCP", "IGMP"} -> pbuf_free(s)
                         [] OTHER -> pbuf_free(y)
  BY DEF Upper
<1>2. ArpKept(x, L, d)
  BY ResponseKeeps
<1> HIDE DEF x, B
<1>3. ArpKept(y, L, d)
  BY <1>2
<1> HIDE DEF y
<1>4. ArpKept(pbuf_free(y), L, d - 1) /\ ArpKept(pbuf_free(s), L, d - 1)
  BY <1>3, FreeKeeps
<1>5. ArpKept(udp_input(s, p, n), L, d - 1) /\ ArpKept(icmp_input(s, p, n), L, d - 1)
  BY UdpInputKeeps, IcmpInputKeeps
<1>6. CASE p.proto = "UDP"
  BY <1>1, <1>5, <1>6
<1>7. CASE p.proto = "ICMP"
  BY <1>1, <1>5, <1>7
<1>8. CASE p.proto \in {"TCP", "IGMP"}
  BY <1>1, <1>4, <1>8
<1>9. CASE p.proto \notin {"UDP", "ICMP", "TCP", "IGMP"}
  BY <1>1, <1>4, <1>9
<1> QED
  BY <1>6, <1>7, <1>8, <1>9

LEMMA IpInputKeeps ==
  ASSUME NEW s, NEW L, NEW d \in Int, ArpKept(s, L, d), NEW p, NEW n, NEW eats
  PROVE  ArpKept(ip_input(s, p, n, eats), L, d - 1)
<1> DEFINE r == raw_input(s, p, eats)
<1>1. ip_input(s, p, n, eats) = IF Dropped(s, p, n) THEN pbuf_free(s) ELSE IF r.eaten THEN r.h ELSE Upper(r.h, p, n)
  BY Zenon DEF ip_input
<1>2. (r.h = s /\ r.eaten = FALSE) \/ (ArpKept(r.h, L, d - 1) /\ r.eaten = TRUE)
  BY RawInputKeeps
<1> HIDE DEF r
<1>3. ArpKept(pbuf_free(s), L, d - 1) /\ ArpKept(Upper(s, p, n), L, d - 1)
  BY FreeKeeps, UpperKeeps
<1> QED
  BY <1>1, <1>2, <1>3

(* What is learned from a frame, and what the cache makes of it.           *)
LEMMA LearnIs ==
  ASSUME NEW n, NEW f, Claim(n, f)
  PROVE  LearnedAs(learned, Learn(n, f), Claimed(n, f).ip, Claimed(n, f).mac)
<1> DEFINE c == Claimed(n, f)
           M == [a \in DOMAIN learned \cup {c.ip} |-> IF a = c.ip THEN [mac |-> c.mac, if |-> n] ELSE learned[a]]
<1>1. Learn(n, f) = M
  BY DEF Learn
<1> HIDE DEF c
<1>2. DOMAIN M = DOMAIN learned \cup {c.ip} /\ M[c.ip].mac = c.mac /\ \A a \in DOMAIN learned : a # c.ip => M[a] = learned[a]
  OBVIOUS
<1> HIDE DEF M
<1> QED
  BY <1>1, <1>2 DEF LearnedAs, Knows, c

LEMMA ClaimKeeps ==
  ASSUME NEW s, NEW d \in Int, ArpKept(s, learned, d), s.out = <<>>, s.ifs = h.ifs,
         NEW n, NEW f, NEW flag, Claim(n, f)
  PROVE  ArpKept(update_arp_entry(s, n, Claimed(n, f).ip, Claimed(n, f).mac, flag), Learn(n, f), d)
<1> DEFINE ip == Claimed(n, f).ip
           mac == Claimed(n, f).mac
<1>1. ip = IF f.kind = "ARP" THEN f.arp.sip ELSE f.pkt.src
  BY DEF Claimed
<1>2. ~ip4_addr_isbroadcast(h, ip, n) /\ ~ip_addr_ismulticast(ip)
  BY <1>1 DEF Claim
<1>3. LearnedAs(learned, Learn(n, f), ip, mac)
  BY LearnIs
<1> HIDE DEF ip, mac
<1>4. ~Unfit(s, ip, n)
  BY <1>2 DEF Unfit, ip4_addr_isbroadcast
<1>5. Sent(s.out, Learn(n, f))
  BY EmptyQueue DEF Sent
<1> QED
  BY <1>3, <1>4, <1>5, UpdateEntryKeeps DEF ip, mac

LEMMA EtharpIpInputKeeps ==
  ASSUME NEW s, NEW d \in Int, ArpKept(s, learned, d), s.out = <<>>, s.ifs = h.ifs,
         NEW n, NEW f, f.kind = "IP"
  PROVE  ArpKept(etharp_ip_input(s, n, f.pkt, f.smac), Learn(n, f), d)
<1> DEFINE p == f.pkt
           y == update_arp_entry(s, n, p.src, f.smac, "FIND_ONLY")
           near == ip_addr_netcmp(p.src, h.ifs[n].ip, h.ifs[n].mask)
<1>1. etharp_ip_input(s, n, p, f.smac) = IF near THEN y ELSE s
  BY DEF etharp_ip_input
<1>2. CASE Claim(n, f)
  <2>1. near /\ Claimed(n, f).ip = p.src /\ Claimed(n, f).mac = f.smac
    BY <1>2 DEF Claim, Claimed
  <2> QED
    BY <1>1, <1>2, <2>1, ClaimKeeps
<1>3. CASE ~Claim(n, f)
  <2>1. Learn(n, f) = learned
    BY <1>3 DEF Learn
  <2>2. near => Unfit(s, p.src, n)
    BY <1>3 DEF Claim, Unfit, ip4_addr_isbroadcast
  <2>3. near => y = s
    BY <2>2, UnfitIgnored
  <2> HIDE DEF near, y
  <2> QED
    BY <1>1, <2>1, <2>3
<1> QED
  BY <1>2, <1>3

LEMMA ArpInputKeeps ==
  ASSUME NEW s, NEW d \in Int, ArpKept(s, learned, d), s.out = <<>>, s.ifs = h.ifs,
         NEW n, NEW f, f.kind = "ARP"
  PROVE  ArpKept(etharp_arp_input(s, n, f.arp), Learn(n, f), d - 1)
<1> DEFINE a == f.arp
           forUs == s.ifs[n].ip # AnyAddr /\ a.dip = s.ifs[n].ip
           flag == IF forUs THEN "TRY_HARD" ELSE "FIND_ONLY"
           x == update_arp_entry(s, n, a.sip, a.smac, flag)
           p == [proto |-> "ARP_REPLY", src |-> a.dip, dst |-> a.sip]
           t == Transmit(x, n, a.smac, None, p)
           y == IF a.op = "REQUEST" /\ forUs THEN t ELSE x
           z == IF a.ok THEN y ELSE s
<1>1. etharp_arp_input(s, n, a) = pbuf_free(z)
  BY Zenon DEF etharp_arp_input
<1> HIDE DEF flag, p
<1>2. CASE a.ok
  <2>1. ArpKept(x, Learn(n, f), d)
    <3>1. CASE Claim(n, f)
      <4>1. Claimed(n, f).ip = a.sip /\ Claimed(n, f).mac = a.smac
        BY DEF Claimed
      <4> QED
        BY <3>1, <4>1, ClaimKeeps
    <3>2. CASE ~Claim(n, f)
      <4>1. Learn(n, f) = learned
        BY <3>2 DEF Learn
      <4>2. Unfit(s, a.sip, n)
        BY <1>2, <3>2 DEF Claim, Unfit, ip4_addr_isbroadcast
      <4>3. x = s
        BY <4>2, UnfitIgnored
      <4> QED
        BY <4>1, <4>3
    <3> QED
      BY <3>1, <3>2
  <2> HIDE DEF x
  <2>2. ArpKept(t, Learn(n, f), d)
    BY <2>1, TransmitKeeps
  <2> HIDE DEF t, forUs
  <2>3. ArpKept(y, Learn(n, f), d)
    BY <2>1, <2>2
  <2> HIDE DEF y
  <2>4. ArpKept(z, Learn(n, f), d)
    BY <1>2, <2>3
  <2> HIDE DEF z
  <2> QED
    BY <1>1, <2>4, FreeKeeps
<1>3. CASE ~a.ok
  <2>1. Learn(n, f) = learned
    BY <1>3 DEF Learn, Claim
  <2>2. z = s
    BY <1>3
  <2> HIDE DEF z
  <2> QED
    BY <1>1, <2>1, <2>2, FreeKeeps
<1> QED
  BY <1>2, <1>3

LEMMA EthernetInputKeeps ==
  ASSUME NEW s, ArpKept(s, learned, 0), s.out = <<>>, s.ifs = h.ifs, NEW n, NEW f, NEW eats
  PROVE  ArpKept(ethernet_input(s, f, n, eats), Learn(n, f), 0)
<1> DEFINE x == [s EXCEPT !.live = @ + 1]
           y == etharp_ip_input(x, n, f.pkt, f.smac)
<1>1. ethernet_input(s, f, n, eats) =
        CASE f.kind = "IP"  -> ip_input(y, f.pkt, n, eats)
          [] f.kind = "ARP" -> etharp_arp_input(x, n, f.arp)
          [] OTHER -> pbuf_free(x)
  BY DEF ethernet_input
<1>2. ArpKept(x, learned, 1)
  <2>1. ArpKept(x, learned, 0 + 1)
    BY TakeKeeps
  <2>2. 0 + 1 = 1
    OBVIOUS
  <2> HIDE DEF x
  <2> QED
    BY <2>1, <2>2
<1>3. x.out = <<>> /\ x.ifs = h.ifs
  BY DEF ArpKept, IsHost, HostFields
<1> HIDE DEF x
<1>4. 1 - 1 = 0
  OBVIOUS
<1>5. CASE f.kind = "IP"
  <2>1. ArpKept(y, Learn(n, f), 1)
    BY <1>2, <1>3, <1>5, EtharpIpInputKeeps
  <2> HIDE DEF y
  <2>2. ArpKept(ip_input(y, f.pkt, n, eats), Learn(n, f), 1 - 1)
    BY <2>1, IpInputKeeps
  <2> QED
    BY <1>1, <1>4, <1>5, <2>2
<1>6. CASE f.kind = "ARP"
  <2>1. ArpKept(etharp_arp_input(x, n, f.arp), Learn(n, f), 1 - 1)
    BY <1>2, <1>3, <1>6, ArpInputKeeps
  <2> QED
    BY <1>1, <1>4, <1>6, <2>1
<1>7. CASE f.kind \notin {"IP", "ARP"}
  <2>1. Learn(n, f) = learned
    BY <1>7 DEF Learn, Claim
  <2>2. ArpKept(pbuf_free(x), learned, 1 - 1)
    BY <1>2, FreeKeeps
  <2> QED
    BY <1>1, <1>4, <1>7, <2>1, <2>2
<1> QED
  BY <1>5, <1>6, <1>7

-----------------------------------------------------------------------------
(* Between two calls.                                                      *)
HostKept == ArpKept(h, learned, 0) /\ h.fail = {}

LEMMA NothingWaits ==
  ASSUME NEW a, \A i \in Slots : a[i].q = <<>>
  PROVE  Total(a) = 0
<1>1. PICK f : IsTotal(f, a) /\ Total(a) = f[Size]
  BY TotalUnfold
<1> DEFINE S == {k \in Nat : k <= Size => f[k] = 0}
<1>2. 0 \in S
  BY <1>1, SizeIs DEF IsTotal
<1>3. \A k \in Nat : k \in S => k + 1 \in S
  <2> SUFFICES ASSUME NEW k \in Nat, k \in S, k + 1 <= Size PROVE f[k + 1] = 0
    OBVIOUS
  <2>1. k + 1 \in 0..Size /\ k + 1 # 0 /\ k + 1 \in Slots /\ (k + 1) - 1 = k /\ f[k] = 0
    BY SizeIs
  <2>2. f[k + 1] = f[(k + 1) - 1] + Len(a[k + 1].q)
    BY <1>1, <2>1 DEF IsTotal
  <2>3. Len(a[k + 1].q) = 0
    BY <2>1, EmptyQueue
  <2> QED
    BY <2>1, <2>2, <2>3
<1>4. Nat \subseteq S
  BY <1>2, <1>3, NatInd
<1> QED
  BY <1>1, <1>4, SizeIs

LEMMA InitKept == Init => HostKept
<1> SUFFICES ASSUME Init PROVE HostKept
  OBVIOUS
<1>1. /\ IsHost(Start) /\ Start.arp = [i \in Slots |-> Empty] /\ Start.hint = 1 /\ Start.def = None
      /\ Start.out = <<>> /\ Start.live = 0 /\ Start.fail = {}
  BY DEF Start, IsHost, HostFields
<1>2. /\ IsHost(Configured) /\ Configured.arp = Start.arp /\ Configured.hint = 1
      /\ Configured.def = MinOf(Netifs) /\ Configured.out = <<>> /\ Configured.live = 0 /\ Configured.fail = {}
  <2> DEFINE F == [n \in Netifs |-> [NewNetif EXCEPT !.added = TRUE, !.up = TRUE, !.link = TRUE,
                                              !.ip = 10 * n + 1, !.mask = 1, !.gw = 10 * n + 2]]
             Q == SetToSortSeq(Netifs, LAMBDA a, b : a < b)
             C == [Start EXCEPT !.ifs = F, !.list = Q, !.def = MinOf(Netifs)]
  <2>1. Configured = C
    BY Zenon DEF Configured
  <2> HIDE DEF F, Q
  <2> QED
    BY <1>1, <2>1 DEF IsHost, HostFields
<1>3. MinOf(Netifs) \in Netifs
  BY NetifNumbers, MinOfIs
<1> DEFINE a == [i \in Slots |-> Empty]
<1>4. Entries(a) /\ Single(a) /\ Known(a, learned) /\ Total(a) = 0
  <2>1. \A i \in Slots : a[i] = Empty
    OBVIOUS
  <2>2. a = [i \in Slots |-> a[i]]
    OBVIOUS
  <2> HIDE DEF a
  <2> QED
    BY <2>1, <2>2, EmptyIs, NothingWaits DEF Entries, Single, Known
<1>5. 1 \in Slots /\ Sent(<<>>, learned)
  BY SizeIs, EmptyQueue DEF Sent
<1>6. h = Start \/ h = Configured
  BY DEF Init
<1>7. h.arp = a /\ h.live = 0 /\ h.out = <<>> /\ h.hint = 1 /\ IsHost(h) /\ h.fail = {} /\ h.def \in Netifs \cup {None}
  BY <1>1, <1>2, <1>3, <1>6
<1> HIDE DEF a
<1> QED
  BY <1>4, <1>5, <1>7 DEF HostKept, ArpKept, Held

LEMMA ReadyKeeps ==
  ASSUME HostKept, NEW fail
  PROVE  ArpKept(Ready(fail), learned, 0) /\ Ready(fail).out = <<>> /\ Ready(fail).ifs = h.ifs
<1> DEFINE x == Ready(fail)
<1>1. ArpKept(h, learned, 0)
  BY DEF HostKept
<1>2. /\ IsHost(x) /\ x.arp = h.arp /\ x.hint = h.hint /\ x.def = h.def /\ x.out = <<>> /\ x.live = h.live
      /\ x.ifs = h.ifs
  <2>1. IsHost(h)
    BY <1>1 DEF ArpKept
  <2> QED
    BY <2>1 DEF Ready, IsHost, HostFields
<1> HIDE DEF x
<1>3. Sent(x.out, learned)
  BY <1>2, EmptyQueue DEF Sent
<1>4. ArpKept(x, learned, 0)
  BY <1>1, <1>2, <1>3 DEF ArpKept, Held
<1> QED
  BY <1>2, <1>4 DEF x

LEMMA BecomesKept ==
  ASSUME NEW r, Becomes(r), ArpKept(r, learned', 0)
  PROVE  HostKept'
<1>1. h' = [r EXCEPT !.fail = {}]
  BY DEF Becomes
<1>2. IsHost(r)
  BY DEF ArpKept
<1>3. SameArp(r, h') /\ (h').fail = {}
  BY <1>1, <1>2 DEF SameArp, IsHost, HostFields
<1>4. ArpKept(h', learned', 0)
  BY <1>3, SameKeeps
<1> QED
  BY <1>3, <1>4 DEF HostKept

LEMMA CallKept ==
  ASSUME NEW foci, NEW r, Calls(foci, r), ArpKept(r, learned, 0)
  PROVE  HostKept'
BY BecomesKept DEF Calls

LEMMA InputKept ==
  ASSUME HostKept, NEW n, NEW f, NEW fail, NEW eats, Input(n, f, fail, eats)
  PROVE  HostKept'
BY ReadyKeeps, EthernetInputKeeps, BecomesKept DEF Input

LEMMA TickKept ==
  ASSUME HostKept, Tick
  PROVE  HostKept'
BY ReadyKeeps, TmrKeeps, BecomesKept DEF Tick

(* The calls of the applications.                                          *)
LEMMA SendingKept ==
  ASSUME HostKept, NEW c, NEW n, NEW ip, NEW port, NEW fail, NEW room,
         \/ Output(ip, fail) \/ Query(n, ip) \/ SendTo(c, ip, port, fail, room) \/ Send(c, room)
  PROVE  HostKept'
<1>1. CASE Output(ip, fail)
  BY <1>1, ReadyKeeps, IpOutputKeeps, CallKept DEF Output
<1>2. CASE Query(n, ip)
  BY <1>2, ReadyKeeps, QueryKeeps, CallKept DEF Query
<1>3. CASE SendTo(c, ip, port, fail, room)
  BY <1>3, ReadyKeeps, SendToKeeps, CallKept DEF SendTo
<1>4. CASE Send(c, room)
  BY <1>4, ReadyKeeps, SendToKeeps, CallKept DEF Send, udp_send
<1> QED
  BY <1>1, <1>2, <1>3, <1>4

LEMMA UdpKept ==
  ASSUME HostKept, NEW c, NEW ip, NEW port,
         \/ Bind(c, ip, port) \/ Connect(c, ip, port) \/ Disconnect(c) \/ RemovePcb(c)
  PROVE  HostKept'
<1>1. ArpKept(Ready({}), learned, 0)
  BY ReadyKeeps
<1>2. CASE Bind(c, ip, port)
  <2> DEFINE r == udp_bind(Ready({}), c, ip, port).h
  <2>1. ArpKept(r, learned, 0)
    BY <1>1, BindKeeps
  <2>2. Calls({"udp"}, udp_recv(r, c))
    BY <1>2 DEF Bind
  <2> HIDE DEF r
  <2> QED
    BY <2>1, <2>2, UdpCallsKeep, CallKept
<1>3. CASE Connect(c, ip, port)
  BY <1>1, <1>3, ConnectKeeps, CallKept DEF Connect
<1>4. CASE Disconnect(c)
  BY <1>1, <1>4, UdpCallsKeep, CallKept DEF Disconnect
<1>5. CASE RemovePcb(c)
  BY <1>1, <1>5, UdpCallsKeep, CallKept DEF RemovePcb
<1> QED
  BY <1>2, <1>3, <1>4, <1>5

LEMMA RawKept ==
  ASSUME HostKept, NEW r, NEW proto, NEW ip, NEW fail, NEW room,
         \/ RawNew(r, proto) \/ RawBind(r, ip) \/ RawRemove(r)
         \/ RawSendTo(r, ip, fail, room) \/ RawSend(r)
  PROVE  HostKept'
<1>1. ArpKept(Ready({}), learned, 0) /\ ArpKept(Ready(fail), learned, 0)
  BY ReadyKeeps
<1>2. CASE RawNew(r, proto)
  BY <1>1, <1>2, RawCallsKeep, CallKept DEF RawNew
<1>3. CASE RawBind(r, ip)
  <2> DEFINE x == raw_bind(Ready({}), r, ip)
  <2>1. ArpKept(x, learned, 0)
    BY <1>1, RawCallsKeep
  <2>2. Calls({"raw"}, raw_connect(x, r, ip))
    BY <1>3 DEF RawBind
  <2> HIDE DEF x
  <2> QED
    BY <2>1, <2>2, RawCallsKeep, CallKept
<1>4. CASE RawRemove(r)
  BY <1>1, <1>4, RawCallsKeep, CallKept DEF RawRemove
<1>5. CASE RawSendTo(r, ip, fail, room)
  BY <1>1, <1>5, RawSendKeeps, CallKept DEF RawSendTo
<1>6. CASE RawSend(r)
  <2> DEFINE x == raw_send(Ready({}), r, TRUE)
  <2>1. ArpKept(x, learned, 0)
    <3>1. 0 \in Int
      OBVIOUS
    <3> QED
      BY <1>1, <3>1, RawSendKeeps, Zenon DEF raw_send
  <2>2. Calls({"raw"}, x)
    BY <1>6, Zenon DEF RawSend
  <2> HIDE DEF x
  <2> QED
    BY <2>1, <2>2, CallKept
<1> QED
  BY <1>2, <1>3, <1>4, <1>5, <1>6

(* The calls of the drivers.                                               *)
LEMMA NetifKept ==
  ASSUME HostKept, NEW n \in Netifs, NEW ip, NEW fail, NEW active,
         \/ Up(n, fail) \/ LinkUp(n, fail) \/ Down(n) \/ LinkDown(n) \/ Add(n, ip) \/ RemoveIf(n)
         \/ SetAddr(n, ip) \/ SetDefault(n) \/ TcpOpen(n, active)
  PROVE  HostKept'
<1>1. ArpKept(Ready({}), learned, 0) /\ ArpKept(Ready(fail), learned, 0)
  BY ReadyKeeps
<1>2. CASE Up(n, fail)
  BY <1>1, <1>2, UpKeeps, CallKept DEF Up
<1>3. CASE LinkUp(n, fail)
  BY <1>1, <1>3, UpKeeps, CallKept DEF LinkUp
<1>4. CASE Down(n)
  BY <1>1, <1>4, DownKeeps, CallKept DEF Down
<1>5. CASE LinkDown(n)
  BY <1>1, <1>5, DownKeeps, CallKept DEF LinkDown
<1>6. CASE Add(n, ip)
  BY <1>1, <1>6, NetifCallsKeep, CallKept DEF Add
<1>7. CASE RemoveIf(n)
  BY <1>1, <1>7, NetifCallsKeep, CallKept DEF RemoveIf
<1>8. CASE SetAddr(n, ip)
  <2> DEFINE mask == IF ip = AnyAddr THEN 0 ELSE 1
  <2>1. Calls({"netif"}, netif_set_addr(Ready({}), n, ip, mask, AnyAddr))
    BY <1>8 DEF SetAddr
  <2> HIDE DEF mask
  <2> QED
    BY <1>1, <2>1, SetAddrKeeps, CallKept
<1>9. CASE SetDefault(n)
  BY <1>1, <1>9, NetifCallsKeep, CallKept DEF SetDefault
<1>10. CASE TcpOpen(n, active)
  <2> DEFINE s == Ready({})
             x == [s EXCEPT !.tcp = @ \cup {[lip |-> h.ifs[n].ip, active |-> active]}]
  <2>1. Calls({"netif"}, x)
    BY <1>10 DEF TcpOpen
  <2>2. ArpKept(s, learned, 0)
    BY <1>1
  <2> HIDE DEF s
  <2>3. IsHost(s)
    BY <2>2 DEF ArpKept
  <2>4. SameArp(s, x)
    BY <2>3 DEF SameArp, IsHost, HostFields
  <2> HIDE DEF x
  <2> QED
    BY <2>1, <2>2, <2>4, SameKeeps, CallKept
<1> QED
  BY <1>2, <1>3, <1>4, <1>5, <1>6, <1>7, <1>8, <1>9, <1>10

LEMMA IpNextKept ==
  ASSUME HostKept, IpNext
  PROVE  HostKept'
<1>1. CASE Tick
  BY <1>1, TickKept
<1>2. CASE \E n \in Netifs, f \in Frames, fail \in Failures, eats \in SUBSET ToSet(h.rlist) : Input(n, f, fail, eats)
  BY <1>2, InputKept
<1>3. CASE \E n \in Netifs, fail \in Failures : Up(n, fail) \/ LinkUp(n, fail)
  BY <1>3, NetifKept
<1>4. CASE \E n \in Netifs : \/ RemoveIf(n) \/ Down(n) \/ LinkDown(n) \/ SetDefault(n)
                             \/ \E b \in BOOLEAN : TcpOpen(n, b)
  BY <1>4, NetifKept
<1>5. CASE \E n \in Netifs, ip \in Addrs : Add(n, ip) \/ SetAddr(n, ip)
  BY <1>5, NetifKept
<1>6. CASE \E n \in Netifs, ip \in Hosts : Query(n, ip)
  BY <1>6, SendingKept
<1>7. CASE \E ip \in Hosts, fail \in Failures : Output(ip, fail)
  BY <1>7, SendingKept
<1>8. CASE \E c \in Pcbs, ip \in Hosts, port \in Ports, fail \in {{}, {"pbuf"}}, room \in BOOLEAN :
              SendTo(c, ip, port, fail, room)
  BY <1>8, SendingKept
<1>9. CASE \E c \in Pcbs, ip \in Addrs, port \in Ports \cup {0} : Bind(c, ip, port)
  BY <1>9, UdpKept
<1>10. CASE \E c \in Pcbs, ip \in Hosts, port \in Ports : Connect(c, ip, port)
  BY <1>10, UdpKept
<1>11. CASE \E c \in Pcbs : Disconnect(c) \/ RemovePcb(c) \/ \E room \in BOOLEAN : Send(c, room)
  BY <1>11, UdpKept, SendingKept
<1>12. CASE \E r \in Raws : \/ \E proto \in {"UDP", "ICMP"} : RawNew(r, proto)
                            \/ \E ip \in Addrs : RawBind(r, ip)
                            \/ \E ip \in Hosts, fail \in Failures, room \in BOOLEAN : RawSendTo(r, ip, fail, room)
                            \/ RawRemove(r) \/ RawSend(r)
  BY <1>12, RawKept
<1> QED
  BY <1>1, <1>2, <1>3, <1>4, <1>5, <1>6, <1>7, <1>8, <1>9, <1>10, <1>11, <1>12 DEF IpNext

(* What the invariant says of the cache.                                   *)
LEMMA KeptIsSound == HostKept => ArpSound
<1> SUFFICES ASSUME HostKept PROVE ArpSound
  OBVIOUS
<1>1. ArpKept(h, learned, 0) /\ h.fail = {}
  BY DEF HostKept
<1>2. \A i \in Slots : IsEntry(h.arp[i])
  BY <1>1 DEF ArpKept, Entries
<1>3. TypeOK
  BY <1>1, <1>2 DEF ArpKept, IsEntry, TypeOK
<1>4. BuffersBalanced
  <2>1. h.live = Total(h.arp)
    BY <1>1, LiveIs
  <2>2. Waiting = Total(h.arp)
    BY Zenon DEF Waiting, Total, Size
  <2> QED
    BY <2>1, <2>2 DEF BuffersBalanced
<1>5. OneEntryPerAddress
  BY <1>1, <1>2 DEF ArpKept, Single, IsEntry, Used, OneEntryPerAddress
<1>6. FreshMac
  BY <1>1 DEF ArpKept, Sent, Knows, FreshMac
<1> QED
  BY <1>3, <1>4, <1>5, <1>6 DEF ArpSound

(* The cache and what it holds, over every sequence of frames, calls and   *)
(* ticks of the ARP timer, whichever allocations fail (etharp.c and the IP *)
(* layer above it).                                                        *)
THEOREM ArpInvariant == Spec => []HostKept
<1>1. HostKept /\ [Next]_vars => HostKept'
  <2> SUFFICES ASSUME HostKept, [Next]_vars PROVE HostKept'
    OBVIOUS
  <2>1. CASE IpNext
    BY <2>1, IpNextKept
  <2>2. CASE UNCHANGED <<h, learned>>
    BY <2>2 DEF HostKept
  <2> QED
    BY <2>1, <2>2 DEF Next, vars
<1> QED
  BY <1>1, InitKept, PTL DEF Spec

(* Every pbuf that is allocated between two calls waits in the cache for   *)
(* an address (etharp_query, free_entry); an address has one entry and a   *)
(* resolved one holds nothing; a unicast frame, through the cached entry   *)
(* too, goes to the station that claimed its next hop last.                *)
THEOREM ArpIsSound == Spec => []ArpSound
  BY ArpInvariant, KeptIsSound, PTL

-----------------------------------------------------------------------------
(***************************************************************************)
(* The heap of mem.c.                                                      *)
(***************************************************************************)
(* The inductive invariant.                                                *)
Aligned(n) == n % MEM_ALIGNMENT = 0
MemStruct == [next : 0..MEM_SIZE, prev : 0..MEM_SIZE, used : BOOLEAN]

(* The structs, seen from next: in order, aligned, with room and no gap.   *)
Chained(b) ==
  /\ DOMAIN b \subseteq 0..MEM_SIZE /\ 0 \in DOMAIN b /\ MEM_SIZE \in DOMAIN b
  /\ b \in [DOMAIN b -> MemStruct]
  /\ \A p \in DOMAIN b \ {MEM_SIZE} :
        /\ b[p].next \in DOMAIN b
        /\ p + SIZEOF_STRUCT_MEM + MIN_SIZE <= b[p].next
        /\ Aligned(p)
        /\ \A q \in DOMAIN b : q <= p \/ b[p].next <= q
  /\ b[MEM_SIZE].next = MEM_SIZE /\ b[MEM_SIZE].used = TRUE /\ b[0].prev = 0

(* prev is the way back, but at the struct at index x.                     *)
BackBut(b, x) ==
  \A p \in DOMAIN b \ {0, MEM_SIZE, x} :
     b[p].prev \in DOMAIN b /\ b[p].prev < p /\ b[b[p].prev].next = p

(* No free struct is followed by a free one.                               *)
Plugged(b) == \A p \in DOMAIN b \ {MEM_SIZE} : b[p].used = FALSE => b[b[p].next].used = TRUE

(* lfree is the lowest free struct, or the end.                            *)
LowestFree(b, l) ==
  /\ l \in DOMAIN b /\ (l = MEM_SIZE \/ b[l].used = FALSE)
  /\ \A p \in DOMAIN b : b[p].used = FALSE => l <= p

(* The used structs are the callers' blocks, with the room they asked for. *)
Owned(b, g) ==
  /\ \A r \in DOMAIN g : /\ r \in Int /\ g[r] \in Nat
                         /\ r - SIZEOF_STRUCT_MEM \in DOMAIN b \ {MEM_SIZE}
                         /\ b[r - SIZEOF_STRUCT_MEM].used = TRUE
                         /\ r + g[r] <= b[r - SIZEOF_STRUCT_MEM].next
  /\ \A p \in DOMAIN b \ {MEM_SIZE} : b[p].used = TRUE => p + SIZEOF_STRUCT_MEM \in DOMAIN g

HeapFields == {"blk", "lfree", "got", "calls"}
Fit(s) == /\ s = [f \in HeapFields |-> s[f]]
          /\ Chained(s.blk) /\ BackBut(s.blk, MEM_SIZE) /\ LowestFree(s.blk, s.lfree)
HeapKept(s) == Fit(s) /\ Plugged(s.blk) /\ Owned(s.blk, s.got)
HeapInv == HeapKept(heap)

-----------------------------------------------------------------------------
(* Sizes. *)
LEMMA HeapConstants ==
  /\ MEM_SIZE \in Nat /\ SIZEOF_STRUCT_MEM \in Nat /\ MIN_SIZE \in Nat /\ MEM_ALIGNMENT \in Nat /\ SizeMod \in Nat
  /\ 0 < MEM_SIZE /\ 0 < SIZEOF_STRUCT_MEM /\ 0 < MIN_SIZE /\ 0 < MEM_ALIGNMENT /\ 0 < SizeMod
  /\ SIZEOF_STRUCT_MEM + MIN_SIZE <= MEM_SIZE
<1>1. \A n \in {MEM_SIZE, SIZEOF_STRUCT_MEM, MIN_SIZE, MEM_ALIGNMENT, SizeMod} : n \in Nat /\ n # 0
  BY HeapSizesFit
<1> QED
  BY <1>1, HeapSizesFit

LEMMA AlignedSum ==
  ASSUME NEW a \in Int, NEW b \in Int, Aligned(a), Aligned(b)
  PROVE  Aligned(a + b)
<1> DEFINE m == MEM_ALIGNMENT
<1>0. m \in Nat /\ 0 < m
  BY HeapConstants
<1> HIDE DEF m
<1>1. a = (a \div m) * m + (a % m) /\ b = (b \div m) * m + (b % m) /\ a \div m \in Int /\ b \div m \in Int
  BY <1>0
<1>2. a % m = 0 /\ b % m = 0
  BY DEF Aligned, m
<1> DEFINE k == a \div m
           l == b \div m
<1>3. a = k * m /\ b = l * m /\ k \in Int /\ l \in Int
  BY <1>0, <1>1, <1>2
<1> HIDE DEF k, l
<1>4. a + b = (k + l) * m
  BY <1>0, <1>3
<1>5. \A i \in Int : (i * m) % m = 0
  BY <1>0
<1>6. k + l \in Int
  BY <1>3
<1> QED
  BY <1>4, <1>5, <1>6 DEF Aligned, m

LEMMA AlignedConstants == Aligned(0) /\ Aligned(SIZEOF_STRUCT_MEM) /\ Aligned(MIN_SIZE) /\ Aligned(MEM_SIZE)
BY HeapSizesFit, HeapConstants DEF Aligned

(* A block has at least the bytes asked for, and keeps the alignment. *)
LEMMA BlockHolds ==
  ASSUME NEW n \in Nat, n + MEM_ALIGNMENT <= SizeMod
  PROVE  /\ BlockSize(n) \in Nat /\ n <= BlockSize(n) /\ MIN_SIZE <= BlockSize(n)
         /\ Aligned(BlockSize(n))
<1> DEFINE m == MEM_ALIGNMENT
           q == (n + m - 1) \div m
           a == q * m
<1>0. m \in Nat /\ 0 < m /\ SizeMod \in Nat /\ n + m <= SizeMod /\ MIN_SIZE \in Nat
  BY HeapConstants
<1>1. LWIP_MEM_ALIGN_SIZE(n) = a % SizeMod
  BY DEF LWIP_MEM_ALIGN_SIZE
<1> HIDE DEF m
<1>2. q \in Nat /\ a >= n /\ a <= n + m - 1
  BY <1>0
<1>3. (q * m) % m = 0
  BY <1>0, <1>2
<1> HIDE DEF q
<1>4. a \in Nat
  BY <1>0, <1>2
<1>5. a < SizeMod
  <2> HIDE DEF a
  <2> QED
    BY <1>0, <1>2, <1>4
<1>6. Aligned(a)
  BY <1>3 DEF Aligned, m
<1> HIDE DEF a
<1>7. a % SizeMod = a
  BY <1>0, <1>4, <1>5
<1>8. BlockSize(n) = IF a < MIN_SIZE THEN MIN_SIZE ELSE a
  BY <1>1, <1>7 DEF BlockSize
<1> QED
  BY <1>0, <1>2, <1>4, <1>6, <1>8, AlignedConstants

LEMMA BlockOf ==
  ASSUME NEW n \in HeapSizes
  PROVE  /\ n \in Nat /\ BlockSize(n) \in Nat /\ n <= BlockSize(n) /\ MIN_SIZE <= BlockSize(n)
         /\ Aligned(BlockSize(n))
<1>1. n \in Nat /\ 2 * n + MEM_ALIGNMENT <= SizeMod
  BY HeapSizesFit
<1>2. n + MEM_ALIGNMENT <= SizeMod
  BY <1>1, HeapConstants
<1> QED
  BY <1>1, <1>2, BlockHolds

(* mem_calloc's product does not wrap. *)
LEMMA BlockOfTwo ==
  ASSUME NEW n \in HeapSizes
  PROVE  LET k == (2 * n) % SizeMod
         IN  /\ k = 2 * n /\ k \in Nat /\ BlockSize(k) \in Nat /\ k <= BlockSize(k) /\ MIN_SIZE <= BlockSize(k)
             /\ Aligned(BlockSize(k))
<1>1. n \in Nat /\ 2 * n + MEM_ALIGNMENT <= SizeMod
  BY HeapSizesFit
<1> DEFINE d == 2 * n
<1>2. d \in Nat /\ d + MEM_ALIGNMENT <= SizeMod /\ d < SizeMod
  BY <1>1, HeapConstants
<1> HIDE DEF d
<1>3. d % SizeMod = d
  BY <1>2, HeapConstants
<1>4. (2 * n) % SizeMod = d /\ 2 * n = d
  BY <1>3 DEF d
<1> QED
  BY <1>2, <1>4, BlockHolds

-----------------------------------------------------------------------------
(* The walk along next. *)
IsWalk(g, b, p, n) == g = [k \in 0..n |-> IF k = 0 THEN p ELSE b[g[k - 1]].next]
LEMMA WalkUnfold ==
  ASSUME NEW b, NEW p, NEW n \in Nat
  PROVE  \E g : IsWalk(g, b, p, n)
<1> USE DEF IsWalk
<1> DEFINE Solves(g, z) == IsWalk(g, b, p, z)
           S == {z \in Nat : \E g : Solves(g, z)}
<1>1. 0 \in S
  <2> DEFINE g == [k \in 0..0 |-> p]
  <2>1. g = [k \in 0..0 |-> IF k = 0 THEN p ELSE b[g[k - 1]].next]
    OBVIOUS
  <2> QED
    BY <2>1
<1>2. ASSUME NEW z \in Nat, z \in S PROVE z + 1 \in S
  <2>1. PICK g : Solves(g, z)
    BY <1>2
  <2> DEFINE w == [k \in 0..(z + 1) |-> IF k = z + 1 THEN b[g[z]].next ELSE g[k]]
  <2>2. \A k \in 0..z : g[k] = IF k = 0 THEN p ELSE b[g[k - 1]].next
    BY <2>1
  <2>3. ASSUME NEW k \in 0..(z + 1) PROVE w[k] = IF k = 0 THEN p ELSE b[w[k - 1]].next
    <3>1. CASE k = 0
      BY <2>2, <3>1
    <3>2. CASE k = z + 1
      <4>1. w[k] = b[g[z]].next /\ w[k - 1] = g[z] /\ k # 0
        BY <3>2
      <4> QED
        BY <3>2, <4>1
    <3>3. CASE k \in 1..z
      <4>1. w[k] = g[k] /\ w[k - 1] = g[k - 1] /\ k # 0
        BY <3>3
      <4> QED
        BY <2>2, <3>3, <4>1
    <3> QED
      BY <3>1, <3>2, <3>3
  <2>4. w = [k \in 0..(z + 1) |-> w[k]]
    OBVIOUS
  <2> HIDE DEF w
  <2>5. Solves(w, z + 1)
    BY <2>3, <2>4
  <2> QED
    BY <2>5
<1>3. Nat \subseteq S
  <2> HIDE DEF S
  <2> QED
    BY <1>1, <1>2, NatInd
<1> QED
  BY <1>3

LEMMA StructsFinite ==
  ASSUME NEW b, Chained(b)
  PROVE  /\ IsFiniteSet(DOMAIN b) /\ Cardinality(DOMAIN b) \in Nat
         /\ \A p \in DOMAIN b : p \in Nat /\ p <= MEM_SIZE
         /\ \A p \in DOMAIN b : /\ b[p].next \in DOMAIN b /\ b[p].next \in Nat /\ p <= b[p].next
                                /\ b[p].used \in BOOLEAN
<1>1. IsFiniteSet(0..MEM_SIZE)
  BY HeapConstants, FS_Interval
<1>2. DOMAIN b \in SUBSET (0..MEM_SIZE)
  BY DEF Chained
<1>3. IsFiniteSet(DOMAIN b)
  BY <1>1, <1>2, FS_Subset
<1>4. Cardinality(DOMAIN b) \in Nat
  BY <1>3, FS_CardinalityType
<1>5. \A p \in DOMAIN b : p \in Nat /\ p <= MEM_SIZE
  BY <1>2, HeapConstants
<1>6. \A p \in DOMAIN b : b[p] \in MemStruct
  BY DEF Chained
<1>7. ASSUME NEW p \in DOMAIN b
      PROVE  b[p].next \in DOMAIN b /\ b[p].next \in Nat /\ p <= b[p].next /\ b[p].used \in BOOLEAN
  <2>1. b[p].used \in BOOLEAN
    BY <1>6 DEF MemStruct
  <2>2. CASE p = MEM_SIZE
    <3>1. b[p].next = p
      BY <2>2 DEF Chained
    <3> QED
      BY <1>5, <2>1, <3>1
  <2>3. CASE p # MEM_SIZE
    <3>1. b[p].next \in DOMAIN b /\ p + SIZEOF_STRUCT_MEM + MIN_SIZE <= b[p].next
      BY <2>3 DEF Chained
    <3> QED
      BY <1>5, <2>1, <3>1, HeapConstants
  <2> QED
    BY <2>2, <2>3
<1> QED
  BY <1>3, <1>4, <1>5, <1>7

(* A walk from a struct meets every struct from there to the end. *)
LEMMA WalkMeets ==
  ASSUME NEW s, Chained(s.blk), NEW p \in DOMAIN s.blk
  PROVE  ListFrom(s, p) = {q \in DOMAIN s.blk : p <= q}
<1> DEFINE b == s.blk
           D == DOMAIN b
           n == Cardinality(D)
           F(g) == IsWalk(g, b, p, n)
           f == CHOOSE g : F(g)
<1>1. /\ IsFiniteSet(D) /\ n \in Nat
      /\ \A q \in D : q \in Nat /\ q <= MEM_SIZE
      /\ \A q \in D : b[q].next \in D /\ b[q].next \in Nat /\ q <= b[q].next
  BY StructsFinite
<1>2. ListFrom(s, p) = {f[k] : k \in 0..n}
  BY DEF ListFrom, IsWalk
<1>3. \E g : F(g)
  <2> HIDE DEF n, b, f, D
  <2> QED
    BY <1>1, WalkUnfold
<1>4. F(f)
  BY <1>3
<1>5. Chained(b) /\ p \in D
  OBVIOUS
<1> HIDE DEF f, b
<1>6. f[0] = p /\ \A k \in Nat : k + 1 <= n => f[k + 1] = b[f[k]].next
  <2> HIDE DEF n
  <2>0. \A k \in 0..n : f[k] = IF k = 0 THEN p ELSE b[f[k - 1]].next
    BY <1>4 DEF IsWalk
  <2>1. f[0] = p
    BY <1>1, <2>0
  <2> HIDE DEF F
  <2>2. ASSUME NEW k \in Nat, k + 1 <= n PROVE f[k + 1] = b[f[k]].next
    <3>1. k + 1 \in 0..n /\ k + 1 # 0 /\ k + 1 - 1 = k
      BY <1>1, <2>2
    <3> QED
      BY <2>0, <3>1
  <2> QED
    BY <2>1, <2>2
<1> DEFINE P == {k \in Nat : k <= n => f[k] \in D /\ p <= f[k]}
<1>7. Nat \subseteq P
  <2>1. 0 \in P
    BY <1>1, <1>5, <1>6
  <2>2. ASSUME NEW k \in Nat, k \in P PROVE k + 1 \in P
    <3> HIDE DEF n, D
    <3>1. SUFFICES ASSUME k + 1 <= n PROVE f[k + 1] \in D /\ p <= f[k + 1]
      OBVIOUS
    <3>2. f[k] \in D /\ p <= f[k] /\ f[k + 1] = b[f[k]].next
      BY <1>1, <1>6, <2>2, <3>1
    <3>3. f[k] \in Nat /\ p \in Nat /\ b[f[k]].next \in D /\ b[f[k]].next \in Nat /\ f[k] <= b[f[k]].next
      BY <1>1, <1>5, <3>2
    <3> QED
      BY <3>2, <3>3
  <2> HIDE DEF P
  <2> QED
    BY <2>1, <2>2, NatInd
<1>8. ASSUME NEW q \in D, p <= q PROVE \E k \in 0..n : f[k] = q
  <2> SUFFICES ASSUME ~\E k \in 0..n : f[k] = q PROVE FALSE
    OBVIOUS
  <2> DEFINE Below(x) == {y \in D : y < x}
             R == {k \in Nat : k <= n => f[k] < q /\ k <= Cardinality(Below(f[k]))}
  <2>0. \A x : IsFiniteSet(Below(x)) /\ Cardinality(Below(x)) \in Nat
    <3>1. \A x : Below(x) \in SUBSET D
      OBVIOUS
    <3> HIDE DEF Below
    <3> QED
      BY <1>1, <3>1, FS_Subset, FS_CardinalityType
  <2>1. 0 \in R
    <3>1. p # q
      BY <1>1, <1>6
    <3>2. p < q
      BY <1>1, <1>5, <1>8, <3>1
    <3>3. 0 <= Cardinality(Below(p))
      BY <2>0
    <3> QED
      BY <1>6, <3>2, <3>3
  <2>2. ASSUME NEW k \in Nat, k \in R PROVE k + 1 \in R
    <3>1. SUFFICES ASSUME k + 1 <= n PROVE f[k + 1] < q /\ k + 1 <= Cardinality(Below(f[k + 1]))
      OBVIOUS
    <3> DEFINE x == f[k]
               y == f[k + 1]
    <3>2. k <= n /\ k + 1 \in 0..n
      BY <1>1, <3>1
    <3>3. x \in D /\ x < q /\ k <= Cardinality(Below(x)) /\ y = b[x].next
      BY <1>6, <1>7, <2>2, <3>1, <3>2
    <3>4. y # q
      BY <3>2
    <3> HIDE DEF x, y
    <3>5. x # MEM_SIZE
      BY <1>1, <1>8, <3>3, HeapConstants
    <3>6. y <= q /\ x < y
      <4>1. x + SIZEOF_STRUCT_MEM + MIN_SIZE <= y /\ (q <= x \/ y <= q)
        BY <1>5, <1>8, <3>3, <3>5 DEF Chained
      <4> QED
        BY <1>1, <1>8, <3>3, <4>1, HeapConstants
    <3>7. y \in D /\ y \in Nat /\ x \in Nat /\ q \in Nat
      BY <1>1, <1>8, <3>3
    <3>8. Below(x) \cup {x} \in SUBSET Below(y)
      BY <1>1, <3>3, <3>6, <3>7
    <3>9. x \notin Below(x)
      BY <3>7
    <3> HIDE DEF Below
    <3>10. Cardinality(Below(x) \cup {x}) = Cardinality(Below(x)) + 1
      BY <2>0, <3>9, FS_AddElement
    <3>11. Cardinality(Below(x) \cup {x}) <= Cardinality(Below(y))
      BY <2>0, <3>8, FS_Subset
    <3>12. k + 1 <= Cardinality(Below(y))
      <4>1. Cardinality(Below(x)) \in Nat /\ Cardinality(Below(y)) \in Nat
        BY <2>0
      <4> QED
        BY <3>3, <3>10, <3>11, <4>1
    <3>13. y < q
      BY <3>4, <3>6, <3>7
    <3> QED
      BY <3>12, <3>13 DEF y
  <2>3. Nat \subseteq R
    <3> HIDE DEF R
    <3> QED
      BY <2>1, <2>2, NatInd
  <2>4. f[n] < q /\ n <= Cardinality(Below(f[n])) /\ f[n] \in D
    <3> HIDE DEF Below
    <3>1. n \in R /\ n \in P /\ n <= n
      BY <1>1, <1>7, <2>3
    <3> QED
      BY <3>1
  <2>5. Below(f[n]) \cup {q} \in SUBSET D /\ q \notin Below(f[n])
    BY <1>1, <1>8, <2>4
  <2> HIDE DEF Below
  <2>6. Cardinality(Below(f[n]) \cup {q}) = Cardinality(Below(f[n])) + 1
    BY <2>0, <2>5, FS_AddElement
  <2>7. Cardinality(Below(f[n]) \cup {q}) <= n
    BY <1>1, <2>5, FS_Subset
  <2>8. Cardinality(Below(f[n])) \in Nat
    BY <2>0
  <2> QED
    BY <1>1, <2>4, <2>6, <2>7, <2>8
<1>9. \A k \in 0..n : f[k] \in D /\ p <= f[k]
  <2> HIDE DEF D
  <2> QED
    BY <1>1, <1>7
<1> QED
  BY <1>2, <1>8, <1>9 DEF b

LEMMA LeastIs ==
  ASSUME NEW S \in SUBSET Nat, S # {}
  PROVE  Min(S) \in S /\ \A y \in S : Min(S) <= y
BY LeastNat DEF Min

-----------------------------------------------------------------------------
(* What the updates of mem.c do to the structs: one is marked, the struct  *)
(* behind m is given up, or one is made behind m.                          *)
Marks(c, b, m, u) ==
  /\ DOMAIN c = DOMAIN b /\ c \in [DOMAIN b -> MemStruct]
  /\ \A q \in DOMAIN b : /\ c[q].next = b[q].next /\ c[q].prev = b[q].prev
                         /\ c[q].used = IF q = m THEN u ELSE b[q].used
Merges(c, b, m, n) ==
  /\ DOMAIN c = DOMAIN b \ {n} /\ c \in [DOMAIN b \ {n} -> MemStruct]
  /\ \A q \in DOMAIN b \ {n} : /\ c[q].used = b[q].used
                               /\ c[q].next = IF q = m THEN b[n].next ELSE b[q].next
                               /\ q # b[n].next => c[q].prev = b[q].prev
Splits(c, b, m, p) ==
  /\ DOMAIN c = DOMAIN b \cup {p} /\ c \in [DOMAIN b \cup {p} -> MemStruct]
  /\ c[p].next = b[m].next /\ c[p].prev = m /\ c[p].used = FALSE
  /\ \A q \in DOMAIN b : /\ c[q].used = b[q].used
                         /\ c[q].next = IF q = m THEN p ELSE b[q].next
                         /\ c[q].prev = IF q = b[m].next /\ q # MEM_SIZE THEN p ELSE b[q].prev

LEMMA MarkShape ==
  ASSUME NEW b, Chained(b), NEW m \in DOMAIN b, NEW u \in BOOLEAN
  PROVE  Marks([b EXCEPT ![m].used = u], b, m, u)
<1>1. b \in [DOMAIN b -> MemStruct]
  BY DEF Chained
<1> DEFINE D == DOMAIN b
           c == [b EXCEPT ![m].used = u]
<1>2. DOMAIN c = D /\ \A q \in D : c[q] = IF q = m THEN [b[m] EXCEPT !.used = u] ELSE b[q]
  BY <1>1
<1>3. \A q \in D : b[q] \in MemStruct
  BY <1>1
<1>4. [b[m] EXCEPT !.used = u] \in MemStruct
  BY <1>3 DEF MemStruct
<1>5. /\ [b[m] EXCEPT !.used = u].next = b[m].next /\ [b[m] EXCEPT !.used = u].prev = b[m].prev
      /\ [b[m] EXCEPT !.used = u].used = u
  BY <1>3 DEF MemStruct
<1>6. c \in [D -> MemStruct]
  BY <1>1, <1>4
<1> HIDE DEF c, D
<1>7. ASSUME NEW q \in D
      PROVE  c[q].next = b[q].next /\ c[q].prev = b[q].prev /\ c[q].used = IF q = m THEN u ELSE b[q].used
  <2>1. CASE q = m
    BY <1>2, <1>5, <2>1
  <2>2. CASE q # m
    BY <1>2, <2>2
  <2> QED
    BY <2>1, <2>2
<1>8. Marks(c, b, m, u)
  BY <1>2, <1>6, <1>7 DEF Marks, D
<1> QED
  BY <1>8 DEF c

LEMMA MarkKeeps ==
  ASSUME NEW b, NEW c, NEW u, Chained(b), BackBut(b, MEM_SIZE), NEW m \in DOMAIN b \ {MEM_SIZE}, Marks(c, b, m, u)
  PROVE  Chained(c) /\ BackBut(c, MEM_SIZE)
<1>1. Chained(c)
  BY DEF Chained, Marks
<1>2. BackBut(c, MEM_SIZE)
  BY DEF Chained, BackBut, Marks
<1> QED
  BY <1>1, <1>2

LEMMA MergeShape ==
  ASSUME NEW s, Chained(s.blk), NEW m \in DOMAIN s.blk \ {MEM_SIZE}, s.blk[m].next # MEM_SIZE
  PROVE  LET b == s.blk
             n == b[m].next
             c == Merged(s, m, n)
         IN  Merges(c, b, m, n) /\ \A q \in DOMAIN b \ {n} : c[q].prev = b[q].prev
<1> DEFINE b == s.blk
           D == DOMAIN b
           n == b[m].next
           c == Merged(s, m, n)
           j == [b[m] EXCEPT !.next = b[n].next]
<1>1. Chained(b) /\ m \in D \ {MEM_SIZE} /\ n # MEM_SIZE
  OBVIOUS
<1>2. c = [p \in D \ {n} |-> IF p = m THEN [b[p] EXCEPT !.next = b[n].next] ELSE b[p]]
  BY DEF Merged
<1> HIDE DEF b, c
<1>3. \A p \in D : b[p] \in MemStruct
  BY <1>1 DEF Chained
<1>4. n \in D /\ n # m
  BY <1>1, StructsFinite, HeapConstants DEF Chained
<1>5. b[m] \in MemStruct /\ b[n] \in MemStruct
  BY <1>1, <1>3, <1>4
<1>6. j \in MemStruct /\ j.next = b[n].next /\ j.prev = b[m].prev /\ j.used = b[m].used
  BY <1>5 DEF MemStruct
<1>7. \A p \in D \ {n} : c[p] = IF p = m THEN j ELSE b[p]
  BY <1>2
<1>8. DOMAIN c = D \ {n} /\ c \in [D \ {n} -> MemStruct]
  BY <1>2, <1>3, <1>6
<1> HIDE DEF j, D, n
<1>9. ASSUME NEW q \in D \ {n}
      PROVE  c[q].used = b[q].used /\ c[q].prev = b[q].prev /\ c[q].next = IF q = m THEN b[n].next ELSE b[q].next
  <2>1. CASE q = m
    BY <1>6, <1>7, <2>1
  <2>2. CASE q # m
    BY <1>7, <2>2
  <2> QED
    BY <2>1, <2>2
<1>10. Merges(c, b, m, n) /\ \A q \in D \ {n} : c[q].prev = b[q].prev
  BY <1>8, <1>9 DEF Merges, D
<1> QED
  BY <1>10 DEF b, c, n, D

(* The structs stay a chain when one is given up to the struct before it.  *)
LEMMA MergeChains ==
  ASSUME NEW b, NEW c, Chained(b), BackBut(b, MEM_SIZE), NEW m \in DOMAIN b \ {MEM_SIZE},
         NEW n, n = b[m].next, n # MEM_SIZE, Merges(c, b, m, n)
  PROVE  /\ Chained(c) /\ BackBut(c, b[n].next)
         /\ c[b[n].next].prev = m => BackBut(c, MEM_SIZE)
<1> DEFINE D == DOMAIN b
           x == b[n].next
<1>1. /\ \A p \in D : p \in Nat /\ p <= MEM_SIZE /\ b[p].next \in D /\ b[p].next \in Nat
      /\ \A p \in D \ {MEM_SIZE} : p + SIZEOF_STRUCT_MEM + MIN_SIZE <= b[p].next
      /\ \A p \in D \ {MEM_SIZE}, q \in D : q <= p \/ b[p].next <= q
  BY StructsFinite DEF Chained
<1>2. n \in D \ {MEM_SIZE} /\ x \in D /\ m < n /\ n < x
  <2>1. n \in D \ {MEM_SIZE}
    BY <1>1
  <2>2. x \in D /\ m + SIZEOF_STRUCT_MEM + MIN_SIZE <= n /\ n + SIZEOF_STRUCT_MEM + MIN_SIZE <= x
    BY <1>1, <2>1
  <2> QED
    BY <1>1, <2>1, <2>2, HeapConstants
<1>3. /\ DOMAIN c = D \ {n}
      /\ \A q \in D \ {n} : c[q].next = IF q = m THEN x ELSE b[q].next
  BY DEF Merges
<1>4. ASSUME NEW p \in D \ {n, MEM_SIZE}
      PROVE  /\ c[p].next \in D \ {n} /\ p + SIZEOF_STRUCT_MEM + MIN_SIZE <= c[p].next
             /\ \A q \in D \ {n} : q <= p \/ c[p].next <= q
  <2>1. CASE p = m
    <3>1. c[p].next = x
      BY <1>3, <2>1
    <3>2. p + SIZEOF_STRUCT_MEM + MIN_SIZE <= n
      BY <1>1, <2>1
    <3>3. p + SIZEOF_STRUCT_MEM + MIN_SIZE <= x
      BY <1>1, <1>2, <3>2, HeapConstants
    <3>4. ASSUME NEW q \in D \ {n} PROVE q <= p \/ x <= q
      <4>1. (q <= p \/ n <= q) /\ (q <= n \/ x <= q) /\ q \in Nat /\ n \in Nat /\ x \in Nat /\ p \in Nat /\ q # n
        BY <1>1, <1>2, <2>1
      <4> HIDE DEF x
      <4> QED
        BY <4>1
    <3>5. x # n
      BY <1>1, <1>2
    <3> QED
      BY <1>2, <3>1, <3>3, <3>4, <3>5
  <2>2. CASE p # m
    <3>1. c[p].next = b[p].next
      BY <1>3, <2>2
    <3>2. b[p].next # n
      <4>1. (m <= p \/ b[p].next <= m) /\ (p <= m \/ n <= p) /\ p + SIZEOF_STRUCT_MEM + MIN_SIZE <= b[p].next
        BY <1>1
      <4>2. p \in Nat /\ m \in Nat /\ n \in Nat /\ b[p].next \in Nat
        BY <1>1, <1>2
      <4> QED
        BY <1>2, <2>2, <4>1, <4>2, HeapConstants
    <3> QED
      BY <1>1, <3>1, <3>2
  <2> QED
    BY <2>1, <2>2
<1>5. c[MEM_SIZE].next = MEM_SIZE /\ c[MEM_SIZE].used = TRUE /\ MEM_SIZE \in D \ {n}
  BY <1>2, <1>3 DEF Chained, Merges
<1>6. 0 \in D \ {n} /\ c[0].prev = 0
  <2>1. 0 \in D /\ b[0].prev = 0
    BY DEF Chained
  <2>2. 0 # n /\ 0 # x
    BY <1>1, <1>2
  <2> QED
    BY <2>1, <2>2 DEF Merges
<1>7. Chained(c)
  <2>1. D \ {n} \subseteq 0..MEM_SIZE /\ \A p \in D \ {n, MEM_SIZE} : Aligned(p)
    BY DEF Chained
  <2>2. c \in [DOMAIN c -> MemStruct]
    BY DEF Merges
  <2> QED
    BY <1>3, <1>4, <1>5, <1>6, <2>1, <2>2 DEF Chained
<1>8. ASSUME NEW p \in D \ {n, 0, MEM_SIZE, x}
      PROVE  c[p].prev \in D \ {n} /\ c[p].prev < p /\ c[c[p].prev].next = p
  <2>1. c[p].prev = b[p].prev
    BY DEF Merges
  <2>2. b[p].prev \in D /\ b[p].prev < p /\ b[b[p].prev].next = p
    BY DEF BackBut
  <2>3. b[p].prev # n /\ b[p].prev # m
    BY <2>2
  <2>4. c[b[p].prev].next = b[b[p].prev].next
    BY <1>3, <2>2, <2>3
  <2> QED
    BY <2>1, <2>2, <2>3, <2>4
<1>9. BackBut(c, x)
  BY <1>3, <1>8 DEF BackBut
<1>10. ASSUME c[x].prev = m PROVE BackBut(c, MEM_SIZE)
  <2>1. m \in D \ {n} /\ m < x /\ c[m].next = x
    BY <1>1, <1>2, <1>3
  <2> QED
    BY <1>3, <1>8, <1>10, <2>1 DEF BackBut
<1> QED
  BY <1>7, <1>9, <1>10

SplitBlk(b, m, p) ==
  LET a == Extended([b EXCEPT ![m].next = p], p, [next |-> b[m].next, prev |-> m, used |-> FALSE])
  IN  IF b[m].next = MEM_SIZE THEN a ELSE [a EXCEPT ![b[m].next].prev = p]

LEMMA SplitShape ==
  ASSUME NEW b, Chained(b), NEW m \in DOMAIN b \ {MEM_SIZE}, NEW p \in 0..MEM_SIZE, p \notin DOMAIN b
  PROVE  Splits(SplitBlk(b, m, p), b, m, p)
<1> DEFINE D == DOMAIN b
           x == b[m].next
           e == [b EXCEPT ![m].next = p]
           j == [b[m] EXCEPT !.next = p]
           new == [next |-> x, prev |-> m, used |-> FALSE]
           a == Extended(e, p, new)
           c == IF x = MEM_SIZE THEN a ELSE [a EXCEPT ![x].prev = p]
<1>1. c = SplitBlk(b, m, p)
  BY DEF SplitBlk
<1>2. /\ \A q \in D : b[q] \in MemStruct
      /\ m \in D /\ x \in D /\ x # m /\ m \in 0..MEM_SIZE /\ x \in 0..MEM_SIZE
  <2>1. \A q \in D : b[q] \in MemStruct
    BY DEF Chained
  <2>2. x \in D /\ x \in Nat /\ m \in Nat /\ m + SIZEOF_STRUCT_MEM + MIN_SIZE <= x
    BY StructsFinite DEF Chained
  <2>3. D \subseteq 0..MEM_SIZE
    BY DEF Chained
  <2> QED
    BY <2>1, <2>2, <2>3, HeapConstants
<1>3. j \in MemStruct /\ j.next = p /\ j.prev = b[m].prev /\ j.used = b[m].used
  <2>1. b[m] \in MemStruct
    BY <1>2
  <2> QED
    BY <2>1 DEF MemStruct
<1>4. new \in MemStruct /\ new.next = x /\ new.prev = m /\ new.used = FALSE
  BY <1>2 DEF MemStruct
<1>5. DOMAIN e = D /\ \A q \in D : e[q] = IF q = m THEN j ELSE b[q]
  BY <1>2 DEF Chained
<1>6. /\ a = [q \in D \cup {p} |-> a[q]] /\ a[p] = new
      /\ \A q \in D : a[q] = IF q = m THEN j ELSE b[q]
  <2> HIDE DEF e, j, new, D
  <2>1. a = [q \in D \cup {p} |-> IF q = p THEN new ELSE e[q]]
    BY <1>5 DEF Extended
  <2> HIDE DEF a
  <2>2. p \notin D
    BY DEF D
  <2> QED
    BY <1>5, <2>1, <2>2
<1>7. a[x] \in MemStruct /\ a[x] = b[x] /\ x # p
  BY <1>2, <1>6
<1>8. p \notin D
  OBVIOUS
<1> HIDE DEF a, D, x, j, new
<1>9. Splits(c, b, m, p)
  <2>1. CASE x = MEM_SIZE
    <3>1. c = a
      BY <2>1
    <3>2. c \in [D \cup {p} -> MemStruct] /\ DOMAIN c = D \cup {p}
      BY <1>2, <1>3, <1>4, <1>6, <3>1
    <3> HIDE DEF c
    <3>3. c[p].next = x /\ c[p].prev = m /\ c[p].used = FALSE
      BY <1>4, <1>6, <3>1
    <3>4. ASSUME NEW q \in D
          PROVE  /\ c[q].used = b[q].used /\ c[q].next = (IF q = m THEN p ELSE b[q].next)
                 /\ c[q].prev = IF q = x /\ q # MEM_SIZE THEN p ELSE b[q].prev
      <4>1. CASE q = m
        BY <1>2, <1>3, <1>6, <2>1, <3>1, <4>1
      <4>2. CASE q # m
        BY <1>6, <2>1, <3>1, <4>2
      <4> QED
        BY <4>1, <4>2
    <3> QED
      BY <3>2, <3>3, <3>4 DEF Splits, D, x
  <2>2. CASE x # MEM_SIZE
    <3> DEFINE k == [a[x] EXCEPT !.prev = p]
    <3>1. k \in MemStruct /\ k.next = b[x].next /\ k.prev = p /\ k.used = b[x].used
      BY <1>7 DEF MemStruct
    <3>2. DOMAIN c = D \cup {p} /\ \A q \in D \cup {p} : c[q] = IF q = x THEN k ELSE a[q]
      BY <1>2, <1>6, <2>2
    <3>3. c \in [D \cup {p} -> MemStruct]
      <4>1. \A q \in D \cup {p} : a[q] \in MemStruct
        BY <1>2, <1>3, <1>4, <1>6
      <4>2. c = [a EXCEPT ![x].prev = p]
        BY <2>2
      <4>3. c = [q \in D \cup {p} |-> c[q]]
        BY <1>6, <4>2
      <4> HIDE DEF c, k
      <4> QED
        BY <3>1, <3>2, <4>1, <4>3
    <3> HIDE DEF c, k
    <3>4. c[p].next = x /\ c[p].prev = m /\ c[p].used = FALSE
      BY <1>4, <1>6, <1>7, <3>2
    <3>5. ASSUME NEW q \in D
          PROVE  /\ c[q].used = b[q].used /\ c[q].next = (IF q = m THEN p ELSE b[q].next)
                 /\ c[q].prev = IF q = x /\ q # MEM_SIZE THEN p ELSE b[q].prev
      <4>1. CASE q = m
        BY <1>2, <1>3, <1>6, <3>2, <4>1
      <4>2. CASE q = x
        BY <1>2, <2>2, <3>1, <3>2, <4>2
      <4>3. CASE q # m /\ q # x
        BY <1>6, <3>2, <4>3
      <4> QED
        BY <4>1, <4>2, <4>3
    <3> QED
      BY <3>3, <3>2, <3>4, <3>5 DEF Splits, D, x
  <2> QED
    BY <2>1, <2>2
<1> QED
  BY <1>1, <1>9

(* The structs stay a chain when one is made behind the first bytes of m.  *)
LEMMA SplitChains ==
  ASSUME NEW b, NEW c, Chained(b), NEW m \in DOMAIN b \ {MEM_SIZE}, BackBut(b, b[m].next),
         NEW p \in Nat, Aligned(p), m + SIZEOF_STRUCT_MEM + MIN_SIZE <= p,
         p + SIZEOF_STRUCT_MEM + MIN_SIZE <= b[m].next, Splits(c, b, m, p)
  PROVE  Chained(c) /\ BackBut(c, MEM_SIZE)
<1> DEFINE D == DOMAIN b
           x == b[m].next
           K == SIZEOF_STRUCT_MEM + MIN_SIZE
<1>0. K \in Nat /\ 0 < K
  BY HeapConstants
<1>1. /\ \A q \in D : q \in Nat /\ q <= MEM_SIZE /\ b[q].next \in D /\ b[q].next \in Nat
      /\ \A q \in D \ {MEM_SIZE} : q + K <= b[q].next
      /\ \A q \in D \ {MEM_SIZE}, r \in D : r <= q \/ b[q].next <= r
      /\ 0 \in D /\ MEM_SIZE \in D /\ D \subseteq 0..MEM_SIZE
  BY StructsFinite, HeapConstants DEF Chained
<1>2. x \in D /\ x \in Nat /\ m \in Nat /\ m < p /\ p < x /\ m + K <= p /\ p + K <= x
  BY <1>0, <1>1, HeapConstants
<1>3. /\ DOMAIN c = D \cup {p} /\ c \in [D \cup {p} -> MemStruct]
      /\ c[p].next = x /\ c[p].prev = m
      /\ \A q \in D : c[q].used = b[q].used /\ c[q].next = IF q = m THEN p ELSE b[q].next
      /\ \A q \in D : c[q].prev = IF q = x /\ q # MEM_SIZE THEN p ELSE b[q].prev
  BY DEF Splits
<1>4. \A q \in D : q <= m \/ x <= q
  BY <1>1
<1>5. p \notin D /\ p # MEM_SIZE /\ p <= MEM_SIZE
  BY <1>1, <1>2, <1>4, HeapConstants
<1>5a. Chained(b) /\ BackBut(b, x)
  OBVIOUS
<1> HIDE DEF D, x, K
<1>6. ASSUME NEW q \in (D \cup {p}) \ {MEM_SIZE}
      PROVE  /\ c[q].next \in D \cup {p} /\ q + K <= c[q].next
             /\ \A r \in D \cup {p} : r <= q \/ c[q].next <= r
  <2>1. CASE q = p
    <3>1. c[q].next = x
      BY <1>3, <2>1
    <3>2. \A r \in D \cup {p} : r <= q \/ x <= r
      BY <1>1, <1>2, <1>4, <2>1
    <3> QED
      BY <1>2, <2>1, <3>1, <3>2
  <2>2. CASE q = m
    <3>1. c[q].next = p
      BY <1>3, <2>2 DEF D
    <3>2. ASSUME NEW r \in D \cup {p} PROVE r <= q \/ p <= r
      <4>1. CASE r = p
        BY <1>2, <4>1
      <4>2. CASE r \in D
        <5>1. r \in Nat /\ (r <= m \/ x <= r)
          BY <1>1, <1>4, <4>2
        <5> QED
          BY <1>2, <2>2, <5>1
      <4> QED
        BY <4>1, <4>2
    <3> QED
      BY <1>2, <2>2, <3>1, <3>2
  <2>3. CASE q \in D /\ q # m
    <3>1. c[q].next = b[q].next /\ b[q].next \in D /\ q + K <= b[q].next /\ q \in Nat /\ b[q].next \in Nat
      BY <1>1, <1>3, <2>3
    <3>2. ASSUME NEW r \in D \cup {p} PROVE r <= q \/ b[q].next <= r
      <4>1. CASE r = p
        <5>1. (q <= m \/ x <= q) /\ (m <= q \/ b[q].next <= m)
          BY <1>1, <1>4, <2>3 DEF D
        <5> QED
          BY <1>2, <2>3, <3>1, <4>1, <5>1
      <4>2. CASE r \in D
        BY <1>1, <2>3, <4>2
      <4> QED
        BY <4>1, <4>2
    <3> QED
      BY <3>1, <3>2
  <2> QED
    BY <2>1, <2>2, <2>3
<1>7. Chained(c)
  <2>1. D \cup {p} \subseteq 0..MEM_SIZE
    BY <1>1, <1>5
  <2>2. \A q \in (D \cup {p}) \ {MEM_SIZE} : Aligned(q)
    BY <1>5a DEF Chained, D
  <2>3. c[MEM_SIZE].next = MEM_SIZE /\ c[MEM_SIZE].used = TRUE
    <3>1. MEM_SIZE \in D /\ MEM_SIZE # m
      BY <1>1
    <3> QED
      BY <1>3, <1>5a, <3>1 DEF Chained
  <2>4. c[0].prev = 0
    <3>1. 0 \in D /\ 0 # x
      BY <1>1, <1>2
    <3> QED
      BY <1>3, <1>5a, <3>1 DEF Chained
  <2>5. \A q \in (D \cup {p}) \ {MEM_SIZE} : q + SIZEOF_STRUCT_MEM + MIN_SIZE <= c[q].next
    <3>1. ASSUME NEW q \in (D \cup {p}) \ {MEM_SIZE} PROVE q + SIZEOF_STRUCT_MEM + MIN_SIZE = q + K
      <4>1. q \in Nat
        BY <1>1
      <4> QED
        BY <4>1, HeapConstants DEF K
    <3> QED
      BY <1>6, <3>1
  <2> QED
    BY <1>1, <1>3, <1>6, <2>1, <2>2, <2>3, <2>4, <2>5 DEF Chained
<1>8. ASSUME NEW q \in (D \cup {p}) \ {0, MEM_SIZE}
      PROVE  c[q].prev \in D \cup {p} /\ c[q].prev < q /\ c[c[q].prev].next = q
  <2>1. m \in D /\ c[m].next = p
    BY <1>3 DEF D
  <2>2. CASE q = p
    BY <1>2, <1>3, <2>1, <2>2
  <2>3. CASE q = x
    <3>1. q \in D /\ q # MEM_SIZE
      BY <1>2, <2>3
    <3>2. c[q].prev = p
      BY <1>3, <2>3, <3>1
    <3> QED
      BY <1>2, <1>3, <2>3, <3>2
  <2>4. CASE q \in D /\ q # x
    <3>1. c[q].prev = b[q].prev
      BY <1>3, <2>4
    <3>2. b[q].prev \in D /\ b[q].prev < q /\ b[b[q].prev].next = q
      BY <1>5a, <2>4 DEF BackBut, D
    <3>3. b[q].prev # m
      BY <2>4, <3>2 DEF x
    <3>4. c[b[q].prev].next = q
      BY <1>3, <3>2, <3>3
    <3> QED
      BY <3>1, <3>2, <3>4
  <2> QED
    BY <2>2, <2>3, <2>4
<1>9. BackBut(c, MEM_SIZE)
  BY <1>3, <1>8 DEF BackBut
<1> QED
  BY <1>7, <1>9

-----------------------------------------------------------------------------
(* The steps of plug_holes. *)
LEMMA JoinKeeps ==
  ASSUME NEW s, Fit(s), NEW m \in DOMAIN s.blk \ {MEM_SIZE}, NEW n, n = s.blk[m].next, n # MEM_SIZE,
         s.blk[m].used = FALSE, s.blk[n].used = FALSE
  PROVE  LET t == Join(s, m, n)
         IN  Fit(t) /\ Merges(t.blk, s.blk, m, n) /\ t.got = s.got /\ t.calls = s.calls
<1> DEFINE b == s.blk
           D == DOMAIN b
           x == b[n].next
           a == Merged(s, m, n)
           c == [a EXCEPT ![x].prev = m]
           l == IF s.lfree = n THEN m ELSE s.lfree
           t == Join(s, m, n)
<1>1. Chained(b) /\ BackBut(b, MEM_SIZE) /\ LowestFree(b, s.lfree) /\ m \in D \ {MEM_SIZE} /\ n = b[m].next
  BY DEF Fit
<1>2. Merges(a, b, m, n)
  BY <1>1, MergeShape
<1>3. /\ t = [f \in HeapFields |-> t[f]]
      /\ t.blk = c /\ t.lfree = l /\ t.got = s.got /\ t.calls = s.calls
  <2>1. s = [f \in HeapFields |-> s[f]]
    BY DEF Fit
  <2>2. t = [s EXCEPT !.lfree = l, !.blk = c]
    BY DEF Join
  <2> HIDE DEF c, l, t
  <2> QED
    BY <2>1, <2>2 DEF HeapFields
<1>4. /\ \A p \in D : p \in Nat /\ b[p].next \in D
      /\ n \in D /\ x \in D /\ m < n /\ n < x /\ x \in D \ {n} /\ x # m
  <2>1. \A p \in D : p \in Nat /\ b[p].next \in D
    BY <1>1, StructsFinite
  <2>2. n \in D \ {MEM_SIZE}
    BY <1>1, <2>1
  <2>3. m + SIZEOF_STRUCT_MEM + MIN_SIZE <= n /\ n + SIZEOF_STRUCT_MEM + MIN_SIZE <= x
    BY <1>1, <2>2 DEF Chained
  <2>4. m \in Nat /\ n \in Nat /\ x \in Nat /\ x \in D
    BY <1>1, <2>1, <2>2
  <2>5. m < n /\ n < x
    <3> HIDE DEF x, b, D
    <3> QED
      BY <2>3, <2>4, HeapConstants
  <2>6. x # n /\ x # m
    <3> HIDE DEF x, b, D
    <3> QED
      BY <2>4, <2>5
  <2> QED
    BY <2>1, <2>2, <2>4, <2>5, <2>6
<1>5. Merges(c, b, m, n) /\ c[x].prev = m
  <2>1. a \in [D \ {n} -> MemStruct] /\ DOMAIN a = D \ {n} /\ x \in DOMAIN a
    BY <1>2, <1>4 DEF Merges
  <2>2. m \in 0..MEM_SIZE
    BY <1>1 DEF Chained
  <2> DEFINE k == [a[x] EXCEPT !.prev = m]
  <2> HIDE DEF a, b, x, D
  <2>3. k \in MemStruct /\ k.next = a[x].next /\ k.used = a[x].used /\ k.prev = m
    <3>1. a[x] \in MemStruct
      BY <2>1
    <3> QED
      BY <2>2, <3>1 DEF MemStruct
  <2>4. c \in [D \ {n} -> MemStruct] /\ DOMAIN c = D \ {n} /\ \A q \in D \ {n} : c[q] = IF q = x THEN k ELSE a[q]
    BY <2>1, <2>3
  <2> HIDE DEF c, k
  <2>5. \A q \in D \ {n} : c[q].next = a[q].next /\ c[q].used = a[q].used /\ (q # x => c[q].prev = a[q].prev)
    BY <2>3, <2>4
  <2>6. c[x].prev = m
    BY <2>1, <2>3, <2>4
  <2> QED
    BY <1>2, <2>4, <2>5, <2>6 DEF Merges, D, x
<1>6. Chained(c) /\ BackBut(c, MEM_SIZE)
  <2> HIDE DEF c, b
  <2> QED
    BY <1>1, <1>5, MergeChains
<1>7. LowestFree(c, l)
  <2>1. /\ DOMAIN c = D \ {n} /\ \A q \in D \ {n} : c[q].used = b[q].used
        /\ m \in D /\ b[m].used = FALSE /\ b[n].used = FALSE
    BY <1>1, <1>5 DEF Merges
  <2>2. /\ s.lfree \in D /\ (s.lfree = MEM_SIZE \/ b[s.lfree].used = FALSE)
        /\ \A p \in D : b[p].used = FALSE => s.lfree <= p
    BY <1>1 DEF LowestFree
  <2>3. s.lfree <= m
    BY <2>1, <2>2
  <2>4. s.lfree # n
    <3> HIDE DEF b, c, D
    <3>1. s.lfree \in Nat /\ m \in Nat /\ n \in Nat /\ m < n
      BY <1>4, <2>1, <2>2
    <3> QED
      BY <2>3, <3>1
  <2> HIDE DEF c, b
  <2> QED
    BY <2>1, <2>2, <2>4 DEF LowestFree
<1> HIDE DEF c, t, b
<1>8. Fit(t) /\ Merges(t.blk, b, m, n)
  BY <1>3, <1>5, <1>6, <1>7 DEF Fit
<1> QED
  BY <1>3, <1>8 DEF t, b

(* The struct before p in the list is the one prev has.                    *)
LEMMA OneBefore ==
  ASSUME NEW b, Chained(b), NEW p \in DOMAIN b \ {MEM_SIZE}, NEW q \in DOMAIN b \ {MEM_SIZE}, b[p].next = b[q].next
  PROVE  p = q
<1>1. /\ p \in Nat /\ q \in Nat /\ b[p].next \in Nat
      /\ p + SIZEOF_STRUCT_MEM + MIN_SIZE <= b[p].next /\ (q <= p \/ b[p].next <= q)
      /\ q + SIZEOF_STRUCT_MEM + MIN_SIZE <= b[q].next /\ (p <= q \/ b[q].next <= p)
  BY StructsFinite DEF Chained
<1> QED
  BY <1>1, HeapConstants

(* What freeing m leaves of the used structs. *)
Releases(b, c, m) ==
  /\ \A q \in DOMAIN b \ {m} : b[q].used = TRUE => q \in DOMAIN c /\ c[q].used = TRUE /\ c[q].next = b[q].next
  /\ \A q \in DOMAIN c : c[q].used = TRUE => q \in DOMAIN b \ {m} /\ b[q].used = TRUE

(* No free struct is followed by a free one, but around m. *)
PluggedBut(b, m) ==
  \A p \in DOMAIN b \ {MEM_SIZE, m} : b[p].used = FALSE /\ b[p].next # m => b[b[p].next].used = TRUE

LEMMA PlugForward ==
  ASSUME NEW s, Fit(s), NEW m \in DOMAIN s.blk \ {MEM_SIZE}, s.blk[m].used = FALSE, PluggedBut(s.blk, m)
  PROVE  LET t == plug_forward(s, m)
         IN  /\ Fit(t) /\ t.got = s.got /\ t.calls = s.calls
             /\ m \in DOMAIN t.blk /\ t.blk[m].used = FALSE /\ t.blk[t.blk[m].next].used = TRUE
             /\ PluggedBut(t.blk, m) /\ Releases(s.blk, t.blk, m)
<1> DEFINE b == s.blk
           n == b[m].next
           t == plug_forward(s, m)
           c == t.blk
<1>1. Chained(b)
  BY DEF Fit
<1>2. n # m /\ n \in DOMAIN b /\ m \in Nat /\ n \in Nat /\ m < n
  <2>1. m + SIZEOF_STRUCT_MEM + MIN_SIZE <= n /\ m \in Nat /\ n \in Nat /\ n \in DOMAIN b
    BY <1>1, StructsFinite DEF Chained
  <2> QED
    BY <2>1, HeapConstants
<1>3. CASE b[n].used = FALSE /\ n # MEM_SIZE
  <2>1. t = Join(s, m, n)
    BY <1>2, <1>3 DEF plug_forward
  <2> DEFINE u == Join(s, m, n)
  <2>2. Fit(u) /\ Merges(u.blk, b, m, n) /\ u.got = s.got /\ u.calls = s.calls
    BY <1>3, JoinKeeps
  <2> HIDE DEF t, u
  <2>2a. Fit(t) /\ Merges(c, b, m, n) /\ t.got = s.got /\ t.calls = s.calls
    BY <2>1, <2>2 DEF u
  <2> DEFINE x == b[n].next
  <2>3. x \in DOMAIN b /\ n + SIZEOF_STRUCT_MEM + MIN_SIZE <= x /\ x \in Nat
    BY <1>1, <1>2, <1>3, StructsFinite DEF Chained
  <2>4. x # m /\ x # n
    BY <1>2, <2>3, HeapConstants
  <2>5. b[x].used = TRUE
    BY <1>2, <1>3, <2>4 DEF PluggedBut
  <2>6. /\ DOMAIN c = DOMAIN b \ {n} /\ m \in DOMAIN c
        /\ \A q \in DOMAIN c : c[q].used = b[q].used /\ c[q].next = IF q = m THEN x ELSE b[q].next
    BY <1>2, <2>2a DEF Merges
  <2> HIDE DEF c, b, x
  <2>7. x \in DOMAIN c /\ c[m].next = x /\ c[x].used = TRUE
    BY <2>3, <2>4, <2>5, <2>6
  <2>8. PluggedBut(c, m)
    <3>1. ASSUME NEW p \in DOMAIN c \ {MEM_SIZE, m}, c[p].used = FALSE, c[p].next # m
          PROVE  c[c[p].next].used = TRUE
      <4>1. p \in DOMAIN b \ {MEM_SIZE, m} /\ b[p].used = FALSE /\ b[p].next # m /\ c[p].next = b[p].next
        BY <2>6, <3>1
      <4>2. b[b[p].next].used = TRUE
        BY <4>1 DEF PluggedBut, b
      <4>3. b[p].next # n
        BY <1>3, <4>2
      <4>4. b[p].next \in DOMAIN b
        BY <1>1, <4>1, StructsFinite
      <4> QED
        BY <2>6, <4>1, <4>2, <4>3, <4>4
    <3> QED
      BY <3>1 DEF PluggedBut
  <2>9. Releases(b, c, m)
    <3>1. b[m].used = FALSE /\ m \in DOMAIN b
      BY DEF b
    <3> QED
      BY <1>3, <2>6, <3>1 DEF Releases
  <2> QED
    BY <2>2a, <2>6, <2>7, <2>8, <2>9, <1>2 DEF c, t, b
<1>4. CASE ~(b[n].used = FALSE /\ n # MEM_SIZE)
  <2>1. b[n].used \in BOOLEAN /\ b[MEM_SIZE].used = TRUE
    BY <1>1, <1>2, StructsFinite DEF Chained
  <2>2. b[n].used = TRUE
    BY <1>4, <2>1
  <2>3. t = s
    BY <2>2 DEF plug_forward
  <2>4. Releases(b, b, m)
    BY DEF Releases
  <2> QED
    BY <2>2, <2>3, <2>4
<1> QED
  BY <1>3, <1>4

LEMMA PlugBackward ==
  ASSUME NEW s, Fit(s), NEW m \in DOMAIN s.blk \ {MEM_SIZE}, s.blk[m].used = FALSE,
         s.blk[s.blk[m].next].used = TRUE, PluggedBut(s.blk, m)
  PROVE  LET p == s.blk[m].prev
             t == IF p # m /\ ~s.blk[p].used THEN Join(s, p, m) ELSE s
         IN  /\ Fit(t) /\ t.got = s.got /\ t.calls = s.calls
             /\ Plugged(t.blk) /\ Releases(s.blk, t.blk, m)
<1> DEFINE b == s.blk
           p == b[m].prev
           x == b[m].next
           t == IF p # m /\ ~b[p].used THEN Join(s, p, m) ELSE s
           c == t.blk
<1>1. Chained(b) /\ BackBut(b, MEM_SIZE)
  BY DEF Fit
<1>2. (m = 0 /\ p = 0) \/ (m # 0 /\ p \in DOMAIN b /\ p < m /\ b[p].next = m)
  BY <1>1 DEF Chained, BackBut
<1>3. m \in Nat /\ x \in Nat /\ x \in DOMAIN b /\ m < x
  <2>1. m + SIZEOF_STRUCT_MEM + MIN_SIZE <= x /\ m \in Nat /\ x \in Nat /\ x \in DOMAIN b
    BY <1>1, StructsFinite DEF Chained
  <2> QED
    BY <2>1, HeapConstants
<1>4. p \in DOMAIN b /\ b[p].used \in BOOLEAN /\ p \in Nat
  <2>1. p \in DOMAIN b
    BY <1>2
  <2> QED
    BY <1>1, <2>1, StructsFinite
<1>5. CASE p # m /\ b[p].used = FALSE
  <2>1. t = Join(s, p, m)
    BY <1>5
  <2> DEFINE u == Join(s, p, m)
  <2>2. p \in DOMAIN b \ {MEM_SIZE} /\ b[p].next = m /\ m # MEM_SIZE /\ p < m
    BY <1>1, <1>2, <1>3, <1>4, <1>5, StructsFinite, HeapConstants
  <2>3. Fit(u) /\ Merges(u.blk, b, p, m) /\ u.got = s.got /\ u.calls = s.calls
    BY <1>5, <2>2, JoinKeeps
  <2> HIDE DEF u, t
  <2>4. Fit(t) /\ Merges(c, b, p, m) /\ t.got = s.got /\ t.calls = s.calls
    BY <2>1, <2>3 DEF u
  <2>5. /\ DOMAIN c = DOMAIN b \ {m} /\ p \in DOMAIN c
        /\ \A q \in DOMAIN c : c[q].used = b[q].used /\ c[q].next = IF q = p THEN x ELSE b[q].next
    BY <1>5, <2>2, <2>4 DEF Merges
  <2>6. b[x].used = TRUE /\ x # m /\ PluggedBut(b, m) /\ b[m].used = FALSE /\ m \in DOMAIN b
    BY <1>3
  <2> HIDE DEF c, b, x, p
  <2>7. Plugged(c)
    <3>1. ASSUME NEW q \in DOMAIN c \ {MEM_SIZE}, c[q].used = FALSE PROVE c[c[q].next].used = TRUE
      <4>1. CASE q = p
        BY <1>3, <2>5, <2>6, <4>1
      <4>2. CASE q # p
        <5>1. q \in DOMAIN b \ {MEM_SIZE, m} /\ b[q].used = FALSE /\ c[q].next = b[q].next
          BY <2>5, <3>1, <4>2
        <5>2. b[q].next # m
          BY <1>1, <2>2, <4>2, <5>1, OneBefore
        <5>3. b[b[q].next].used = TRUE
          BY <2>6, <5>1, <5>2 DEF PluggedBut
        <5>4. b[q].next \in DOMAIN b
          BY <1>1, <5>1, StructsFinite
        <5> QED
          BY <2>5, <5>1, <5>2, <5>3, <5>4
      <4> QED
        BY <4>1, <4>2
    <3> QED
      BY <3>1 DEF Plugged
  <2>8. Releases(b, c, m)
    BY <1>5, <2>5, <2>6 DEF Releases
  <2> QED
    BY <2>4, <2>7, <2>8 DEF c, b, t, p
<1>6. CASE ~(p # m /\ b[p].used = FALSE)
  <2>1. t = s
    BY <1>4, <1>6
  <2>2. Plugged(b)
    <3>1. ASSUME NEW q \in DOMAIN b \ {MEM_SIZE}, b[q].used = FALSE PROVE b[b[q].next].used = TRUE
      <4>1. CASE q = m
        BY <4>1
      <4>2. CASE b[q].next = m
        <5>1. q + SIZEOF_STRUCT_MEM + MIN_SIZE <= m /\ q \in Nat
          BY <1>1, <4>2, StructsFinite DEF Chained
        <5>2. m # 0
          BY <1>3, <5>1, HeapConstants
        <5>3. p \in DOMAIN b \ {MEM_SIZE} /\ b[p].next = m /\ p # m
          BY <1>1, <1>2, <1>3, <1>4, <5>2, StructsFinite, HeapConstants
        <5>4. q = p
          BY <1>1, <4>2, <5>3, OneBefore
        <5> QED
          BY <1>4, <1>6, <3>1, <5>3, <5>4
      <4>3. CASE q # m /\ b[q].next # m
        BY <3>1, <4>3 DEF PluggedBut
      <4> QED
        BY <4>1, <4>2, <4>3
    <3> QED
      BY <3>1 DEF Plugged
  <2>3. Releases(b, b, m)
    BY DEF Releases
  <2> QED
    BY <2>1, <2>2, <2>3
<1> QED
  BY <1>5, <1>6

LEMMA PlugHoles ==
  ASSUME NEW s, Fit(s), NEW m \in DOMAIN s.blk \ {MEM_SIZE}, s.blk[m].used = FALSE, PluggedBut(s.blk, m)
  PROVE  LET t == plug_holes(s, m)
         IN  Fit(t) /\ Plugged(t.blk) /\ t.got = s.got /\ t.calls = s.calls /\ Releases(s.blk, t.blk, m)
<1> DEFINE s1 == plug_forward(s, m)
           p == s1.blk[m].prev
           t == IF p # m /\ ~s1.blk[p].used THEN Join(s1, p, m) ELSE s1
<1>0. /\ Fit(s1) /\ s1.got = s.got /\ s1.calls = s.calls
      /\ m \in DOMAIN s1.blk /\ s1.blk[m].used = FALSE /\ s1.blk[s1.blk[m].next].used = TRUE
      /\ PluggedBut(s1.blk, m) /\ Releases(s.blk, s1.blk, m)
  BY PlugForward
<1>1. m \in DOMAIN s1.blk \ {MEM_SIZE}
  BY <1>0
<1>2. plug_holes(s, m) = t
  BY DEF plug_holes
<1> HIDE DEF s1
<1>3. Fit(t) /\ t.got = s1.got /\ t.calls = s1.calls /\ Plugged(t.blk) /\ Releases(s1.blk, t.blk, m)
  BY <1>0, <1>1, PlugBackward
<1> HIDE DEF t
<1>4. Releases(s.blk, t.blk, m)
  BY <1>0, <1>3 DEF Releases
<1> QED
  BY <1>0, <1>2, <1>3, <1>4

(* mem_free: the block is free, and the others are as they were.           *)
LEMMA MemFreeKeeps ==
  ASSUME NEW s, HeapKept(s), NEW r \in DOMAIN s.got
  PROVE  LET t == mem_free(s, r)
         IN  /\ Fit(t) /\ Plugged(t.blk) /\ t.got = s.got /\ t.calls = s.calls
             /\ Releases(s.blk, t.blk, r - SIZEOF_STRUCT_MEM)
<1> DEFINE m == r - SIZEOF_STRUCT_MEM
           b == s.blk
           c == [b EXCEPT ![m].used = FALSE]
           l == IF m < s.lfree THEN m ELSE s.lfree
           s1 == [s EXCEPT !.blk[m].used = FALSE, !.lfree = IF m < @ THEN m ELSE @]
<1>1. r \in Int /\ m \in DOMAIN b \ {MEM_SIZE} /\ b[m].used = TRUE
  BY DEF HeapKept, Owned
<1>2. Chained(b) /\ BackBut(b, MEM_SIZE) /\ LowestFree(b, s.lfree) /\ Plugged(b) /\ s = [f \in HeapFields |-> s[f]]
  BY DEF HeapKept, Fit
<1>3. ~(r < 0 \/ r >= MEM_SIZE)
  <2>1. m \in Nat /\ b[m].next \in Nat /\ b[m].next <= MEM_SIZE /\ m + SIZEOF_STRUCT_MEM + MIN_SIZE <= b[m].next
    BY <1>1, <1>2, StructsFinite DEF Chained
  <2>2. r = m + SIZEOF_STRUCT_MEM
    BY <1>1, HeapConstants
  <2> HIDE DEF m, b
  <2> QED
    BY <2>1, <2>2, HeapConstants
<1>4. mem_free(s, r) = plug_holes(s1, m)
  BY <1>3 DEF mem_free
<1>5. s1 = [f \in HeapFields |-> s1[f]] /\ s1.blk = c /\ s1.lfree = l /\ s1.got = s.got /\ s1.calls = s.calls
  <2>1. s1 = [s EXCEPT !.blk = c, !.lfree = l]
    BY <1>2 DEF HeapFields
  <2> HIDE DEF s1, c, l
  <2> QED
    BY <1>2, <2>1 DEF HeapFields
<1>6. Marks(c, b, m, FALSE)
  <2>1. m \in DOMAIN b /\ FALSE \in BOOLEAN
    BY <1>1
  <2> HIDE DEF m, b
  <2> QED
    BY <1>2, <2>1, MarkShape
<1> HIDE DEF c, s1, b, m
<1>7. Chained(c) /\ BackBut(c, MEM_SIZE)
  BY <1>1, <1>2, <1>6, MarkKeeps
<1>8. /\ DOMAIN c = DOMAIN b /\ \A q \in DOMAIN b : c[q].next = b[q].next
      /\ \A q \in DOMAIN b : c[q].used = IF q = m THEN FALSE ELSE b[q].used
  BY <1>6 DEF Marks
<1>9. LowestFree(c, l)
  <2>1. \A q \in DOMAIN b : q \in Nat
    BY <1>2, StructsFinite
  <2>2. s.lfree \in DOMAIN b /\ m \in DOMAIN b
    BY <1>1, <1>2 DEF LowestFree
  <2>3. l \in DOMAIN b /\ l <= m /\ l <= s.lfree /\ (l = m \/ l = s.lfree)
    BY <2>1, <2>2
  <2>4. \A q \in DOMAIN c : c[q].used = FALSE => l <= q
    <3>1. ASSUME NEW q \in DOMAIN c, c[q].used = FALSE PROVE l <= q
      <4>1. CASE q = m
        BY <2>3, <4>1
      <4>2. CASE q # m
        <5>1. b[q].used = FALSE /\ q \in DOMAIN b
          BY <1>8, <3>1, <4>2
        <5>2. s.lfree <= q
          BY <1>2, <5>1 DEF LowestFree
        <5> HIDE DEF l
        <5> QED
          BY <2>1, <2>2, <2>3, <5>1, <5>2
      <4> QED
        BY <4>1, <4>2
    <3> QED
      BY <3>1
  <2>5. l = MEM_SIZE \/ c[l].used = FALSE
    <3>1. CASE l = m
      BY <1>8, <2>2, <3>1
    <3>2. CASE l = s.lfree
      BY <1>2, <1>8, <2>3, <3>2 DEF LowestFree
    <3> QED
      BY <2>3, <3>1, <3>2
  <2> HIDE DEF l
  <2> QED
    BY <1>8, <2>3, <2>4, <2>5 DEF LowestFree
<1>10. Fit(s1) /\ m \in DOMAIN s1.blk \ {MEM_SIZE} /\ s1.blk[m].used = FALSE
  BY <1>1, <1>5, <1>7, <1>8, <1>9 DEF Fit
<1>11. PluggedBut(s1.blk, m)
  <2>1. \A q \in DOMAIN b : b[q].next \in DOMAIN b
    BY <1>2, StructsFinite
  <2> QED
    BY <1>2, <1>5, <1>8, <2>1 DEF Plugged, PluggedBut
<1> DEFINE t == plug_holes(s1, m)
<1>12. Fit(t) /\ Plugged(t.blk) /\ t.got = s1.got /\ t.calls = s1.calls /\ Releases(s1.blk, t.blk, m)
  BY <1>10, <1>11, PlugHoles
<1> HIDE DEF t
<1>13. Releases(b, t.blk, m)
  BY <1>5, <1>8, <1>12 DEF Releases
<1> QED
  BY <1>4, <1>5, <1>12, <1>13 DEF t, m, b

-----------------------------------------------------------------------------
(* mem_malloc. *)
LEMMA SplitKeeps ==
  ASSUME NEW b, Chained(b), NEW m \in DOMAIN b \ {MEM_SIZE}, BackBut(b, b[m].next),
         NEW size \in Nat, MIN_SIZE <= size, Aligned(size),
         NEW p, p = m + SIZEOF_STRUCT_MEM + size, p + SIZEOF_STRUCT_MEM + MIN_SIZE <= b[m].next
  PROVE  LET c == SplitBlk(b, m, p)
         IN  Splits(c, b, m, p) /\ Chained(c) /\ BackBut(c, MEM_SIZE) /\ p \in Nat /\ m < p
<1> DEFINE x == b[m].next
           c == SplitBlk(b, m, p)
<1>1. m \in Nat /\ x \in Nat /\ x <= MEM_SIZE /\ x \in DOMAIN b
  BY StructsFinite
<1>2. p \in Nat /\ m < p /\ p < x /\ m + SIZEOF_STRUCT_MEM + MIN_SIZE <= p
  BY <1>1, HeapConstants
<1>3. p \in 0..MEM_SIZE
  BY <1>1, <1>2, HeapConstants
<1>4. p \notin DOMAIN b
  <2>1. \A q \in DOMAIN b : q <= m \/ x <= q
    BY DEF Chained
  <2> QED
    BY <1>1, <1>2, <2>1
<1>5. Aligned(p)
  <2>1. Aligned(m)
    BY DEF Chained
  <2>2. Aligned(m + SIZEOF_STRUCT_MEM)
    BY <1>1, <2>1, AlignedConstants, AlignedSum, HeapConstants
  <2>3. m + SIZEOF_STRUCT_MEM \in Int
    BY <1>1, HeapConstants
  <2> QED
    BY <2>2, <2>3, AlignedSum
<1>6. Splits(c, b, m, p)
  BY <1>3, <1>4, SplitShape
<1> HIDE DEF c
<1>7. Chained(c) /\ BackBut(c, MEM_SIZE)
  BY <1>2, <1>5, <1>6, SplitChains
<1> QED
  BY <1>2, <1>6, <1>7 DEF c

LEMMA BackAnywhere ==
  ASSUME NEW b, NEW x, BackBut(b, MEM_SIZE)
  PROVE  BackBut(b, x)
BY DEF BackBut

LEMMA SplitIs ==
  ASSUME NEW s, NEW m, NEW size
  PROVE  Split(s, m, size) = [s EXCEPT !.blk = SplitBlk(s.blk, m, m + SIZEOF_STRUCT_MEM + size)]
BY DEF Split, SplitBlk

(* The structs where a block may be given. *)
Fits(b, l, size) ==
  {p \in DOMAIN b : l <= p /\ p < MEM_SIZE - size /\ b[p].used = FALSE /\ size <= b[p].next - (p + SIZEOF_STRUCT_MEM)}
MallocAt(s, m, size) ==
  LET s1   == IF Room(s, m) >= size + SIZEOF_STRUCT_MEM + MIN_SIZE THEN Split(s, m, size) ELSE s
      s2   == [s1 EXCEPT !.blk[m].used = TRUE]
      free == {p \in ListFrom(s2, s2.lfree) : ~s2.blk[p].used \/ p = MEM_SIZE}
  IN  IF m = s.lfree THEN [s2 EXCEPT !.lfree = Min(free)] ELSE s2

LEMMA MallocIs ==
  ASSUME NEW s, Fit(s), NEW asked \in Nat, NEW size \in Nat, size = BlockSize(asked)
  PROVE  LET F == Fits(s.blk, s.lfree, size)
         IN  mem_malloc(s, asked) = IF asked = 0 \/ size > MEM_SIZE \/ F = {} THEN [s |-> s, r |-> NullMem]
                                    ELSE [s |-> MallocAt(s, Min(F), size), r |-> Min(F) + SIZEOF_STRUCT_MEM]
<1> DEFINE F == Fits(s.blk, s.lfree, size)
           G == {p \in ListFrom(s, s.lfree) : p < MEM_SIZE - size /\ ~s.blk[p].used /\ Room(s, p) >= size}
<1>1. Chained(s.blk) /\ s.lfree \in DOMAIN s.blk
  BY DEF Fit, LowestFree
<1>2. ListFrom(s, s.lfree) = {q \in DOMAIN s.blk : s.lfree <= q}
  BY <1>1, WalkMeets
<1>3. \A p \in DOMAIN s.blk : s.blk[p].used \in BOOLEAN /\ s.blk[p].next \in Nat /\ p \in Nat
  BY <1>1, StructsFinite
<1>4. G = F
  <2>1. \A p \in DOMAIN s.blk : (~s.blk[p].used) <=> (s.blk[p].used = FALSE)
    BY <1>3
  <2>2. \A p \in DOMAIN s.blk : (Room(s, p) >= size) <=> (size <= s.blk[p].next - (p + SIZEOF_STRUCT_MEM))
    BY <1>3, HeapConstants DEF Room
  <2> QED
    BY <1>2, <2>1, <2>2 DEF Fits
<1>5. mem_malloc(s, asked) = IF asked = 0 \/ size > MEM_SIZE \/ G = {} THEN [s |-> s, r |-> NullMem]
                             ELSE [s |-> MallocAt(s, Min(G), size), r |-> Min(G) + SIZEOF_STRUCT_MEM]
  BY DEF mem_malloc, MallocAt
<1> HIDE DEF F, G
<1> QED
  BY <1>4, <1>5 DEF F

(* What giving m out does to the used structs. *)
Grants(b, c, m) ==
  /\ m \in DOMAIN b \ {MEM_SIZE} /\ b[m].used = FALSE /\ m \in DOMAIN c /\ c[m].used = TRUE
  /\ \A q \in DOMAIN b : b[q].used = TRUE => q \in DOMAIN c /\ c[q].used = TRUE /\ c[q].next = b[q].next
  /\ \A q \in DOMAIN c \ {m} : c[q].used = TRUE => q \in DOMAIN b /\ b[q].used = TRUE

(* m is given whole, or what is behind the block becomes a free struct. *)
LEMMA CutKeeps ==
  ASSUME NEW s, Fit(s), Plugged(s.blk), NEW size \in Nat, MIN_SIZE <= size, Aligned(size),
         NEW m \in DOMAIN s.blk \ {MEM_SIZE}, s.blk[m].used = FALSE, size <= s.blk[m].next - (m + SIZEOF_STRUCT_MEM)
  PROVE  LET t == IF Room(s, m) >= size + SIZEOF_STRUCT_MEM + MIN_SIZE THEN Split(s, m, size) ELSE s
             c == t.blk
         IN  /\ t = [f \in HeapFields |-> t[f]] /\ t.lfree = s.lfree /\ t.got = s.got /\ t.calls = s.calls
             /\ Chained(c) /\ BackBut(c, MEM_SIZE)
             /\ DOMAIN s.blk \subseteq DOMAIN c /\ m + SIZEOF_STRUCT_MEM + size <= c[m].next
             /\ \A q \in DOMAIN s.blk : c[q].used = s.blk[q].used /\ (q # m => c[q].next = s.blk[q].next)
             /\ \A q \in DOMAIN c \ DOMAIN s.blk : m < q /\ c[q].used = FALSE /\ c[q].next = s.blk[m].next
<1> DEFINE b == s.blk
           x == b[m].next
           p == m + SIZEOF_STRUCT_MEM + size
           t == IF Room(s, m) >= size + SIZEOF_STRUCT_MEM + MIN_SIZE THEN Split(s, m, size) ELSE s
           c == t.blk
<1>1. Chained(b) /\ BackBut(b, MEM_SIZE) /\ s = [f \in HeapFields |-> s[f]]
  BY DEF Fit
<1>2. m \in Nat /\ x \in Nat /\ x \in DOMAIN b /\ p \in Nat
  BY <1>1, StructsFinite, HeapConstants
<1>3. CASE Room(s, m) >= size + SIZEOF_STRUCT_MEM + MIN_SIZE
  <2>1. t = [s EXCEPT !.blk = SplitBlk(b, m, p)]
    BY <1>3, SplitIs
  <2>2. p + SIZEOF_STRUCT_MEM + MIN_SIZE <= x
    BY <1>2, <1>3, HeapConstants DEF Room
  <2> DEFINE d == SplitBlk(b, m, p)
  <2>3. Splits(d, b, m, p) /\ Chained(d) /\ BackBut(d, MEM_SIZE) /\ m < p
    <3>1. BackBut(b, x)
      BY <1>1, BackAnywhere
    <3> HIDE DEF d
    <3> QED
      BY <1>1, <2>2, <3>1, SplitKeeps DEF d
  <2>4. t = [f \in HeapFields |-> t[f]] /\ t.blk = d /\ t.lfree = s.lfree /\ t.got = s.got /\ t.calls = s.calls
    <3> HIDE DEF d, t
    <3> QED
      BY <1>1, <2>1 DEF HeapFields, d
  <2> HIDE DEF d, t, b, p
  <2>5. /\ DOMAIN d = DOMAIN b \cup {p} /\ m \in DOMAIN b
        /\ d[p].next = x /\ d[p].used = FALSE
        /\ \A q \in DOMAIN b : d[q].used = b[q].used /\ d[q].next = IF q = m THEN p ELSE b[q].next
    BY <2>3 DEF Splits, b
  <2>6. m + SIZEOF_STRUCT_MEM + size <= d[m].next
    <3>1. d[m].next = p /\ p = m + SIZEOF_STRUCT_MEM + size
      BY <2>5 DEF p
    <3> QED
      BY <1>2, <3>1
  <2> QED
    BY <2>3, <2>4, <2>5, <2>6 DEF t, b
<1>4. CASE ~(Room(s, m) >= size + SIZEOF_STRUCT_MEM + MIN_SIZE)
  <2>1. t = s
    BY <1>4
  <2>2. m + SIZEOF_STRUCT_MEM + size <= x
    BY <1>2, HeapConstants
  <2> QED
    BY <1>1, <2>1, <2>2
<1> QED
  BY <1>3, <1>4

LEMMA MallocAtKeeps ==
  ASSUME NEW s, HeapKept(s), NEW size \in Nat, MIN_SIZE <= size, Aligned(size),
         NEW m \in DOMAIN s.blk \ {MEM_SIZE}, s.lfree <= m, s.blk[m].used = FALSE,
         size <= s.blk[m].next - (m + SIZEOF_STRUCT_MEM)
  PROVE  LET t == MallocAt(s, m, size)
         IN  /\ Fit(t) /\ Plugged(t.blk) /\ t.got = s.got /\ t.calls = s.calls
             /\ Grants(s.blk, t.blk, m) /\ m + SIZEOF_STRUCT_MEM + size <= t.blk[m].next
<1> DEFINE b == s.blk
           s1 == IF Room(s, m) >= size + SIZEOF_STRUCT_MEM + MIN_SIZE THEN Split(s, m, size) ELSE s
           d == s1.blk
           c == [d EXCEPT ![m].used = TRUE]
           s2 == [s1 EXCEPT !.blk[m].used = TRUE]
           free == {p \in ListFrom(s2, s2.lfree) : ~s2.blk[p].used \/ p = MEM_SIZE}
           l == IF m = s.lfree THEN Min(free) ELSE s.lfree
           t == IF m = s.lfree THEN [s2 EXCEPT !.lfree = Min(free)] ELSE s2
<1>1. /\ Fit(s) /\ Chained(b) /\ LowestFree(b, s.lfree) /\ Plugged(b)
      /\ m \in DOMAIN b \ {MEM_SIZE} /\ b[m].used = FALSE /\ s.lfree <= m
  BY DEF HeapKept, Fit
<1>2. /\ s1 = [f \in HeapFields |-> s1[f]] /\ s1.lfree = s.lfree /\ s1.got = s.got /\ s1.calls = s.calls
      /\ Chained(d) /\ BackBut(d, MEM_SIZE)
      /\ DOMAIN b \subseteq DOMAIN d /\ m + SIZEOF_STRUCT_MEM + size <= d[m].next
      /\ \A q \in DOMAIN b : d[q].used = b[q].used /\ (q # m => d[q].next = b[q].next)
      /\ \A q \in DOMAIN d \ DOMAIN b : m < q /\ d[q].used = FALSE /\ d[q].next = b[m].next
  BY <1>1, CutKeeps
<1>3. MallocAt(s, m, size) = t
  BY DEF MallocAt
<1> HIDE DEF s1
<1>4. /\ s2 = [f \in HeapFields |-> s2[f]] /\ s2.blk = c /\ s2.lfree = s.lfree /\ s2.got = s.got /\ s2.calls = s.calls
  <2>1. s2 = [s1 EXCEPT !.blk = c]
    BY <1>2 DEF HeapFields
  <2> HIDE DEF s2, c, d
  <2> QED
    BY <1>2, <2>1 DEF HeapFields
<1>5. Marks(c, d, m, TRUE) /\ m \in DOMAIN d
  <2>1. m \in DOMAIN d /\ TRUE \in BOOLEAN
    BY <1>1, <1>2
  <2> HIDE DEF d
  <2> QED
    BY <1>2, <2>1, MarkShape
<1> HIDE DEF c, d, b, s2
<1>6. Chained(c) /\ BackBut(c, MEM_SIZE)
  BY <1>1, <1>2, <1>5, MarkKeeps
<1>7. /\ DOMAIN c = DOMAIN d
      /\ \A q \in DOMAIN d : c[q].next = d[q].next /\ c[q].used = IF q = m THEN TRUE ELSE d[q].used
  BY <1>5 DEF Marks
<1>8. \A q \in DOMAIN b : q \in Nat /\ b[q].next \in DOMAIN b
  BY <1>1, StructsFinite
<1>9. Plugged(c)
  <2>1. ASSUME NEW q \in DOMAIN c \ {MEM_SIZE}, c[q].used = FALSE PROVE c[c[q].next].used = TRUE
    <3>1. q # m /\ q \in DOMAIN d /\ d[q].used = FALSE /\ c[q].next = d[q].next
      BY <1>7, <2>1
    <3>2. PICK n \in DOMAIN b : d[q].next = n /\ b[n].used = TRUE
      <4>1. CASE q \in DOMAIN b
        <5>1. d[q].next = b[q].next /\ b[q].used = FALSE /\ b[q].next \in DOMAIN b
          BY <1>2, <1>8, <3>1, <4>1
        <5> QED
          BY <1>1, <2>1, <4>1, <5>1 DEF Plugged
      <4>2. CASE q \notin DOMAIN b
        <5>1. d[q].next = b[m].next /\ b[m].next \in DOMAIN b
          BY <1>1, <1>2, <1>8, <3>1, <4>2
        <5> QED
          BY <1>1, <5>1 DEF Plugged
      <4> QED
        BY <4>1, <4>2
    <3>3. d[n].used = TRUE /\ n \in DOMAIN d
      BY <1>2, <3>2
    <3>4. c[n].used = TRUE
      BY <1>7, <3>3
    <3> QED
      BY <3>1, <3>2, <3>4
  <2> QED
    BY <2>1 DEF Plugged
<1>10. Grants(b, c, m) /\ m + SIZEOF_STRUCT_MEM + size <= c[m].next
  <2>1. ASSUME NEW q \in DOMAIN b, b[q].used = TRUE PROVE q \in DOMAIN c /\ c[q].used = TRUE /\ c[q].next = b[q].next
    <3>1. q # m
      BY <1>1, <2>1
    <3> QED
      BY <1>2, <1>7, <2>1, <3>1
  <2>2. ASSUME NEW q \in DOMAIN c \ {m}, c[q].used = TRUE PROVE q \in DOMAIN b /\ b[q].used = TRUE
    BY <1>2, <1>7, <2>2
  <2>3. m \in DOMAIN c /\ c[m].used = TRUE /\ c[m].next = d[m].next
    BY <1>5, <1>7
  <2> QED
    BY <1>1, <1>2, <2>1, <2>2, <2>3 DEF Grants
<1>11. /\ s.lfree \in DOMAIN b /\ s.lfree \in DOMAIN c /\ (s.lfree = MEM_SIZE \/ b[s.lfree].used = FALSE)
       /\ \A q \in DOMAIN c : q \in Nat /\ c[q].used \in BOOLEAN
       /\ MEM_SIZE \in DOMAIN c
       /\ \A q \in DOMAIN c : c[q].used = FALSE => s.lfree <= q /\ q # m
  <2>1. s.lfree \in DOMAIN b /\ (s.lfree = MEM_SIZE \/ b[s.lfree].used = FALSE)
    BY <1>1 DEF LowestFree
  <2>2. \A q \in DOMAIN c : q \in Nat /\ c[q].used \in BOOLEAN
    BY <1>6, StructsFinite
  <2>3. MEM_SIZE \in DOMAIN c
    BY <1>6 DEF Chained
  <2>4. ASSUME NEW q \in DOMAIN c, c[q].used = FALSE PROVE s.lfree <= q /\ q # m
    <3>1. q # m /\ q \in DOMAIN d /\ d[q].used = FALSE
      BY <1>5, <1>7, <2>4
    <3>2. CASE q \in DOMAIN b
      BY <1>1, <1>2, <3>1, <3>2 DEF LowestFree
    <3>3. CASE q \notin DOMAIN b
      <4>1. m < q /\ m \in Nat /\ q \in Nat /\ s.lfree \in Nat
        BY <1>1, <1>2, <1>8, <2>1, <2>2, <3>1, <3>3
      <4> QED
        BY <1>1, <3>1, <4>1
    <3> QED
      BY <3>2, <3>3
  <2> QED
    BY <1>2, <1>7, <2>1, <2>2, <2>3, <2>4
<1>12. LowestFree(c, l)
  <2>1. CASE m = s.lfree
    <3>1. Chained(s2.blk) /\ s2.lfree \in DOMAIN s2.blk
      BY <1>4, <1>6, <1>11
    <3>2. ListFrom(s2, s2.lfree) = {q \in DOMAIN s2.blk : s2.lfree <= q}
      BY <3>1, WalkMeets
    <3>3. free = {q \in DOMAIN c : s.lfree <= q /\ (~c[q].used \/ q = MEM_SIZE)}
      BY <1>4, <3>2
    <3>4. s.lfree <= MEM_SIZE
      BY <1>1, <1>11, StructsFinite
    <3>5. free \in SUBSET Nat /\ MEM_SIZE \in free
      BY <1>11, <3>3, <3>4
    <3>6. l = Min(free)
      BY <2>1
    <3>7. l \in free /\ \A y \in free : l <= y
      <4> HIDE DEF free, l
      <4> QED
        BY <3>5, <3>6, LeastIs
    <3>8. \A q \in DOMAIN c : c[q].used = FALSE => q \in free
      BY <1>11, <3>3
    <3>9. l \in DOMAIN c /\ (l = MEM_SIZE \/ c[l].used = FALSE)
      <4> HIDE DEF l
      <4> QED
        BY <1>11, <3>3, <3>7
    <3> HIDE DEF l, free
    <3> QED
      BY <3>7, <3>8, <3>9 DEF LowestFree
  <2>2. CASE m # s.lfree
    <3>1. l = s.lfree
      BY <2>2
    <3>2. s.lfree = MEM_SIZE \/ c[s.lfree].used = FALSE
      BY <1>2, <1>7, <1>11, <2>2
    <3> HIDE DEF l
    <3> QED
      BY <1>11, <3>1, <3>2 DEF LowestFree
  <2> QED
    BY <2>1, <2>2
<1>13. t = [f \in HeapFields |-> t[f]] /\ t.blk = c /\ t.lfree = l /\ t.got = s.got /\ t.calls = s.calls
  <2>1. CASE m = s.lfree
    <3>1. t = [s2 EXCEPT !.lfree = l] /\ l = Min(free)
      BY <2>1
    <3> HIDE DEF t, l, free
    <3> QED
      BY <1>4, <3>1 DEF HeapFields
  <2>2. CASE m # s.lfree
    <3>1. t = s2 /\ l = s.lfree
      BY <2>2
    <3> HIDE DEF t, l
    <3> QED
      BY <1>4, <3>1
  <2> QED
    BY <2>1, <2>2
<1> HIDE DEF t, l
<1>14. Fit(t)
  BY <1>6, <1>12, <1>13 DEF Fit
<1> QED
  BY <1>3, <1>9, <1>10, <1>13, <1>14 DEF b

(* mem_malloc gives nothing and changes nothing, or gives a free struct.   *)
LEMMA MallocKeeps ==
  ASSUME NEW s, HeapKept(s), NEW asked \in Nat, BlockSize(asked) \in Nat, asked <= BlockSize(asked),
         MIN_SIZE <= BlockSize(asked), Aligned(BlockSize(asked))
  PROVE  LET a == mem_malloc(s, asked)
             m == a.r - SIZEOF_STRUCT_MEM
         IN  \/ a.r = NullMem /\ a.s = s
             \/ /\ a.r \in Nat
                /\ Fit(a.s) /\ Plugged(a.s.blk) /\ a.s.got = s.got /\ a.s.calls = s.calls
                /\ Grants(s.blk, a.s.blk, m) /\ a.r + asked <= a.s.blk[m].next
<1> DEFINE size == BlockSize(asked)
           F == Fits(s.blk, s.lfree, size)
           m == Min(F)
           a == mem_malloc(s, asked)
           t == MallocAt(s, m, size)
<1>1. Fit(s) /\ Chained(s.blk)
  BY DEF HeapKept, Fit
<1>2. a = IF asked = 0 \/ size > MEM_SIZE \/ F = {} THEN [s |-> s, r |-> NullMem]
          ELSE [s |-> t, r |-> m + SIZEOF_STRUCT_MEM]
  BY <1>1, MallocIs
<1>3. CASE asked = 0 \/ size > MEM_SIZE \/ F = {}
  BY <1>2, <1>3
<1>4. CASE ~(asked = 0 \/ size > MEM_SIZE \/ F = {})
  <2>0. size \in Nat /\ asked <= size /\ MIN_SIZE <= size /\ Aligned(size)
    OBVIOUS
  <2> HIDE DEF size, t, a
  <2>1. F \in SUBSET Nat
    <3>1. \A p \in DOMAIN s.blk : p \in Nat
      BY <1>1, StructsFinite
    <3> QED
      BY <3>1 DEF Fits
  <2>2. m \in F
    <3> HIDE DEF F
    <3> QED
      BY <1>4, <2>1, LeastIs
  <2> HIDE DEF m
  <2>3. /\ m \in DOMAIN s.blk /\ s.lfree <= m /\ m < MEM_SIZE - size /\ s.blk[m].used = FALSE
        /\ size <= s.blk[m].next - (m + SIZEOF_STRUCT_MEM) /\ m \in Nat
    BY <2>1, <2>2 DEF Fits
  <2>4. m \in DOMAIN s.blk \ {MEM_SIZE}
    BY <2>0, <2>3, HeapConstants
  <2>5. /\ Fit(t) /\ Plugged(t.blk) /\ t.got = s.got /\ t.calls = s.calls
        /\ Grants(s.blk, t.blk, m) /\ m + SIZEOF_STRUCT_MEM + size <= t.blk[m].next
    BY <2>0, <2>3, <2>4, MallocAtKeeps DEF t
  <2>6. a.s = t /\ a.r = m + SIZEOF_STRUCT_MEM
    BY <1>2, <1>4
  <2>7. a.r \in Nat /\ a.r - SIZEOF_STRUCT_MEM = m
    BY <2>3, <2>6, HeapConstants
  <2>8. t.blk[m].next \in Nat
    <3>1. Chained(t.blk) /\ m \in DOMAIN t.blk
      BY <2>5 DEF Fit, Grants
    <3> QED
      BY <3>1, StructsFinite
  <2>9. a.r + asked <= t.blk[m].next
    BY <2>0, <2>3, <2>5, <2>6, <2>8, HeapConstants
  <2> QED
    BY <2>5, <2>6, <2>7, <2>9 DEF a
<1> QED
  BY <1>3, <1>4

-----------------------------------------------------------------------------
(* mem_trim. *)
(* What shrinking m leaves of the used structs. *)
Trims(b, c, m) ==
  /\ \A q \in DOMAIN b : b[q].used = TRUE => q \in DOMAIN c /\ c[q].used = TRUE /\ (q # m => c[q].next = b[q].next)
  /\ \A q \in DOMAIN c : c[q].used = TRUE => q \in DOMAIN b /\ b[q].used = TRUE

TrimMoved(s, m, n, p, size) ==
  LET s1 == Split([s EXCEPT !.blk = Merged(s, m, n)], m, size) IN [s1 EXCEPT !.lfree = IF @ = n THEN p ELSE @]
TrimMade(s, m, p, size) == [Split(s, m, size) EXCEPT !.lfree = IF p < @ THEN p ELSE @]

TrimsTo(s, t, m, p) ==
  /\ Fit(t) /\ Plugged(t.blk) /\ t.got = s.got /\ t.calls = s.calls
  /\ Trims(s.blk, t.blk, m) /\ t.blk[m].next = p

(* The free struct behind m moves to p. *)
LEMMA TrimMoves ==
  ASSUME NEW s, HeapKept(s), NEW m \in DOMAIN s.blk \ {MEM_SIZE}, s.blk[m].used = TRUE,
         NEW n, n = s.blk[m].next, s.blk[n].used = FALSE,
         NEW size \in Nat, MIN_SIZE <= size, Aligned(size), NEW p, p = m + SIZEOF_STRUCT_MEM + size, p < n
  PROVE  TrimsTo(s, TrimMoved(s, m, n, p, size), m, p)
<1> DEFINE b == s.blk
           x == b[n].next
           d == Merged(s, m, n)
           s0 == [s EXCEPT !.blk = d]
           e == SplitBlk(d, m, p)
           s1 == Split(s0, m, size)
           l == IF s.lfree = n THEN p ELSE s.lfree
           t == [s1 EXCEPT !.lfree = IF @ = n THEN p ELSE @]
<1>1. /\ Chained(b) /\ BackBut(b, MEM_SIZE) /\ LowestFree(b, s.lfree) /\ Plugged(b)
      /\ s = [f \in HeapFields |-> s[f]] /\ b[m].used = TRUE /\ b[n].used = FALSE /\ m \in DOMAIN b
  BY DEF HeapKept, Fit
<1>2. n \in DOMAIN b \ {MEM_SIZE}
  BY <1>1, StructsFinite DEF Chained
<1>3. /\ \A q \in DOMAIN b : q \in Nat /\ q <= MEM_SIZE /\ b[q].next \in DOMAIN b
      /\ m < n /\ n < x /\ n + SIZEOF_STRUCT_MEM + MIN_SIZE <= x /\ b[x].used = TRUE
  <2>1. \A q \in DOMAIN b : q \in Nat /\ q <= MEM_SIZE /\ b[q].next \in DOMAIN b
    BY <1>1, StructsFinite
  <2>2. m + SIZEOF_STRUCT_MEM + MIN_SIZE <= n /\ n + SIZEOF_STRUCT_MEM + MIN_SIZE <= x
    BY <1>1, <1>2 DEF Chained
  <2>3. m \in Nat /\ n \in Nat /\ x \in Nat
    BY <1>2, <2>1
  <2>4. b[x].used = TRUE
    BY <1>1, <1>2 DEF Plugged
  <2>5. m < n /\ n < x
    <3> HIDE DEF x, b
    <3> QED
      BY <2>2, <2>3, HeapConstants
  <2> QED
    BY <2>1, <2>2, <2>4, <2>5
<1>4. Merges(d, b, m, n)
  BY <1>1, <1>2, MergeShape
<1>5. Chained(d) /\ BackBut(d, x)
  <2> HIDE DEF d
  <2> QED
    BY <1>1, <1>2, <1>4, MergeChains
<1>6. s0 = [f \in HeapFields |-> s0[f]] /\ s0.blk = d /\ s0.lfree = s.lfree /\ s0.got = s.got /\ s0.calls = s.calls
  <2> HIDE DEF d
  <2> QED
    BY <1>1 DEF HeapFields
<1>7. s1 = [s0 EXCEPT !.blk = e]
  BY <1>6, SplitIs
<1> HIDE DEF d, s0, b
<1>8. d[m].next = x /\ m \in DOMAIN d \ {MEM_SIZE}
  BY <1>1, <1>2, <1>3, <1>4 DEF Merges
<1>9. Splits(e, d, m, p) /\ Chained(e) /\ BackBut(e, MEM_SIZE) /\ p \in Nat /\ m < p
  <2>1. x \in Nat /\ n \in Nat /\ m \in Nat
    BY <1>1, <1>2, <1>3
  <2>2. p \in Nat
    BY <2>1, HeapConstants
  <2>3. p + SIZEOF_STRUCT_MEM + MIN_SIZE <= d[m].next
    BY <1>3, <1>8, <2>1, <2>2, HeapConstants
  <2>4. BackBut(d, d[m].next)
    BY <1>5, <1>8
  <2> QED
    BY <1>5, <1>8, <2>3, <2>4, SplitKeeps
<1>10. t = [f \in HeapFields |-> t[f]] /\ t.blk = e /\ t.lfree = l /\ t.got = s.got /\ t.calls = s.calls
  <2>1. /\ s1 = [f \in HeapFields |-> s1[f]] /\ s1.blk = e /\ s1.lfree = s.lfree
        /\ s1.got = s.got /\ s1.calls = s.calls
    <3> HIDE DEF s1, e
    <3> QED
      BY <1>6, <1>7 DEF HeapFields
  <2>2. t = [s1 EXCEPT !.lfree = l]
    BY <2>1
  <2> HIDE DEF s1, e, l, t
  <2> QED
    BY <2>1, <2>2 DEF HeapFields
<1> HIDE DEF e, t, s1, x
<1>11. /\ DOMAIN e = (DOMAIN b \ {n}) \cup {p} /\ e[p].next = x /\ e[p].used = FALSE
       /\ \A q \in DOMAIN b \ {n} : e[q].used = b[q].used /\ e[q].next = IF q = m THEN p ELSE b[q].next
  <2>1. /\ DOMAIN d = DOMAIN b \ {n}
        /\ \A q \in DOMAIN b \ {n} : d[q].used = b[q].used /\ d[q].next = IF q = m THEN x ELSE b[q].next
    BY <1>4 DEF Merges, x
  <2>2. /\ DOMAIN e = DOMAIN d \cup {p} /\ e[p].next = d[m].next /\ e[p].used = FALSE
        /\ \A q \in DOMAIN d : e[q].used = d[q].used /\ e[q].next = IF q = m THEN p ELSE d[q].next
    BY <1>9 DEF Splits
  <2> QED
    BY <1>8, <2>1, <2>2
<1>12. p \notin DOMAIN b /\ p \in Nat
  <2>1. \A q \in DOMAIN b : q <= m \/ n <= q
    BY <1>1 DEF Chained, b
  <2>2. p \in Nat /\ m < p /\ m \in Nat /\ n \in Nat
    BY <1>1, <1>2, <1>3, <1>9
  <2> QED
    BY <2>1, <2>2
<1>13. Plugged(e)
  <2>1. ASSUME NEW q \in DOMAIN e \ {MEM_SIZE}, e[q].used = FALSE PROVE e[e[q].next].used = TRUE
    <3>1. CASE q = p
      <4>1. x \in DOMAIN b \ {n}
        BY <1>2, <1>3 DEF x
      <4> QED
        BY <1>3, <1>11, <3>1, <4>1
    <3>2. CASE q # p
      <4>1. q \in DOMAIN b \ {MEM_SIZE, n} /\ b[q].used = FALSE /\ q # m
        BY <1>1, <1>11, <2>1, <3>2
      <4>2. e[q].next = b[q].next /\ b[b[q].next].used = TRUE /\ b[q].next \in DOMAIN b
        BY <1>1, <1>3, <1>11, <4>1 DEF Plugged
      <4>3. b[q].next # n
        BY <1>1, <4>2
      <4> QED
        BY <1>11, <4>2, <4>3
    <3> QED
      BY <3>1, <3>2
  <2> QED
    BY <2>1 DEF Plugged
<1>14. LowestFree(e, l)
  <2>1. /\ s.lfree \in DOMAIN b /\ (s.lfree = MEM_SIZE \/ b[s.lfree].used = FALSE)
        /\ \A q \in DOMAIN b : b[q].used = FALSE => s.lfree <= q
    BY <1>1 DEF LowestFree
  <2>2. s.lfree <= n /\ s.lfree \in Nat /\ n \in Nat /\ m \in Nat /\ n <= MEM_SIZE /\ n # MEM_SIZE
    BY <1>1, <1>2, <1>3, <2>1
  <2>3. CASE s.lfree = n
    <3>1. l = p
      BY <2>3
    <3>2. ASSUME NEW q \in DOMAIN e, e[q].used = FALSE PROVE p <= q
      <4>1. CASE q = p
        BY <1>12, <4>1
      <4>2. CASE q # p
        <5>1. q \in DOMAIN b /\ b[q].used = FALSE
          BY <1>11, <3>2, <4>2
        <5>2. n <= q /\ q \in Nat
          BY <1>3, <2>1, <2>3, <5>1
        <5> QED
          BY <1>12, <2>2, <5>2
      <4> QED
        BY <4>1, <4>2
    <3> HIDE DEF l
    <3> QED
      BY <1>11, <3>1, <3>2 DEF LowestFree
  <2>4. CASE s.lfree # n
    <3>1. l = s.lfree
      BY <2>4
    <3>2. b[s.lfree].used = FALSE /\ s.lfree # m
      BY <1>1, <2>1, <2>2, HeapConstants
    <3>3. s.lfree <= m \/ n <= s.lfree
      BY <1>1, <2>1 DEF Chained, b
    <3>4. s.lfree <= p
      BY <1>9, <2>2, <2>4, <3>3
    <3>5. s.lfree \in DOMAIN e /\ e[s.lfree].used = FALSE
      BY <1>11, <2>1, <2>4, <3>2
    <3>6. \A q \in DOMAIN e : e[q].used = FALSE => s.lfree <= q
      BY <1>11, <2>1, <3>4
    <3> HIDE DEF l
    <3> QED
      BY <3>1, <3>5, <3>6 DEF LowestFree
  <2> QED
    BY <2>3, <2>4
<1>15. Trims(b, e, m) /\ e[m].next = p
  <2>1. ASSUME NEW q \in DOMAIN b, b[q].used = TRUE PROVE q \in DOMAIN e /\ e[q].used = TRUE /\ (q # m => e[q].next = b[q].next)
    BY <1>1, <1>11, <2>1
  <2>2. ASSUME NEW q \in DOMAIN e, e[q].used = TRUE PROVE q \in DOMAIN b /\ b[q].used = TRUE
    BY <1>11, <2>2
  <2>3. m \in DOMAIN b \ {n}
    BY <1>1
  <2> QED
    BY <1>11, <2>1, <2>2, <2>3 DEF Trims
<1>16. Fit(t)
  <2> HIDE DEF l
  <2> QED
    BY <1>9, <1>10, <1>14 DEF Fit
<1> QED
  BY <1>10, <1>13, <1>15, <1>16 DEF t, s1, s0, d, b, TrimMoved, TrimsTo

(* A free struct is made at p, behind the first bytes of m. *)
LEMMA TrimMakes ==
  ASSUME NEW s, HeapKept(s), NEW m \in DOMAIN s.blk \ {MEM_SIZE}, s.blk[m].used = TRUE,
         s.blk[s.blk[m].next].used = TRUE,
         NEW size \in Nat, MIN_SIZE <= size, Aligned(size), NEW p, p = m + SIZEOF_STRUCT_MEM + size,
         p + SIZEOF_STRUCT_MEM + MIN_SIZE <= s.blk[m].next
  PROVE  TrimsTo(s, TrimMade(s, m, p, size), m, p)
<1> DEFINE b == s.blk
           x == b[m].next
           e == SplitBlk(b, m, p)
           s1 == Split(s, m, size)
           l == IF p < s.lfree THEN p ELSE s.lfree
           t == [s1 EXCEPT !.lfree = IF p < @ THEN p ELSE @]
<1>1. /\ Chained(b) /\ BackBut(b, MEM_SIZE) /\ LowestFree(b, s.lfree) /\ Plugged(b)
      /\ s = [f \in HeapFields |-> s[f]] /\ b[m].used = TRUE /\ b[x].used = TRUE /\ m \in DOMAIN b
  BY DEF HeapKept, Fit
<1>2. \A q \in DOMAIN b : q \in Nat /\ b[q].next \in DOMAIN b
  BY <1>1, StructsFinite
<1>3. Splits(e, b, m, p) /\ Chained(e) /\ BackBut(e, MEM_SIZE) /\ p \in Nat /\ m < p
  <2>1. BackBut(b, b[m].next)
    BY <1>1, BackAnywhere
  <2> QED
    BY <1>1, <2>1, SplitKeeps
<1>4. s1 = [s EXCEPT !.blk = e]
  BY SplitIs
<1>5. t = [f \in HeapFields |-> t[f]] /\ t.blk = e /\ t.lfree = l /\ t.got = s.got /\ t.calls = s.calls
  <2>1. /\ s1 = [f \in HeapFields |-> s1[f]] /\ s1.blk = e /\ s1.lfree = s.lfree
        /\ s1.got = s.got /\ s1.calls = s.calls
    <3> HIDE DEF s1, e
    <3> QED
      BY <1>1, <1>4 DEF HeapFields
  <2>2. t = [s1 EXCEPT !.lfree = l]
    BY <2>1
  <2> HIDE DEF s1, e, l, t
  <2> QED
    BY <2>1, <2>2 DEF HeapFields
<1> HIDE DEF e, t, s1, b
<1>6. /\ DOMAIN e = DOMAIN b \cup {p} /\ e[p].next = x /\ e[p].used = FALSE
      /\ \A q \in DOMAIN b : e[q].used = b[q].used /\ e[q].next = IF q = m THEN p ELSE b[q].next
  BY <1>3 DEF Splits
<1>7. Plugged(e)
  <2>1. ASSUME NEW q \in DOMAIN e \ {MEM_SIZE}, e[q].used = FALSE PROVE e[e[q].next].used = TRUE
    <3>1. CASE q = p
      BY <1>1, <1>2, <1>6, <3>1
    <3>2. CASE q # p
      <4>1. q \in DOMAIN b \ {MEM_SIZE} /\ b[q].used = FALSE /\ q # m
        BY <1>1, <1>6, <2>1, <3>2
      <4>2. e[q].next = b[q].next /\ b[b[q].next].used = TRUE /\ b[q].next \in DOMAIN b
        BY <1>1, <1>2, <1>6, <4>1 DEF Plugged
      <4> QED
        BY <1>6, <4>2
    <3> QED
      BY <3>1, <3>2
  <2> QED
    BY <2>1 DEF Plugged
<1>8. LowestFree(e, l)
  <2>1. /\ s.lfree \in DOMAIN b /\ (s.lfree = MEM_SIZE \/ b[s.lfree].used = FALSE)
        /\ \A q \in DOMAIN b : b[q].used = FALSE => s.lfree <= q
    BY <1>1 DEF LowestFree
  <2>2. s.lfree \in Nat
    BY <1>2, <2>1
  <2>3. l <= p /\ l <= s.lfree /\ (l = p \/ l = s.lfree) /\ l \in Nat
    BY <1>3, <2>2
  <2> HIDE DEF l
  <2>4. ASSUME NEW q \in DOMAIN e, e[q].used = FALSE PROVE l <= q
    <3>1. CASE q = p
      BY <2>3, <3>1
    <3>2. CASE q # p
      <4>1. q \in DOMAIN b /\ b[q].used = FALSE /\ q \in Nat
        BY <1>2, <1>6, <2>4, <3>2
      <4> QED
        BY <2>1, <2>2, <2>3, <4>1
    <3> QED
      BY <3>1, <3>2
  <2>5. l \in DOMAIN e /\ (l = MEM_SIZE \/ e[l].used = FALSE)
    BY <1>6, <2>1, <2>3
  <2> QED
    BY <2>4, <2>5 DEF LowestFree
<1>9. Trims(b, e, m) /\ e[m].next = p
  <2>1. ASSUME NEW q \in DOMAIN b, b[q].used = TRUE PROVE q \in DOMAIN e /\ e[q].used = TRUE /\ (q # m => e[q].next = b[q].next)
    BY <1>6, <2>1
  <2>2. ASSUME NEW q \in DOMAIN e, e[q].used = TRUE PROVE q \in DOMAIN b /\ b[q].used = TRUE
    BY <1>6, <2>2
  <2> QED
    BY <1>1, <1>6, <2>1, <2>2 DEF Trims
<1>10. Fit(t)
  <2> HIDE DEF l
  <2> QED
    BY <1>3, <1>5, <1>8 DEF Fit
<1> QED
  BY <1>5, <1>7, <1>9, <1>10 DEF t, s1, b, TrimMade, TrimsTo

(* mem_trim changes nothing, or gives the end of the block back.           *)
LEMMA TrimKeeps ==
  ASSUME NEW s, HeapKept(s), NEW r \in DOMAIN s.got, NEW asked \in Nat, BlockSize(asked) \in Nat,
         asked <= BlockSize(asked), MIN_SIZE <= BlockSize(asked), Aligned(BlockSize(asked))
  PROVE  LET a == mem_trim(s, r, asked)
             m == r - SIZEOF_STRUCT_MEM
         IN  \/ a.r = NullMem /\ a.s = s
             \/ /\ a.r = r
                /\ Fit(a.s) /\ Plugged(a.s.blk) /\ a.s.got = s.got /\ a.s.calls = s.calls
                /\ Trims(s.blk, a.s.blk, m) /\ r + asked <= a.s.blk[m].next
<1> DEFINE size == BlockSize(asked)
           b == s.blk
           m == r - SIZEOF_STRUCT_MEM
           n == b[m].next
           p == m + SIZEOF_STRUCT_MEM + size
           t1 == TrimMoved(s, m, n, p, size)
           t2 == TrimMade(s, m, p, size)
           a == mem_trim(s, r, asked)
<1>1. r \in Int /\ m \in DOMAIN b \ {MEM_SIZE} /\ b[m].used = TRUE
  BY DEF HeapKept, Owned
<1>2. Chained(b) /\ Fit(s) /\ Plugged(b)
  BY DEF HeapKept, Fit
<1>3. m \in Nat /\ n \in Nat /\ n \in DOMAIN b /\ b[n].used \in BOOLEAN /\ size \in Nat /\ p \in Nat /\ r = m + SIZEOF_STRUCT_MEM
  <2>1. m \in Nat /\ n \in Nat /\ n \in DOMAIN b
    BY <1>1, <1>2, StructsFinite
  <2>2. b[n].used \in BOOLEAN
    BY <1>2, <2>1, StructsFinite
  <2> HIDE DEF n
  <2> QED
    BY <1>1, <2>1, <2>2, HeapConstants
<1>4. a = IF size > MEM_SIZE \/ size > Room(s, m) THEN [s |-> s, r |-> NullMem]
          ELSE IF size = Room(s, m) THEN [s |-> s, r |-> r]
          ELSE IF ~b[n].used THEN [s |-> t1, r |-> r]
          ELSE IF size + SIZEOF_STRUCT_MEM + MIN_SIZE <= Room(s, m) THEN [s |-> t2, r |-> r]
          ELSE [s |-> s, r |-> r]
  BY DEF mem_trim, TrimMoved, TrimMade
<1>5. Room(s, m) = n - r /\ p = r + size
  BY <1>3 DEF Room
<1>6. asked <= size /\ MIN_SIZE <= size /\ Aligned(size) /\ HeapKept(s)
  OBVIOUS
<1>7. Trims(b, b, m)
  BY DEF Trims
<1> HIDE DEF a, t1, t2, size
<1>8. CASE size > MEM_SIZE \/ size > Room(s, m)
  BY <1>4, <1>8 DEF a
<1>9. CASE ~(size > MEM_SIZE \/ size > Room(s, m))
  <2>1. size <= n - r
    BY <1>1, <1>3, <1>5, <1>9, HeapConstants
  <2>2. r + asked <= n
    BY <1>1, <1>3, <1>6, <2>1
  <2>3. r + asked <= p
    BY <1>1, <1>3, <1>5, <1>6
  <2>4. CASE a = [s |-> s, r |-> r]
    BY <1>2, <1>7, <2>2, <2>4 DEF a
  <2>5. CASE size # Room(s, m) /\ b[n].used = FALSE
    <3>1. a = [s |-> t1, r |-> r]
      BY <1>4, <1>9, <2>5
    <3>2. p < n
      BY <1>1, <1>3, <1>5, <2>1, <2>5
    <3>3. TrimsTo(s, t1, m, p)
      <4>1. /\ HeapKept(s) /\ m \in DOMAIN s.blk \ {MEM_SIZE} /\ s.blk[m].used = TRUE /\ n = s.blk[m].next
            /\ s.blk[n].used = FALSE /\ size \in Nat /\ p = m + SIZEOF_STRUCT_MEM + size /\ p < n
            /\ MIN_SIZE <= size /\ Aligned(size) /\ m \in Nat /\ n \in Nat /\ p \in Nat
        BY <1>1, <1>3, <1>6, <2>5, <3>2
      <4> HIDE DEF m, n, p
      <4> QED
        BY <4>1, TrimMoves, HeapConstants DEF t1
    <3>4. a.s = t1 /\ a.r = r
      BY <3>1
    <3> HIDE DEF p
    <3> QED
      BY <2>3, <3>3, <3>4 DEF a, TrimsTo
  <2>6. CASE size # Room(s, m) /\ b[n].used = TRUE /\ size + SIZEOF_STRUCT_MEM + MIN_SIZE <= Room(s, m)
    <3>1. a = [s |-> t2, r |-> r]
      BY <1>4, <1>9, <2>6
    <3>2. p + SIZEOF_STRUCT_MEM + MIN_SIZE <= n
      BY <1>1, <1>3, <1>5, <2>6, HeapConstants
    <3>3. TrimsTo(s, t2, m, p)
      <4>1. /\ HeapKept(s) /\ m \in DOMAIN s.blk \ {MEM_SIZE} /\ s.blk[m].used = TRUE
            /\ s.blk[s.blk[m].next].used = TRUE /\ size \in Nat /\ p = m + SIZEOF_STRUCT_MEM + size
            /\ p + SIZEOF_STRUCT_MEM + MIN_SIZE <= s.blk[m].next /\ MIN_SIZE <= size /\ Aligned(size)
            /\ m \in Nat /\ s.blk[m].next \in Nat /\ p \in Nat
        BY <1>1, <1>3, <1>6, <2>6, <3>2
      <4> HIDE DEF m, p
      <4> QED
        BY <4>1, TrimMakes, HeapConstants DEF t2
    <3>4. a.s = t2 /\ a.r = r
      BY <3>1
    <3> HIDE DEF p
    <3> QED
      BY <2>3, <3>3, <3>4 DEF a, TrimsTo
  <2> QED
    BY <1>3, <1>4, <1>9, <2>4, <2>5, <2>6
<1> QED
  BY <1>8, <1>9

-----------------------------------------------------------------------------
(* The actions. *)
LEMMA CallKeeps ==
  ASSUME HeapInv, NEW s, HeapKept(s), HeapCall(s)
  PROVE  HeapInv'
<1> DEFINE t == [s EXCEPT !.calls = @ + 1]
<1>1. heap' = t
  BY DEF HeapCall
<1>2. s = [f \in HeapFields |-> s[f]]
  BY DEF HeapKept, Fit
<1>3. t = [f \in HeapFields |-> t[f]] /\ t.blk = s.blk /\ t.lfree = s.lfree /\ t.got = s.got
  <2> DEFINE k == s.calls + 1
  <2>1. t = [s EXCEPT !.calls = k]
    BY <1>2 DEF HeapFields
  <2> HIDE DEF k, t
  <2> QED
    BY <1>2, <2>1 DEF HeapFields
<1> HIDE DEF t
<1>4. HeapKept(t)
  BY <1>3 DEF HeapKept, Fit
<1> QED
  BY <1>1, <1>4 DEF HeapInv

LEMMA GotSet ==
  ASSUME NEW s, s = [f \in HeapFields |-> s[f]], NEW g
  PROVE  LET t == [s EXCEPT !.got = g]
         IN  t = [f \in HeapFields |-> t[f]] /\ t.blk = s.blk /\ t.lfree = s.lfree /\ t.got = g
BY DEF HeapFields

LEMMA GotKeeps ==
  ASSUME NEW s, Fit(s), Plugged(s.blk), NEW g, Owned(s.blk, g)
  PROVE  HeapKept([s EXCEPT !.got = g])
<1> DEFINE t == [s EXCEPT !.got = g]
<1>1. s = [f \in HeapFields |-> s[f]]
  BY DEF Fit
<1>2. t = [f \in HeapFields |-> t[f]] /\ t.blk = s.blk /\ t.lfree = s.lfree /\ t.got = g
  BY <1>1, GotSet
<1> HIDE DEF t
<1>3. HeapKept(t)
  BY <1>2 DEF HeapKept, Fit
<1> QED
  BY <1>3 DEF t

LEMMA MallocStep ==
  ASSUME HeapInv, NEW n \in Nat, BlockSize(n) \in Nat, n <= BlockSize(n), MIN_SIZE <= BlockSize(n),
         Aligned(BlockSize(n)), HeapCall(Given(mem_malloc(heap, n), n))
  PROVE  HeapInv'
<1> DEFINE a == mem_malloc(heap, n)
           m == a.r - SIZEOF_STRUCT_MEM
           t == Given(a, n)
<1>0. HeapKept(heap)
  BY DEF HeapInv
<1>1. \/ a.r = NullMem /\ a.s = heap
      \/ /\ a.r \in Nat
         /\ Fit(a.s) /\ Plugged(a.s.blk) /\ a.s.got = heap.got /\ a.s.calls = heap.calls
         /\ Grants(heap.blk, a.s.blk, m) /\ a.r + n <= a.s.blk[m].next
  BY <1>0, MallocKeeps
<1>2. HeapCall(t)
  OBVIOUS
<1> HIDE DEF a
<1>3. HeapKept(t)
  <2>1. CASE a.r = NullMem
    <3>1. a.s = heap
      BY <1>1, <2>1 DEF NullMem
    <3> QED
      BY <1>0, <2>1, <3>1 DEF Given
  <2>2. CASE a.r # NullMem
    <3> DEFINE b == heap.blk
               c == a.s.blk
               g == heap.got
               w == Extended(g, a.r, n)
    <3>1. /\ a.r \in Nat
          /\ Fit(a.s) /\ Plugged(c) /\ a.s.got = g
          /\ Grants(b, c, m) /\ a.r + n <= c[m].next
      BY <1>1, <2>2
    <3>2. Owned(b, g)
      BY <1>0 DEF HeapKept
    <3>3. t = [a.s EXCEPT !.got = w]
      <4>1. t = [a.s EXCEPT !.got = Extended(@, a.r, n)]
        BY <2>2 DEF Given
      <4>2. a.s = [f \in HeapFields |-> a.s[f]]
        BY <3>1 DEF Fit
      <4> QED
        BY <3>1, <4>1, <4>2 DEF HeapFields
    <3>4. w = [y \in DOMAIN g \cup {a.r} |-> IF y = a.r THEN n ELSE g[y]]
      BY DEF Extended
    <3>5. m \in Nat /\ m + SIZEOF_STRUCT_MEM = a.r /\ \A q \in DOMAIN c : q \in Nat
      <4>1. Chained(c) /\ m \in DOMAIN c
        BY <3>1 DEF Fit, Grants
      <4>2. \A q \in DOMAIN c : q \in Nat
        BY <4>1, StructsFinite
      <4> QED
        BY <3>1, <4>1, <4>2, HeapConstants
    <3>5a. m = a.r - SIZEOF_STRUCT_MEM /\ a.r \in Nat
      BY <3>1
    <3> HIDE DEF w, b, c, g, m
    <3>6. ASSUME NEW r \in DOMAIN w
          PROVE  /\ r \in Int /\ w[r] \in Nat
                 /\ r - SIZEOF_STRUCT_MEM \in DOMAIN c \ {MEM_SIZE}
                 /\ c[r - SIZEOF_STRUCT_MEM].used = TRUE
                 /\ r + w[r] <= c[r - SIZEOF_STRUCT_MEM].next
      <4>1. CASE r = a.r
        <5>1. w[r] = n /\ r - SIZEOF_STRUCT_MEM = m
          BY <3>4, <3>5a, <4>1
        <5>2. m \in DOMAIN c \ {MEM_SIZE} /\ c[m].used = TRUE
          BY <3>1 DEF Grants
        <5> QED
          BY <3>1, <4>1, <5>1, <5>2
      <4>2. CASE r # a.r
        <5>1. r \in DOMAIN g /\ w[r] = g[r]
          BY <3>4, <4>2
        <5> DEFINE q == r - SIZEOF_STRUCT_MEM
        <5>2. /\ r \in Int /\ g[r] \in Nat /\ q \in DOMAIN b \ {MEM_SIZE} /\ b[q].used = TRUE
              /\ r + g[r] <= b[q].next
          BY <3>2, <5>1 DEF Owned
        <5> HIDE DEF q
        <5>3. q \in DOMAIN c /\ c[q].used = TRUE /\ c[q].next = b[q].next
          BY <3>1, <5>2 DEF Grants
        <5> QED
          BY <5>1, <5>2, <5>3 DEF q
      <4> QED
        BY <4>1, <4>2
    <3>7. ASSUME NEW q \in DOMAIN c \ {MEM_SIZE}, c[q].used = TRUE PROVE q + SIZEOF_STRUCT_MEM \in DOMAIN w
      <4>1. CASE q = m
        BY <3>4, <3>5, <4>1
      <4>2. CASE q # m
        <5>1. q \in DOMAIN b \ {MEM_SIZE} /\ b[q].used = TRUE
          BY <3>1, <3>7, <4>2 DEF Grants
        <5> QED
          BY <3>2, <3>4, <5>1 DEF Owned
      <4> QED
        BY <4>1, <4>2
    <3>8. Owned(c, w)
      BY <3>6, <3>7 DEF Owned
    <3> QED
      BY <3>1, <3>3, <3>8, GotKeeps DEF c
  <2> QED
    BY <2>1, <2>2
<1> HIDE DEF t
<1> QED
  BY <1>2, <1>3, CallKeeps

LEMMA FreeStep ==
  ASSUME HeapInv, NEW r \in DOMAIN heap.got, FreeMem(r)
  PROVE  HeapInv'
<1> DEFINE s == mem_free(heap, r)
           m == r - SIZEOF_STRUCT_MEM
           b == heap.blk
           c == s.blk
           g == heap.got
           w == [q \in DOMAIN g \ {r} |-> g[q]]
           t == [s EXCEPT !.got = [q \in DOMAIN @ \ {r} |-> @[q]]]
<1>0. HeapKept(heap) /\ Owned(b, g)
  BY DEF HeapInv, HeapKept
<1>1. Fit(s) /\ Plugged(c) /\ s.got = g /\ Releases(b, c, m)
  BY <1>0, MemFreeKeeps
<1>2. HeapCall(t)
  BY DEF FreeMem
<1> HIDE DEF s
<1>3. t = [s EXCEPT !.got = w]
  <2>1. s = [f \in HeapFields |-> s[f]]
    BY <1>1 DEF Fit
  <2> QED
    BY <1>1, <2>1 DEF HeapFields
<1>4. r \in Int /\ m \in Int /\ m + SIZEOF_STRUCT_MEM = r
  <2>1. r \in Int
    BY <1>0 DEF Owned
  <2> QED
    BY <2>1, HeapConstants
<1>5. Owned(c, w)
  <2> HIDE DEF c, b
  <2>1. ASSUME NEW k \in DOMAIN w
        PROVE  /\ k \in Int /\ w[k] \in Nat
               /\ k - SIZEOF_STRUCT_MEM \in DOMAIN c \ {MEM_SIZE}
               /\ c[k - SIZEOF_STRUCT_MEM].used = TRUE
               /\ k + w[k] <= c[k - SIZEOF_STRUCT_MEM].next
    <3> DEFINE q == k - SIZEOF_STRUCT_MEM
    <3>1. k \in DOMAIN g /\ k # r /\ w[k] = g[k]
      OBVIOUS
    <3>2. k \in Int /\ g[k] \in Nat /\ q \in DOMAIN b \ {MEM_SIZE} /\ b[q].used = TRUE /\ k + g[k] <= b[q].next
      BY <1>0, <3>1 DEF Owned
    <3>3. q # m
      BY <1>4, <3>1, <3>2, HeapConstants
    <3> HIDE DEF q, m, w, g
    <3>4. q \in DOMAIN c /\ c[q].used = TRUE /\ c[q].next = b[q].next
      BY <1>1, <3>2, <3>3 DEF Releases
    <3> QED
      BY <3>1, <3>2, <3>4 DEF q
  <2>2. ASSUME NEW q \in DOMAIN c \ {MEM_SIZE}, c[q].used = TRUE PROVE q + SIZEOF_STRUCT_MEM \in DOMAIN w
    <3>1. q \in DOMAIN b \ {m, MEM_SIZE} /\ b[q].used = TRUE
      BY <1>1, <2>2 DEF Releases
    <3>2. q + SIZEOF_STRUCT_MEM \in DOMAIN g
      BY <1>0, <3>1 DEF Owned
    <3>3. q \in Nat
      <4>1. Chained(c)
        BY <1>1 DEF Fit, c
      <4> QED
        BY <2>2, <4>1, StructsFinite
    <3>4. q + SIZEOF_STRUCT_MEM # r
      BY <1>4, <3>1, <3>3, HeapConstants
    <3> QED
      BY <3>2, <3>4
  <2> HIDE DEF w
  <2> QED
    BY <2>1, <2>2 DEF Owned
<1> HIDE DEF w, t
<1>6. HeapKept(t)
  BY <1>1, <1>3, <1>5, GotKeeps
<1> QED
  BY <1>2, <1>6, CallKeeps

LEMMA FreeNullStep ==
  ASSUME HeapInv, FreeMem(NullMem)
  PROVE  HeapInv'
<1> DEFINE g == heap.got
           w == [q \in DOMAIN g \ {NullMem} |-> g[q]]
           t == [heap EXCEPT !.got = [q \in DOMAIN @ \ {NullMem} |-> @[q]]]
<1>0. HeapKept(heap) /\ Owned(heap.blk, g) /\ Fit(heap) /\ Plugged(heap.blk)
  BY DEF HeapInv, HeapKept
<1>1. mem_free(heap, NullMem) = heap
  BY DEF mem_free, NullMem
<1>2. HeapCall(t)
  BY <1>1 DEF FreeMem
<1>3. t = [heap EXCEPT !.got = w]
  <2>1. heap = [f \in HeapFields |-> heap[f]]
    BY <1>0 DEF Fit
  <2> QED
    BY <2>1 DEF HeapFields
<1>4. NullMem \notin DOMAIN g
  <2>1. SUFFICES ASSUME NullMem \in DOMAIN g PROVE FALSE
    OBVIOUS
  <2>2. NullMem - SIZEOF_STRUCT_MEM \in DOMAIN heap.blk
    BY <1>0, <2>1 DEF Owned
  <2>3. NullMem - SIZEOF_STRUCT_MEM \in Nat
    BY <1>0, <2>2, StructsFinite DEF Fit
  <2> QED
    BY <2>3, HeapConstants DEF NullMem
<1>5. DOMAIN w = DOMAIN g /\ \A q \in DOMAIN g : w[q] = g[q]
  BY <1>4
<1> HIDE DEF w, g, t
<1>6. Owned(heap.blk, w)
  BY <1>0, <1>5 DEF Owned
<1>7. HeapKept(t)
  BY <1>0, <1>3, <1>6, GotKeeps
<1> QED
  BY <1>2, <1>7, CallKeeps

LEMMA TrimStep ==
  ASSUME HeapInv, NEW r \in DOMAIN heap.got, NEW n \in HeapSizes, TrimMem(r, n)
  PROVE  HeapInv'
<1> DEFINE a == mem_trim(heap, r, n)
           m == r - SIZEOF_STRUCT_MEM
           b == heap.blk
           c == a.s.blk
           g == heap.got
           w == Extended(g, r, n)
           t == Given(a, n)
<1>0. HeapKept(heap) /\ Owned(b, g)
  BY DEF HeapInv, HeapKept
<1>1. HeapCall(t)
  BY DEF TrimMem
<1>2. \/ a.r = NullMem /\ a.s = heap
      \/ /\ a.r = r
         /\ Fit(a.s) /\ Plugged(a.s.blk) /\ a.s.got = heap.got /\ a.s.calls = heap.calls
         /\ Trims(heap.blk, a.s.blk, m) /\ r + n <= a.s.blk[m].next
  BY <1>0, BlockOf, TrimKeeps
<1> HIDE DEF a
<1>3. CASE a.r = NullMem /\ a.s = heap
  <2>1. t = heap
    BY <1>3 DEF Given
  <2> QED
    BY <1>0, <1>1, <2>1, CallKeeps
<1>4. CASE /\ a.r = r
           /\ Fit(a.s) /\ Plugged(a.s.blk) /\ a.s.got = heap.got /\ a.s.calls = heap.calls
           /\ Trims(heap.blk, a.s.blk, m) /\ r + n <= a.s.blk[m].next
  <2>1. r \in Int /\ m \in DOMAIN b \ {MEM_SIZE} /\ b[m].used = TRUE /\ m \in Nat
    <3>1. Chained(b)
      BY <1>0 DEF HeapKept, Fit
    <3>2. r \in Int /\ m \in DOMAIN b \ {MEM_SIZE} /\ b[m].used = TRUE
      BY <1>0 DEF Owned
    <3> QED
      BY <3>1, <3>2, StructsFinite
  <2>2. r # NullMem /\ m + SIZEOF_STRUCT_MEM = r
    BY <2>1, HeapConstants DEF NullMem
  <2>3. t = [a.s EXCEPT !.got = w]
    <3>1. t = [a.s EXCEPT !.got = Extended(@, r, n)]
      BY <1>4, <2>2 DEF Given
    <3>2. a.s = [f \in HeapFields |-> a.s[f]]
      BY <1>4 DEF Fit
    <3> QED
      BY <1>4, <3>1, <3>2 DEF HeapFields
  <2>4. w = [y \in DOMAIN g |-> IF y = r THEN n ELSE g[y]]
    <3>1. DOMAIN g \cup {r} = DOMAIN g
      OBVIOUS
    <3> QED
      BY <3>1 DEF Extended
  <2>5. n \in Nat
    BY BlockOf
  <2>6. Trims(b, c, m) /\ r + n <= c[m].next /\ m = r - SIZEOF_STRUCT_MEM
    BY <1>4
  <2> HIDE DEF w, g, c, b, m
  <2>7. ASSUME NEW k \in DOMAIN w
        PROVE  /\ k \in Int /\ w[k] \in Nat
               /\ k - SIZEOF_STRUCT_MEM \in DOMAIN c \ {MEM_SIZE}
               /\ c[k - SIZEOF_STRUCT_MEM].used = TRUE
               /\ k + w[k] <= c[k - SIZEOF_STRUCT_MEM].next
    <3> DEFINE q == k - SIZEOF_STRUCT_MEM
    <3>1. k \in DOMAIN g
      BY <2>4
    <3>2. k \in Int /\ g[k] \in Nat /\ q \in DOMAIN b \ {MEM_SIZE} /\ b[q].used = TRUE /\ k + g[k] <= b[q].next
      BY <1>0, <3>1 DEF Owned
    <3>3. q \in DOMAIN c /\ c[q].used = TRUE /\ (q # m => c[q].next = b[q].next)
      BY <2>6, <3>2 DEF Trims
    <3>4. CASE k = r
      <4>1. w[k] = n /\ q = m
        BY <2>4, <2>6, <3>1, <3>4
      <4> HIDE DEF q
      <4> QED
        BY <2>1, <2>5, <2>6, <3>2, <3>3, <3>4, <4>1 DEF q
    <3>5. CASE k # r
      <4>1. w[k] = g[k]
        BY <2>4, <3>1, <3>5
      <4>2. q # m
        BY <2>1, <2>6, <3>2, <3>5, HeapConstants
      <4> HIDE DEF q
      <4> QED
        BY <3>2, <3>3, <4>1, <4>2 DEF q
    <3> QED
      BY <3>4, <3>5
  <2>8. ASSUME NEW q \in DOMAIN c \ {MEM_SIZE}, c[q].used = TRUE PROVE q + SIZEOF_STRUCT_MEM \in DOMAIN w
    <3>1. q \in DOMAIN b \ {MEM_SIZE} /\ b[q].used = TRUE
      BY <2>6, <2>8 DEF Trims
    <3> QED
      BY <1>0, <2>4, <3>1 DEF Owned
  <2>9. Owned(c, w)
    BY <2>7, <2>8 DEF Owned
  <2>10. HeapKept(t)
    BY <1>4, <2>3, <2>9, GotKeeps DEF c
  <2> HIDE DEF t
  <2> QED
    BY <1>1, <2>10, CallKeeps
<1> QED
  BY <1>2, <1>3, <1>4

LEMMA HeapInitKept == HeapInit => HeapInv
<1> SUFFICES ASSUME HeapInit PROVE HeapKept(heap)
  BY DEF HeapInv
<1> DEFINE b == [p \in {0, MEM_SIZE} |-> [next |-> MEM_SIZE, prev |-> p, used |-> p = MEM_SIZE]]
<1>1. heap = [blk |-> b, lfree |-> 0, got |-> << >>, calls |-> 0]
  BY DEF HeapInit
<1>2. /\ DOMAIN b = {0, MEM_SIZE} /\ MEM_SIZE # 0
      /\ b[0].next = MEM_SIZE /\ b[0].prev = 0 /\ b[0].used = FALSE
      /\ b[MEM_SIZE].next = MEM_SIZE /\ b[MEM_SIZE].prev = MEM_SIZE /\ b[MEM_SIZE].used = TRUE
  <2>1. DOMAIN b = {0, MEM_SIZE} /\ MEM_SIZE # 0
    BY HeapConstants
  <2>2. \A p \in {0, MEM_SIZE} : b[p].next = MEM_SIZE /\ b[p].prev = p /\ b[p].used = (p = MEM_SIZE)
    OBVIOUS
  <2> HIDE DEF b
  <2>3. b[0].used = FALSE /\ b[MEM_SIZE].used = TRUE
    <3>1. b[0].used = (0 = MEM_SIZE) /\ b[MEM_SIZE].used = (MEM_SIZE = MEM_SIZE)
      BY <2>2
    <3>2. (0 = MEM_SIZE) = FALSE /\ (MEM_SIZE = MEM_SIZE) = TRUE
      BY <2>1, Zenon
    <3> QED
      BY <3>1, <3>2, Zenon
  <2> QED
    BY <2>1, <2>2, <2>3
<1>3. b \in [DOMAIN b -> MemStruct]
  BY HeapConstants DEF MemStruct
<1> HIDE DEF b
<1>4. heap = [f \in HeapFields |-> heap[f]] /\ heap.blk = b /\ heap.lfree = 0 /\ heap.got = << >>
  BY <1>1 DEF HeapFields
<1>5. Chained(b)
  BY <1>2, <1>3, AlignedConstants, HeapConstants DEF Chained
<1>6. BackBut(b, MEM_SIZE) /\ Plugged(b) /\ LowestFree(b, 0)
  BY <1>2, HeapConstants DEF BackBut, Plugged, LowestFree
<1>7. Owned(b, << >>)
  BY <1>2 DEF Owned
<1> QED
  BY <1>4, <1>5, <1>6, <1>7 DEF HeapKept, Fit

LEMMA HeapStep == HeapInv /\ [HeapNext]_heap => HeapInv'
<1> SUFFICES ASSUME HeapInv, [HeapNext]_heap PROVE HeapInv'
  OBVIOUS
<1>1. ASSUME NEW n \in HeapSizes, Malloc(n) PROVE HeapInv'
  BY <1>1, BlockOf, MallocStep DEF Malloc
<1>2. ASSUME NEW n \in HeapSizes, Calloc(n) PROVE HeapInv'
  <2> DEFINE k == (2 * n) % SizeMod
  <2>1. k = 2 * n /\ k \in Nat /\ BlockSize(k) \in Nat /\ k <= BlockSize(k) /\ MIN_SIZE <= BlockSize(k) /\ Aligned(BlockSize(k))
    BY BlockOfTwo
  <2>2. HeapCall(Given(mem_malloc(heap, k), 2 * n))
    BY <1>2 DEF Calloc, mem_calloc
  <2> HIDE DEF k
  <2>3. HeapCall(Given(mem_malloc(heap, k), k))
    BY <2>1, <2>2
  <2> QED
    BY <2>1, <2>3, MallocStep
<1>3. ASSUME NEW r \in DOMAIN heap.got, FreeMem(r) PROVE HeapInv'
  BY <1>3, FreeStep
<1>4. ASSUME NEW r \in DOMAIN heap.got, NEW n \in HeapSizes, TrimMem(r, n) PROVE HeapInv'
  BY <1>4, TrimStep
<1>5. CASE FreeMem(NullMem)
  BY <1>5, FreeNullStep
<1>6. CASE UNCHANGED heap
  BY <1>6 DEF HeapInv
<1> QED
  BY <1>1, <1>2, <1>3, <1>4, <1>5, <1>6 DEF HeapNext

-----------------------------------------------------------------------------
(* What the invariant says of the heap. *)
LEMMA InvTiles == HeapInv => HeapTiles
<1> SUFFICES ASSUME HeapInv PROVE HeapTiles
  OBVIOUS
<1> DEFINE b == heap.blk
<1>1. Chained(b) /\ BackBut(b, MEM_SIZE)
  BY DEF HeapInv, HeapKept, Fit
<1>2. 0 \in DOMAIN b
  BY <1>1 DEF Chained
<1>3. \A p \in DOMAIN b : p \in Nat /\ p <= MEM_SIZE /\ b[p].next \in DOMAIN b /\ b[p].next \in Nat
  BY <1>1, StructsFinite
<1>4. ListFrom(heap, 0) = DOMAIN b
  <2>1. ListFrom(heap, 0) = {q \in DOMAIN b : 0 <= q}
    BY <1>1, <1>2, WalkMeets
  <2>2. {q \in DOMAIN b : 0 <= q} = DOMAIN b
    <3> HIDE DEF b
    <3>1. \A q \in DOMAIN b : 0 <= q
      BY <1>3
    <3> QED
      BY <3>1, Zenon
  <2> QED
    BY <2>1, <2>2, Zenon
<1>5. ASSUME NEW p \in DOMAIN b \ {MEM_SIZE}
      PROVE  /\ Room(heap, p) >= MIN_SIZE /\ p % MEM_ALIGNMENT = 0
             /\ b[p].next # MEM_SIZE => b[b[p].next].prev = p
  <2>1. p + SIZEOF_STRUCT_MEM + MIN_SIZE <= b[p].next /\ Aligned(p)
    BY <1>1 DEF Chained
  <2>2. Room(heap, p) >= MIN_SIZE
    BY <1>3, <2>1, HeapConstants DEF Room
  <2>3. ASSUME b[p].next # MEM_SIZE PROVE b[b[p].next].prev = p
    <3> DEFINE n == b[p].next
               q == b[n].prev
    <3>1. n \in DOMAIN b \ {0, MEM_SIZE}
      BY <1>3, <2>1, <2>3, HeapConstants
    <3>2. q \in DOMAIN b /\ q < n /\ b[q].next = n
      BY <1>1, <3>1 DEF BackBut
    <3>3. q # MEM_SIZE
      BY <1>1, <2>3, <3>2 DEF Chained
    <3>4. b[p].next = b[q].next
      BY <3>2
    <3> HIDE DEF q, n, b
    <3>5. p = q
      BY <1>1, <3>2, <3>3, <3>4, OneBefore
    <3> QED
      BY <3>5 DEF q, n
  <2> QED
    BY <2>1, <2>2, <2>3 DEF Aligned
<1> QED
  BY <1>4, <1>5 DEF HeapTiles

LEMMA InvKeeps == HeapInv => AllocationsKept
<1> SUFFICES ASSUME HeapInv PROVE AllocationsKept
  OBVIOUS
<1> DEFINE b == heap.blk
           g == heap.got
           U == {p \in DOMAIN b \ {MEM_SIZE} : b[p].used}
           V == {r - SIZEOF_STRUCT_MEM : r \in DOMAIN g}
<1>1. Chained(b) /\ Owned(b, g)
  BY DEF HeapInv, HeapKept, Fit
<1>2. \A p \in DOMAIN b : p \in Nat /\ b[p].next \in Nat /\ b[p].used \in BOOLEAN
  BY <1>1, StructsFinite
<1>3. ASSUME NEW p \in U PROVE p \in V
  <2>1. p \in DOMAIN b \ {MEM_SIZE} /\ b[p].used = TRUE /\ p \in Nat
    BY <1>2
  <2>2. p + SIZEOF_STRUCT_MEM \in DOMAIN g
    BY <1>1, <2>1 DEF Owned
  <2>3. (p + SIZEOF_STRUCT_MEM) - SIZEOF_STRUCT_MEM = p
    BY <2>1, HeapConstants
  <2> QED
    BY <2>2, <2>3
<1>4. ASSUME NEW p \in V PROVE p \in U
  BY <1>1 DEF Owned
<1>5. \A r \in DOMAIN g : Room(heap, r - SIZEOF_STRUCT_MEM) >= g[r]
  <2> TAKE r \in DOMAIN g
  <2> DEFINE m == r - SIZEOF_STRUCT_MEM
  <2>1. r \in Int /\ g[r] \in Nat /\ m \in DOMAIN b /\ r + g[r] <= b[m].next
    BY <1>1 DEF Owned
  <2>2. b[m].next \in Nat /\ m + SIZEOF_STRUCT_MEM = r
    BY <1>2, <2>1, HeapConstants
  <2>3. Room(heap, m) = b[m].next - r
    BY <2>2 DEF Room
  <2> HIDE DEF m
  <2>4. b[m].next - r >= g[r]
    BY <2>1, <2>2
  <2> QED
    BY <2>3, <2>4 DEF m
<1>6. U = V
  BY <1>3, <1>4
<1> QED
  BY <1>5, <1>6 DEF AllocationsKept

(* The struct whose stretch of the ram holds byte p. *)
LEMMA StructAt ==
  ASSUME NEW b, Chained(b), NEW p \in Nat, p < MEM_SIZE
  PROVE  \E q \in DOMAIN b \ {MEM_SIZE} : q <= p /\ p < b[q].next
<1>1. \A q \in DOMAIN b : q \in Nat /\ q <= MEM_SIZE /\ b[q].next \in DOMAIN b /\ b[q].next \in Nat
  BY StructsFinite
<1> DEFINE R == {d \in Nat : \E q \in DOMAIN b : q <= p /\ d = p - q}
<1>2. p \in R
  <2>1. 0 \in DOMAIN b /\ 0 <= p /\ p = p - 0
    BY DEF Chained
  <2> QED
    BY <2>1
<1>3. PICK d \in R : \A e \in R : d <= e
  <2>1. R \in SUBSET Nat /\ R # {}
    BY <1>2
  <2> HIDE DEF R
  <2> QED
    BY <2>1, LeastNat
<1>4. PICK q \in DOMAIN b : q <= p /\ d = p - q
  BY <1>3
<1>5. q \in Nat /\ q # MEM_SIZE /\ b[q].next \in DOMAIN b /\ b[q].next \in Nat
  BY <1>1, <1>4
<1>6. q + SIZEOF_STRUCT_MEM + MIN_SIZE <= b[q].next
  BY <1>5 DEF Chained
<1>7. p < b[q].next
  <2>1. SUFFICES ASSUME b[q].next <= p PROVE FALSE
    BY <1>5
  <2>2. p - b[q].next \in R
    BY <1>5, <2>1
  <2>3. d <= p - b[q].next
    BY <1>3, <2>2
  <2> QED
    BY <1>4, <1>5, <1>6, <2>3, HeapConstants
<1> QED
  BY <1>4, <1>5, <1>7

(* The bytes of the callers' blocks are those of the used structs. *)
HandedOut(b, g) == UNION {(r - SIZEOF_STRUCT_MEM)..(b[r - SIZEOF_STRUCT_MEM].next - 1) : r \in DOMAIN g}
LEMMA TakenBytes ==
  ASSUME NEW b, NEW g, Chained(b), Owned(b, g), NEW x \in Nat
  PROVE  x \in HandedOut(b, g) <=> \E q \in DOMAIN b \ {MEM_SIZE} : b[q].used = TRUE /\ q <= x /\ x < b[q].next
<1>0. \A q \in DOMAIN b : q \in Nat /\ b[q].next \in Nat
  BY StructsFinite
<1>1. ASSUME x \in HandedOut(b, g)
      PROVE  \E q \in DOMAIN b \ {MEM_SIZE} : b[q].used = TRUE /\ q <= x /\ x < b[q].next
  <2>1. PICK r \in DOMAIN g : x \in (r - SIZEOF_STRUCT_MEM)..(b[r - SIZEOF_STRUCT_MEM].next - 1)
    BY <1>1 DEF HandedOut
  <2> DEFINE q == r - SIZEOF_STRUCT_MEM
  <2>2. q \in DOMAIN b \ {MEM_SIZE} /\ b[q].used = TRUE
    BY DEF Owned
  <2>3. x \in q..(b[q].next - 1)
    BY <2>1
  <2> HIDE DEF q
  <2>4. q <= x /\ x < b[q].next
    BY <1>0, <2>2, <2>3
  <2> QED
    BY <2>2, <2>4
<1>2. ASSUME NEW q \in DOMAIN b \ {MEM_SIZE}, b[q].used = TRUE, q <= x, x < b[q].next
      PROVE  x \in HandedOut(b, g)
  <2> DEFINE r == q + SIZEOF_STRUCT_MEM
  <2>1. r \in DOMAIN g
    BY <1>2 DEF Owned
  <2>2. r - SIZEOF_STRUCT_MEM = q
    BY <1>0, HeapConstants
  <2>3. x \in q..(b[q].next - 1)
    BY <1>0, <1>2
  <2> HIDE DEF r
  <2>4. x \in (r - SIZEOF_STRUCT_MEM)..(b[r - SIZEOF_STRUCT_MEM].next - 1)
    BY <2>2, <2>3
  <2> QED
    BY <2>1, <2>4 DEF HandedOut
<1> QED
  BY <1>1, <1>2

(* A free struct that fits is a stretch of bytes nobody holds. *)
LEMMA FitIsUntaken ==
  ASSUME NEW b, NEW g, NEW l, NEW size \in Nat, Chained(b), Owned(b, g), NEW m \in Fits(b, l, size)
  PROVE  LET need == SIZEOF_STRUCT_MEM + size
         IN  m \in 0..(MEM_SIZE - need) /\ (m..(m + need - 1)) \cap HandedOut(b, g) = {}
<1> DEFINE need == SIZEOF_STRUCT_MEM + size
<1>0. \A q \in DOMAIN b : q \in Nat /\ b[q].next \in Nat /\ q <= MEM_SIZE /\ b[q].next <= MEM_SIZE
  BY StructsFinite
<1>1. m \in DOMAIN b /\ b[m].used = FALSE /\ size <= b[m].next - (m + SIZEOF_STRUCT_MEM) /\ m < MEM_SIZE - size
  BY DEF Fits
<1>2. m \in Nat /\ b[m].next \in Nat /\ b[m].next <= MEM_SIZE /\ m # MEM_SIZE
  BY <1>0, <1>1, HeapConstants
<1>3. m + need <= b[m].next
  BY <1>1, <1>2, HeapConstants
<1>4. m \in 0..(MEM_SIZE - need)
  BY <1>2, <1>3, HeapConstants
<1>5. ASSUME NEW x \in m..(m + need - 1), x \in HandedOut(b, g) PROVE FALSE
  <2>1. x \in Nat /\ m <= x /\ x < b[m].next
    BY <1>2, <1>3, HeapConstants
  <2>2. PICK q \in DOMAIN b \ {MEM_SIZE} : b[q].used = TRUE /\ q <= x /\ x < b[q].next
    BY <1>5, <2>1, TakenBytes
  <2>3. q # m
    BY <1>1, <2>2
  <2>4. (q <= m \/ b[m].next <= q) /\ (m <= q \/ b[q].next <= m)
    BY <1>1, <1>2 DEF Chained
  <2>5. q \in Nat /\ b[q].next \in Nat
    BY <1>0
  <2> QED
    BY <1>2, <2>1, <2>2, <2>3, <2>4, <2>5
<1>6. (m..(m + need - 1)) \cap HandedOut(b, g) = {}
  BY <1>5
<1> QED
  BY <1>4, <1>6

(* And a stretch nobody holds lies in one free struct, which fits: no free *)
(* struct is followed by another one, and none is below lfree.             *)
LEMMA UntakenFits ==
  ASSUME NEW b, NEW g, NEW l, NEW size \in Nat,
         Chained(b), Plugged(b), LowestFree(b, l), Owned(b, g),
         NEW p \in 0..(MEM_SIZE - (SIZEOF_STRUCT_MEM + size)),
         (p..(p + (SIZEOF_STRUCT_MEM + size) - 1)) \cap HandedOut(b, g) = {}
  PROVE  Fits(b, l, size) # {}
<1> DEFINE need == SIZEOF_STRUCT_MEM + size
<1>0. \A q \in DOMAIN b : /\ q \in Nat /\ q <= MEM_SIZE /\ b[q].used \in BOOLEAN
                          /\ b[q].next \in DOMAIN b /\ b[q].next \in Nat
  BY StructsFinite
<1>1. p \in Nat /\ p + need <= MEM_SIZE /\ need \in Nat /\ 0 < need /\ p < MEM_SIZE
  BY HeapConstants
<1>2. PICK q \in DOMAIN b \ {MEM_SIZE} : q <= p /\ p < b[q].next
  BY <1>1, StructAt
<1>3. ASSUME NEW x \in Nat, p <= x, x < p + need PROVE x \notin HandedOut(b, g)
  <2>1. x \in p..(p + need - 1)
    BY <1>1, <1>3
  <2> QED
    BY <2>1
<1> HIDE DEF need
<1>4. b[q].used = FALSE
  <2>1. p \notin HandedOut(b, g)
    BY <1>1, <1>3
  <2>2. b[q].used # TRUE
    BY <1>1, <1>2, <2>1, TakenBytes
  <2> QED
    BY <1>0, <2>2
<1> DEFINE n == b[q].next
<1>5. n \in DOMAIN b /\ n \in Nat /\ b[n].used = TRUE /\ q \in Nat /\ n <= MEM_SIZE
  BY <1>0, <1>4 DEF Plugged
<1>6. p + need <= n
  <2>1. CASE n = MEM_SIZE
    BY <1>1, <2>1
  <2>2. CASE n # MEM_SIZE
    <3>1. n < b[n].next /\ n <= n
      <4>1. n + SIZEOF_STRUCT_MEM + MIN_SIZE <= b[n].next
        BY <1>5, <2>2 DEF Chained
      <4>2. b[n].next \in Nat
        BY <1>0, <1>5
      <4> HIDE DEF n
      <4> QED
        BY <1>5, <4>1, <4>2, HeapConstants
    <3>2. n \in HandedOut(b, g)
      BY <1>5, <2>2, <3>1, TakenBytes
    <3> QED
      BY <1>1, <1>2, <1>3, <1>5, <3>2
  <2> QED
    BY <2>1, <2>2
<1>7. l <= q
  BY <1>4 DEF LowestFree
<1> HIDE DEF n
<1>8. q < MEM_SIZE - size /\ size <= n - (q + SIZEOF_STRUCT_MEM)
  BY <1>1, <1>2, <1>5, <1>6, HeapConstants DEF need
<1>9. q \in Fits(b, l, size)
  BY <1>4, <1>7, <1>8 DEF Fits, n
<1> QED
  BY <1>9

LEMMA InvFinds == HeapInv => MallocFindsRoom
<1> SUFFICES ASSUME HeapInv PROVE MallocFindsRoom
  OBVIOUS
<1> DEFINE b == heap.blk
           g == heap.got
           l == heap.lfree
<1>1. Fit(heap) /\ Chained(b) /\ LowestFree(b, l) /\ Plugged(b) /\ Owned(b, g)
  BY DEF HeapInv, HeapKept, Fit
<1>2. ASSUME NEW n \in HeapSizes \ {0}
      PROVE  mem_malloc(heap, n).r = NullMem <=>
                \A p \in 0..(MEM_SIZE - (SIZEOF_STRUCT_MEM + BlockSize(n))) :
                   (p..(p + (SIZEOF_STRUCT_MEM + BlockSize(n)) - 1)) \cap HandedOut(b, g) # {}
  <2> DEFINE size == BlockSize(n)
             F == Fits(b, l, size)
             need == SIZEOF_STRUCT_MEM + size
  <2>1. n \in Nat /\ n # 0 /\ size \in Nat
    BY BlockOf
  <2>2. mem_malloc(heap, n) = IF n = 0 \/ size > MEM_SIZE \/ F = {} THEN [s |-> heap, r |-> NullMem]
                              ELSE [s |-> MallocAt(heap, Min(F), size), r |-> Min(F) + SIZEOF_STRUCT_MEM]
    BY <1>1, <2>1, MallocIs
  <2> HIDE DEF size
  <2>3. ASSUME NEW m \in F
        PROVE  m \in 0..(MEM_SIZE - need) /\ (m..(m + need - 1)) \cap HandedOut(b, g) = {}
    BY <1>1, <2>1, FitIsUntaken
  <2>4. ASSUME NEW p \in 0..(MEM_SIZE - need), (p..(p + need - 1)) \cap HandedOut(b, g) = {} PROVE F # {}
    BY <1>1, <2>1, <2>4, UntakenFits
  <2>5. CASE F = {}
    <3>1. mem_malloc(heap, n).r = NullMem
      BY <2>2, <2>5
    <3> QED
      BY <2>4, <2>5, <3>1 DEF size
  <2>6. CASE F # {}
    <3>1. PICK m \in F : TRUE
      BY <2>6
    <3>2. m \in 0..(MEM_SIZE - need) /\ (m..(m + need - 1)) \cap HandedOut(b, g) = {}
      BY <2>3
    <3>3. ~(size > MEM_SIZE)
      BY <2>1, <3>2, HeapConstants
    <3>4. Min(F) \in Nat
      <4>1. F \in SUBSET Nat
        BY <1>1, StructsFinite DEF Fits
      <4> HIDE DEF F
      <4> QED
        BY <2>6, <4>1, LeastIs
    <3>5. mem_malloc(heap, n).r = Min(F) + SIZEOF_STRUCT_MEM
      BY <2>1, <2>2, <2>6, <3>3
    <3>6. mem_malloc(heap, n).r # NullMem
      BY <3>4, <3>5, HeapConstants DEF NullMem
    <3> QED
      BY <3>2, <3>6 DEF size
  <2> QED
    BY <2>5, <2>6
<1> QED
  BY <1>2 DEF MallocFindsRoom, HandedOut

LEMMA InvSound == HeapInv => HeapSound
BY InvTiles, InvKeeps, InvFinds DEF HeapSound

-----------------------------------------------------------------------------
(* HeapInv holds after any calls: mem_malloc, mem_calloc, mem_trim and     *)
(* mem_free leave the structs in order, plugged and owned (mem.c).         *)
THEOREM HeapInvariant == HeapSpec => []HeapInv
BY HeapInitKept, HeapStep, PTL DEF HeapSpec

(* For every size of ram, struct mem, alignment and request, after any     *)
(* order of mem_malloc, mem_calloc, mem_trim and mem_free: the structs     *)
(* tile the ram and prev is the way back; what a caller holds stays its    *)
(* own, with the bytes asked for; and mem_malloc fails only when no        *)
(* stretch of unheld bytes has room for the struct and the data (mem.c).   *)
THEOREM HeapIsSound == HeapSpec => []HeapSound
BY HeapInvariant, InvSound, PTL
=============================================================================
