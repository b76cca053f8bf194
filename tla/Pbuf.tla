-------------------------------- MODULE Pbuf --------------------------------
(***************************************************************************)
(* Packet buffers (lwip/core/pbuf.c).  heap is the memory of the pbufs:    *)
(* next is the pbuf behind or Null, data the payload, front the bytes      *)
(* between the struct and the payload, where headers go.  At the end, the  *)
(* checksum over their bytes (lwip/core/ipv4/inet_chksum.c).               *)
(***************************************************************************)
EXTENDS Integers, Sequences, SequencesExt, FiniteSets

CONSTANTS Pbufs,              \* pbufs there is memory for, 1..n
          Offsets,            \* room for headers asked for, by layer
          Lengths, PbufTypes,
          PBUF_POOL_BUFSIZE

ASSUME PbufSizes == PBUF_POOL_BUFSIZE \in Nat \ {0} /\ \A o \in Offsets : o < PBUF_POOL_BUFSIZE

Null == 0
Blank == 0                    \* a byte nobody has written
FreePbuf == [type |-> "FREE", data |-> << >>, front |-> << >>, tot |-> 0, next |-> Null, ref |-> 0]

Blanks(n) == [i \in 1..n |-> Blank]
ChainOf(s, p) ==              \* the pbufs of the packet p
    LET f[n \in 0..Cardinality(Pbufs)] == IF n = 0 THEN <<p>>
            ELSE LET c == f[n - 1]
                     q == s.heap[Last(c)].next
                 IN  IF q = Null THEN c ELSE Append(c, q)
    IN  f[Cardinality(Pbufs)]
Flat(s, p) == LET C == ChainOf(s, p) IN FlattenSeq([i \in DOMAIN C |-> s.heap[C[i]].data])
Unowned(s) == {p \in Pbufs : s.heap[p].type = "FREE"}

-----------------------------------------------------------------------------
(* pbuf_free: down the chain as long as nobody else holds on to it.        *)
pbuf_free_Whole(s, p) ==
    LET C == ToSet(ChainOf(s, p))
    IN  IF s.heap[p].ref > 1 THEN [s EXCEPT !.heap[p].ref = @ - 1]
        ELSE [s EXCEPT !.heap = [q \in Pbufs |-> IF q \in C THEN FreePbuf ELSE @[q]]]
pbuf_free(s, p) ==
    LET f[n \in 0..Cardinality(Pbufs)] == IF n = 0 THEN [s |-> s, p |-> p]
            ELSE LET g == f[n - 1]
                     h == g.s.heap[g.p]
                 IN  IF g.p = Null THEN g
                     ELSE IF h.ref = 1 THEN [s |-> [g.s EXCEPT !.heap[g.p] = FreePbuf], p |-> h.next]
                     ELSE [s |-> [g.s EXCEPT !.heap[g.p].ref = @ - 1], p |-> Null]
    IN  f[Cardinality(Pbufs)].s
pbuf_ref(s, p) == [s EXCEPT !.heap[p].ref = @ + 1]

(* pbuf_alloc.  A packet from the pool is a chain of buffers of one size,  *)
(* of which the first also holds the headers; when the pool runs dry the   *)
(* part already there is given back.                                       *)
One(s, type, offset, len, tot) ==
    LET p == Min(Unowned(s))
    IN  [s |-> [s EXCEPT !.heap[p] = [FreePbuf EXCEPT !.type = type, !.data = Blanks(len), !.front = Blanks(offset),
                                                     !.tot = tot, !.ref = 1]], p |-> p]
PoolChain(s, offset, length) ==
    LET first == Min({length, PBUF_POOL_BUFSIZE - offset})
        a == One(s, "POOL", offset, first, length)
        f[n \in 0..length] ==          \* n more buffers
            IF n = 0 THEN [s |-> a.s, last |-> a.p, rem |-> length - first]
            ELSE LET g == f[n - 1]
                     b == One(g.s, "POOL", 0, Min({g.rem, PBUF_POOL_BUFSIZE}), g.rem)
                 IN  IF g.rem = 0 \/ g.s = s THEN g
                     ELSE IF Unowned(g.s) = {} THEN [s |-> pbuf_free(g.s, a.p), last |-> Null, rem |-> g.rem]
                     ELSE [s |-> [b.s EXCEPT !.heap[g.last].next = b.p], last |-> b.p,
                           rem |-> g.rem - Min({g.rem, PBUF_POOL_BUFSIZE})]
    IN  [s |-> f[length].s, p |-> IF f[length].s = s THEN Null ELSE a.p]
pbuf_alloc(s, offset, length, type) ==
    IF Unowned(s) = {} THEN [s |-> s, p |-> Null]
    ELSE CASE type = "POOL" -> PoolChain(s, offset, length)
           [] type = "RAM"  -> One(s, "RAM", offset, length, length)
           [] type = "REF"  -> One(s, "REF", 0, length, length)

(* pbuf_realloc: the packet shrinks to new_len bytes.                      *)
pbuf_realloc(s, p, new_len) ==
    LET C    == ChainOf(s, p)
        sum[i \in 0..Len(C)] == IF i = 0 THEN 0 ELSE sum[i - 1] + Len(s.heap[C[i]].data)
        k    == Min({i \in DOMAIN C : sum[i] >= new_len})
        q    == C[k]
        rem  == new_len - sum[k - 1]
        grow == new_len - s.heap[p].tot
        s1   == [s EXCEPT !.heap = [x \in Pbufs |-> IF \E i \in 1..(k - 1) : C[i] = x THEN [@[x] EXCEPT !.tot = @ + grow]
                                                    ELSE @[x]]]
        s2   == [s1 EXCEPT !.heap[q] = [@ EXCEPT !.data = SubSeq(@, 1, rem), !.tot = rem, !.next = Null]]
    IN  IF new_len >= s.heap[p].tot THEN s
        ELSE IF s.heap[q].next # Null THEN pbuf_free(s2, s.heap[q].next) ELSE s2

(* pbuf_header: uncover (n > 0) or strip (n < 0) a header.  What a REF     *)
(* points into is the caller's: there the room is not checked.             *)
Uncover(h, n) ==
    LET f == (IF Len(h.front) < n THEN Blanks(n - Len(h.front)) ELSE << >>) \o h.front
        k == Len(f) - n
    IN  [h EXCEPT !.data = SubSeq(f, k + 1, Len(f)) \o @, !.front = SubSeq(f, 1, k), !.tot = @ + n]
Strip(h, n) == [h EXCEPT !.data = SubSeq(@, n + 1, Len(@)), !.front = @ \o SubSeq(h.data, 1, n), !.tot = @ - n]
pbuf_header(s, p, n) ==
    LET h == s.heap[p]
    IN  CASE n > 0 /\ (n <= Len(h.front) \/ h.type = "REF") -> [s EXCEPT !.heap[p] = Uncover(@, n)]
          [] n < 0 /\ -n <= Len(h.data) -> [s EXCEPT !.heap[p] = Strip(@, -n)]
          [] OTHER                      -> s

pbuf_cat_LastOnly(s, h, t) ==
    LET C == ChainOf(s, h)
    IN  [s EXCEPT !.heap = [x \in Pbufs |-> IF x = h THEN [@[x] EXCEPT !.tot = @ + s.heap[t].tot,
                                                             !.next = IF x = Last(C) THEN t ELSE @]
                                            ELSE IF x = Last(C) THEN [@[x] EXCEPT !.next = t] ELSE @[x]]]
pbuf_cat(s, h, t) ==
    LET C == ChainOf(s, h)
    IN  [s EXCEPT !.heap = [x \in Pbufs |->
            IF x \notin ToSet(C) THEN @[x]
            ELSE [@[x] EXCEPT !.tot = @ + s.heap[t].tot, !.next = IF x = Last(C) THEN t ELSE @]]]
pbuf_chain(s, h, t) == pbuf_ref(pbuf_cat(s, h, t), t)

(* pbuf_dechain: only the first pbuf stays; the rest lives on if it is     *)
(* held by someone.                                                        *)
pbuf_dechain(s, p) ==
    LET h == s.heap[p]
        q == h.next
    IN  IF q = Null THEN s
        ELSE pbuf_free([s EXCEPT !.heap[q].tot = h.tot - Len(h.data), !.heap[p].next = Null,
                                 !.heap[p].tot = Len(h.data)], q)

-----------------------------------------------------------------------------
(* Bytes through a chain.  pbuf_copy_partial walks it from offset on.      *)
pbuf_copy_partial_KeepsOffset(s, p, len, offset) ==
    LET C == ChainOf(s, p)
        f[i \in 0..Len(C)] ==
            IF i = 0 THEN [out |-> << >>, len |-> len, offset |-> offset]
            ELSE LET g == f[i - 1]
                     d == s.heap[C[i]].data
                     n == Min({Len(d) - g.offset, g.len})
                 IN  IF g.len = 0 THEN g
                     ELSE IF g.offset # 0 /\ g.offset >= Len(d) THEN [g EXCEPT !.offset = @ - Len(d)]
                     ELSE [out |-> g.out \o SubSeq(d, g.offset + 1, g.offset + n), len |-> g.len - n, offset |-> g.offset]
    IN  f[Len(C)].out
pbuf_copy_partial(s, p, len, offset) ==
    LET C == ChainOf(s, p)
        f[i \in 0..Len(C)] ==
            IF i = 0 THEN [out |-> << >>, len |-> len, offset |-> offset]
            ELSE LET g == f[i - 1]
                     d == s.heap[C[i]].data
                     n == Min({Len(d) - g.offset, g.len})
                 IN  IF g.len = 0 THEN g
                     ELSE IF g.offset # 0 /\ g.offset >= Len(d) THEN [g EXCEPT !.offset = @ - Len(d)]
                     ELSE [out |-> g.out \o SubSeq(d, g.offset + 1, g.offset + n), len |-> g.len - n, offset |-> 0]
    IN  f[Len(C)].out

(* pbuf_take: a text over the front of the packet.                         *)
pbuf_take(s, p, text) ==
    LET C == ChainOf(s, p)
        f[i \in 0..Len(C)] ==
            IF i = 0 THEN [s |-> s, done |-> 0]
            ELSE LET g == f[i - 1]
                     d == s.heap[C[i]].data
                     n == Min({Len(text) - g.done, Len(d)})
                 IN  [s |-> [g.s EXCEPT !.heap[C[i]].data = SubSeq(text, g.done + 1, g.done + n) \o SubSeq(d, n + 1, Len(d))],
                      done |-> g.done + n]
    IN  IF s.heap[p].tot < Len(text) THEN s ELSE f[Len(C)].s

(* pbuf_copy: piece by piece, each as long as both sides allow.            *)
CopyStep_WholePieces(g) ==      \* takes both sides to be cut alike
    LET n == Min({Len(g.s.heap[g.to].data), Len(g.s.heap[g.from].data)})
        t == g.s.heap[g.to].data
    IN  [s |-> [g.s EXCEPT !.heap[g.to].data = SubSeq(g.s.heap[g.from].data, 1, n) \o SubSeq(t, n + 1, Len(t))],
         to |-> g.s.heap[g.to].next, at |-> 0, from |-> IF g.s.heap[g.to].next = Null THEN Null ELSE g.s.heap[g.from].next, off |-> 0]
CopyStep(g) ==
    LET t == g.s.heap[g.to].data
        f == g.s.heap[g.from].data
        n == Min({Len(t) - g.at, Len(f) - g.off})
        s1 == [g.s EXCEPT !.heap[g.to].data = SubSeq(t, 1, g.at) \o SubSeq(f, g.off + 1, g.off + n)
                                              \o SubSeq(t, g.at + n + 1, Len(t))]
    IN  [s |-> s1,
         to |-> IF g.at + n = Len(t) THEN g.s.heap[g.to].next ELSE g.to,
         at |-> IF g.at + n = Len(t) THEN 0 ELSE g.at + n,
         from |-> IF g.off + n >= Len(f) THEN g.s.heap[g.from].next ELSE g.from,
         off |-> IF g.off + n >= Len(f) THEN 0 ELSE g.off + n]
pbuf_copy(s, to, from) ==
    LET f[n \in 0..(2 * Cardinality(Pbufs))] ==
            IF n = 0 THEN [s |-> s, to |-> to, at |-> 0, from |-> from, off |-> 0]
            ELSE IF f[n - 1].from = Null THEN f[n - 1] ELSE CopyStep(f[n - 1])
    IN  f[2 * Cardinality(Pbufs)].s

(* pbuf_coalesce: the packet in one piece, if there is memory for it.      *)
pbuf_coalesce(s, p, offset) ==
    LET a == pbuf_alloc(s, offset, s.heap[p].tot, "RAM")
    IN  IF s.heap[p].next = Null \/ a.p = Null THEN [s |-> s, p |-> p]
        ELSE [s |-> pbuf_free(pbuf_copy(a.s, a.p, p), p), p |-> a.p]

NotFound == -1
pbuf_get_at(s, p, offset) ==
    LET C == ChainOf(s, p)
        sum[i \in 0..Len(C)] == IF i = 0 THEN 0 ELSE sum[i - 1] + Len(s.heap[C[i]].data)
        K == {i \in DOMAIN C : offset < sum[i]}
    IN  IF K = {} THEN 0 ELSE s.heap[C[Min(K)]].data[offset - sum[Min(K) - 1] + 1]

(* pbuf_memcmp: 0 when equal, else one more than where they differ.        *)
pbuf_memcmp_Short(s, p, offset, mem) ==
    LET D == {i \in 1..(Len(mem) - 1) : pbuf_get_at(s, p, offset + i - 1) # mem[i]} IN IF D = {} THEN 0 ELSE Min(D)
pbuf_memcmp(s, p, offset, mem) ==
    LET D == {i \in DOMAIN mem : pbuf_get_at(s, p, offset + i - 1) # mem[i]} IN IF D = {} THEN 0 ELSE Min(D)

(* pbuf_memfind goes on behind the byte that differed.                     *)
pbuf_memfind(s, p, mem) ==
    LET max == s.heap[p].tot - Len(mem)
        f[n \in 0..(max + 1)] == IF n = 0 THEN 0
            ELSE LET i == f[n - 1]
                 IN  IF i > max THEN i ELSE i + pbuf_memcmp(s, p, i, mem)
    IN  IF max < 0 \/ f[max + 1] > max THEN NotFound ELSE f[max + 1]

-----------------------------------------------------------------------------
(* The Internet checksum on a little-endian machine, in the two algorithms *)
(* that fit TLC's integers (2 is the one compiled), over a memory area and *)
(* over the pieces of a chain, whose payloads may start and end at odd     *)
(* addresses.                                                              *)
FOLD_U32T(u) == (u \div 65536) + (u % 65536)
SWAP_BYTES_IN_WORD(w) == ((w % 256) * 256) + ((w \div 256) % 256)

(* The sum of the words of d, first byte low (lo = 1) or high (lo = 256).  *)
Words(d, lo) ==
    LET f[i \in 0..Len(d)] == IF i = 0 THEN 0
                              ELSE f[i - 1] + d[i] * (IF i % 2 = 1 THEN lo ELSE 257 - lo)
    IN  f[Len(d)]

(* Algorithm 1: big-endian words, the sum put in network order at the end. *)
Algorithm1(d) == LET a == FOLD_U32T(Words(d, 256))
                 IN  SWAP_BYTES_IN_WORD(IF a >= 65536 THEN FOLD_U32T(a) ELSE a)

(* Algorithm 2: words at even addresses; a first byte at an odd address    *)
(* and a last one without a partner are added as half words.               *)
lwip_standard_chksum_NoSwap(d, odd) ==
    LET e == IF odd /\ d # << >> THEN Tail(d) ELSE d
    IN  FOLD_U32T(FOLD_U32T(Words(e, 1) + (IF odd /\ d # << >> THEN 256 * d[1] ELSE 0)))
lwip_standard_chksum(d, odd) ==
    LET e   == IF odd /\ d # << >> THEN Tail(d) ELSE d
        sum == FOLD_U32T(FOLD_U32T(Words(e, 1) + (IF odd /\ d # << >> THEN 256 * d[1] ELSE 0)))
    IN  IF odd THEN SWAP_BYTES_IN_WORD(sum) ELSE sum

(* The sum over the first len bytes of a chain; the address of a payload   *)
(* is odd when an odd number of bytes is before it.                        *)
ChainSum(s, p, len) ==
    LET C == ChainOf(s, p)
        f[i \in 0..Len(C)] ==
            IF i = 0 THEN [acc |-> 0, swapped |-> FALSE, len |-> len]
            ELSE LET g == f[i - 1]
                     h == s.heap[C[i]]
                     n == Min({Len(h.data), g.len})
                     a == FOLD_U32T(g.acc + lwip_standard_chksum(SubSeq(h.data, 1, n), Len(h.front) % 2 = 1))
                 IN  IF g.len = 0 THEN g
                     ELSE [acc |-> IF Len(h.data) % 2 = 1 THEN SWAP_BYTES_IN_WORD(a) ELSE a,
                           swapped |-> IF Len(h.data) % 2 = 1 THEN ~g.swapped ELSE g.swapped, len |-> g.len - n]
    IN  IF f[Len(C)].swapped THEN SWAP_BYTES_IN_WORD(f[Len(C)].acc) ELSE f[Len(C)].acc

inet_chksum_pbuf(s, p) == 65535 - ChainSum(s, p, s.heap[p].tot)
inet_chksum_pseudo_partial(s, p, pseudo, len) == 65535 - FOLD_U32T(FOLD_U32T(ChainSum(s, p, len) + pseudo))
inet_chksum_pseudo(s, p, pseudo) == inet_chksum_pseudo_partial(s, p, pseudo, s.heap[p].tot)

(* RFC 1071: the one's complement of the one's complement sum.             *)
OnesComplement(sum) == 65535 - (IF sum = 0 THEN 0 ELSE ((sum - 1) % 65535) + 1)
=============================================================================
