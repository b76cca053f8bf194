------------------------------ MODULE Packets ------------------------------
(***************************************************************************)
(* What the layers of the stack do with packet buffers: they allocate      *)
(* packets, share them, put headers before them and take them off, join    *)
(* and split them, copy and free them.  held counts the references the     *)
(* callers own.  They keep to the rules of pbuf.c: a reference is given    *)
(* back once, a packet is changed at its first pbuf, and a packet is not   *)
(* joined to itself.                                                       *)
(***************************************************************************)
EXTENDS Pbuf

CONSTANTS Incs,               \* sizes of headers
          Texts,              \* what callers write into a packet
          PbufCalls           \* calls of a behaviour
VARIABLE pb

-----------------------------------------------------------------------------
PbufInit == pb = [heap |-> [p \in Pbufs |-> FreePbuf], held |-> [p \in Pbufs |-> 0], calls |-> 0]

Held == {p \in Pbufs : pb.held[p] > 0}
Heads == {p \in Held : \A q \in Pbufs : pb.heap[q].next # p}
PbufCall(s) == pb.calls < PbufCalls /\ pb' = [s EXCEPT !.calls = @ + 1]
Owned(a) == IF a.p = Null THEN a.s ELSE [a.s EXCEPT !.held[a.p] = 1]

Alloc(offset, len, type) == PbufCall(Owned(pbuf_alloc(pb, offset, len, type)))
Release(p) == p \in Held /\ PbufCall([pbuf_free(pb, p) EXCEPT !.held[p] = @ - 1])
Share(p) == p \in Held /\ pb.held[p] < 2 /\ PbufCall([pbuf_ref(pb, p) EXCEPT !.held[p] = @ + 1])

(* pbuf_cat takes over the caller's reference to t, pbuf_chain does not.   *)
Joinable(h, t) == h \in Heads /\ t \in Heads /\ ToSet(ChainOf(pb, h)) \cap ToSet(ChainOf(pb, t)) = {}
Cat(h, t) == Joinable(h, t) /\ PbufCall([pbuf_cat(pb, h, t) EXCEPT !.held[t] = @ - 1])
Chain(h, t) == Joinable(h, t) /\ PbufCall(pbuf_chain(pb, h, t))
Dechain(p) == p \in Heads /\ pb.heap[p].next # Null /\ PbufCall(pbuf_dechain(pb, p))

(* A header never takes all of a pbuf: every layer leaves its payload.     *)
Header(p, n) == p \in Heads /\ Len(pb.heap[p].data) + n > 0 /\ PbufCall(pbuf_header(pb, p, n))
Realloc(p, len) == p \in Heads /\ len < pb.heap[p].tot /\ PbufCall(pbuf_realloc(pb, p, len))
Take(p, text) == p \in Heads /\ PbufCall(pbuf_take(pb, p, text))
Copy(to, from) == /\ Joinable(to, from) /\ pb.heap[to].tot >= pb.heap[from].tot
                  /\ PbufCall(pbuf_copy(pb, to, from))
Coalesce(p, offset) ==
    LET c == pbuf_coalesce(pb, p, offset)
    IN  /\ p \in Heads /\ pb.heap[p].next # Null
        /\ PbufCall(IF c.p = p THEN c.s ELSE [c.s EXCEPT !.held[p] = @ - 1, !.held[c.p] = 1])

PbufNext ==
    \/ \E o \in Offsets, n \in Lengths, t \in PbufTypes : Alloc(o, n, t)
    \/ \E p \in Pbufs : Release(p) \/ Share(p) \/ Dechain(p)
    \/ \E h, t \in Pbufs : Cat(h, t) \/ Chain(h, t) \/ Copy(h, t)
    \/ \E p \in Pbufs, n \in Incs : Header(p, n) \/ Header(p, -n)
    \/ \E p \in Pbufs, n \in Lengths : Realloc(p, n)
    \/ \E p \in Pbufs, t \in Texts : Take(p, t)
    \/ \E p \in Pbufs, o \in Offsets : Coalesce(p, o)

-----------------------------------------------------------------------------
(* A pbuf is freed with its last reference and not before: its count is    *)
(* the number of references callers own and of pbufs it hangs on, through  *)
(* every order of chaining, splitting, sharing and freeing (pbuf_free).    *)
RefsExact ==
    \A p \in Pbufs : /\ pb.heap[p].ref = pb.held[p] + Cardinality({q \in Pbufs : pb.heap[q].next = p})
                     /\ (pb.heap[p].type = "FREE") <=> (pb.heap[p].ref = 0)

(* tot_len of every pbuf is its own length and that of the pbufs behind    *)
(* it, the invariant pbuf.h states, in every pbuf a layer may hold: the    *)
(* first of a packet or one in the middle that was joined and cut again.   *)
TotLen == \A p \in Pbufs : pb.heap[p].type # "FREE" => pb.heap[p].tot = Len(Flat(pb, p))

(* Reading, comparing and searching a packet does not depend on how it is  *)
(* cut into pbufs: pbuf_copy_partial, pbuf_get_at and pbuf_copy see the    *)
(* bytes one after the other, for every offset and length.                 *)
CopyIsFlat ==
    \A p \in Heads : LET d == Flat(pb, p) IN
        /\ \A k \in 0..Len(d), n \in 1..Len(d) :
              pbuf_copy_partial(pb, p, n, k) = SubSeq(d, k + 1, IF k + n < Len(d) THEN k + n ELSE Len(d))
        /\ \A k \in DOMAIN d : pbuf_get_at(pb, p, k - 1) = d[k]

(* What is done to a packet changes its bytes as if it were in one piece,  *)
(* however it and the other one are cut: joined, shortened, copied and     *)
(* coalesced packets hold the bytes of what they are made of (pbuf_cat,    *)
(* pbuf_realloc, pbuf_copy, pbuf_take, pbuf_coalesce).                     *)
BytesKept ==
    \A p \in Heads : LET d == Flat(pb, p) IN
        /\ \A n \in 1..Len(d) : Flat(pbuf_realloc(pb, p, n), p) = SubSeq(d, 1, n)
        /\ \A t \in Texts : Len(t) <= Len(d) =>
              Flat(pbuf_take(pb, p, t), p) = t \o SubSeq(d, Len(t) + 1, Len(d))
        /\ LET c == pbuf_coalesce(pb, p, 0) IN Flat(c.s, c.p) = d
        /\ \A t \in Heads : Joinable(p, t) =>
              /\ Flat(pbuf_cat(pb, p, t), p) = d \o Flat(pb, t)
              /\ Len(d) >= pb.heap[t].tot => SubSeq(Flat(pbuf_copy(pb, p, t), p), 1, pb.heap[t].tot) = Flat(pb, t)

(* The checksum of a packet is the one's complement sum of its bytes,      *)
(* though it is made of sums over pieces that begin and end at odd         *)
(* addresses (inet_chksum_pbuf, inet_chksum_pseudo_partial), and the       *)
(* algorithms of inet_chksum.c agree.                                      *)
ChksumIsSum ==
    \A p \in Heads : LET d == Flat(pb, p) IN
        /\ inet_chksum_pbuf(pb, p) = OnesComplement(Words(d, 1))
        /\ inet_chksum_pseudo(pb, p, 65280) = OnesComplement(Words(d, 1) + 65280)
        /\ \A n \in 1..Len(d) : inet_chksum_pseudo_partial(pb, p, 65280, n) = OnesComplement(Words(SubSeq(d, 1, n), 1) + 65280)
        /\ Algorithm1(d) = 65535 - inet_chksum_pbuf(pb, p)

(* Where pbuf_memfind says a text is, it is, across pbuf borders.          *)
FindSound ==
    \A p \in Heads, t \in Texts : LET k == pbuf_memfind(pb, p, t) IN
        k # NotFound => SubSeq(Flat(pb, p), k + 1, k + Len(t)) = t

(* Packet buffers keep their references, their lengths and their bytes,    *)
(* however a packet is cut into pieces (pbuf.c, inet_chksum.c).            *)
PacketsSound == RefsExact /\ TotLen /\ CopyIsFlat /\ BytesKept /\ ChksumIsSum /\ FindSound
=============================================================================
