-------------------------------- MODULE Heap --------------------------------
(***************************************************************************)
(* The heap of lwip/core/mem.c, which is compiled when MEM_LIBC_MALLOC and *)
(* MEM_USE_POOLS are 0.  blk has the struct mem at each index of ram where *)
(* there is one, the end marker at MEM_SIZE included; got has the callers' *)
(* pointers with the size they asked for.  One context uses the heap       *)
(* (LWIP_ALLOW_MEM_FREE_FROM_OTHER_CONTEXT is 0, NO_SYS 1).                *)
(***************************************************************************)
EXTENDS Integers, FiniteSets, FiniteSetsExt

CONSTANTS MEM_SIZE,           \* MEM_SIZE_ALIGNED
          SIZEOF_STRUCT_MEM,
          MIN_SIZE,           \* MIN_SIZE_ALIGNED
          MEM_ALIGNMENT,
          SizeMod,            \* 2^16: mem_size_t is u16_t
          HeapSizes,          \* sizes callers ask for
          HeapCalls           \* calls of a behaviour

ASSUME HeapSizesFit ==
    /\ {MEM_SIZE, SIZEOF_STRUCT_MEM, MIN_SIZE, MEM_ALIGNMENT, SizeMod} \subseteq Nat \ {0}
    /\ \A n \in {MEM_SIZE, SIZEOF_STRUCT_MEM, MIN_SIZE} : n % MEM_ALIGNMENT = 0
    /\ SIZEOF_STRUCT_MEM + MIN_SIZE <= MEM_SIZE
    /\ HeapSizes \subseteq Nat
    /\ \A n \in HeapSizes : 2 * n + MEM_ALIGNMENT <= SizeMod

VARIABLE heap
NullMem == -1

-----------------------------------------------------------------------------
HeapInit == heap = [
    blk   |-> [p \in {0, MEM_SIZE} |-> [next |-> MEM_SIZE, prev |-> p, used |-> p = MEM_SIZE]],
    lfree |-> 0, got |-> << >>, calls |-> 0]

(* f with the value v at x, where it may have had none. *)
Extended(f, x, v) == [y \in DOMAIN f \cup {x} |-> IF y = x THEN v ELSE f[y]]

LWIP_MEM_ALIGN_SIZE(n) == (((n + MEM_ALIGNMENT - 1) \div MEM_ALIGNMENT) * MEM_ALIGNMENT) % SizeMod
BlockSize(n) == LET a == LWIP_MEM_ALIGN_SIZE(n) IN IF a < MIN_SIZE THEN MIN_SIZE ELSE a

(* What a walk along next visits; the end marker points to itself.         *)
ListFrom(s, p) ==
    LET n == Cardinality(DOMAIN s.blk)
        f[k \in 0..n] == IF k = 0 THEN p ELSE s.blk[f[k - 1]].next
    IN  {f[k] : k \in 0..n}
Room(s, p) == s.blk[p].next - (p + SIZEOF_STRUCT_MEM)

(* Struct n is given up, and its space goes to struct m before it.         *)
Merged(s, m, n) ==
    [p \in DOMAIN s.blk \ {n} |-> IF p = m THEN [s.blk[p] EXCEPT !.next = s.blk[n].next] ELSE s.blk[p]]
Join(s, m, n) ==
    [s EXCEPT !.lfree = IF @ = n THEN m ELSE @, !.blk = [Merged(s, m, n) EXCEPT ![s.blk[n].next].prev = m]]
plug_forward(s, m) ==
    LET n == s.blk[m].next
    IN  IF n # m /\ ~s.blk[n].used /\ n # MEM_SIZE THEN Join(s, m, n) ELSE s
plug_holes(s, m) ==
    LET s1 == plug_forward(s, m)
        p  == s1.blk[m].prev
    IN  IF p # m /\ ~s1.blk[p].used THEN Join(s1, p, m) ELSE s1

mem_free(s, rmem) ==
    LET m == rmem - SIZEOF_STRUCT_MEM
    IN  IF rmem < 0 \/ rmem >= MEM_SIZE THEN s
        ELSE plug_holes([s EXCEPT !.blk[m].used = FALSE, !.lfree = IF m < @ THEN m ELSE @], m)

(* A new free struct behind the first size bytes of struct m.              *)
Split_NoHeader(s, m, size) ==
    LET p == m + size
        b == Extended([s.blk EXCEPT ![m].next = p], p, [next |-> s.blk[m].next, prev |-> m, used |-> FALSE])
    IN  [s EXCEPT !.blk = IF s.blk[m].next = MEM_SIZE THEN b ELSE [b EXCEPT ![s.blk[m].next].prev = p]]
Split(s, m, size) ==
    LET p == m + SIZEOF_STRUCT_MEM + size
        b == Extended([s.blk EXCEPT ![m].next = p], p, [next |-> s.blk[m].next, prev |-> m, used |-> FALSE])
    IN  [s EXCEPT !.blk = IF s.blk[m].next = MEM_SIZE THEN b ELSE [b EXCEPT ![s.blk[m].next].prev = p]]

(* First fit from the lowest free struct; a struct that would not hold     *)
(* another one behind it is given whole.                                   *)
mem_malloc(s, asked) ==
    LET size == BlockSize(asked)
        fits == {p \in ListFrom(s, s.lfree) :
                    p < MEM_SIZE - size /\ ~s.blk[p].used /\ Room(s, p) >= size}
        m    == Min(fits)
        s1   == IF Room(s, m) >= size + SIZEOF_STRUCT_MEM + MIN_SIZE THEN Split(s, m, size) ELSE s
        s2   == [s1 EXCEPT !.blk[m].used = TRUE]
        free == {p \in ListFrom(s2, s2.lfree) : ~s2.blk[p].used \/ p = MEM_SIZE}
    IN  IF asked = 0 \/ size > MEM_SIZE \/ fits = {} THEN [s |-> s, r |-> NullMem]
        ELSE [s |-> IF m = s.lfree THEN [s2 EXCEPT !.lfree = Min(free)] ELSE s2, r |-> m + SIZEOF_STRUCT_MEM]
mem_calloc(s, count, size) == mem_malloc(s, (count * size) % SizeMod)

(* Moves the free struct behind the block, or makes one if there is room.  *)
mem_trim(s, rmem, asked) ==
    LET newsize == BlockSize(asked)
        m  == rmem - SIZEOF_STRUCT_MEM
        n  == s.blk[m].next
        p  == m + SIZEOF_STRUCT_MEM + newsize
        s1 == Split([s EXCEPT !.blk = Merged(s, m, n)], m, newsize)
    IN  IF newsize > MEM_SIZE \/ newsize > Room(s, m) THEN [s |-> s, r |-> NullMem]
        ELSE IF newsize = Room(s, m) THEN [s |-> s, r |-> rmem]
        ELSE IF ~s.blk[n].used THEN [s |-> [s1 EXCEPT !.lfree = IF @ = n THEN p ELSE @], r |-> rmem]
        ELSE IF newsize + SIZEOF_STRUCT_MEM + MIN_SIZE <= Room(s, m)
             THEN [s |-> [Split(s, m, newsize) EXCEPT !.lfree = IF p < @ THEN p ELSE @], r |-> rmem]
        ELSE [s |-> s, r |-> rmem]

-----------------------------------------------------------------------------
HeapCall(s) == heap.calls < HeapCalls /\ heap' = [s EXCEPT !.calls = @ + 1]
Given(a, n) == IF a.r = NullMem THEN a.s ELSE [a.s EXCEPT !.got = Extended(@, a.r, n)]

Malloc(n) == HeapCall(Given(mem_malloc(heap, n), n))
Calloc(n) == HeapCall(Given(mem_calloc(heap, 2, n), 2 * n))
FreeMem(r) == HeapCall([mem_free(heap, r) EXCEPT !.got = [q \in DOMAIN @ \ {r} |-> @[q]]])
TrimMem(r, n) == n <= heap.got[r] /\ HeapCall(Given(mem_trim(heap, r, n), n))

HeapNext ==
    \/ \E n \in HeapSizes : Malloc(n) \/ Calloc(n)
    \/ \E r \in DOMAIN heap.got : FreeMem(r) \/ \E n \in HeapSizes : TrimMem(r, n)
    \/ FreeMem(NullMem)

HeapSpec == HeapInit /\ [][HeapNext]_heap

-----------------------------------------------------------------------------
(* The structs follow one another from the start of ram to its end, each   *)
(* with its data between it and the next, and prev is the way back, after  *)
(* any order of allocations, shrinking and freeing (mem.c).                *)
HeapTiles ==
    /\ ListFrom(heap, 0) = DOMAIN heap.blk
    /\ \A p \in DOMAIN heap.blk \ {MEM_SIZE} :
          /\ Room(heap, p) >= MIN_SIZE /\ p % MEM_ALIGNMENT = 0
          /\ heap.blk[p].next # MEM_SIZE => heap.blk[heap.blk[p].next].prev = p

(* What a caller holds stays its own: every pointer given out is a used    *)
(* struct with the bytes asked for, and nothing is used that nobody holds. *)
AllocationsKept ==
    /\ {p \in DOMAIN heap.blk \ {MEM_SIZE} : heap.blk[p].used} = {r - SIZEOF_STRUCT_MEM : r \in DOMAIN heap.got}
    /\ \A r \in DOMAIN heap.got : Room(heap, r - SIZEOF_STRUCT_MEM) >= heap.got[r]

(* mem_malloc finds memory whenever there is some: it fails only when no   *)
(* stretch of bytes outside the held blocks has room for the struct and    *)
(* the data.  Holes are plugged, and lfree is never above a free struct.   *)
MallocFindsRoom ==
    LET taken == UNION {(r - SIZEOF_STRUCT_MEM)..(heap.blk[r - SIZEOF_STRUCT_MEM].next - 1) : r \in DOMAIN heap.got}
    IN  \A n \in HeapSizes \ {0} : LET need == SIZEOF_STRUCT_MEM + BlockSize(n) IN
           mem_malloc(heap, n).r = NullMem <=>
              \A p \in 0..(MEM_SIZE - need) : (p..(p + need - 1)) \cap taken # {}

(* The heap is whole, keeps what it gave and finds what is free (mem.c).   *)
HeapSound == HeapTiles /\ AllocationsKept /\ MallocFindsRoom
=============================================================================
