---------------------------- MODULE FramingProofs ----------------------------
(***************************************************************************)
(* What a frame means, what cobs_encode makes, and what cobs_decoder_put   *)
(* does to what arrives, for every byte width.                             *)
(*                                                                         *)
(* The meaning of a frame (CobsFormat) is recursive.  The lemmas of the    *)
(* first part turn it into equations, by induction over the positions, and *)
(* then into what a frame means that has a byte more, or one data byte     *)
(* more in its last block, than a frame whose meaning is known.  That is   *)
(* all that the encoder and the decoder do to a frame.                     *)
(***************************************************************************)
EXTENDS CobsEncoder, Link, Induction, SequenceTheorems
-----------------------------------------------------------------------------
(***************************************************************************)
(* What a frame means.                                                     *)
(***************************************************************************)

(* The bytes of a frame that can be followed: a code of zero leads nowhere. *)
FrameSeqs == Seq(Nat \ {0})

(* C holds the code positions of f: the first one, with every one the next *)
(* one, and no others.                                                     *)
IsChain(f, C) ==
  /\ C \subseteq 1..(Len(f) + 1) /\ 1 \in C
  /\ \A p \in C : p <= Len(f) /\ p + f[p] <= Len(f) + 1 => p + f[p] \in C
  /\ \A q \in C \ {1} : \E p \in C : p < q /\ p + f[p] = q

LEMMA FrameByte ==
  ASSUME NEW f \in FrameSeqs
  PROVE  /\ Len(f) \in Nat
         /\ \A p \in 1..Len(f) : f[p] \in Nat /\ f[p] >= 1
BY DEF FrameSeqs

LEMMA ChainIn ==
  ASSUME NEW f \in FrameSeqs, NEW C, NEW D, IsChain(f, C), IsChain(f, D)
  PROVE  C \subseteq D
<1> DEFINE T == C \ D
<1>1. SUFFICES ASSUME T # {} PROVE FALSE
  OBVIOUS
<1>2. Len(f) \in Nat /\ T \in SUBSET Nat
  BY FrameByte DEF IsChain
<1>3. PICK x \in T : \A y \in T : x <= y
  BY <1>1, <1>2, LeastNat
<1>4. x \in C /\ x \notin D /\ x # 1 /\ x \in 1..(Len(f) + 1)
  BY DEF IsChain
<1>5. PICK p \in C : p < x /\ p + f[p] = x
  BY <1>4 DEF IsChain
<1>6. p \in 1..(Len(f) + 1)
  BY DEF IsChain
<1>7. p \in D
  BY <1>2, <1>3, <1>4, <1>5, <1>6
<1>8. p <= Len(f) /\ p + f[p] <= Len(f) + 1
  BY <1>2, <1>4, <1>5, <1>6
<1> QED
  BY <1>4, <1>5, <1>7, <1>8 DEF IsChain

(* A frame has one chain. *)
LEMMA ChainUnique ==
  ASSUME NEW f \in FrameSeqs, NEW C, NEW D, IsChain(f, C), IsChain(f, D)
  PROVE  C = D
<1>1. C \subseteq D
  BY ChainIn
<1>2. D \subseteq C
  BY ChainIn
<1> QED
  BY <1>1, <1>2

(* Between a code and the next one there are only data bytes. *)
LEMMA ChainGap ==
  ASSUME NEW f \in FrameSeqs, NEW C, IsChain(f, C),
         NEW p \in C, p <= Len(f), NEW q \in C, p < q
  PROVE  p + f[p] <= q
<1> DEFINE T == {x \in C : \E y \in C : y <= Len(f) /\ y < x /\ x < y + f[y]}
<1>0. Len(f) \in Nat /\ C \subseteq 1..(Len(f) + 1)
  BY FrameByte DEF IsChain
<1>a. \A y \in C : y \in Nat /\ (y <= Len(f) => f[y] \in Nat /\ f[y] >= 1)
  BY <1>0, FrameByte
<1>1. ASSUME T # {} PROVE FALSE
  <2>1. T \in SUBSET Nat
    BY <1>a
  <2>2. PICK x \in T : \A y \in T : x <= y
    BY <1>1, <2>1, LeastNat
  <2>3. PICK y \in C : y <= Len(f) /\ y < x /\ x < y + f[y]
    OBVIOUS
  <2>4. x \in C /\ x # 1
    BY <1>0, <2>3
  <2>5. PICK z \in C : z < x /\ z + f[z] = x
    BY <2>4 DEF IsChain
  <2>6. /\ x \in Nat /\ y \in Nat /\ z \in Nat /\ x <= Len(f) + 1 /\ z <= Len(f)
        /\ f[y] \in Nat /\ f[z] \in Nat
    BY <1>0, <1>a, <2>3, <2>4, <2>5, SMTT(30)
  <2>7. CASE z = y
    BY <2>3, <2>5, <2>6, <2>7
  <2>8. CASE z < y
    <3>1. y \in T
      BY <2>3, <2>5, <2>6, <2>8
    <3> QED
      BY <2>2, <2>3, <2>6, <3>1
  <2>9. CASE y < z
    <3>1. z < y + f[y]
      BY <2>3, <2>5, <2>6, SMTT(30)
    <3>2. z \in T
      BY <2>3, <2>9, <3>1
    <3> QED
      BY <2>2, <2>5, <2>6, <3>2
  <2> QED
    BY <2>6, <2>7, <2>8, <2>9
<1>2. q \notin T
  BY <1>1
<1>3. ~(q < p + f[p])
  BY <1>2
<1> QED
  BY <1>3, <1>a

-----------------------------------------------------------------------------
(* CodesFrom as the equation it was written as: the positions that can be  *)
(* reached from each one solve it.                                         *)
Follow(f, codes, p) ==
  IF p > Len(f) THEN {p}
  ELSE {p} \cup (IF p + f[p] > Len(f) + 1 THEN {} ELSE codes[p + f[p]])

LEMMA CodesUnfold ==
  ASSUME NEW f \in FrameSeqs
  PROVE  CodesFrom(f) = [p \in 1..(Len(f) + 1) |-> Follow(f, CodesFrom(f), p)]
<1> DEFINE N == Len(f) + 1
           Closed(D) == \A p \in D : p <= Len(f) /\ p + f[p] <= N => p + f[p] \in D
           g == [p \in 1..N |-> {q \in 1..N :
                   \A D \in SUBSET (1..N) : p \in D /\ Closed(D) => q \in D}]
<1>0. Len(f) \in Nat /\ N \in Nat
  BY FrameByte
<1>a. \A p \in 1..N : p <= Len(f) => f[p] \in Nat /\ f[p] >= 1
  BY <1>0, FrameByte
<1>1. \A p \in 1..N : p \in g[p] /\ g[p] \subseteq 1..N
  OBVIOUS
<1>2. ASSUME NEW p \in 1..N PROVE Closed(g[p])
  <2> SUFFICES ASSUME NEW r \in g[p], r <= Len(f), r + f[r] <= N
               PROVE  r + f[r] \in g[p]
    OBVIOUS
  <2>1. r \in 1..N
    OBVIOUS
  <2>2. f[r] \in Nat /\ r + f[r] \in 1..N
    BY <1>0, <1>a, <2>1
  <2>3. ASSUME NEW D \in SUBSET (1..N), p \in D, Closed(D) PROVE r + f[r] \in D
    <3>1. r \in D
      BY <2>3
    <3> QED
      BY <2>3, <3>1
  <2> QED
    BY <2>2, <2>3
<1>3. ASSUME NEW p \in 1..N PROVE g[p] = Follow(f, g, p)
  <2> DEFINE X == IF p > Len(f) \/ p + f[p] > N THEN {} ELSE g[p + f[p]]
  <2>1. Follow(f, g, p) = {p} \cup X
    BY <1>0 DEF Follow
  <2>2. ~(p > Len(f) \/ p + f[p] > N) => p + f[p] \in 1..N
    BY <1>0, <1>a
  <2>3. X \subseteq 1..N
    BY <1>1, <2>2
  <2>4. Closed({p} \cup X)
    <3>1. SUFFICES ASSUME NEW r \in {p} \cup X, r <= Len(f), r + f[r] <= N
                   PROVE  r + f[r] \in {p} \cup X
      OBVIOUS
    <3>2. CASE r = p
      <4>1. ~(p > Len(f) \/ p + f[p] > N)
        BY <1>0, <3>1, <3>2, <2>2, <1>a
      <4> QED
        BY <1>1, <2>2, <3>2, <4>1
    <3>3. CASE r \in X
      <4>1. ~(p > Len(f) \/ p + f[p] > N)
        BY <3>3
      <4>2. Closed(g[p + f[p]])
        BY <1>2, <2>2, <4>1
      <4> QED
        BY <3>1, <3>3, <4>1, <4>2
    <3> QED
      BY <3>2, <3>3
  <2>5. g[p] \subseteq {p} \cup X
    <3>1. {p} \cup X \in SUBSET (1..N) /\ p \in {p} \cup X
      BY <2>3
    <3> HIDE DEF X
    <3> QED
      BY <2>4, <3>1
  <2>6. X \subseteq g[p]
    <3> SUFFICES ASSUME ~(p > Len(f) \/ p + f[p] > N), NEW q \in g[p + f[p]]
                 PROVE  q \in g[p]
      OBVIOUS
    <3>1. p <= Len(f) /\ p + f[p] <= N /\ p + f[p] \in 1..N
      BY <1>0, <1>a, <2>2
    <3>2. q \in 1..N
      BY <1>1, <3>1
    <3>3. ASSUME NEW D \in SUBSET (1..N), p \in D, Closed(D) PROVE q \in D
      <4>1. p + f[p] \in D
        BY <3>1, <3>3
      <4> QED
        BY <3>1, <3>3, <4>1
    <3> QED
      BY <3>2, <3>3
  <2>7. p \in g[p]
    BY <1>1
  <2> HIDE DEF g, X
  <2> QED
    BY <2>1, <2>5, <2>6, <2>7
<1> HIDE DEF g
<1>4. g = [p \in 1..N |-> Follow(f, g, p)]
  <2>1. g = [p \in 1..N |-> g[p]]
    BY DEF g
  <2> QED
    BY <1>3, <2>1
<1> QED
  BY <1>4 DEF CodesFrom, Follow

(* Codes holds the chain of a frame. *)
LEMMA CodesChain ==
  ASSUME NEW f \in FrameSeqs
  PROVE  IsChain(f, Codes(f))
<1> DEFINE N == Len(f) + 1
           codes == CodesFrom(f)
           Good(p) ==
             /\ codes[p] \subseteq p..N /\ p \in codes[p]
             /\ \A q \in codes[p] : q <= Len(f) /\ q + f[q] <= N => q + f[q] \in codes[p]
             /\ \A q \in codes[p] \ {p} : \E r \in codes[p] : r < q /\ r + f[r] = q
           T == {k \in Nat : k < N /\ ~Good(N - k)}
<1>0. Len(f) \in Nat /\ N \in Nat \ {0}
  BY FrameByte
<1>a. \A p \in 1..Len(f) : f[p] \in Nat /\ f[p] >= 1
  BY FrameByte
<1>1. \A p \in 1..N : codes[p] = Follow(f, codes, p)
  BY CodesUnfold
<1> HIDE DEF codes
<1>2. ASSUME NEW k \in T, \A y \in T : k <= y PROVE FALSE
  <2> DEFINE p == N - k
  <2>1. k \in Nat /\ k < N /\ ~Good(p) /\ p \in 1..N /\ k = N - p
    BY <1>0
  <2>a. codes[p] = Follow(f, codes, p)
    BY <1>1, <2>1
  <2> HIDE DEF p
  <2>2. CASE p = N
    <3>1. codes[p] = {p}
      BY <1>0, <2>1, <2>2, <2>a DEF Follow
    <3>2. Good(p)
      BY <1>0, <2>1, <2>2, <3>1
    <3> QED
      BY <2>1, <3>2
  <2>3. CASE p # N /\ p + f[p] > N
    <3>1. p \in 1..Len(f) /\ f[p] \in Nat
      BY <1>0, <1>a, <2>1, <2>3
    <3>2. codes[p] = {p}
      BY <1>0, <2>1, <2>3, <2>a, <3>1 DEF Follow
    <3>3. Good(p)
      BY <1>0, <2>1, <2>3, <3>1, <3>2
    <3> QED
      BY <2>1, <3>3
  <2>4. CASE p # N /\ ~(p + f[p] > N)
    <3> DEFINE w == p + f[p]
    <3>1. p \in 1..Len(f) /\ f[p] \in Nat /\ f[p] >= 1
      BY <1>0, <1>a, <2>1, <2>4
    <3>2. codes[p] = {p} \cup codes[w]
      BY <1>0, <2>1, <2>4, <2>a, <3>1 DEF Follow
    <3>3. w \in 1..N /\ p < w /\ w \in Nat
      BY <1>0, <2>4, <3>1
    <3>4. Good(w)
      <4>1. N - w \in Nat /\ N - w < k /\ N - w < N /\ N - (N - w) = w
        BY <1>0, <2>1, <3>3
      <4> DEFINE v == N - w
      <4>2. v \notin T
        <5> HIDE DEF v, T
        <5>1. v \in Nat /\ v < k
          BY <4>1 DEF v
        <5> QED
          BY <1>2, <2>1, <5>1
      <4> QED
        BY <4>1, <4>2 DEF v
    <3> HIDE DEF w
    <3>5. codes[p] \subseteq p..N /\ p \in codes[p]
      BY <1>0, <2>1, <3>2, <3>3, <3>4
    <3>6. ASSUME NEW q \in codes[p], q <= Len(f), q + f[q] <= N
          PROVE  q + f[q] \in codes[p]
      <4>1. CASE q = p
        BY <3>2, <3>4, <4>1 DEF w
      <4>2. CASE q \in codes[w]
        BY <3>2, <3>4, <3>6, <4>2
      <4> QED
        BY <3>2, <4>1, <4>2
    <3>7. ASSUME NEW q \in codes[p] \ {p}
          PROVE  \E r \in codes[p] : r < q /\ r + f[r] = q
      <4>1. CASE q = w
        BY <3>3, <3>5, <4>1 DEF w
      <4>2. CASE q \in codes[w] \ {w}
        BY <3>2, <3>4, <4>2
      <4> QED
        BY <3>2, <4>1, <4>2
    <3> QED
      BY <2>1, <3>5, <3>6, <3>7
  <2> QED
    BY <2>2, <2>3, <2>4
<1>3. T = {}
  <2>1. T \in SUBSET Nat
    OBVIOUS
  <2> HIDE DEF T
  <2>2. SUFFICES ASSUME T # {} PROVE FALSE
    OBVIOUS
  <2>3. PICK x \in T : \A y \in T : x <= y
    BY <2>1, <2>2, LeastNat
  <2> QED
    BY <1>2, <2>3
<1>4. Good(1)
  <2>1. N - 1 \in Nat /\ N - 1 < N /\ N - (N - 1) = 1
    BY <1>0
  <2> QED
    BY <1>3, <2>1
<1>5. Codes(f) = codes[1]
  BY DEF Codes, codes
<1> QED
  BY <1>0, <1>4, <1>5 DEF IsChain

(* A frame whose chain is known has those codes. *)
LEMMA CodesAre ==
  ASSUME NEW f \in FrameSeqs, NEW C, IsChain(f, C)
  PROVE  Codes(f) = C
BY CodesChain, ChainUnique

-----------------------------------------------------------------------------
(* MessageTo as the equation it was written as. *)
LEMMA MessageUnfold ==
  ASSUME NEW f, NEW C, Len(f) \in Nat
  PROVE  MessageTo(f, C) =
           [n \in 0..Len(f) |->
              IF n = 0 THEN <<>> ELSE AddByte(f, C, MessageTo(f, C)[n - 1], n)]
<1> DEFINE Solves(g, z) ==
             g = [n \in 0..z |-> IF n = 0 THEN <<>> ELSE AddByte(f, C, g[n - 1], n)]
           S == {z \in Nat : \E g : Solves(g, z)}
<1>1. 0 \in S
  <2> DEFINE g == [n \in 0..0 |-> <<>>]
  <2>1. g = [n \in 0..0 |-> IF n = 0 THEN <<>> ELSE AddByte(f, C, g[n - 1], n)]
    OBVIOUS
  <2> QED
    BY <2>1
<1>2. ASSUME NEW z \in Nat, z \in S PROVE z + 1 \in S
  <2>1. PICK g : Solves(g, z)
    BY <1>2
  <2> DEFINE h == [n \in 0..(z + 1) |->
                     IF n = z + 1 THEN AddByte(f, C, g[z], z + 1) ELSE g[n]]
  <2>2. \A n \in 0..z : g[n] = IF n = 0 THEN <<>> ELSE AddByte(f, C, g[n - 1], n)
    BY <2>1
  <2>3. ASSUME NEW n \in 0..(z + 1)
        PROVE  h[n] = IF n = 0 THEN <<>> ELSE AddByte(f, C, h[n - 1], n)
    <3>1. CASE n = 0
      BY <2>2, <3>1
    <3>2. CASE n = z + 1
      <4>1. h[n] = AddByte(f, C, g[z], z + 1) /\ h[n - 1] = g[z]
        BY <3>2
      <4> QED
        BY <3>2, <4>1
    <3>3. CASE n \in 1..z
      <4>1. h[n] = g[n] /\ h[n - 1] = g[n - 1] /\ n # 0
        BY <3>3
      <4> QED
        BY <2>2, <3>3, <4>1
    <3> QED
      BY <3>1, <3>2, <3>3
  <2>4. h = [n \in 0..(z + 1) |-> h[n]]
    OBVIOUS
  <2> HIDE DEF h
  <2>5. Solves(h, z + 1)
    BY <2>3, <2>4
  <2> QED
    BY <2>5
<1>3. Nat \subseteq S
  <2> HIDE DEF S
  <2> QED
    BY <1>1, <1>2, NatInd
<1>4. \E g : Solves(g, Len(f))
  BY <1>3
<1> QED
  BY <1>4 DEF MessageTo

LEMMA MessageAt ==
  ASSUME NEW f, NEW C, Len(f) \in Nat
  PROVE  /\ MessageTo(f, C)[0] = <<>>
         /\ \A n \in 0..Len(f), k \in 0..Len(f) :
              n = k + 1 => MessageTo(f, C)[n] = AddByte(f, C, MessageTo(f, C)[k], n)
<1> DEFINE M == MessageTo(f, C)
<1>1. M = [n \in 0..Len(f) |-> IF n = 0 THEN <<>> ELSE AddByte(f, C, M[n - 1], n)]
  BY MessageUnfold
<1> HIDE DEF M
<1>2. M[0] = <<>>
  BY <1>1
<1>3. ASSUME NEW n \in 0..Len(f), NEW k \in 0..Len(f), n = k + 1
      PROVE  M[n] = AddByte(f, C, M[k], n)
  <2>1. n # 0 /\ n - 1 = k
    BY <1>3
  <2>2. M[n] = AddByte(f, C, M[n - 1], n)
    BY <1>1, <2>1
  <2> QED
    BY <2>1, <2>2
<1> QED
  BY <1>2, <1>3 DEF M

(* What the first n bytes of a frame stand for depends on them and on      *)
(* their codes only.                                                       *)
LEMMA MessagePrefix ==
  ASSUME NEW f, NEW C, NEW g, NEW D, Len(f) \in Nat, Len(g) \in Nat,
         NEW z \in Nat, z <= Len(f), z <= Len(g),
         \A k \in 1..z : /\ k \in C <=> k \in D
                         /\ k \notin C => f[k] = g[k]
                         /\ k \in C => (ZeroBefore(f, C, k) <=> ZeroBefore(g, D, k))
  PROVE  MessageTo(f, C)[z] = MessageTo(g, D)[z]
<1> DEFINE F == MessageTo(f, C)
           G == MessageTo(g, D)
           S == {n \in Nat : n <= z => F[n] = G[n]}
<1>0. \A n \in 0..Len(f) : F[n] = IF n = 0 THEN <<>> ELSE AddByte(f, C, F[n - 1], n)
  BY MessageUnfold
<1>1. \A n \in 0..Len(g) : G[n] = IF n = 0 THEN <<>> ELSE AddByte(g, D, G[n - 1], n)
  BY MessageUnfold
<1> HIDE DEF F, G
<1>2. 0 \in S
  BY <1>0, <1>1
<1>3. ASSUME NEW n \in Nat, n \in S PROVE n + 1 \in S
  <2> SUFFICES ASSUME n + 1 <= z PROVE F[n + 1] = G[n + 1]
    OBVIOUS
  <2> DEFINE k == n + 1
  <2>1. F[n] = G[n]
    BY <1>3
  <2>2. k \in 1..z /\ k \in 0..Len(f) /\ k \in 0..Len(g) /\ k # 0 /\ k - 1 = n
    OBVIOUS
  <2> HIDE DEF k
  <2>3. F[k] = AddByte(f, C, F[n], k) /\ G[k] = AddByte(g, D, G[n], k)
    BY <1>0, <1>1, <2>2
  <2>4. AddByte(f, C, F[n], k) = AddByte(g, D, F[n], k)
    BY <2>2 DEF AddByte
  <2> QED
    BY <2>1, <2>3, <2>4 DEF k
<1>4. Nat \subseteq S
  <2> HIDE DEF S
  <2> QED
    BY <1>2, <1>3, NatInd
<1>5. z \in S
  BY <1>4
<1> QED
  BY <1>5 DEF F, G

(* A message consists of bytes. *)
LEMMA MessageType ==
  ASSUME NEW f \in Seq(Byte), NEW C, NEW z \in 0..Len(f)
  PROVE  MessageTo(f, C)[z] \in Seq(Byte)
<1> DEFINE F == MessageTo(f, C)
           S == {n \in Nat : n <= Len(f) => F[n] \in Seq(Byte)}
<1>0. Len(f) \in Nat /\ EOF \in Byte
  BY MaxCodeAssumption DEF Byte, EOF
<1>1. \A n \in 0..Len(f) : F[n] = IF n = 0 THEN <<>> ELSE AddByte(f, C, F[n - 1], n)
  BY <1>0, MessageUnfold
<1> HIDE DEF F
<1>2. 0 \in S
  <2>1. F[0] = <<>>
    BY <1>0, <1>1
  <2>2. <<>> \in Seq(Byte)
    OBVIOUS
  <2> QED
    BY <2>1, <2>2
<1>3. ASSUME NEW n \in Nat, n \in S PROVE n + 1 \in S
  <2> SUFFICES ASSUME n + 1 <= Len(f) PROVE F[n + 1] \in Seq(Byte)
    OBVIOUS
  <2>1. F[n] \in Seq(Byte)
    BY <1>0, <1>3
  <2>2. F[n + 1] = AddByte(f, C, F[n], n + 1)
    BY <1>0, <1>1
  <2>3. f[n + 1] \in Byte
    BY <1>0
  <2> QED
    BY <1>0, <2>1, <2>2, <2>3 DEF AddByte
<1>4. Nat \subseteq S
  <2> HIDE DEF S
  <2> QED
    BY <1>2, <1>3, NatInd
<1> QED
  BY <1>0, <1>4 DEF F

-----------------------------------------------------------------------------
(* A frame that grows.  c is the code of its last block, which has as many *)
(* data bytes as the code says or fewer.                                   *)
LastCode(f, c) == c \in Codes(f) /\ c <= Len(f) /\ c + f[c] > Len(f)

LEMMA LastIsLast ==
  ASSUME NEW f \in FrameSeqs, NEW c, LastCode(f, c)
  PROVE  /\ c \in 1..Len(f) /\ f[c] \in Nat
         /\ \A p \in Codes(f) : p <= Len(f) => p <= c
         /\ \A p \in Codes(f) : p < c => p + f[p] <= c
         /\ Len(f) + 1 \in Codes(f) <=> c + f[c] = Len(f) + 1
<1> DEFINE C == Codes(f)
           N == Len(f)
<1>0. IsChain(f, C) /\ N \in Nat
  BY CodesChain, FrameByte
<1>1. c \in C /\ c <= N /\ c + f[c] > N
  BY DEF LastCode
<1>2. C \subseteq 1..(N + 1)
  BY <1>0 DEF IsChain
<1> HIDE DEF C
<1>3. c \in 1..N /\ f[c] \in Nat /\ f[c] >= 1
  BY <1>0, <1>1, <1>2, FrameByte
<1>4. ASSUME NEW p \in C, p <= N PROVE p <= c
  <2>1. CASE c < p
    <3>1. c + f[c] <= p
      BY <1>0, <1>1, <2>1, ChainGap
    <3> QED
      BY <1>0, <1>1, <1>2, <1>3, <1>4, <3>1
  <2> QED
    BY <1>2, <1>3, <2>1
<1>5. ASSUME NEW p \in C, p < c PROVE p + f[p] <= c
  <2>1. p <= N
    BY <1>2, <1>3, <1>5
  <2> QED
    BY <1>0, <1>1, <1>5, <2>1, ChainGap
<1>6. ASSUME N + 1 \in C PROVE c + f[c] = N + 1
  <2>1. c + f[c] <= N + 1
    <3>1. c < N + 1
      BY <1>3
    <3> QED
      BY <1>0, <1>1, <1>6, <3>1, ChainGap
  <2> QED
    BY <1>0, <1>1, <1>3, <2>1
<1>7. ASSUME c + f[c] = N + 1 PROVE N + 1 \in C
  <2>1. c + f[c] <= N + 1
    BY <1>0, <1>7
  <2>2. c + f[c] \in C
    BY <1>0, <1>1, <2>1 DEF IsChain
  <2> QED
    BY <1>7, <2>2
<1> QED
  BY <1>3, <1>4, <1>5, <1>6, <1>7 DEF C

(* The codes of a frame with a byte more. *)
LEMMA CodesAppend ==
  ASSUME NEW f \in FrameSeqs, NEW c, LastCode(f, c), NEW ch \in Nat \ {0}
  PROVE  LET g == Append(f, ch)
             D == Codes(f) \cup
                    {x \in {Len(f) + 2} : \/ c + f[c] = x
                                          \/ Len(f) + 1 \in Codes(f) /\ ch = 1}
         IN  g \in FrameSeqs /\ IsChain(g, D) /\ Codes(g) = D
<1> DEFINE C == Codes(f)
           N == Len(f)
           g == Append(f, ch)
           X == {x \in {N + 2} : c + f[c] = x \/ (N + 1 \in C /\ ch = 1)}
           D == C \cup X
<1>0. /\ IsChain(f, C) /\ N \in Nat
      /\ \A p \in 1..N : f[p] \in Nat /\ f[p] >= 1
  BY CodesChain, FrameByte
<1>1. /\ c \in C /\ c \in 1..N /\ f[c] \in Nat
      /\ \A p \in C : p <= N => p <= c
      /\ \A p \in C : p < c => p + f[p] <= c
      /\ N + 1 \in C <=> c + f[c] = N + 1
  BY LastIsLast DEF LastCode
<1>2. /\ g \in FrameSeqs /\ Len(g) = N + 1 /\ g[N + 1] = ch
      /\ \A p \in 1..N : g[p] = f[p]
  BY DEF FrameSeqs
<1>3. C \subseteq 1..(N + 1) /\ 1 \in C
  BY <1>0 DEF IsChain
<1> HIDE DEF C, g, N
<1>4. D \subseteq 1..(Len(g) + 1) /\ 1 \in D
  <2>1. N + 2 \in 1..(Len(g) + 1) /\ 1..(N + 1) \subseteq 1..(Len(g) + 1)
    BY <1>0, <1>2
  <2>2. X \subseteq {N + 2}
    OBVIOUS
  <2> QED
    BY <1>3, <2>1, <2>2
<1>5. ASSUME NEW p \in D, p <= Len(g), p + g[p] <= Len(g) + 1
      PROVE  p + g[p] \in D
  <2>1. p \in C
    BY <1>0, <1>2, <1>5
  <2>2. CASE p = N + 1
    <3>1. p + g[p] = N + 2 /\ ch = 1
      BY <1>0, <1>2, <1>5, <2>2
    <3> QED
      BY <2>1, <2>2, <3>1
  <2>3. CASE p # N + 1
    <3>1. p \in 1..N /\ g[p] = f[p] /\ f[p] \in Nat /\ f[p] >= 1
      BY <1>0, <1>2, <1>3, <2>1, <2>3
    <3>2. CASE p + f[p] <= N + 1
      <4>1. p + f[p] \in C
        BY <1>0, <2>1, <3>1, <3>2 DEF IsChain, N
      <4> QED
        BY <3>1, <4>1
    <3>3. CASE p + f[p] = N + 2
      <4>1. ~(p < c)
        BY <1>0, <1>1, <2>1, <3>1, <3>3
      <4>2. p = c
        BY <1>1, <2>1, <3>1, <4>1
      <4> QED
        BY <3>1, <3>3, <4>2
    <3> QED
      BY <1>0, <1>2, <1>5, <3>1, <3>2, <3>3
  <2> QED
    BY <2>2, <2>3
<1>6. ASSUME NEW q \in D \ {1} PROVE \E p \in D : p < q /\ p + g[p] = q
  <2>1. CASE q \in C
    <3>1. PICK p \in C : p < q /\ p + f[p] = q
      BY <1>0, <1>6, <2>1 DEF IsChain
    <3>2. p \in 1..N
      BY <1>0, <1>3, <2>1, <3>1
    <3> QED
      BY <1>2, <3>1, <3>2
  <2>2. CASE q = N + 2 /\ c + f[c] = q
    BY <1>0, <1>1, <1>2, <2>2
  <2>3. CASE q = N + 2 /\ N + 1 \in C /\ ch = 1
    <3>1. N + 1 < q /\ N + 1 + g[N + 1] = q
      BY <1>0, <1>2, <2>3
    <3> QED
      BY <2>3, <3>1
  <2> QED
    BY <1>6, <2>1, <2>2, <2>3
<1>7. IsChain(g, D)
  BY <1>4, <1>5, <1>6 DEF IsChain
<1>8. Codes(g) = D
  BY <1>2, <1>7, CodesAre
<1> QED
  BY <1>2, <1>7, <1>8 DEF C, g, N

(* The last block of a frame with a byte more. *)
LEMMA LastAppend ==
  ASSUME NEW f \in FrameSeqs, NEW c, LastCode(f, c), NEW ch \in Nat \ {0}
  PROVE  LET g == Append(f, ch)
         IN  IF Len(f) + 1 \in Codes(f) THEN LastCode(g, Len(f) + 1)
             ELSE LastCode(g, c) /\ g[c] = f[c]
<1> DEFINE C == Codes(f)
           N == Len(f)
           g == Append(f, ch)
<1>0. N \in Nat
  BY FrameByte
<1>1. /\ c \in C /\ c \in 1..N /\ f[c] \in Nat /\ c + f[c] > N
      /\ N + 1 \in C <=> c + f[c] = N + 1
  BY LastIsLast DEF LastCode
<1>2. /\ Len(g) = N + 1 /\ g[N + 1] = ch /\ \A p \in 1..N : g[p] = f[p]
  BY DEF FrameSeqs
<1>3. C \subseteq Codes(g)
  BY CodesAppend
<1> HIDE DEF C, g, N
<1>4. CASE N + 1 \in C
  <2>1. LastCode(g, N + 1)
    BY <1>0, <1>2, <1>3, <1>4 DEF LastCode
  <2> QED
    BY <1>4, <2>1 DEF C, g, N
<1>5. CASE N + 1 \notin C
  <2>1. c + f[c] > N + 1
    BY <1>0, <1>1, <1>5
  <2>2. LastCode(g, c) /\ g[c] = f[c]
    BY <1>0, <1>1, <1>2, <1>3, <2>1 DEF LastCode
  <2> QED
    BY <1>5, <2>2 DEF C, g, N
<1> QED
  BY <1>4, <1>5

(* What a frame with a byte more stands for: a data byte, or the code of a *)
(* new block, which adds a zero unless the block before it is a longest    *)
(* one.                                                                    *)
LEMMA DecodedAppend ==
  ASSUME NEW f \in FrameSeqs, NEW c, LastCode(f, c), NEW ch \in Nat \ {0}
  PROVE  Decoded(Append(f, ch)) =
           IF Len(f) + 1 \notin Codes(f) THEN Append(Decoded(f), ch)
           ELSE IF f[c] < MaxCode THEN Append(Decoded(f), EOF)
           ELSE Decoded(f)
<1> DEFINE C == Codes(f)
           N == Len(f)
           g == Append(f, ch)
           D == Codes(g)
           M == MessageTo(g, D)
<1>0. /\ N \in Nat
      /\ \A p \in 1..N : f[p] \in Nat /\ f[p] >= 1
  BY FrameByte
<1>1. /\ c \in C /\ c \in 1..N /\ f[c] \in Nat /\ c + f[c] > N
      /\ \A p \in C : p <= N => p <= c
      /\ \A p \in C : p < c => p + f[p] <= c
      /\ N + 1 \in C <=> c + f[c] = N + 1
  BY LastIsLast DEF LastCode
<1>2. /\ g \in FrameSeqs /\ Len(g) = N + 1 /\ g[N + 1] = ch
      /\ \A p \in 1..N : g[p] = f[p]
  BY DEF FrameSeqs
<1>3. C \subseteq 1..(N + 1)
  BY CodesChain DEF IsChain
<1>4. C \subseteq D /\ D \subseteq C \cup {N + 2}
  BY CodesAppend
<1>5. /\ Decoded(f) = MessageTo(f, C)[N]
      /\ Decoded(g) = M[N + 1]
  BY <1>2 DEF Decoded
<1>6. M[N + 1] = AddByte(g, D, M[N], N + 1)
  <2>1. N + 1 \in 0..Len(g) /\ N \in 0..Len(g) /\ Len(g) \in Nat
    BY <1>0, <1>2
  <2> HIDE DEF g, D, N
  <2> QED
    BY <2>1, MessageAt
<1> HIDE DEF C, g, N, D, M
<1>7. \A k \in 1..(N + 1) : k \in C <=> k \in D
  BY <1>0, <1>4
<1>8. \A k \in 1..(N + 1) : ZeroBefore(f, C, k) <=> ZeroBefore(g, D, k)
  <2> TAKE k \in 1..(N + 1)
  <2>1. ASSUME ZeroBefore(f, C, k) PROVE ZeroBefore(g, D, k)
    <3>1. PICK q \in C : q < k /\ q + f[q] = k /\ f[q] < MaxCode
      BY <2>1 DEF ZeroBefore
    <3>2. q \in 1..N /\ q \in D
      BY <1>0, <1>3, <1>4, <3>1
    <3> QED
      BY <1>2, <3>1, <3>2 DEF ZeroBefore
  <2>2. ASSUME ZeroBefore(g, D, k) PROVE ZeroBefore(f, C, k)
    <3>1. PICK q \in D : q < k /\ q + g[q] = k /\ g[q] < MaxCode
      BY <2>2 DEF ZeroBefore
    <3>2. q \in C /\ q \in 1..N
      BY <1>0, <1>3, <1>4, <3>1
    <3> QED
      BY <1>2, <3>1, <3>2 DEF ZeroBefore
  <2> QED
    BY <2>1, <2>2
<1>9. M[N] = MessageTo(f, C)[N]
  <2>1. \A k \in 1..N : k \in 1..(N + 1) /\ f[k] = g[k]
    BY <1>0, <1>2
  <2>2. Len(f) \in Nat /\ Len(g) \in Nat /\ N \in Nat /\ N <= Len(f) /\ N <= Len(g)
    BY <1>0, <1>2 DEF N
  <2>3. \A k \in 1..N : /\ k \in C <=> k \in D
                        /\ k \notin C => f[k] = g[k]
                        /\ k \in C => (ZeroBefore(f, C, k) <=> ZeroBefore(g, D, k))
    BY <1>7, <1>8, <2>1
  <2>4. MessageTo(f, C)[N] = MessageTo(g, D)[N]
    BY <2>2, <2>3, MessagePrefix
  <2> QED
    BY <2>4 DEF M
<1>10. ZeroBefore(f, C, N + 1) <=> N + 1 \in C /\ f[c] < MaxCode
  <2>1. ASSUME ZeroBefore(f, C, N + 1) PROVE N + 1 \in C /\ f[c] < MaxCode
    <3>1. PICK q \in C : q < N + 1 /\ q + f[q] = N + 1 /\ f[q] < MaxCode
      BY <2>1 DEF ZeroBefore
    <3>2. q \in 1..N
      BY <1>0, <1>3, <3>1
    <3>3. q = c
      BY <1>0, <1>1, <3>1, <3>2
    <3> QED
      BY <1>1, <3>1, <3>3
  <2>2. ASSUME N + 1 \in C, f[c] < MaxCode PROVE ZeroBefore(f, C, N + 1)
    BY <1>0, <1>1, <2>2 DEF ZeroBefore
  <2> QED
    BY <2>1, <2>2
<1>11. N + 1 \in 1..(N + 1)
  BY <1>0
<1>12. CASE N + 1 \notin C
  <2>1. Decoded(g) = Append(Decoded(f), ch)
    BY <1>2, <1>5, <1>6, <1>7, <1>9, <1>11, <1>12 DEF AddByte
  <2> QED
    BY <1>12, <2>1 DEF C, N, g
<1>13. CASE N + 1 \in C /\ f[c] < MaxCode
  <2>1. Decoded(g) = Append(Decoded(f), EOF)
    BY <1>5, <1>6, <1>7, <1>8, <1>9, <1>10, <1>11, <1>13 DEF AddByte
  <2> QED
    BY <1>13, <2>1 DEF C, N, g
<1>14. CASE N + 1 \in C /\ ~(f[c] < MaxCode)
  <2>1. Decoded(g) = Decoded(f)
    BY <1>5, <1>6, <1>7, <1>8, <1>9, <1>10, <1>11, <1>14 DEF AddByte
  <2> QED
    BY <1>14, <2>1 DEF C, N, g
<1> QED
  BY <1>12, <1>13, <1>14

(* A frame of one byte, the code of a block that has only begun. *)
LEMMA DecodedFirst ==
  ASSUME NEW ch \in Nat \ {0}
  PROVE  /\ <<ch>> \in FrameSeqs /\ LastCode(<<ch>>, 1)
         /\ Decoded(<<ch>>) = <<>>
<1> DEFINE f == <<ch>>
           C == Codes(f)
           M == MessageTo(f, C)
<1>1. f \in FrameSeqs /\ Len(f) = 1 /\ f[1] = ch
  BY DEF FrameSeqs
<1>2. Decoded(f) = M[1]
  BY <1>1 DEF Decoded
<1> HIDE DEF f
<1>3. 1 \in C /\ C \subseteq 1..2
  <2>1. IsChain(f, C)
    BY <1>1, CodesChain
  <2> HIDE DEF C
  <2> QED
    BY <1>1, <2>1 DEF IsChain
<1> HIDE DEF C
<1>4. LastCode(f, 1)
  BY <1>1, <1>3 DEF LastCode, C
<1>5. M[1] = AddByte(f, C, M[0], 1) /\ M[0] = <<>>
  <2>1. Len(f) \in Nat /\ 0 \in 0..Len(f) /\ 1 \in 0..Len(f) /\ 1 = 0 + 1
    BY <1>1
  <2> QED
    BY <2>1, MessageAt
<1> HIDE DEF M
<1>6. ~ZeroBefore(f, C, 1)
  BY <1>3 DEF ZeroBefore
<1>7. M[1] = <<>>
  BY <1>3, <1>5, <1>6 DEF AddByte
<1> QED
  BY <1>1, <1>2, <1>4, <1>7 DEF f

(* A message consists of bytes. *)
LEMMA DecodedType ==
  ASSUME NEW f \in Seq(Byte)
  PROVE  Decoded(f) \in Seq(Byte)
<1>1. Len(f) \in 0..Len(f)
  OBVIOUS
<1> QED
  BY <1>1, MessageType DEF Decoded

(* WellFormed says that the last block has all its data bytes. *)
LEMMA WellFormedLast ==
  ASSUME NEW f \in FrameSeqs, NEW c, LastCode(f, c)
  PROVE  WellFormed(f) <=> c + f[c] = Len(f) + 1
<1>1. c \in 1..Len(f) /\ (Len(f) + 1 \in Codes(f) <=> c + f[c] = Len(f) + 1)
  BY LastIsLast
<1>2. Len(f) \in Nat /\ \A k \in 1..Len(f) : f[k] # EOF
  BY FrameByte DEF EOF
<1>3. f # <<>>
  BY <1>1, <1>2
<1> QED
  BY <1>1, <1>2, <1>3 DEF WellFormed

(* The last block, complete, with a data byte more and a code that counts  *)
(* it.                                                                     *)
LEMMA BlockGrows ==
  ASSUME NEW f \in FrameSeqs, NEW c \in Codes(f), c <= Len(f),
         c + f[c] = Len(f) + 1, NEW ch \in Nat \ {0},
         NEW g \in FrameSeqs, Len(g) = Len(f) + 1, g[c] = f[c] + 1,
         g[Len(f) + 1] = ch, \A k \in 1..Len(f) : k # c => g[k] = f[k]
  PROVE  /\ c \in Codes(g) /\ c + g[c] = Len(g) + 1
         /\ Decoded(g) = Append(Decoded(f), ch)
<1> DEFINE C == Codes(f)
           N == Len(f)
           D == (C \ {N + 1}) \cup {N + 2}
           M == MessageTo(g, D)
<1>0. /\ N \in Nat /\ IsChain(f, C)
      /\ \A p \in 1..N : f[p] \in Nat /\ f[p] >= 1
  BY FrameByte, CodesChain
<1>1. /\ c \in 1..N /\ f[c] \in Nat /\ N + 1 \in C
      /\ \A p \in C : p <= N => p <= c
      /\ \A p \in C : p < c => p + f[p] <= c
  <2>1. LastCode(f, c)
    BY <1>0 DEF LastCode
  <2> QED
    BY <2>1, LastIsLast
<1>2. C \subseteq 1..(N + 1) /\ 1 \in C
  BY <1>0 DEF IsChain
<1>a. /\ c + f[c] = N + 1 /\ Len(g) = N + 1 /\ g[c] = f[c] + 1 /\ g[N + 1] = ch
      /\ \A k \in 1..N : k # c => g[k] = f[k]
  OBVIOUS
<1>b. Decoded(f) = MessageTo(f, C)[N] /\ Len(f) = N
  BY DEF Decoded
<1> HIDE DEF C, N
<1>c. c + g[c] = N + 2 /\ c < N + 2 /\ c # N + 1 /\ c \in C
  <2>1. g[c] = f[c] + 1 /\ c \in Nat /\ f[c] \in Nat /\ N \in Nat /\ c <= N
    BY <1>0, <1>1, <1>a
  <2>2. c + g[c] = c + f[c] + 1
    BY <2>1
  <2>3. c + g[c] = N + 2
    BY <1>a, <2>1, <2>2
  <2>4. c \in C
    BY DEF C
  <2> QED
    BY <2>1, <2>3, <2>4
<1>3. D \subseteq 1..(Len(g) + 1) /\ 1 \in D
  <2>1. N + 2 \in 1..(Len(g) + 1) /\ 1..(N + 1) \subseteq 1..(Len(g) + 1) /\ N + 1 # 1
    BY <1>0, <1>1, <1>a
  <2> QED
    BY <1>2, <2>1
<1>4. ASSUME NEW p \in D, p <= Len(g), p + g[p] <= Len(g) + 1
      PROVE  p + g[p] \in D
  <2>1. p \in C /\ p \in 1..N
    BY <1>0, <1>2, <1>4, <1>a
  <2>2. CASE p = c
    BY <1>c, <2>2
  <2>3. CASE p # c
    <3>1. p < c /\ g[p] = f[p] /\ f[p] \in Nat
      BY <1>0, <1>1, <1>a, <2>1, <2>3
    <3>2. p + f[p] <= c
      BY <1>1, <2>1, <3>1
    <3>3. p + f[p] <= N + 1 /\ p + f[p] # N + 1
      BY <1>0, <1>1, <2>1, <3>1, <3>2
    <3>4. p + f[p] \in C
      BY <1>0, <1>b, <2>1, <3>3 DEF IsChain
    <3> QED
      BY <3>1, <3>3, <3>4
  <2> QED
    BY <2>2, <2>3
<1>5. ASSUME NEW q \in D \ {1} PROVE \E p \in D : p < q /\ p + g[p] = q
  <2>1. CASE q = N + 2
    BY <1>c, <2>1
  <2>2. CASE q \in C /\ q # N + 1
    <3>1. PICK p \in C : p < q /\ p + f[p] = q
      BY <1>0, <1>5, <2>2 DEF IsChain
    <3>2. p \in 1..N /\ q \in 1..N
      BY <1>0, <1>2, <2>2, <3>1
    <3>3. p # c
      BY <1>a, <2>2, <3>1
    <3>4. p \in D /\ g[p] = f[p]
      BY <1>0, <1>a, <3>2, <3>3
    <3> QED
      BY <3>1, <3>4
  <2> QED
    BY <2>1, <2>2
<1>6. IsChain(g, D)
  BY <1>3, <1>4, <1>5 DEF IsChain
<1>7. Codes(g) = D
  BY <1>6, CodesAre
<1>8. c \in D /\ c + g[c] = Len(g) + 1
  BY <1>0, <1>a, <1>c
<1>9. \A k \in 1..N : k \in C <=> k \in D
  BY <1>0
<1>10. \A k \in 1..N : k \in C => (ZeroBefore(f, C, k) <=> ZeroBefore(g, D, k))
  <2> SUFFICES ASSUME NEW k \in 1..N, k \in C
               PROVE  ZeroBefore(f, C, k) <=> ZeroBefore(g, D, k)
    OBVIOUS
  <2>0. k <= c
    BY <1>1
  <2>1. ASSUME ZeroBefore(f, C, k) PROVE ZeroBefore(g, D, k)
    <3>1. PICK q \in C : q < k /\ q + f[q] = k /\ f[q] < MaxCode
      BY <2>1 DEF ZeroBefore
    <3>2. q \in 1..N /\ q # c /\ q # N + 1
      BY <1>0, <1>1, <1>2, <2>0, <3>1
    <3> QED
      BY <1>a, <3>1, <3>2 DEF ZeroBefore
  <2>2. ASSUME ZeroBefore(g, D, k) PROVE ZeroBefore(f, C, k)
    <3>1. PICK q \in D : q < k /\ q + g[q] = k /\ g[q] < MaxCode
      BY <2>2 DEF ZeroBefore
    <3>2. q \in C /\ q \in 1..N /\ q # c
      BY <1>0, <1>1, <1>2, <2>0, <3>1
    <3> QED
      BY <1>a, <3>1, <3>2 DEF ZeroBefore
  <2> QED
    BY <2>1, <2>2
<1>11. M[N] = MessageTo(f, C)[N]
  <2>1. \A k \in 1..N : k \notin C => f[k] = g[k]
    BY <1>a, <1>c
  <2>2. Len(f) \in Nat /\ Len(g) \in Nat /\ N \in Nat /\ N <= Len(f) /\ N <= Len(g)
    BY <1>0, <1>a, <1>b
  <2>3. \A k \in 1..N : /\ k \in C <=> k \in D
                        /\ k \notin C => f[k] = g[k]
                        /\ k \in C => (ZeroBefore(f, C, k) <=> ZeroBefore(g, D, k))
    BY <1>9, <1>10, <2>1
  <2> HIDE DEF D
  <2>4. MessageTo(f, C)[N] = MessageTo(g, D)[N]
    BY <2>2, <2>3, MessagePrefix
  <2> QED
    BY <2>4
<1>12. M[N + 1] = AddByte(g, D, M[N], N + 1)
  <2>1. N + 1 \in 0..Len(g) /\ N \in 0..Len(g) /\ Len(g) \in Nat
    BY <1>0, <1>a
  <2> HIDE DEF D
  <2> QED
    BY <2>1, MessageAt
<1>13. N + 1 \notin D
  BY <1>0
<1>14. Decoded(g) = M[N + 1]
  BY <1>7, <1>a DEF Decoded
<1> HIDE DEF D, M
<1>15. Decoded(g) = Append(Decoded(f), ch)
  BY <1>a, <1>b, <1>11, <1>12, <1>13, <1>14 DEF AddByte
<1> QED
  BY <1>7, <1>8, <1>15

-----------------------------------------------------------------------------
(***************************************************************************)
(* cobs_encode fits its buffer.  The size macro reserves one extra byte    *)
(* per MaxDistance bytes of the message, rounded up.  The encoder uses one *)
(* extra byte at the start and one per block that it closes because the    *)
(* block is full; such a block has consumed MaxDistance bytes, and one is  *)
(* closed only while bytes are left.  So MaxDistance * rolls stays below   *)
(* the length of the message, which is what makes the rounded-up           *)
(* reservation enough.                                                     *)
(***************************************************************************)
(* Bytes of the message that the full blocks hold. *)
Spent == MaxDistance * rolls

LoopInv ==
  pc = "loop" =>
    /\ d = 1 + i + rolls
    /\ Spent + code_len <= i + 1
    /\ Spent < Len(src)
    /\ code_len = MaxCode => i = Len(src)
    /\ code_ptr < d
    /\ dst[DestSize] = Sentinel

DoneInv ==
  pc = "done" =>
    /\ ret # Failed /\ d <= DestSize /\ code_ptr < d
    /\ dst[DestSize] = Sentinel

EInv ==
  /\ TypeOK /\ LoopInv /\ DoneInv
  /\ pc = "loop" => ret = 0
  /\ pc = "idle" => ret = 0

-----------------------------------------------------------------------------
LEMMA MulMonotone ==
  ASSUME NEW a \in Nat, NEW q \in Int, NEW r \in Int, q <= r
  PROVE  a * q <= a * r
<1>1. a * r - a * q = a * (r - q)
  OBVIOUS
<1>2. r - q >= 0
  OBVIOUS
<1>3. a * (r - q) >= 0
  BY <1>2
<1>4. a * r \in Int /\ a * q \in Int
  OBVIOUS
<1> QED
  BY <1>1, <1>3, <1>4

(* The reservation is larger than the number of full blocks. *)
LEMMA CeilBound ==
  ASSUME NEW a \in Nat \ {0}, NEW n \in Nat, NEW r \in Nat, a * r < n
  PROVE  /\ (n + a - 1) \div a \in Nat
         /\ r + 1 <= (n + a - 1) \div a
<1> DEFINE q == (n + a - 1) \div a
<1>1. n + a - 1 \in Nat /\ a \in Nat /\ a > 0
  OBVIOUS
<1>2. q \in Int
  BY <1>1
<1>3. n + a - 1 < a * q + a
  BY <1>1, <1>2
<1>4. a * r \in Int /\ a * q \in Int
  BY <1>2
<1>5. ~(q <= r)
  <2>1. SUFFICES ASSUME q <= r PROVE FALSE
    OBVIOUS
  <2>2. a * q <= a * r
    BY <2>1, <1>2, MulMonotone
  <2> HIDE DEF q
  <2> QED
    BY <2>2, <1>3, <1>4
<1> HIDE DEF q
<1>6. r + 1 <= q
  BY <1>5, <1>2
<1>7. q \in Nat
  BY <1>6, <1>2
<1> QED
  BY <1>6, <1>7 DEF q

(* What the reservation leaves in front of the end-of-frame byte. *)
LEMMA Room ==
  ASSUME src \in Seq(Byte), rolls \in Nat, MaxDistance * rolls < Len(src)
  PROVE  /\ DestSize \in Nat
         /\ Len(src) + rolls + 2 <= DestSize
         /\ CodeEnd = DestSize - 1
<1>1. MaxDistance \in Nat \ {0} /\ Len(src) \in Nat
  BY MaxCodeAssumption DEF MaxDistance
<1> DEFINE q == (Len(src) + MaxDistance - 1) \div MaxDistance
<1>2. q \in Nat /\ rolls + 1 <= q
  BY <1>1, CeilBound
<1>3. DestSize = Len(src) + q + 1
  BY DEF DestSize, EncodedMaxSize
<1> HIDE DEF q
<1> QED
  BY <1>1, <1>2, <1>3 DEF CodeEnd

(* The size macro is a natural number for every message length. *)
LEMMA SizeNat ==
  ASSUME NEW n \in Nat \ {0}
  PROVE  EncodedMaxSize(n) \in Nat /\ EncodedMaxSize(n) > 1
<1>1. MaxDistance \in Nat \ {0}
  BY MaxCodeAssumption DEF MaxDistance
<1>2. MaxDistance * 0 < n
  BY <1>1
<1> DEFINE q == (n + MaxDistance - 1) \div MaxDistance
<1>3. q \in Nat /\ 1 <= q
  BY <1>1, <1>2, CeilBound
<1> HIDE DEF q
<1> QED
  BY <1>3 DEF EncodedMaxSize, q

(* Closing a full block: the product grows by MaxDistance. *)
LEMMA RollStep ==
  ASSUME NEW r \in Nat
  PROVE  /\ MaxDistance * (r + 1) = MaxDistance * r + MaxCode - 1
         /\ MaxDistance * r \in Nat
BY MaxCodeAssumption DEF MaxDistance

LEMMA InitEInv == Init => EInv
<1> SUFFICES ASSUME Init PROVE EInv
  OBVIOUS
<1>1. TypeOK
  <2>1. Len(src) = 0 /\ src \in Seq(Byte)
    BY DEF Init
  <2>2. \A k \in DOMAIN dst : dst[k] \in Byte \cup {Junk, Sentinel}
    BY DEF Init, NoBuffer
  <2> QED
    BY <2>1, <2>2, MaxCodeAssumption DEF Init, TypeOK
<1> QED
  BY <1>1 DEF Init, EInv, LoopInv, DoneInv

LEMMA StartEInv ==
  ASSUME NEW m \in Messages, EInv, Start(m) PROVE EInv'
<1>1. m \in Seq(Byte) /\ Len(m) \in Nat \ {0}
  BY MessagesAssumption
<1> DEFINE z == EncodedMaxSize(Len(m))
<1>2. z \in Nat /\ z > 1
  BY <1>1, SizeNat
<1>3. DestSize' = z
  BY DEF Start, DestSize
<1> HIDE DEF z
<1>4. dst' = [k \in 0..z |-> IF k = z THEN Sentinel ELSE Junk]
  BY DEF Start, z
<1>5. TypeOK'
  <2>1. \A k \in DOMAIN dst' : dst'[k] \in Byte \cup {Junk, Sentinel}
    BY <1>4
  <2>2. DOMAIN dst' = 0..(DestSize')
    BY <1>3, <1>4
  <2> QED
    BY <1>1, <2>1, <2>2, MaxCodeAssumption DEF Start, TypeOK
<1>6. LoopInv'
  <2>1. (dst[DestSize])' = Sentinel
    BY <1>2, <1>3, <1>4
  <2>2. Spent' = 0
    BY MaxCodeAssumption DEF MaxDistance, Spent, Start
  <2> QED
    BY <1>1, <2>1, <2>2, MaxCodeAssumption DEF Start, LoopInv
<1> QED
  BY <1>5, <1>6 DEF Start, EInv, DoneInv

(* Inside the loop there is room for the rest of the message. *)
LEMMA InLoop ==
  ASSUME EInv, pc = "loop"
  PROVE  /\ DestSize \in Nat /\ Len(src) \in Nat /\ i \in 0..Len(src)
         /\ d \in Nat /\ code_ptr \in Nat /\ code_ptr < d
         /\ code_len \in 1..MaxCode /\ rolls \in Nat
         /\ d = 1 + i + rolls
         /\ Len(src) + rolls + 2 <= DestSize
         /\ More => ~NoRoom /\ code_len < MaxCode
         /\ DOMAIN dst = 0..DestSize /\ dst[DestSize] = Sentinel
         /\ \A k \in DOMAIN dst : dst[k] \in Byte \cup {Junk, Sentinel}
<1>1. /\ src \in Seq(Byte) /\ i \in 0..Len(src) /\ rolls \in Nat
      /\ d \in Nat /\ code_ptr \in Nat /\ code_len \in 1..MaxCode
      /\ DOMAIN dst = 0..DestSize
      /\ \A k \in DOMAIN dst : dst[k] \in Byte \cup {Junk, Sentinel}
  BY DEF EInv, TypeOK
<1>2. /\ d = 1 + i + rolls /\ Spent < Len(src)
      /\ code_len = MaxCode => i = Len(src)
      /\ code_ptr < d /\ dst[DestSize] = Sentinel
  BY DEF EInv, LoopInv
<1>3. /\ DestSize \in Nat /\ Len(src) + rolls + 2 <= DestSize
      /\ CodeEnd = DestSize - 1
  BY <1>1, <1>2, Room DEF Spent
<1>4. Len(src) \in Nat
  BY <1>1
<1>5. More => ~NoRoom /\ code_len < MaxCode
  BY <1>1, <1>2, <1>3, <1>4, MaxCodeAssumption DEF More, NoRoom
<1> QED
  BY <1>1, <1>2, <1>3, <1>4, <1>5

LEMMA EncodeZeroEInv ==
  ASSUME EInv, EncodeZero PROVE EInv'
<1>0. pc = "loop" /\ More
  BY DEF EncodeZero
<1>a. /\ DestSize \in Nat /\ Len(src) \in Nat /\ i \in 0..Len(src)
      /\ d \in Nat /\ code_ptr \in Nat /\ code_ptr < d
      /\ code_len \in 1..MaxCode /\ rolls \in Nat
      /\ d = 1 + i + rolls /\ Len(src) + rolls + 2 <= DestSize
      /\ More => ~NoRoom /\ code_len < MaxCode
  BY <1>0, InLoop
<1>b. /\ DOMAIN dst = 0..DestSize /\ dst[DestSize] = Sentinel
      /\ \A k \in DOMAIN dst : dst[k] \in Byte \cup {Junk, Sentinel}
  BY <1>0, InLoop
<1>1. UNCHANGED <<src, rolls, ret, pc>> /\ i' = i + 1 /\ i < Len(src)
      /\ d' = d + 1 /\ code_ptr' = d /\ code_len' = 1
      /\ dst' = [dst EXCEPT ![code_ptr] = code_len]
  BY DEF EncodeZero, More
<1>2. DestSize' = DestSize
  BY <1>1 DEF DestSize
<1>3. code_len \in Byte
  BY <1>a, MaxCodeAssumption DEF Byte
<1>4. DOMAIN dst' = 0..(DestSize')
      /\ \A k \in DOMAIN dst' : dst'[k] \in Byte \cup {Junk, Sentinel}
  BY <1>1, <1>2, <1>3, <1>a, <1>b
<1>5. TypeOK'
  BY <1>0, <1>1, <1>4, <1>a, MaxCodeAssumption DEF EInv, TypeOK
<1>6. (dst[DestSize])' = Sentinel
  BY <1>1, <1>2, <1>a, <1>b
<1>7. LoopInv'
  <2>1. Spent \in Nat
    BY <1>a, RollStep DEF Spent
  <2>2. Spent + code_len <= i + 1 /\ Spent < Len(src)
    BY <1>0 DEF EInv, LoopInv
  <2>3. Spent' = Spent /\ Len(src)' = Len(src)
    BY <1>1 DEF Spent
  <2> QED
    BY <1>0, <1>1, <1>6, <1>a, <2>1, <2>2, <2>3, MaxCodeAssumption DEF LoopInv
<1> QED
  BY <1>0, <1>1, <1>5, <1>7 DEF EInv, DoneInv

LEMMA EncodeByteEInv ==
  ASSUME EInv, EncodeByte PROVE EInv'
<1>0. pc = "loop" /\ More
  BY DEF EncodeByte
<1>a. /\ DestSize \in Nat /\ Len(src) \in Nat /\ i \in 0..Len(src)
      /\ d \in Nat /\ code_ptr \in Nat /\ code_ptr < d
      /\ code_len \in 1..MaxCode /\ rolls \in Nat
      /\ d = 1 + i + rolls /\ Len(src) + rolls + 2 <= DestSize
      /\ More => ~NoRoom /\ code_len < MaxCode
  BY <1>0, InLoop
<1>b. /\ DOMAIN dst = 0..DestSize /\ dst[DestSize] = Sentinel
      /\ \A k \in DOMAIN dst : dst[k] \in Byte \cup {Junk, Sentinel}
  BY <1>0, InLoop
<1>1. UNCHANGED <<src, rolls, ret, pc, code_ptr>> /\ i' = i + 1 /\ i < Len(src)
      /\ d' = d + 1 /\ code_len' = code_len + 1
      /\ dst' = [dst EXCEPT ![d] = Ch]
      /\ (code_len + 1 = MaxCode => i + 1 = Len(src))
  BY DEF EncodeByte, More, Full
<1>2. DestSize' = DestSize
  BY <1>1 DEF DestSize
<1>3. Ch \in Byte
  BY <1>1, <1>a DEF Ch, EInv, TypeOK
<1>4. DOMAIN dst' = 0..(DestSize')
      /\ \A k \in DOMAIN dst' : dst'[k] \in Byte \cup {Junk, Sentinel}
  BY <1>1, <1>2, <1>3, <1>a, <1>b
<1>5. TypeOK'
  BY <1>0, <1>1, <1>4, <1>a, MaxCodeAssumption DEF EInv, TypeOK
<1>6. (dst[DestSize])' = Sentinel
  BY <1>1, <1>2, <1>a, <1>b
<1>7. LoopInv'
  <2>1. Spent \in Nat
    BY <1>a, RollStep DEF Spent
  <2>2. Spent + code_len <= i + 1 /\ Spent < Len(src)
    BY <1>0 DEF EInv, LoopInv
  <2>3. Spent' = Spent /\ Len(src)' = Len(src)
    BY <1>1 DEF Spent
  <2> QED
    BY <1>0, <1>1, <1>6, <1>a, <2>1, <2>2, <2>3, MaxCodeAssumption DEF LoopInv
<1> QED
  BY <1>0, <1>1, <1>5, <1>7 DEF EInv, DoneInv

LEMMA EncodeFullEInv ==
  ASSUME EInv, EncodeFull PROVE EInv'
<1>0. pc = "loop" /\ More
  BY DEF EncodeFull
<1>a. /\ DestSize \in Nat /\ Len(src) \in Nat /\ i \in 0..Len(src)
      /\ d \in Nat /\ code_ptr \in Nat /\ code_ptr < d
      /\ code_len \in 1..MaxCode /\ rolls \in Nat
      /\ d = 1 + i + rolls /\ Len(src) + rolls + 2 <= DestSize
      /\ More => ~NoRoom /\ code_len < MaxCode
  BY <1>0, InLoop
<1>b. /\ DOMAIN dst = 0..DestSize /\ dst[DestSize] = Sentinel
      /\ \A k \in DOMAIN dst : dst[k] \in Byte \cup {Junk, Sentinel}
  BY <1>0, InLoop
<1>1. UNCHANGED <<src, ret, pc>> /\ i' = i + 1 /\ i < Len(src)
      /\ d' = d + 2 /\ code_ptr' = d + 1 /\ code_len' = 1
      /\ rolls' = rolls + 1
      /\ dst' = [dst EXCEPT ![d] = Ch, ![code_ptr] = code_len + 1]
      /\ code_len + 1 = MaxCode /\ i + 1 # Len(src)
  BY DEF EncodeFull, More, Full
<1>2. DestSize' = DestSize /\ d < DestSize /\ code_ptr < DestSize
  <2>1. DestSize' = DestSize
    BY <1>1 DEF DestSize
  <2> QED
    BY <2>1, <1>a
<1>3. Ch \in Byte /\ code_len + 1 \in Byte
  BY <1>1, <1>a, MaxCodeAssumption, SMTT(30) DEF Ch, EInv, TypeOK, Byte
<1>4. DOMAIN dst' = 0..(DestSize')
      /\ \A k \in DOMAIN dst' : dst'[k] \in Byte \cup {Junk, Sentinel}
  BY <1>1, <1>2, <1>3, <1>a, <1>b
<1>5. TypeOK'
  BY <1>0, <1>1, <1>4, <1>a, MaxCodeAssumption DEF EInv, TypeOK
<1>6. (dst[DestSize])' = Sentinel
  BY <1>1, <1>2, <1>a, <1>b
<1>7. LoopInv'
  <2>1. Spent \in Nat /\ Len(src)' = Len(src)
    BY <1>1, <1>a, RollStep DEF Spent
  <2>2. Spent + code_len <= i + 1
    BY <1>0 DEF EInv, LoopInv
  <2>3. Spent' = Spent + MaxCode - 1
    BY <1>1, <1>a, RollStep DEF Spent
  <2> QED
    BY <1>0, <1>1, <1>6, <1>a, <2>1, <2>2, <2>3, MaxCodeAssumption DEF LoopInv
<1> QED
  BY <1>0, <1>1, <1>5, <1>7 DEF EInv, DoneInv

LEMMA FinishEInv ==
  ASSUME EInv, Finish PROVE EInv'
<1>0. pc = "loop"
  BY DEF Finish
<1>a. /\ DestSize \in Nat /\ Len(src) \in Nat /\ i \in 0..Len(src)
      /\ d \in Nat /\ code_ptr \in Nat /\ code_ptr < d
      /\ code_len \in 1..MaxCode /\ rolls \in Nat
      /\ d = 1 + i + rolls /\ Len(src) + rolls + 2 <= DestSize
      /\ More => ~NoRoom /\ code_len < MaxCode
  BY <1>0, InLoop
<1>b. /\ DOMAIN dst = 0..DestSize /\ dst[DestSize] = Sentinel
      /\ \A k \in DOMAIN dst : dst[k] \in Byte \cup {Junk, Sentinel}
  BY <1>0, InLoop
<1>1. ~More
  BY <1>a DEF Finish
<1>2. UNCHANGED <<src, i, code_ptr, code_len, rolls>> /\ pc' = "done"
      /\ d' = d + 1 /\ ret' = d + 1
      /\ dst' = [dst EXCEPT ![code_ptr] = code_len, ![d] = EOF]
  BY <1>1 DEF Finish
<1>3. DestSize' = DestSize /\ d < DestSize
  <2>1. DestSize' = DestSize
    BY <1>2 DEF DestSize
  <2> QED
    BY <2>1, <1>a
<1>4. code_len \in Byte /\ EOF \in Byte
  BY <1>a, MaxCodeAssumption DEF Byte, EOF
<1>5. DOMAIN dst' = 0..(DestSize')
      /\ \A k \in DOMAIN dst' : dst'[k] \in Byte \cup {Junk, Sentinel}
  BY <1>2, <1>3, <1>4, <1>a, <1>b
<1>6. TypeOK'
  BY <1>2, <1>5, <1>a DEF EInv, TypeOK
<1>7. (dst[DestSize])' = Sentinel
  BY <1>2, <1>3, <1>a, <1>b
<1> QED
  BY <1>2, <1>3, <1>6, <1>7, <1>a DEF EInv, LoopInv, DoneInv, Failed

LEMMA HandOverEInv ==
  ASSUME EInv, HandOver PROVE EInv'
<1>1. src' = <<>> /\ i' = 0 /\ dst' = NoBuffer /\ d' = 0 /\ pc' = "idle"
      /\ code_ptr' = 0 /\ code_len' = 1 /\ rolls' = 0 /\ ret' = 0
  BY DEF HandOver
<1>2. src' \in Seq(Byte) /\ Len(src') = 0
  BY <1>1
<1>3. \A k \in DOMAIN dst' : dst'[k] \in Byte \cup {Junk, Sentinel}
  BY <1>1 DEF NoBuffer
<1> QED
  BY <1>1, <1>2, <1>3, MaxCodeAssumption DEF EInv, TypeOK, LoopInv, DoneInv

LEMMA NextEInv == EInv /\ [Next]_vars => EInv'
<1> SUFFICES ASSUME EInv, [Next]_vars PROVE EInv'
  OBVIOUS
<1>1. CASE \E m \in Messages : Start(m)
  BY <1>1, StartEInv
<1>2. CASE EncodeZero
  BY <1>2, EncodeZeroEInv
<1>3. CASE EncodeByte
  BY <1>3, EncodeByteEInv
<1>4. CASE EncodeFull
  BY <1>4, EncodeFullEInv
<1>5. CASE Finish
  BY <1>5, FinishEInv
<1>6. CASE HandOver
  BY <1>6, HandOverEInv
<1>7. CASE UNCHANGED vars
  BY <1>7 DEF EInv, TypeOK, LoopInv, DoneInv, vars, buffer, DestSize, Spent
<1> QED
  BY <1>1, <1>2, <1>3, <1>4, <1>5, <1>6, <1>7 DEF Next

(***************************************************************************)
(* For every byte width and every message that comm_send can hand over,    *)
(* cobs_encode never takes its failure return and never writes at or       *)
(* behind the sentinel that transmitter_push puts behind the buffer.       *)
(***************************************************************************)
THEOREM EncoderAlwaysFits == Spec => []EncoderFits
<1>1. Init => EInv
  BY InitEInv
<1>2. EInv /\ [Next]_vars => EInv'
  BY NextEInv
<1>3. EInv => EncoderFits
  <2> SUFFICES ASSUME EInv PROVE EncoderFits
    OBVIOUS
  <2>1. CASE pc = "loop"
    BY <2>1, InLoop DEF EInv, EncoderFits, Failed
  <2>2. CASE pc = "done"
    BY <2>2 DEF EInv, DoneInv, EncoderFits
  <2>3. CASE pc = "idle"
    BY <2>3 DEF EInv, EncoderFits, Failed
  <2> QED
    BY <2>1, <2>2, <2>3 DEF EInv, TypeOK
<1> QED
  BY <1>1, <1>2, <1>3, PTL DEF Spec

-----------------------------------------------------------------------------
(***************************************************************************)
(* cobs_encode makes a frame that means the message.  The code byte of the *)
(* open block is written last; OpenFrame is the frame as it would be if    *)
(* the block ended here, and it means the bytes consumed so far.           *)
(***************************************************************************)
OpenFrame == [k \in 1..d |-> IF k = code_ptr + 1 THEN code_len ELSE dst[k - 1]]
Consumed == [k \in 1..i |-> src[k]]

OpenInv ==
  pc = "loop" =>
    /\ d = code_ptr + code_len
    /\ \A k \in 1..d : OpenFrame[k] \in 1..MaxCode
    /\ code_ptr + 1 \in Codes(OpenFrame)
    /\ Decoded(OpenFrame) = Consumed

MInv == EInv /\ OpenInv /\ EncodesMessage

(* The open frame is one, with the open block complete. *)
LEMMA OpenIsFrame ==
  ASSUME MInv, pc = "loop"
  PROVE  /\ OpenFrame \in FrameSeqs /\ Len(OpenFrame) = d /\ d \in Nat
         /\ code_ptr + 1 \in Codes(OpenFrame) /\ code_ptr + 1 \in 1..d
         /\ OpenFrame[code_ptr + 1] = code_len
         /\ \A k \in 1..d : k # code_ptr + 1 => OpenFrame[k] = dst[k - 1]
         /\ code_ptr + 1 + code_len = d + 1
         /\ LastCode(OpenFrame, code_ptr + 1)
<1>1. /\ d \in Nat /\ code_ptr \in Nat /\ code_len \in 1..MaxCode /\ code_ptr < d
      /\ MaxCode \in Nat
  BY InLoop, MaxCodeAssumption DEF MInv
<1>2. /\ d = code_ptr + code_len /\ code_ptr + 1 \in Codes(OpenFrame)
      /\ \A k \in 1..d : OpenFrame[k] \in 1..MaxCode
  BY DEF MInv, OpenInv
<1>3. /\ OpenFrame[code_ptr + 1] = code_len
      /\ \A k \in 1..d : k # code_ptr + 1 => OpenFrame[k] = dst[k - 1]
      /\ OpenFrame = [k \in 1..d |-> OpenFrame[k]]
  BY <1>1 DEF OpenFrame
<1> HIDE DEF OpenFrame
<1>4. \A k \in 1..d : OpenFrame[k] \in Nat \ {0}
  BY <1>1, <1>2
<1>5. OpenFrame \in FrameSeqs /\ Len(OpenFrame) = d
  BY <1>1, <1>3, <1>4 DEF FrameSeqs
<1>6. code_ptr + 1 \in 1..d /\ code_ptr + 1 + code_len = d + 1
  BY <1>1, <1>2
<1>7. LastCode(OpenFrame, code_ptr + 1)
  BY <1>1, <1>2, <1>3, <1>5, <1>6 DEF LastCode
<1> QED
  BY <1>1, <1>2, <1>3, <1>5, <1>6, <1>7

(* The byte consumed next, and what has been consumed then. *)
LEMMA ConsumeOne ==
  ASSUME src \in Seq(Byte), i \in Nat, i < Len(src), i' = i + 1, src' = src
  PROVE  Consumed' = Append(Consumed, Ch) /\ Ch \in Byte
<1>1. Len(src) \in Nat /\ i + 1 \in 1..Len(src)
  BY LenProperties
<1>2. Ch \in Byte /\ Ch = src[i + 1]
  BY <1>1 DEF Ch
<1>3. \A k \in 1..i : src[k] \in Byte
  BY <1>1
<1>4. Consumed \in Seq(Byte) /\ Len(Consumed) = i
  BY <1>3 DEF Consumed
<1>5. Consumed' = [k \in 1..(i + 1) |-> src[k]]
  BY DEF Consumed
<1>6. \A k \in 1..(i + 1) : src[k] \in Byte
  BY <1>1
<1>7. Consumed' \in Seq(Byte) /\ Len(Consumed') = i + 1
  BY <1>5, <1>6
<1>8. /\ Append(Consumed, Ch) \in Seq(Byte) /\ Len(Append(Consumed, Ch)) = i + 1
      /\ Append(Consumed, Ch)[i + 1] = Ch
      /\ \A k \in 1..i : Append(Consumed, Ch)[k] = Consumed[k]
  BY <1>2, <1>4
<1>9. \A k \in 1..(i + 1) : (Consumed')[k] = Append(Consumed, Ch)[k]
  BY <1>2, <1>5, <1>8 DEF Consumed
<1> HIDE DEF Consumed
<1> QED
  BY <1>2, <1>7, <1>8, <1>9, SeqEqual

LEMMA StartMInv ==
  ASSUME NEW m \in Messages, MInv, Start(m) PROVE MInv'
<1>1. EInv'
  BY StartEInv DEF MInv
<1>2. d' = 1 /\ code_ptr' = 0 /\ code_len' = 1 /\ i' = 0 /\ pc' = "loop"
  BY DEF Start
<1>3. OpenFrame' = <<1>>
  BY <1>2 DEF OpenFrame
<1>4. Consumed' = <<>>
  BY <1>2 DEF Consumed
<1>5. LastCode(<<1>>, 1) /\ Decoded(<<1>>) = <<>>
  BY DecodedFirst
<1>6. \A k \in 1..1 : <<1>>[k] \in 1..MaxCode
  BY MaxCodeAssumption
<1>7. OpenInv'
  BY <1>2, <1>3, <1>4, <1>5, <1>6 DEF OpenInv, LastCode
<1> QED
  BY <1>1, <1>2, <1>7 DEF MInv, EncodesMessage

(* A complete frame and the code of an empty block behind it. *)
LEMMA NewBlock ==
  ASSUME NEW f \in FrameSeqs, NEW c, LastCode(f, c), c + f[c] = Len(f) + 1,
         \A k \in 1..Len(f) : f[k] \in 1..MaxCode
  PROVE  LET g == Append(f, 1)
         IN  /\ g \in FrameSeqs /\ Len(g) = Len(f) + 1 /\ g[Len(f) + 1] = 1
             /\ \A k \in 1..Len(f) : g[k] = f[k]
             /\ \A k \in 1..Len(g) : g[k] \in 1..MaxCode
             /\ Len(f) + 1 \in Codes(g)
             /\ Decoded(g) = IF f[c] < MaxCode THEN Append(Decoded(f), EOF)
                             ELSE Decoded(f)
<1> DEFINE g == Append(f, 1)
<1>0. f \in Seq(Nat \ {0}) /\ 1 \in Nat \ {0} /\ Len(f) \in Nat
  BY FrameByte DEF FrameSeqs
<1>1. /\ g \in Seq(Nat \ {0}) /\ Len(g) = Len(f) + 1 /\ g[Len(f) + 1] = 1
      /\ \A k \in 1..Len(f) : g[k] = f[k]
  BY <1>0, AppendProperties
<1>2. Len(f) + 1 \in Codes(f)
  BY LastIsLast
<1>3. Decoded(g) = IF f[c] < MaxCode THEN Append(Decoded(f), EOF) ELSE Decoded(f)
  BY <1>0, <1>2, DecodedAppend
<1>4. Len(f) + 1 \in Codes(g)
  BY <1>0, <1>2, LastAppend DEF LastCode
<1> HIDE DEF g
<1>5. ASSUME NEW k \in 1..Len(g) PROVE g[k] \in 1..MaxCode
  <2>1. CASE k = Len(f) + 1
    BY <1>1, <2>1, MaxCodeAssumption
  <2>2. CASE k \in 1..Len(f)
    BY <1>1, <2>2
  <2> QED
    BY <1>0, <1>1, <2>1, <2>2
<1> QED
  BY <1>1, <1>3, <1>4, <1>5 DEF g, FrameSeqs

LEMMA SameFrame ==
  ASSUME NEW f \in FrameSeqs, NEW n \in Nat, Len(f) = n,
         NEW h, h = [k \in 1..n |-> h[k]], \A k \in 1..n : h[k] = f[k]
  PROVE  h = f
<1>1. f \in Seq(Nat \ {0}) /\ \A k \in 1..n : f[k] \in Nat \ {0}
  BY DEF FrameSeqs
<1>2. \A k \in 1..n : h[k] \in Nat \ {0}
  BY <1>1
<1>3. h \in Seq(Nat \ {0}) /\ Len(h) = n
  BY <1>2
<1> QED
  BY <1>1, <1>3, SeqEqual

(* Where the loop stands when it takes a byte. *)
LEMMA InTurn ==
  ASSUME MInv, pc = "loop", More
  PROVE  /\ DestSize \in Nat /\ DOMAIN dst = 0..DestSize /\ d < DestSize
         /\ d \in Nat /\ code_ptr \in Nat /\ code_ptr < d
         /\ code_len \in Nat /\ code_len < MaxCode /\ MaxCode \in Nat
         /\ i \in Nat /\ i < Len(src) /\ src \in Seq(Byte)
         /\ Decoded(OpenFrame) = Consumed
         /\ \A k \in 1..d : OpenFrame[k] \in 1..MaxCode
<1>1. EInv /\ src \in Seq(Byte)
  BY DEF MInv, EInv, TypeOK
<1>2. /\ DestSize \in Nat /\ Len(src) \in Nat /\ i \in 0..Len(src)
      /\ d \in Nat /\ code_ptr \in Nat /\ code_ptr < d
      /\ code_len \in 1..MaxCode /\ rolls \in Nat
      /\ d = 1 + i + rolls /\ Len(src) + rolls + 2 <= DestSize
      /\ More => ~NoRoom /\ code_len < MaxCode
      /\ DOMAIN dst = 0..DestSize
  BY <1>1, InLoop
<1>3. i < Len(src)
  BY DEF More
<1>4. d < DestSize
  BY <1>2, <1>3
<1> QED
  BY <1>1, <1>2, <1>3, <1>4, MaxCodeAssumption DEF MInv, OpenInv

LEMMA EncodeZeroMInv ==
  ASSUME MInv, EncodeZero PROVE MInv'
<1>0. pc = "loop" /\ More
  BY DEF EncodeZero
<1>1. EInv' /\ EInv
  BY EncodeZeroEInv DEF MInv
<1> DEFINE f == OpenFrame
           c == code_ptr + 1
           g == Append(f, 1)
<1>2. /\ f \in FrameSeqs /\ Len(f) = d /\ d \in Nat /\ c \in 1..d
      /\ f[c] = code_len /\ c + code_len = d + 1 /\ LastCode(f, c)
      /\ \A k \in 1..d : k # c => f[k] = dst[k - 1]
  BY <1>0, OpenIsFrame
<1>3. /\ DestSize \in Nat /\ DOMAIN dst = 0..DestSize /\ d < DestSize
      /\ code_ptr \in Nat /\ code_ptr < d /\ code_len < MaxCode
      /\ i \in Nat /\ i < Len(src) /\ src \in Seq(Byte)
      /\ Decoded(f) = Consumed /\ \A k \in 1..d : f[k] \in 1..MaxCode
  BY <1>0, InTurn
<1>4. /\ UNCHANGED <<src, rolls, ret, pc>> /\ i' = i + 1 /\ Ch = EOF
      /\ d' = d + 1 /\ code_ptr' = d /\ code_len' = 1
      /\ dst' = [dst EXCEPT ![code_ptr] = code_len]
  BY DEF EncodeZero
<1>5. OpenFrame' = [k \in 1..(d + 1) |-> IF k = d + 1 THEN 1 ELSE dst'[k - 1]]
  BY <1>4 DEF OpenFrame
<1> HIDE DEF f
<1>6. /\ g \in FrameSeqs /\ Len(g) = d + 1 /\ g[d + 1] = 1
      /\ \A k \in 1..d : g[k] = f[k]
      /\ \A k \in 1..(d + 1) : g[k] \in 1..MaxCode
      /\ d + 1 \in Codes(g) /\ Decoded(g) = Append(Decoded(f), EOF)
  BY <1>2, <1>3, NewBlock
<1>7. \A k \in 1..d : dst'[k - 1] = f[k]
  <2> TAKE k \in 1..d
  <2>1. k - 1 \in DOMAIN dst /\ (k - 1 = code_ptr <=> k = c)
    BY <1>2, <1>3
  <2> QED
    BY <1>2, <1>3, <1>4, <2>1
<1> HIDE DEF g, c
<1>8. OpenFrame' = g
  <2> DEFINE h == OpenFrame'
  <2>1. h = [k \in 1..(d + 1) |-> h[k]] /\ \A k \in 1..(d + 1) : h[k] = g[k]
    BY <1>2, <1>5, <1>6, <1>7, SMTT(30)
  <2>2. d + 1 \in Nat
    BY <1>2
  <2> HIDE DEF h
  <2>3. h = g
    BY <1>6, <2>1, <2>2, SameFrame
  <2> QED
    BY <2>3 DEF h
<1>9. Consumed' = Append(Consumed, EOF)
  BY <1>3, <1>4, ConsumeOne
<1>10. OpenInv'
  BY <1>2, <1>3, <1>4, <1>6, <1>8, <1>9 DEF OpenInv
<1> QED
  BY <1>0, <1>1, <1>4, <1>10 DEF MInv, EncodesMessage

(* The open block with the byte Ch more. *)
LEMMA ByteStored ==
  ASSUME MInv, pc = "loop", More, Ch # EOF,
         NEW g, g = [k \in 1..(d + 1) |-> IF k = code_ptr + 1 THEN code_len + 1
                                          ELSE IF k = d + 1 THEN Ch ELSE dst[k - 1]]
  PROVE  /\ g \in FrameSeqs /\ Len(g) = d + 1
         /\ \A k \in 1..(d + 1) : g[k] \in 1..MaxCode
         /\ code_ptr + 1 \in Codes(g) /\ code_ptr + 1 + g[code_ptr + 1] = d + 2
         /\ Decoded(g) = Append(Decoded(OpenFrame), Ch)
<1> DEFINE f == OpenFrame
           c == code_ptr + 1
<1>1. /\ f \in FrameSeqs /\ Len(f) = d /\ d \in Nat /\ c \in 1..d /\ c \in Codes(f)
      /\ f[c] = code_len /\ c + code_len = d + 1
      /\ \A k \in 1..d : k # c => f[k] = dst[k - 1]
  BY OpenIsFrame
<1>2. /\ code_len \in Nat /\ code_len < MaxCode /\ MaxCode \in Nat
      /\ i \in Nat /\ i < Len(src) /\ src \in Seq(Byte)
      /\ \A k \in 1..d : f[k] \in 1..MaxCode
  BY InTurn
<1>3. Ch \in Nat \ {0} /\ Ch \in 1..MaxCode
  <2>1. i + 1 \in 1..Len(src)
    BY <1>2
  <2>2. Ch \in Byte
    BY <1>2, <2>1 DEF Ch
  <2> QED
    BY <1>2, <2>2 DEF Byte, EOF
<1> HIDE DEF f
<1>4. g[c] = code_len + 1 /\ g[d + 1] = Ch /\ \A k \in 1..d : k # c => g[k] = f[k]
  BY <1>1
<1>5. ASSUME NEW k \in 1..(d + 1) PROVE g[k] \in 1..MaxCode
  <2>1. CASE k = c
    BY <1>2, <1>4, <2>1
  <2>2. CASE k = d + 1
    BY <1>3, <1>4, <2>2
  <2>3. CASE k \in 1..d /\ k # c
    BY <1>2, <1>4, <2>3
  <2> QED
    BY <1>1, <2>1, <2>2, <2>3
<1> HIDE DEF c
<1>6. \A k \in 1..(d + 1) : g[k] \in Nat \ {0}
  BY <1>2, <1>5
<1>7. g \in FrameSeqs /\ Len(g) = d + 1
  <2>1. g = [k \in 1..(d + 1) |-> g[k]]
    OBVIOUS
  <2>2. d + 1 \in Nat
    BY <1>1
  <2> QED
    BY <1>6, <2>1, <2>2 DEF FrameSeqs
<1>8. /\ c <= Len(f) /\ c + f[c] = Len(f) + 1 /\ Len(g) = Len(f) + 1
      /\ g[c] = f[c] + 1 /\ g[Len(f) + 1] = Ch
      /\ \A k \in 1..Len(f) : k # c => g[k] = f[k]
  <2>1. c <= Len(f) /\ c + f[c] = Len(f) + 1 /\ Len(g) = Len(f) + 1
    BY <1>1, <1>7
  <2>2. g[c] = f[c] + 1
    BY <1>1, <1>4
  <2>3. g[Len(f) + 1] = Ch
    BY <1>1, <1>4
  <2>4. \A k \in 1..Len(f) : k # c => g[k] = f[k]
    BY <1>1, <1>4
  <2> QED
    BY <2>1, <2>2, <2>3, <2>4
<1>9. /\ c \in Codes(g) /\ c + g[c] = Len(g) + 1
      /\ Decoded(g) = Append(Decoded(f), Ch)
  <2>1. f \in FrameSeqs /\ c \in Codes(f) /\ Ch \in Nat \ {0} /\ g \in FrameSeqs
    BY <1>1, <1>3, <1>7
  <2>2. \A F \in FrameSeqs : \A C \in Codes(F) : \A b \in Nat \ {0} : \A G \in FrameSeqs :
          (/\ C <= Len(F) /\ C + F[C] = Len(F) + 1 /\ Len(G) = Len(F) + 1
           /\ G[C] = F[C] + 1 /\ G[Len(F) + 1] = b
           /\ \A k \in 1..Len(F) : k # C => G[k] = F[k])
          => /\ C \in Codes(G) /\ C + G[C] = Len(G) + 1
             /\ Decoded(G) = Append(Decoded(F), b)
    BY BlockGrows
  <2> QED
    BY <2>1, <2>2, <1>8, ZenonT(30)
<1>10. c + g[c] = d + 2
  BY <1>1, <1>7, <1>9
<1> QED
  BY <1>5, <1>7, <1>9, <1>10 DEF f, c

LEMMA EncodeByteMInv ==
  ASSUME MInv, EncodeByte PROVE MInv'
<1>0. pc = "loop" /\ More /\ Ch # EOF
  BY DEF EncodeByte
<1>1. EInv' /\ EInv
  BY EncodeByteEInv DEF MInv
<1> DEFINE g == OpenFrame'
<1>2. /\ DestSize \in Nat /\ DOMAIN dst = 0..DestSize /\ d < DestSize /\ d \in Nat
      /\ code_ptr \in Nat /\ code_ptr < d /\ code_len \in Nat
      /\ i \in Nat /\ i < Len(src) /\ src \in Seq(Byte)
      /\ Decoded(OpenFrame) = Consumed
  BY <1>0, InTurn
<1>3. /\ UNCHANGED <<src, rolls, ret, pc, code_ptr>> /\ i' = i + 1
      /\ d' = d + 1 /\ code_len' = code_len + 1
      /\ dst' = [dst EXCEPT ![d] = Ch]
  BY DEF EncodeByte
<1>4. \A k \in 1..(d + 1) : dst'[k - 1] = IF k = d + 1 THEN Ch ELSE dst[k - 1]
  <2> TAKE k \in 1..(d + 1)
  <2>1. k - 1 \in DOMAIN dst /\ (k - 1 = d <=> k = d + 1)
    BY <1>2
  <2> QED
    BY <1>3, <2>1
<1>5. g = [k \in 1..(d + 1) |-> IF k = code_ptr + 1 THEN code_len + 1
                                ELSE dst'[k - 1]]
  BY <1>3 DEF OpenFrame
<1> HIDE DEF g
<1>6. g = [k \in 1..(d + 1) |-> IF k = code_ptr + 1 THEN code_len + 1
                                ELSE IF k = d + 1 THEN Ch ELSE dst[k - 1]]
  BY <1>4, <1>5
<1>7. /\ \A k \in 1..(d + 1) : g[k] \in 1..MaxCode
      /\ code_ptr + 1 \in Codes(g)
      /\ Decoded(g) = Append(Decoded(OpenFrame), Ch)
  BY <1>0, <1>6, ByteStored
<1>8. Consumed' = Append(Consumed, Ch)
  BY <1>2, <1>3, ConsumeOne
<1>9. d + 1 = code_ptr + (code_len + 1)
  BY <1>0, <1>2 DEF MInv, OpenInv
<1>10. OpenInv'
  BY <1>2, <1>3, <1>7, <1>8, <1>9 DEF OpenInv, g
<1> QED
  BY <1>0, <1>1, <1>3, <1>10 DEF MInv, EncodesMessage

LEMMA EncodeFullMInv ==
  ASSUME MInv, EncodeFull PROVE MInv'
<1>0. pc = "loop" /\ More /\ Ch # EOF
  BY DEF EncodeFull
<1>1. EInv' /\ EInv
  BY EncodeFullEInv DEF MInv
<1> DEFINE c == code_ptr + 1
           g == [k \in 1..(d + 1) |-> IF k = code_ptr + 1 THEN code_len + 1
                                      ELSE IF k = d + 1 THEN Ch ELSE dst[k - 1]]
           h == Append(g, 1)
<1>2. /\ DestSize \in Nat /\ DOMAIN dst = 0..DestSize /\ d < DestSize /\ d \in Nat
      /\ code_ptr \in Nat /\ code_ptr < d /\ code_len \in Nat
      /\ i \in Nat /\ i < Len(src) /\ src \in Seq(Byte)
      /\ Decoded(OpenFrame) = Consumed
  BY <1>0, InTurn
<1>3. /\ UNCHANGED <<src, ret, pc>> /\ i' = i + 1 /\ code_len + 1 = MaxCode
      /\ d' = d + 2 /\ code_len' = 1 /\ code_ptr' = d + 1
      /\ dst' = [dst EXCEPT ![d] = Ch, ![code_ptr] = code_len + 1]
  BY DEF EncodeFull, Full
<1>4. ASSUME NEW k \in 1..(d + 1)
      PROVE  dst'[k - 1] = g[k]
  <2>1. /\ k - 1 \in DOMAIN dst /\ (k - 1 = d <=> k = d + 1)
        /\ k - 1 = code_ptr <=> k = code_ptr + 1
        /\ d # code_ptr
    BY <1>2
  <2>2. dst' = [[dst EXCEPT ![d] = Ch] EXCEPT ![code_ptr] = code_len + 1]
    BY <1>3
  <2> QED
    BY <2>1, <2>2
<1>5. OpenFrame' = [k \in 1..(d + 2) |-> IF k = d + 2 THEN 1 ELSE dst'[k - 1]]
  <2>1. d + 1 + 1 = d + 2
    BY <1>2
  <2> QED
    BY <1>3, <2>1 DEF OpenFrame
<1>6. /\ g \in FrameSeqs /\ Len(g) = d + 1
      /\ \A k \in 1..(d + 1) : g[k] \in 1..MaxCode
      /\ c \in Codes(g) /\ c + g[c] = d + 2
      /\ Decoded(g) = Append(Decoded(OpenFrame), Ch)
  BY <1>0, ByteStored
<1>7. g[c] = MaxCode /\ c \in 1..(d + 1) /\ d + 1 + 1 = d + 2
  BY <1>2, <1>3
<1> HIDE DEF g, c
<1>8. LastCode(g, c) /\ c + g[c] = Len(g) + 1
  BY <1>2, <1>6, <1>7 DEF LastCode
<1>9. /\ h \in FrameSeqs /\ Len(h) = d + 2 /\ h[d + 2] = 1
      /\ \A k \in 1..(d + 1) : h[k] = g[k]
      /\ \A k \in 1..(d + 2) : h[k] \in 1..MaxCode
      /\ d + 2 \in Codes(h) /\ Decoded(h) = Decoded(g)
  <2>1. ~(g[c] < MaxCode)
    BY <1>7, MaxCodeAssumption
  <2> QED
    <3>1. LET q == Append(g, 1)
          IN  /\ q \in FrameSeqs /\ Len(q) = Len(g) + 1 /\ q[Len(g) + 1] = 1
              /\ \A k \in 1..Len(g) : q[k] = g[k]
              /\ \A k \in 1..Len(q) : q[k] \in 1..MaxCode
              /\ Len(g) + 1 \in Codes(q)
              /\ Decoded(q) = IF g[c] < MaxCode THEN Append(Decoded(g), EOF)
                              ELSE Decoded(g)
      <4>1. g \in FrameSeqs /\ \A k \in 1..Len(g) : g[k] \in 1..MaxCode
        BY <1>6
      <4> QED
        BY <1>8, <4>1, NewBlock, Zenon
    <3>2. /\ h \in FrameSeqs /\ Len(h) = Len(g) + 1 /\ h[Len(g) + 1] = 1
          /\ \A k \in 1..Len(g) : h[k] = g[k]
          /\ \A k \in 1..Len(h) : h[k] \in 1..MaxCode
          /\ Len(g) + 1 \in Codes(h)
          /\ Decoded(h) = Decoded(g)
      BY <2>1, <3>1, Zenon
    <3>3. Len(g) + 1 = d + 2 /\ Len(g) = d + 1
      BY <1>6, <1>7
    <3> HIDE DEF h
    <3> QED
      BY <3>2, <3>3
<1> HIDE DEF h
<1>10. OpenFrame' = h
  <2> DEFINE e == OpenFrame'
  <2>1. e = [k \in 1..(d + 2) |-> e[k]] /\ \A k \in 1..(d + 2) : e[k] = h[k]
    BY <1>2, <1>4, <1>5, <1>9
  <2>2. d + 2 \in Nat
    BY <1>2
  <2> HIDE DEF e
  <2>3. e = h
    BY <1>9, <2>1, <2>2, SameFrame
  <2> QED
    BY <2>3 DEF e
<1>11. Consumed' = Append(Consumed, Ch)
  BY <1>2, <1>3, ConsumeOne
<1>12. OpenInv'
  BY <1>2, <1>3, <1>6, <1>7, <1>9, <1>10, <1>11 DEF OpenInv
<1> QED
  BY <1>0, <1>1, <1>3, <1>12 DEF MInv, EncodesMessage

LEMMA FinishMInv ==
  ASSUME MInv, Finish PROVE MInv'
<1>0. pc = "loop" /\ EInv
  BY DEF Finish, MInv
<1>1. EInv'
  BY FinishEInv DEF MInv
<1>2. /\ DestSize \in Nat /\ Len(src) \in Nat /\ i \in 0..Len(src)
      /\ d \in Nat /\ code_ptr \in Nat /\ code_ptr < d
      /\ d = 1 + i + rolls /\ rolls \in Nat /\ Len(src) + rolls + 2 <= DestSize
      /\ More => ~NoRoom
      /\ DOMAIN dst = 0..DestSize
  BY <1>0, InLoop
<1>3. ~More
  BY <1>2 DEF Finish
<1>4. /\ UNCHANGED <<src, i, code_ptr, code_len, rolls>> /\ pc' = "done"
      /\ ret' = d + 1
      /\ dst' = [dst EXCEPT ![code_ptr] = code_len, ![d] = EOF]
  BY <1>3 DEF Finish
<1>5. i = Len(src) /\ d < DestSize /\ ret' - 1 = d
  BY <1>2, <1>3, <1>4 DEF More
<1> DEFINE f == OpenFrame
           c == code_ptr + 1
           h == [k \in 1..(ret' - 1) |-> dst'[k - 1]]
<1>6. /\ f \in FrameSeqs /\ Len(f) = d /\ c \in 1..d
      /\ f[c] = code_len /\ c + code_len = d + 1 /\ LastCode(f, c)
      /\ \A k \in 1..d : k # c => f[k] = dst[k - 1]
  BY <1>0, OpenIsFrame
<1>7. \A k \in 1..d : f[k] \in Byte
  <2>1. \A k \in 1..d : f[k] \in 1..MaxCode
    BY <1>0 DEF MInv, OpenInv
  <2> HIDE DEF f
  <2> QED
    BY <2>1, MaxCodeAssumption DEF Byte
<1>8. Decoded(f) = src
  <2>1. Decoded(f) = Consumed
    BY <1>0 DEF MInv, OpenInv
  <2>2. src \in Seq(Byte)
    BY <1>0 DEF EInv, TypeOK
  <2>3. src = [k \in 1..Len(src) |-> src[k]]
    BY <2>2
  <2> QED
    BY <1>5, <2>1, <2>3 DEF Consumed
<1> HIDE DEF f
<1>9. WellFormed(f)
  BY <1>6, WellFormedLast
<1>10. dst'[d] = EOF /\ \A k \in 1..d : dst'[k - 1] = f[k]
  <2>1. dst' = [[dst EXCEPT ![code_ptr] = code_len] EXCEPT ![d] = EOF]
    BY <1>4
  <2>2. d \in DOMAIN dst /\ code_ptr \in DOMAIN dst /\ d # code_ptr
    BY <1>2, <1>5
  <2>3. dst'[d] = EOF
    BY <2>1, <2>2
  <2>4. ASSUME NEW k \in 1..d PROVE dst'[k - 1] = f[k]
    <3>1. k - 1 \in DOMAIN dst /\ k - 1 # d /\ (k - 1 = code_ptr <=> k = c)
      BY <1>2, <1>5
    <3> QED
      BY <1>6, <2>1, <2>2, <3>1
  <2> QED
    BY <2>3, <2>4
<1>11. h = f
  <2>1. h = [k \in 1..d |-> h[k]] /\ \A k \in 1..d : h[k] = f[k]
    BY <1>5, <1>10
  <2>2. f \in FrameSeqs /\ Len(f) = d /\ d \in Nat
    BY <1>2, <1>6
  <2>3. \A F \in FrameSeqs : \A n \in Nat : \A H :
          (Len(F) = n /\ H = [k \in 1..n |-> H[k]] /\ \A k \in 1..n : H[k] = F[k])
          => H = F
    BY SameFrame
  <2> HIDE DEF h
  <2> QED
    BY <2>1, <2>2, <2>3
<1>12. /\ \A k \in 1..Len(h) : h[k] \in Byte
       /\ dst'[ret' - 1] = EOF
       /\ WellFormed(h) /\ Decoded(h) = src'
  BY <1>4, <1>5, <1>6, <1>7, <1>8, <1>9, <1>10, <1>11
<1>13. EncodesMessage'
  <2>1. EncodesMessage' = (pc' = "done" =>
           /\ \A k \in 1..Len(h) : h[k] \in Byte
           /\ dst'[ret' - 1] = EOF
           /\ WellFormed(h) /\ Decoded(h) = src')
    BY DEF EncodesMessage
  <2> QED
    BY <1>12, <2>1
<1>14. OpenInv'
  BY <1>4 DEF OpenInv
<1> QED
  BY <1>1, <1>13, <1>14 DEF MInv

LEMMA InitMInv == Init => MInv
<1> SUFFICES ASSUME Init PROVE MInv
  OBVIOUS
<1>1. EInv
  BY InitEInv
<1> QED
  BY <1>1 DEF Init, MInv, OpenInv, EncodesMessage

LEMMA NextMInv == MInv /\ [Next]_vars => MInv'
<1> SUFFICES ASSUME MInv, [Next]_vars PROVE MInv'
  OBVIOUS
<1>1. CASE \E m \in Messages : Start(m)
  BY <1>1, StartMInv
<1>2. CASE EncodeZero
  BY <1>2, EncodeZeroMInv
<1>3. CASE EncodeByte
  BY <1>3, EncodeByteMInv
<1>4. CASE EncodeFull
  BY <1>4, EncodeFullMInv
<1>5. CASE Finish
  BY <1>5, FinishMInv
<1>6. CASE HandOver
  <2>1. EInv'
    BY <1>6, HandOverEInv DEF MInv
  <2> QED
    BY <1>6, <2>1 DEF MInv, HandOver, OpenInv, EncodesMessage
<1>7. CASE UNCHANGED vars
  <2>1. UNCHANGED <<src, i, dst, d, code_ptr, code_len, rolls, ret, pc>>
    BY <1>7 DEF vars, buffer
  <2>2. EInv'
    BY <1>7, NextEInv DEF MInv
  <2>3. OpenInv' /\ EncodesMessage'
    BY <2>1 DEF MInv, OpenInv, EncodesMessage, OpenFrame, Consumed
  <2> QED
    BY <2>2, <2>3 DEF MInv
<1> QED
  BY <1>1, <1>2, <1>3, <1>4, <1>5, <1>6, <1>7 DEF Next

(***************************************************************************)
(* EncoderSound: for every byte width and every message, cobs_encode       *)
(* returns one frame without a zero byte before its end, every byte of     *)
(* which it has written, and the chain of its blocks means the message.    *)
(***************************************************************************)
THEOREM EncodesEveryMessage == Spec => []EncoderSound
<1>1. MInv => EncoderSound
  BY DEF MInv, EInv, EncoderSound
<1> QED
  BY <1>1, InitMInv, NextMInv, PTL DEF Spec

-----------------------------------------------------------------------------
(***************************************************************************)
(* The receiver behind a line that loses bytes keeps to its buffer, for    *)
(* every byte width, every message limit, every set of legal frames and    *)
(* any number of losses, until an end-of-frame byte is lost; it does to    *)
(* every frame what the bytes of the frame mean; and on any byte stream    *)
(* its counters keep their ranges.                                         *)
(*                                                                         *)
(* The zero at a block end is stored without a look at buf_size, so only   *)
(* the length of the frame protects the bytes behind the buffer.  The      *)
(* argument: the first byte of a frame stores nothing, every later one     *)
(* stores at most one byte, and while the receiver is in step the bytes it *)
(* got since the last end-of-frame byte and the bytes on their way are     *)
(* together no more than the frame being sent with its end-of-frame byte.  *)
(***************************************************************************)

(* Nothing is stored between frames, and within a frame every stored byte  *)
(* has a byte of the frame behind its first one.                           *)
StoredInv ==
  /\ state = "DEC_IDLE" => buf = <<>> /\ frame = <<>>
  /\ state = "DEC_BLOCK" => Len(buf) < Len(frame)

(* An end-of-frame byte ends the bytes on their way and is nowhere else    *)
(* among them.                                                             *)
LineInv ==
  /\ line \in Seq(Byte)
  /\ \A k \in 1..Len(line) : line[k] = EOF <=> k = Len(line)
  /\ sending \in Seq(Byte) /\ Len(sending) <= BufSize
  /\ synced \in BOOLEAN

(* In step: what has come and what is on its way is one frame. *)
StepInv ==
  synced => /\ line = <<>> => frame = <<>>
            /\ line # <<>> => Len(frame) + Len(line) <= Len(sending) + 1

LInv == DecoderOK /\ StoredInv /\ LineInv /\ StepInv /\ (spilled => ~synced)

lvars == <<rcvVars, lineVars>>

USE DEF EOF
-----------------------------------------------------------------------------
LEMMA BytesKnown ==
  /\ 0 \in Byte /\ Byte \subseteq Nat /\ 1 \in Byte
BY MaxCodeAssumption DEF Byte

(* decoder_check_and_dispatch_cb keeps the statistics in their types. *)
LEMMA DispatchType ==
  ASSUME buf \in Seq(Byte), proto_errors \in Nat, crc_errors \in Nat,
         received \in Seq(Seq(Byte)), CheckAndDispatch(buf)
  PROVE  proto_errors' \in Nat /\ crc_errors' \in Nat /\ received' \in Seq(Seq(Byte))
<1>1. CASE TooShort(buf) /\ proto_errors' = proto_errors + 1 /\ UNCHANGED <<crc_errors, received>>
  BY <1>1
<1>2. CASE crc_errors' = crc_errors + 1 /\ UNCHANGED <<proto_errors, received>>
  BY <1>2
<1>3. CASE /\ ~TooShort(buf) /\ received' = Append(received, Body(buf))
           /\ UNCHANGED <<proto_errors, crc_errors>>
  <2>1. Len(buf) \in Nat /\ Len(buf) >= 3
    BY <1>3 DEF TooShort
  <2>2. \A k \in 1..(Len(buf) - 2) : buf[k] \in Byte
    BY <2>1
  <2>3. SubSeq(buf, 1, Len(buf) - 2) \in Seq(Byte)
    BY <2>1, SubSeqProperties
  <2>4. Body(buf) \in Seq(Byte)
    BY <2>3 DEF Body
  <2> HIDE DEF Body
  <2> QED
    BY <1>3, <2>4
<1> QED
  BY <1>1, <1>2, <1>3 DEF CheckAndDispatch

(* The frame so far grows by a byte or starts anew. *)
LEMMA FrameGrows ==
  ASSUME DecoderOK, NEW ch \in Byte, PutByte(ch)
  PROVE  /\ frame' \in Seq(Byte \ {EOF})
         /\ ch = EOF => frame' = <<>>
         /\ ch # EOF => frame' # <<>> /\ Len(frame') = Len(frame) + 1
         /\ Len(frame) \in Nat /\ Len(buf) \in Nat
<1>1. frame \in Seq(Byte \ {EOF}) /\ buf \in Seq(Byte)
  BY DEF DecoderOK
<1>2. CASE ch = EOF
  BY <1>1, <1>2 DEF PutByte
<1>3. CASE ch # EOF
  <2>1. frame' = Append(frame, ch)
    BY <1>3 DEF PutByte
  <2> QED
    BY <1>1, <1>3, <2>1
<1> QED
  BY <1>2, <1>3

(* cobs_decoder_put: its counters keep their ranges, and every byte of a   *)
(* frame but the first stores at most one byte.                            *)
LEMMA PutKeeps ==
  ASSUME DecoderOK, StoredInv, NEW ch \in Byte, PutByte(ch)
  PROVE  /\ DecoderOK' /\ StoredInv'
         /\ spilled' => ch # EOF /\ Len(buf) >= BufSize
<1>0. /\ state \in {"DEC_IDLE", "DEC_BLOCK"} /\ buf \in Seq(Byte)
      /\ overflow \in BOOLEAN /\ spilled \in BOOLEAN /\ ~spilled
      /\ block_len \in Byte /\ block_cnt \in 0..block_len
      /\ state = "DEC_BLOCK" => block_cnt >= 1
      /\ proto_errors \in Nat /\ crc_errors \in Nat /\ frames \in Nat
      /\ received \in Seq(Seq(Byte))
  BY DEF DecoderOK, PutByte
<1>1. BufSize \in Nat \ {0} /\ ch \in Nat /\ block_len \in Nat /\ Len(buf) \in Nat
  BY <1>0, BytesKnown, ReceiverAssumption
<1>2. block_cnt \in Nat /\ block_cnt <= block_len
  BY <1>0, <1>1
<1>3. /\ frame' \in Seq(Byte \ {EOF})
      /\ ch = EOF => frame' = <<>>
      /\ ch # EOF => frame' # <<>> /\ Len(frame') = Len(frame) + 1
      /\ Len(frame) \in Nat
  BY FrameGrows
<1>4. CASE PutFirst(ch)
  <2>1. buf' = <<>> /\ Len(buf') = 0 /\ buf' \in Seq(Byte)
    BY <1>4 DEF PutFirst
  <2>2. block_cnt' \in 0..(block_len')
    BY <1>4, <1>1 DEF PutFirst
  <2>3. block_cnt' >= 1
    BY <1>4, <1>1 DEF PutFirst
  <2>4. DecoderOK'
    BY <1>0, <1>3, <1>4, <2>1, <2>2, <2>3 DEF PutFirst, stats, DecoderOK
  <2>5. StoredInv'
    BY <1>3, <1>4, <2>1 DEF PutFirst, StoredInv
  <2> QED
    BY <1>0, <1>4, <2>4, <2>5 DEF PutFirst
<1>5. CASE PutIdle(ch)
  <2>1. DecoderOK'
    BY <1>0, <1>3, <1>5 DEF PutIdle, stats, decoder, DecoderOK
  <2>2. StoredInv'
    BY <1>3, <1>5 DEF PutIdle, decoder, StoredInv
  <2> QED
    BY <1>0, <1>5, <2>1, <2>2 DEF PutIdle
<1>6. CASE PutZeroCode(ch)
  <2>1. buf' \in Seq(Byte) /\ Len(buf') = Len(buf) + 1
    BY <1>0, <1>6, BytesKnown DEF PutZeroCode
  <2>2. block_cnt' \in 0..(block_len') /\ block_cnt' >= 1 /\ block_len' \in Byte
    BY <1>1, <1>6 DEF PutZeroCode, NextBlock
  <2>3. spilled' \in BOOLEAN /\ (spilled' => Len(buf) >= BufSize)
    <3>1. spilled' = (Len(buf) >= BufSize)
      BY <1>6 DEF PutZeroCode
    <3>2. spilled' \in BOOLEAN
      BY <1>1, <3>1
    <3>3. ASSUME spilled' PROVE Len(buf) >= BufSize
      BY <3>1, <3>3, Zenon
    <3> QED
      BY <3>2, <3>3
  <2>4. DecoderOK'
    BY <1>0, <1>3, <1>6, <2>1, <2>2, <2>3 DEF PutZeroCode, stats, DecoderOK
  <2>5. Len(buf) < Len(frame)
    BY <1>6 DEF PutZeroCode, StoredInv
  <2>6. StoredInv'
    BY <1>1, <1>3, <1>6, <2>1, <2>5 DEF PutZeroCode, StoredInv
  <2> QED
    BY <1>6, <2>3, <2>4, <2>6 DEF PutZeroCode
<1>7. CASE PutCode(ch)
  <2>1. block_cnt' \in 0..(block_len') /\ block_cnt' >= 1 /\ block_len' \in Byte
    BY <1>1, <1>7 DEF PutCode, NextBlock
  <2>2. DecoderOK'
    BY <1>0, <1>3, <1>7, <2>1 DEF PutCode, stats, DecoderOK
  <2>3. StoredInv'
    BY <1>1, <1>3, <1>7 DEF PutCode, StoredInv
  <2> QED
    BY <1>0, <1>7, <2>2, <2>3 DEF PutCode
<1>8. CASE PutData(ch)
  <2>1. /\ buf' \in Seq(Byte) /\ Len(buf') \in Nat
        /\ Len(buf') <= Len(buf) + 1
        /\ Len(buf') > BufSize => Len(buf) >= BufSize
        /\ overflow' \in BOOLEAN
    <3>1. CASE Fits
      <4>1. buf' = Append(buf, ch) /\ overflow' = overflow
        BY <1>8, <3>1 DEF PutData
      <4>2. buf' \in Seq(Byte) /\ Len(buf') = Len(buf) + 1
        BY <1>0, <4>1
      <4> QED
        BY <1>0, <1>1, <3>1, <4>1, <4>2 DEF Fits
    <3>2. CASE ~Fits
      <4>1. buf' = buf /\ overflow' = TRUE
        BY <1>8, <3>2 DEF PutData
      <4> QED
        BY <1>0, <1>1, <3>2, <4>1 DEF Fits
    <3> QED
      BY <3>1, <3>2
  <2>2. block_cnt' \in 0..(block_len') /\ block_cnt' >= 1 /\ block_len' = block_len
    BY <1>0, <1>1, <1>2, <1>8 DEF PutData, BlockDone
  <2>3. spilled' \in BOOLEAN /\ (spilled' => Len(buf) >= BufSize)
    <3>1. spilled' = (Len(buf') > BufSize)
      BY <1>8 DEF PutData
    <3>2. spilled' \in BOOLEAN
      BY <1>1, <2>1, <3>1
    <3>3. ASSUME spilled' PROVE Len(buf') > BufSize
      BY <3>1, <3>3, Zenon
    <3> QED
      BY <2>1, <3>2, <3>3
  <2>4. DecoderOK'
    BY <1>0, <1>3, <1>8, <2>1, <2>2, <2>3 DEF PutData, stats, DecoderOK
  <2>5. Len(buf) < Len(frame)
    BY <1>8 DEF PutData, StoredInv
  <2>6. StoredInv'
    BY <1>0, <1>1, <1>3, <1>8, <2>1, <2>5 DEF PutData, StoredInv
  <2> QED
    BY <1>8, <2>3, <2>4, <2>6 DEF PutData
<1>9. CASE PutEof(ch)
  <2>1. proto_errors' \in Nat /\ crc_errors' \in Nat /\ received' \in Seq(Seq(Byte))
    <3>1. CASE BlockDone /\ ~overflow
      BY <1>0, <1>9, <3>1, DispatchType DEF PutEof
    <3>2. CASE ~(BlockDone /\ ~overflow)
      BY <1>0, <1>9, <3>2 DEF PutEof, stats
    <3> QED
      BY <3>1, <3>2
  <2>2. buf' = <<>> /\ buf' \in Seq(Byte) /\ frames' \in Nat
    BY <1>0, <1>9 DEF PutEof
  <2>3. DecoderOK'
    BY <1>0, <1>3, <1>9, <2>1, <2>2 DEF PutEof, DecoderOK
  <2>4. StoredInv'
    BY <1>3, <1>9 DEF PutEof, StoredInv
  <2> QED
    BY <1>0, <1>9, <2>3, <2>4 DEF PutEof
<1> QED
  BY <1>4, <1>5, <1>6, <1>7, <1>8, <1>9 DEF PutByte

-----------------------------------------------------------------------------
LEMMA HostFrameKnown ==
  ASSUME NEW f \in HostFrames
  PROVE  /\ f \in Seq(Byte) /\ Len(f) \in Nat /\ Len(f) <= BufSize
         /\ \A k \in 1..Len(f) : f[k] # EOF
BY LinkAssumption DEF WellFormed

LEMMA InitDecoder == DecoderInit => DecoderOK /\ StoredInv
<1> SUFFICES ASSUME DecoderInit PROVE DecoderOK /\ StoredInv
  OBVIOUS
<1>1. block_len \in Byte /\ block_cnt \in 0..block_len
  BY BytesKnown DEF DecoderInit
<1>2. /\ proto_errors \in Nat /\ crc_errors \in Nat /\ frames \in Nat
      /\ buf \in Seq(Byte) /\ frame \in Seq(Byte \ {EOF})
      /\ received \in Seq(Seq(Byte))
  BY DEF DecoderInit
<1>3. state = "DEC_IDLE" /\ overflow \in BOOLEAN /\ spilled \in BOOLEAN
  BY DEF DecoderInit
<1>4. StoredInv
  BY DEF DecoderInit, StoredInv
<1> QED
  BY <1>1, <1>2, <1>3, <1>4 DEF DecoderOK

LEMMA InitLInv == LinkInit => LInv
<1> SUFFICES ASSUME LinkInit PROVE LInv
  OBVIOUS
<1>1. DecoderOK /\ StoredInv
  BY InitDecoder DEF LinkInit
<1>2. LineInv
  BY ReceiverAssumption DEF LinkInit, LineInv
<1>3. StepInv
  BY DEF LinkInit, DecoderInit, StepInv
<1> QED
  BY <1>1, <1>2, <1>3 DEF LInv, LinkInit, DecoderInit

LEMMA HostSendLInv ==
  ASSUME LInv, NEW f \in HostFrames, HostSend(f)
  PROVE  LInv'
<1>1. /\ f \in Seq(Byte) /\ Len(f) \in Nat /\ Len(f) <= BufSize
      /\ \A k \in 1..Len(f) : f[k] # EOF
  BY HostFrameKnown
<1>2. /\ line' \in Seq(Byte) /\ Len(line') = Len(f) + 1 /\ line' # <<>>
      /\ \A k \in 1..Len(f) : line'[k] = f[k]
      /\ line'[Len(f) + 1] = EOF
  BY <1>1, BytesKnown DEF HostSend
<1>3. \A k \in 1..(Len(f) + 1) : line'[k] = EOF <=> k = Len(f) + 1
  BY <1>1, <1>2
<1>4. LineInv'
  BY <1>1, <1>2, <1>3 DEF LInv, LineInv, HostSend
<1>5. DecoderOK' /\ StoredInv'
  BY DEF LInv, HostSend, rcvVars, decoder, stats, DecoderOK, StoredInv
<1>6. StepInv'
  <2>1. ASSUME synced' PROVE Len(frame') = 0
    BY <2>1 DEF LInv, StepInv, HostSend, rcvVars
  <2> QED
    BY <1>1, <1>2, <2>1 DEF StepInv, HostSend
<1> QED
  BY <1>4, <1>5, <1>6 DEF LInv, HostSend, rcvVars

(* The first byte of the line and the rest. *)
LEMMA LineStep ==
  ASSUME LineInv, line # <<>>
  PROVE  /\ Head(line) \in Byte /\ Len(line) \in Nat \ {0}
         /\ Tail(line) \in Seq(Byte) /\ Len(Tail(line)) = Len(line) - 1
         /\ \A k \in 1..Len(Tail(line)) :
              Tail(line)[k] = EOF <=> k = Len(Tail(line))
         /\ Head(line) = EOF <=> Tail(line) = <<>>
<1>1. line \in Seq(Byte) /\ Len(line) \in Nat \ {0}
  BY EmptySeq, LenProperties DEF LineInv
<1>2. /\ Tail(line) \in Seq(Byte) /\ Len(Tail(line)) = Len(line) - 1
      /\ \A k \in 1..(Len(line) - 1) : Tail(line)[k] = line[k + 1]
  BY <1>1, HeadTailProperties
<1>3. Head(line) = line[1] /\ line[1] \in Byte
  BY <1>1
<1>4. \A k \in 1..(Len(line) - 1) :
        line[k + 1] = EOF <=> k = Len(line) - 1
  BY <1>1 DEF LineInv
<1>5. Head(line) = EOF <=> 1 = Len(line)
  <2>1. 1 \in 1..Len(line)
    BY <1>1
  <2> QED
    BY <1>3, <2>1 DEF LineInv
<1>6. Tail(line) = <<>> <=> Len(line) = 1
  <2>1. Tail(line) = <<>> <=> Len(Tail(line)) = 0
    BY <1>2, EmptySeq
  <2>2. Len(Tail(line)) = 0 <=> Len(line) = 1
    BY <1>1, <1>2
  <2> QED
    BY <2>1, <2>2
<1>7. \A k \in 1..Len(Tail(line)) : Tail(line)[k] = EOF <=> k = Len(Tail(line))
  BY <1>1, <1>2, <1>4
<1> QED
  BY <1>1, <1>2, <1>3, <1>5, <1>6, <1>7

LEMMA ArriveLInv ==
  ASSUME LInv, Arrive
  PROVE  LInv'
<1> DEFINE ch == Head(line)
           rest == Tail(line)
<1>1. /\ ch \in Byte /\ Len(line) \in Nat \ {0}
      /\ rest \in Seq(Byte) /\ Len(rest) = Len(line) - 1
      /\ \A k \in 1..Len(rest) : rest[k] = EOF <=> k = Len(rest)
      /\ ch = EOF <=> rest = <<>>
  BY LineStep DEF LInv, Arrive
<1>2. /\ line # <<>> /\ PutByte(ch) /\ line' = rest
      /\ synced' = (synced \/ ch = EOF) /\ sending' = sending
  BY DEF Arrive, host
<1> HIDE DEF ch, rest
<1>3. /\ DecoderOK' /\ StoredInv'
      /\ spilled' => ch # EOF /\ Len(buf) >= BufSize
  BY <1>1, <1>2, PutKeeps DEF LInv
<1>4. LineInv'
  BY <1>1, <1>2 DEF LInv, LineInv
<1>5. /\ ch = EOF => frame' = <<>>
      /\ ch # EOF => Len(frame') = Len(frame) + 1
      /\ Len(frame) \in Nat /\ Len(buf) \in Nat
  BY <1>1, <1>2, FrameGrows DEF LInv
<1>6. Len(sending) \in Nat /\ Len(sending) <= BufSize /\ BufSize \in Nat
  BY ReceiverAssumption DEF LInv, LineInv
<1>7. StepInv'
  <2>1. CASE ch = EOF
    BY <1>1, <1>2, <1>5, <2>1 DEF StepInv
  <2>2. CASE ch # EOF
    <3>1. SUFFICES ASSUME synced PROVE Len(frame') + Len(rest) <= Len(sending) + 1
      BY <1>1, <1>2, <2>2 DEF StepInv
    <3>2. Len(frame) + Len(line) <= Len(sending) + 1
      BY <1>2, <3>1 DEF LInv, StepInv
    <3> QED
      BY <1>1, <1>5, <1>6, <2>2, <3>2
  <2> QED
    BY <2>1, <2>2
<1>8. spilled' => ~synced'
  <2>1. SUFFICES ASSUME spilled', synced PROVE FALSE
    BY <1>2, <1>3
  <2>2. ch # EOF /\ Len(buf) >= BufSize
    BY <1>3, <2>1
  <2>3. Len(frame) + Len(line) <= Len(sending) + 1
    BY <1>2, <2>1 DEF LInv, StepInv
  <2>4. Len(buf) <= Len(frame)
    <3>1. state \in {"DEC_IDLE", "DEC_BLOCK"}
      BY DEF LInv, DecoderOK
    <3>2. CASE state = "DEC_IDLE"
      BY <1>5, <3>2 DEF LInv, StoredInv
    <3>3. CASE state = "DEC_BLOCK"
      BY <1>5, <3>3 DEF LInv, StoredInv
    <3> QED
      BY <3>1, <3>2, <3>3
  <2>5. Len(line) >= 2
    BY <1>1, <2>2, EmptySeq
  <2> QED
    BY <1>1, <1>5, <1>6, <2>2, <2>3, <2>4, <2>5
<1> QED
  BY <1>3, <1>4, <1>7, <1>8 DEF LInv

LEMMA LoseLInv ==
  ASSUME LInv, Lose
  PROVE  LInv'
<1> DEFINE ch == Head(line)
           rest == Tail(line)
<1>1. /\ ch \in Byte /\ Len(line) \in Nat \ {0}
      /\ rest \in Seq(Byte) /\ Len(rest) = Len(line) - 1
      /\ \A k \in 1..Len(rest) : rest[k] = EOF <=> k = Len(rest)
      /\ ch = EOF <=> rest = <<>>
  BY LineStep DEF LInv, Lose
<1>2. /\ line # <<>> /\ line' = rest
      /\ synced' = (synced /\ ch # EOF) /\ sending' = sending
      /\ UNCHANGED rcvVars
  BY DEF Lose, host
<1> HIDE DEF ch, rest
<1>3. DecoderOK' /\ StoredInv' /\ frame' = frame /\ spilled' = spilled
  BY <1>2 DEF LInv, rcvVars, decoder, stats, DecoderOK, StoredInv
<1>4. LineInv'
  BY <1>1, <1>2 DEF LInv, LineInv
<1>5. Len(frame) \in Nat /\ Len(sending) \in Nat
  BY DEF LInv, LineInv, DecoderOK
<1>6. StepInv'
  <2>1. SUFFICES ASSUME synced, ch # EOF
                 PROVE  rest # <<>> /\ Len(frame) + Len(rest) <= Len(sending) + 1
    BY <1>2, <1>3 DEF StepInv
  <2>2. Len(frame) + Len(line) <= Len(sending) + 1
    BY <1>2, <2>1 DEF LInv, StepInv
  <2> QED
    BY <1>1, <1>5, <2>1, <2>2
<1> QED
  BY <1>2, <1>3, <1>4, <1>6 DEF LInv

LEMMA NextLInv == LInv /\ [LinkNext]_lvars => LInv'
<1> SUFFICES ASSUME LInv, [LinkNext]_lvars PROVE LInv'
  OBVIOUS
<1>1. ASSUME UNCHANGED lvars PROVE LInv'
  <2>1. UNCHANGED rcvVars /\ UNCHANGED <<line, sending, synced>>
    BY <1>1 DEF lvars, lineVars, host
  <2> QED
    BY <2>1 DEF LInv, rcvVars, decoder, stats, DecoderOK, StoredInv, LineInv, StepInv
<1> QED
  BY <1>1, HostSendLInv, ArriveLInv, LoseLInv DEF LinkNext

(* BufferKept: with a host that keeps to MAX_MESSAGE_SIZE,                 *)
(* cobs_decoder_put never writes behind its buffer before an end-of-frame  *)
(* byte was lost, whatever else the line loses, and block_cnt, buf_ind and *)
(* the statistics keep their ranges.                                       *)
THEOREM BufferStays == LinkSpec => []BufferKept
<1>1. LInv => BufferKept
  BY DEF LInv, BufferKept, NoSpillInStep
<1> QED
  BY <1>1, InitLInv, NextLInv, PTL DEF LinkSpec, lvars

-----------------------------------------------------------------------------
(***************************************************************************)
(* The decoder computes the meaning of the frame.  The lemmas are about a  *)
(* frame f and the values the decoder has after it: the bytes b it stored, *)
(* its overflow mark o, block_len and block_cnt.                           *)
(***************************************************************************)

(* block_cnt and block_len point back to the code of the last block; b is  *)
(* the message so far, or what of it fits.                                 *)
Follows(f, b, o, len, cnt) ==
  /\ LastCode(f, Len(f) + cnt - len) /\ f[Len(f) + cnt - len] = len
  /\ ~o => b = Decoded(f) /\ Len(b) <= BufSize
  /\ o => Len(b) = BufSize /\ Len(Decoded(f)) > BufSize

LEMMA FrameIsSeq ==
  ASSUME NEW f \in Seq(Byte \ {EOF})
  PROVE  /\ f \in FrameSeqs /\ Len(f) \in Nat
         /\ Decoded(f) \in Seq(Byte) /\ Len(Decoded(f)) \in Nat
<1>1. Byte \ {EOF} \subseteq Nat \ {0} /\ Byte \ {EOF} \subseteq Byte
  BY BytesKnown
<1>2. f \in Seq(Nat \ {0}) /\ f \in Seq(Byte)
  <2>1. \A k \in 1..Len(f) : f[k] \in Byte \ {EOF}
    OBVIOUS
  <2>2. f \in [1..Len(f) -> Nat \ {0}] /\ f \in [1..Len(f) -> Byte]
    BY <1>1, <2>1
  <2> QED
    BY <2>2
<1>3. Decoded(f) \in Seq(Byte)
  BY <1>2, DecodedType
<1> QED
  BY <1>2, <1>3 DEF FrameSeqs

LEMMA FollowsFirst ==
  ASSUME NEW ch \in Nat \ {0}
  PROVE  Follows(<<ch>>, <<>>, FALSE, ch, ch)
<1>1. /\ <<ch>> \in FrameSeqs /\ LastCode(<<ch>>, 1)
      /\ Decoded(<<ch>>) = <<>>
  BY DecodedFirst
<1>2. Len(<<ch>>) = 1 /\ <<ch>>[1] = ch /\ 1 + ch - ch = 1
  OBVIOUS
<1>3. Len(<<>>) <= BufSize
  BY ReceiverAssumption
<1> QED
  BY <1>1, <1>2, <1>3 DEF Follows

(* The last block is complete: the next byte is a code. *)
LEMMA FollowsCode ==
  ASSUME NEW f \in Seq(Byte \ {EOF}), NEW ch \in Byte \ {EOF},
         NEW len \in Nat, LastCode(f, Len(f) + 1 - len), f[Len(f) + 1 - len] = len
  PROVE  /\ LastCode(Append(f, ch), Len(f) + 1)
         /\ Append(f, ch)[Len(f) + 1] = ch
         /\ Len(Append(f, ch)) + ch - ch = Len(f) + 1
         /\ Decoded(Append(f, ch)) = IF len < MaxCode THEN Append(Decoded(f), EOF)
                                      ELSE Decoded(f)
<1> DEFINE c == Len(f) + 1 - len
<1>1. f \in FrameSeqs /\ Len(f) \in Nat
  BY FrameIsSeq
<1>2. LastCode(f, c) /\ f[c] = len
  OBVIOUS
<1>3. c + f[c] = Len(f) + 1
  BY <1>1, <1>2
<1> HIDE DEF c
<1>4. Len(f) + 1 \in Codes(f)
  BY <1>1, <1>2, <1>3, LastIsLast
<1>5. ch \in Nat \ {0}
  BY BytesKnown
<1>6. LastCode(Append(f, ch), Len(f) + 1)
  BY <1>1, <1>2, <1>4, <1>5, LastAppend
<1>7. Decoded(Append(f, ch)) = IF len < MaxCode THEN Append(Decoded(f), EOF)
                               ELSE Decoded(f)
  BY <1>1, <1>2, <1>4, <1>5, DecodedAppend
<1>8. Append(f, ch)[Len(f) + 1] = ch /\ Len(Append(f, ch)) = Len(f) + 1
  OBVIOUS
<1>9. Len(Append(f, ch)) + ch - ch = Len(f) + 1
  BY <1>1, <1>5, <1>8
<1> QED
  BY <1>6, <1>7, <1>8, <1>9

(* The last block lacks bytes: the next one is data. *)
LEMMA FollowsData ==
  ASSUME NEW f \in Seq(Byte \ {EOF}), NEW ch \in Byte \ {EOF},
         NEW len \in Nat, NEW cnt \in Nat, cnt > 1,
         LastCode(f, Len(f) + cnt - len), f[Len(f) + cnt - len] = len
  PROVE  /\ LastCode(Append(f, ch), Len(f) + cnt - len)
         /\ Append(f, ch)[Len(f) + cnt - len] = len
         /\ Len(Append(f, ch)) + (cnt - 1) - len = Len(f) + cnt - len
         /\ Decoded(Append(f, ch)) = Append(Decoded(f), ch)
<1> DEFINE c == Len(f) + cnt - len
<1>1. f \in FrameSeqs /\ Len(f) \in Nat
  BY FrameIsSeq
<1>2. LastCode(f, c) /\ f[c] = len
  OBVIOUS
<1>3. c + f[c] # Len(f) + 1 /\ Len(Append(f, ch)) = Len(f) + 1
  BY <1>1, <1>2
<1>4. Len(f) + 1 + (cnt - 1) - len = c
  BY <1>1
<1> HIDE DEF c
<1>5. Len(f) + 1 \notin Codes(f)
  BY <1>1, <1>2, <1>3, LastIsLast
<1>6. ch \in Nat \ {0}
  BY BytesKnown
<1>7. LastCode(Append(f, ch), c) /\ Append(f, ch)[c] = f[c]
  BY <1>1, <1>2, <1>5, <1>6, LastAppend
<1>8. Decoded(Append(f, ch)) = Append(Decoded(f), ch)
  BY <1>1, <1>2, <1>5, <1>6, DecodedAppend
<1> QED
  BY <1>2, <1>3, <1>4, <1>7, <1>8 DEF c

(* The decoder's variables follow the frame, until a byte was written      *)
(* behind the buffer.                                                      *)
FollowInv ==
  state = "DEC_BLOCK" /\ ~spilled => Follows(frame, buf, overflow, block_len, block_cnt)

LEMMA PutFollows ==
  ASSUME DecoderOK, StoredInv, FollowInv, NEW ch \in Byte, PutByte(ch)
  PROVE  FollowInv'
<1>0. /\ frame \in Seq(Byte \ {EOF}) /\ buf \in Seq(Byte) /\ overflow \in BOOLEAN
      /\ block_len \in Nat /\ block_cnt \in Nat /\ BufSize \in Nat
      /\ Len(buf) \in Nat /\ ~spilled
      /\ state = "DEC_BLOCK" => block_cnt >= 1
  BY BytesKnown, ReceiverAssumption DEF DecoderOK, PutByte
<1>1. Decoded(frame) \in Seq(Byte) /\ Len(Decoded(frame)) \in Nat
  BY <1>0, FrameIsSeq
<1> DEFINE g == Append(frame, ch)
<1>2. ch # EOF => frame' = g /\ ch \in Byte \ {EOF} /\ ch \in Nat \ {0}
  BY BytesKnown DEF PutByte
<1> HIDE DEF g
<1>3. CASE PutFirst(ch)
  <2>1. frame' = <<ch>> /\ ch \in Nat \ {0}
    BY <1>2, <1>3 DEF PutFirst, StoredInv, g
  <2>2. /\ buf' = <<>> /\ overflow' = FALSE /\ block_len' = ch /\ block_cnt' = ch
    BY <1>3 DEF PutFirst
  <2>3. Follows(<<ch>>, <<>>, FALSE, ch, ch)
    BY <2>1, FollowsFirst
  <2> QED
    BY <2>1, <2>2, <2>3 DEF FollowInv
<1>4. CASE PutIdle(ch) \/ PutEof(ch)
  <2>1. state' # "DEC_BLOCK"
    BY <1>4 DEF PutIdle, PutEof, decoder
  <2> QED
    BY <2>1 DEF FollowInv
<1>5. CASE PutZeroCode(ch)
  <2>1. /\ ch # EOF /\ block_cnt = 1 /\ block_len < MaxCode
        /\ buf' = Append(buf, EOF) /\ spilled' = (Len(buf) >= BufSize)
        /\ block_cnt' = ch /\ block_len' = ch /\ overflow' = overflow
    BY <1>5 DEF PutZeroCode, BlockDone, ZeroDue, NextBlock
  <2>2. Follows(frame, buf, overflow, block_len, 1)
    BY <1>0, <1>5, <2>1 DEF FollowInv, PutZeroCode
  <2>3. /\ LastCode(g, Len(frame) + 1) /\ g[Len(frame) + 1] = ch
        /\ Len(g) + ch - ch = Len(frame) + 1
        /\ Decoded(g) = Append(Decoded(frame), EOF)
    <3>1. /\ LastCode(frame, Len(frame) + 1 - block_len)
          /\ frame[Len(frame) + 1 - block_len] = block_len
      BY <2>2 DEF Follows
    <3> QED
      BY <1>0, <1>2, <2>1, <3>1, FollowsCode DEF g
  <2>4. SUFFICES ASSUME ~spilled' PROVE Follows(g, Append(buf, EOF), overflow, ch, ch)
    BY <1>2, <2>1 DEF FollowInv
  <2>5. Len(buf) < BufSize
    <3>1. ~(Len(buf) >= BufSize)
      BY <2>1, <2>4, Zenon
    <3> QED
      BY <1>0, <3>1
  <2>6. ~overflow /\ buf = Decoded(frame)
    BY <1>0, <2>2, <2>5 DEF Follows
  <2>7. Append(buf, EOF) = Decoded(g) /\ Len(Append(buf, EOF)) <= BufSize
    BY <1>0, <2>3, <2>5, <2>6
  <2> QED
    BY <2>3, <2>6, <2>7 DEF Follows
<1>6. CASE PutCode(ch)
  <2>1. /\ ch # EOF /\ block_cnt = 1 /\ ~(block_len < MaxCode)
        /\ buf' = buf /\ block_cnt' = ch /\ block_len' = ch /\ overflow' = overflow
    BY <1>6 DEF PutCode, BlockDone, ZeroDue, NextBlock
  <2>2. Follows(frame, buf, overflow, block_len, 1)
    BY <1>0, <1>6, <2>1 DEF FollowInv, PutCode
  <2>3. /\ LastCode(g, Len(frame) + 1) /\ g[Len(frame) + 1] = ch
        /\ Len(g) + ch - ch = Len(frame) + 1
        /\ Decoded(g) = Decoded(frame)
    <3>1. /\ LastCode(frame, Len(frame) + 1 - block_len)
          /\ frame[Len(frame) + 1 - block_len] = block_len
      BY <2>2 DEF Follows
    <3> QED
      BY <1>0, <1>2, <2>1, <3>1, FollowsCode DEF g
  <2>4. Follows(g, buf, overflow, ch, ch)
    BY <2>2, <2>3 DEF Follows
  <2> QED
    BY <1>2, <2>1, <2>4 DEF FollowInv
<1>7. CASE PutData(ch)
  <2>1. /\ ch # EOF /\ state = "DEC_BLOCK" /\ block_cnt > 1
        /\ block_cnt' = block_cnt - 1 /\ block_len' = block_len
    BY <1>0, <1>7 DEF PutData, BlockDone
  <2>2. Follows(frame, buf, overflow, block_len, block_cnt)
    BY <1>0, <2>1 DEF FollowInv
  <2> DEFINE c == Len(frame) + block_cnt - block_len
  <2>3. /\ LastCode(g, c) /\ g[c] = block_len
        /\ Len(g) + (block_cnt - 1) - block_len = c
        /\ Decoded(g) = Append(Decoded(frame), ch)
    <3>1. /\ LastCode(frame, Len(frame) + block_cnt - block_len)
          /\ frame[Len(frame) + block_cnt - block_len] = block_len
      BY <2>2 DEF Follows
    <3> QED
      <4>1. ch \in Byte \ {EOF} /\ block_cnt \in Nat /\ block_cnt > 1
        BY <1>0, <1>2, <2>1
      <4>2. frame \in Seq(Byte \ {EOF}) /\ block_len \in Nat
        BY <1>0
      <4> HIDE DEF Follows
      <4>3. /\ LastCode(Append(frame, ch), Len(frame) + block_cnt - block_len)
            /\ Append(frame, ch)[Len(frame) + block_cnt - block_len] = block_len
            /\ Len(Append(frame, ch)) + (block_cnt - 1) - block_len
                 = Len(frame) + block_cnt - block_len
            /\ Decoded(Append(frame, ch)) = Append(Decoded(frame), ch)
        BY <3>1, <4>1, <4>2, FollowsData, Zenon
      <4> QED
        BY <4>3 DEF g
  <2> HIDE DEF c
  <2>4. Len(Decoded(g)) = Len(Decoded(frame)) + 1
    BY <1>1, <2>3
  <2>5. CASE Fits
    <3>1. buf' = Append(buf, ch) /\ overflow' = overflow
      BY <1>7, <2>5 DEF PutData
    <3>2. ~overflow /\ buf = Decoded(frame) /\ Len(buf) < BufSize
      BY <1>0, <2>2, <2>5 DEF Follows, Fits
    <3>3. Append(buf, ch) = Decoded(g) /\ Len(Append(buf, ch)) <= BufSize
      BY <1>0, <2>3, <3>2
    <3>4. Follows(g, Append(buf, ch), overflow, block_len, block_cnt - 1)
      BY <2>3, <3>2, <3>3 DEF Follows
    <3> QED
      BY <1>2, <2>1, <3>1, <3>4 DEF FollowInv
  <2>6. CASE ~Fits
    <3>1. buf' = buf /\ overflow' = TRUE
      BY <1>7, <2>6 DEF PutData
    <3>2. Len(buf) = BufSize
      BY <1>0, <2>2, <2>6 DEF Follows, Fits
    <3>3. Len(Decoded(g)) > BufSize
      <4>1. CASE overflow
        BY <1>0, <1>1, <2>2, <2>4, <4>1 DEF Follows
      <4>2. CASE ~overflow
        BY <1>0, <1>1, <2>2, <2>4, <3>2, <4>2 DEF Follows
      <4> QED
        BY <4>1, <4>2
    <3>4. Follows(g, buf, TRUE, block_len, block_cnt - 1)
      BY <2>3, <3>2, <3>3 DEF Follows
    <3> QED
      BY <1>2, <2>1, <3>1, <3>4 DEF FollowInv
  <2> QED
    BY <2>5, <2>6
<1> QED
  BY <1>3, <1>4, <1>5, <1>6, <1>7 DEF PutByte

(* The end-of-frame byte of a frame that is there. *)
LEMMA EofOfFrame ==
  ASSUME DecoderOK, StoredInv, FollowInv, NEW ch \in Byte, PutByte(ch),
         frame # <<>>, frame' = <<>>
  PROVE  /\ PutEof(ch)
         /\ Follows(frame, buf, overflow, block_len, block_cnt)
         /\ BlockDone <=> WellFormed(frame)
<1>1. /\ frame \in Seq(Byte \ {EOF}) /\ Len(frame) \in Nat /\ frame \in FrameSeqs
      /\ block_len \in Nat /\ block_cnt \in Nat /\ ~spilled
  BY BytesKnown, FrameIsSeq DEF DecoderOK, PutByte
<1>2. ch = EOF
  BY FrameGrows
<1>3. state = "DEC_BLOCK"
  BY DEF StoredInv, DecoderOK
<1>4. PutEof(ch)
  BY <1>2, <1>3 DEF PutByte, PutFirst, PutIdle, PutZeroCode, PutCode, PutData
<1>5. Follows(frame, buf, overflow, block_len, block_cnt)
  BY <1>1, <1>3 DEF FollowInv
<1> DEFINE c == Len(frame) + block_cnt - block_len
<1>6. LastCode(frame, c) /\ frame[c] = block_len
  BY <1>5 DEF Follows
<1>7. c + block_len = Len(frame) + 1 <=> block_cnt = 1
  BY <1>1
<1> HIDE DEF c
<1>8. WellFormed(frame) <=> c + frame[c] = Len(frame) + 1
  BY <1>1, <1>6, WellFormedLast
<1>9. BlockDone <=> WellFormed(frame)
  BY <1>6, <1>7, <1>8 DEF BlockDone
<1> QED
  BY <1>4, <1>5, <1>9

(* What the end-of-frame byte leads to. *)
LEMMA PutOutcome ==
  ASSUME DecoderOK, StoredInv, FollowInv, NEW ch \in Byte, PutByte(ch),
         frame # <<>>, frame' = <<>>
  PROVE  [received |-> received', proto |-> proto_errors', crc |-> crc_errors']
           = Outcome(frame)
<1> DEFINE m == Decoded(frame)
<1>1. /\ PutEof(ch) /\ Follows(frame, buf, overflow, block_len, block_cnt)
      /\ BlockDone <=> WellFormed(frame)
  BY EofOfFrame
<1>2. /\ BufSize \in Nat /\ proto_errors \in Nat /\ crc_errors \in Nat
      /\ frame \in Seq(Byte \ {EOF}) /\ overflow \in BOOLEAN
  BY ReceiverAssumption DEF DecoderOK
<1>3. Len(m) \in Nat
  BY <1>2, FrameIsSeq
<1>4. Len(m) > BufSize <=> overflow
  BY <1>1, <1>2, <1>3 DEF Follows
<1>5. ~overflow => buf = m
  BY <1>1 DEF Follows
<1> HIDE DEF m
<1>6. CASE ~(BlockDone /\ ~overflow)
  <2>1. /\ received' = received /\ proto_errors' = proto_errors
        /\ crc_errors' = crc_errors
    BY <1>1, <1>6 DEF PutEof, stats
  <2>2. ~WellFormed(frame) \/ Len(m) > BufSize
    BY <1>1, <1>4, <1>6
  <2> QED
    BY <2>1, <2>2 DEF Outcome, m
<1>7. CASE BlockDone /\ ~overflow
  <2>1. CheckAndDispatch(m)
    BY <1>1, <1>5, <1>7 DEF PutEof
  <2>2. ~(~WellFormed(frame) \/ Len(m) > BufSize)
    BY <1>1, <1>4, <1>7
  <2>3. Outcome(frame) =
          [received |-> IF Len(m) >= 3 /\ Crc(Body(m)) = Tail2(m)
                        THEN Append(received, Body(m)) ELSE received,
           proto |-> proto_errors + (IF Len(m) < 3 THEN 1 ELSE 0),
           crc |-> crc_errors +
                     (IF Len(m) >= 3 /\ Crc(Body(m)) # Tail2(m) THEN 1 ELSE 0)]
    BY <2>2 DEF Outcome, m
  <2>4. CASE Len(m) < 3
    <3>1. ~(Len(m) >= 3)
      BY <1>3, <2>4
    <3>2. /\ received' = received /\ proto_errors' = proto_errors + 1
          /\ crc_errors' = crc_errors
      BY <2>1, <2>4 DEF CheckAndDispatch, TooShort
    <3> QED
      BY <1>2, <2>3, <2>4, <3>1, <3>2
  <2>5. CASE ~(Len(m) < 3) /\ Crc(Body(m)) # Tail2(m)
    <3>1. Len(m) >= 3
      BY <1>3, <2>5
    <3>2. /\ received' = received /\ proto_errors' = proto_errors
          /\ crc_errors' = crc_errors + 1
      BY <2>1, <2>5 DEF CheckAndDispatch, TooShort
    <3> QED
      BY <1>2, <2>3, <2>5, <3>1, <3>2
  <2>6. CASE ~(Len(m) < 3) /\ Crc(Body(m)) = Tail2(m)
    <3>1. Len(m) >= 3
      BY <1>3, <2>6
    <3>2. /\ received' = Append(received, Body(m)) /\ proto_errors' = proto_errors
          /\ crc_errors' = crc_errors
      BY <2>1, <2>6 DEF CheckAndDispatch, TooShort
    <3> QED
      BY <1>2, <2>3, <2>6, <3>1, <3>2
  <2> QED
    BY <2>4, <2>5, <2>6
<1> QED
  BY <1>6, <1>7

-----------------------------------------------------------------------------
(* In step, with nothing lost of the frame on its way: what has come is    *)
(* its beginning, and what is on its way is the rest of it.                *)
IntactInv ==
  line # <<>> => /\ sending \in HostFrames
                 /\ synced /\ intact =>
                      /\ Len(frame) + Len(line) = Len(sending) + 1
                      /\ \A k \in 1..Len(frame) : frame[k] = sending[k]
                      /\ \A k \in 1..(Len(line) - 1) : line[k] = sending[Len(frame) + k]

DInv == LInv /\ FollowInv /\ IntactInv

LEMMA HostSendIntact ==
  ASSUME LInv, NEW f \in HostFrames, HostSend(f)
  PROVE  IntactInv'
<1>1. f \in Seq(Byte) /\ Len(f) \in Nat
  BY HostFrameKnown
<1>2. /\ Len(line') = Len(f) + 1 /\ \A k \in 1..Len(f) : line'[k] = f[k]
      /\ sending' = f /\ frame' = frame /\ synced' = synced
  BY <1>1, BytesKnown DEF HostSend, rcvVars
<1>3. SUFFICES ASSUME synced
      PROVE  /\ Len(frame) + (Len(f) + 1) = Len(f) + 1
             /\ \A k \in 1..Len(frame) : frame[k] = f[k]
             /\ \A k \in 1..(Len(f) + 1 - 1) : f[k] = f[Len(frame) + k]
  BY <1>1, <1>2 DEF IntactInv
<1>4. frame = <<>> /\ Len(frame) = 0
  BY <1>3 DEF LInv, StepInv, HostSend
<1> QED
  BY <1>1, <1>4

LEMMA ArriveIntact ==
  ASSUME LInv, IntactInv, Arrive
  PROVE  IntactInv'
<1> DEFINE ch == Head(line)
           rest == Tail(line)
<1>1. /\ ch \in Byte /\ Len(line) \in Nat \ {0}
      /\ rest \in Seq(Byte) /\ Len(rest) = Len(line) - 1
      /\ ch = EOF <=> rest = <<>>
  BY LineStep DEF LInv, Arrive
<1>2. /\ line # <<>> /\ PutByte(ch) /\ line' = rest
      /\ synced' = (synced \/ ch = EOF) /\ sending' = sending /\ intact' = intact
  BY DEF Arrive, host
<1>3. ch = line[1] /\ \A k \in 1..Len(rest) : rest[k] = line[k + 1]
  <2>1. line \in Seq(Byte)
    BY DEF LInv, LineInv
  <2> QED
    BY <1>1, <2>1, HeadTailProperties
<1> HIDE DEF ch, rest
<1>4. CASE rest = <<>>
  BY <1>2, <1>4 DEF IntactInv
<1>5. CASE rest # <<>>
  <2>1. ch # EOF /\ Len(line) >= 2
    BY <1>1, <1>5, EmptySeq
  <2>2. sending \in HostFrames
    BY <1>2 DEF IntactInv
  <2>3. /\ frame' = Append(frame, ch) /\ frame \in Seq(Byte) /\ Len(frame) \in Nat
        /\ Len(sending) \in Nat
    <3>1. frame \in Seq(Byte \ {EOF})
      BY DEF LInv, DecoderOK
    <3>2. frame \in Seq(Byte)
      BY <3>1
    <3> QED
      BY <1>2, <2>1, <3>2 DEF PutByte, LInv, LineInv
  <2> DEFINE g == Append(frame, ch)
  <2>4. /\ Len(g) = Len(frame) + 1 /\ g[Len(frame) + 1] = ch
        /\ \A k \in 1..Len(frame) : g[k] = frame[k]
    BY <2>3, <1>1
  <2> HIDE DEF g
  <2>5. SUFFICES ASSUME synced, intact
        PROVE  /\ Len(g) + Len(rest) = Len(sending) + 1
               /\ \A k \in 1..Len(g) : g[k] = sending[k]
               /\ \A k \in 1..(Len(rest) - 1) : rest[k] = sending[Len(g) + k]
    BY <1>2, <2>1, <2>2, <2>3 DEF IntactInv, g
  <2>6. /\ Len(frame) + Len(line) = Len(sending) + 1
        /\ \A k \in 1..Len(frame) : frame[k] = sending[k]
        /\ \A k \in 1..(Len(line) - 1) : line[k] = sending[Len(frame) + k]
    BY <1>2, <2>5 DEF IntactInv
  <2>7. Len(g) + Len(rest) = Len(sending) + 1
    <3>1. Len(g) = Len(frame) + 1 /\ Len(rest) = Len(line) - 1
      BY <1>1, <2>4
    <3>2. Len(frame) + 1 + (Len(line) - 1) = Len(frame) + Len(line)
      BY <1>1, <2>3
    <3> QED
      BY <2>6, <3>1, <3>2
  <2>8. ASSUME NEW k \in 1..Len(g) PROVE g[k] = sending[k]
    <3>1. CASE k \in 1..Len(frame)
      BY <2>4, <2>6, <3>1
    <3>2. CASE k = Len(frame) + 1
      <4>1. line[1] = sending[Len(frame) + 1]
        BY <1>1, <2>1, <2>6
      <4> QED
        BY <1>3, <2>4, <3>2, <4>1
    <3> QED
      BY <2>3, <2>4, <3>1, <3>2
  <2>9. ASSUME NEW k \in 1..(Len(rest) - 1) PROVE rest[k] = sending[Len(g) + k]
    <3>1. k \in 1..Len(rest) /\ k + 1 \in 1..(Len(line) - 1)
      BY <1>1
    <3>2. Len(frame) + (k + 1) = Len(g) + k
      BY <2>3, <2>4
    <3>3. rest[k] = line[k + 1] /\ line[k + 1] = sending[Len(frame) + (k + 1)]
      BY <1>3, <2>6, <3>1
    <3> QED
      BY <3>2, <3>3
  <2> QED
    BY <2>7, <2>8, <2>9
<1> QED
  BY <1>4, <1>5

LEMMA NextDInv == DInv /\ [LinkNext]_lvars => DInv'
<1> SUFFICES ASSUME DInv, [LinkNext]_lvars PROVE DInv'
  OBVIOUS
<1>0. LInv /\ FollowInv /\ IntactInv
  BY DEF DInv
<1>1. LInv'
  BY <1>0, NextLInv
<1>2. ASSUME NEW f \in HostFrames, HostSend(f) PROVE DInv'
  <2>1. FollowInv'
    BY <1>0, <1>2 DEF HostSend, rcvVars, decoder, FollowInv
  <2> QED
    BY <1>0, <1>1, <1>2, <2>1, HostSendIntact DEF DInv
<1>3. CASE Arrive
  <2>1. Head(line) \in Byte /\ PutByte(Head(line)) /\ DecoderOK /\ StoredInv
    BY <1>0, <1>3, LineStep DEF LInv, Arrive
  <2>2. FollowInv'
    BY <1>0, <2>1, PutFollows
  <2> QED
    BY <1>0, <1>1, <1>3, <2>2, ArriveIntact DEF DInv
<1>4. CASE Lose
  <2>1. line # <<>> /\ sending' = sending /\ intact' = FALSE /\ UNCHANGED rcvVars
    BY <1>4 DEF Lose, host
  <2>2. FollowInv' /\ IntactInv'
    BY <1>0, <2>1 DEF rcvVars, decoder, FollowInv, IntactInv
  <2> QED
    BY <1>1, <2>2 DEF DInv
<1>5. CASE UNCHANGED lvars
  <2>1. UNCHANGED rcvVars /\ UNCHANGED <<line, sending, synced, intact>>
    BY <1>5 DEF lvars, lineVars, host
  <2>2. FollowInv' /\ IntactInv'
    BY <1>0, <2>1 DEF rcvVars, decoder, FollowInv, IntactInv
  <2> QED
    BY <1>1, <2>2 DEF DInv
<1> QED
  BY <1>2, <1>3, <1>4, <1>5 DEF LinkNext

(* The buffer is longer than the longest message. *)
LEMMA MessageFits == MaxMessage \in Nat /\ MaxMessage < BufSize
<1> DEFINE q == (MaxMessage + MaxDistance - 1) \div MaxDistance
<1>1. MaxMessage \in Nat /\ BufSize = MaxMessage + q + 1
  BY LinkAssumption DEF EncodedMaxSize
<1>2. MaxDistance \in Nat \ {0}
  BY MaxCodeAssumption DEF MaxDistance
<1>3. MaxMessage + MaxDistance - 1 \in Nat
  BY <1>1, <1>2
<1>4. q \in Nat
  BY <1>2, <1>3
<1> HIDE DEF q
<1> QED
  BY <1>1, <1>4

(* The frame that the receiver has in front of the end-of-frame byte is    *)
(* the one the host sent.                                                  *)
LEMMA IntactFrameArrives ==
  ASSUME DInv, Arrive, line' = <<>>, intact', synced
  PROVE  frame = sending /\ sending \in HostFrames /\ frame' = <<>>
<1>1. /\ line # <<>> /\ line' = Tail(line) /\ intact /\ PutByte(Head(line))
      /\ LineInv /\ DecoderOK
  BY DEF Arrive, DInv, LInv
<1>2. Head(line) = EOF /\ Len(line) = 1 /\ frame' = <<>>
  <2>1. Head(line) = EOF
    BY <1>1, LineStep
  <2>2. Len(line) \in Nat \ {0} /\ Len(Tail(line)) = Len(line) - 1
    BY <1>1, LineStep
  <2>3. Len(Tail(line)) = 0
    <3>1. Tail(line) = <<>>
      BY <1>1
    <3>2. Len(<<>>) = 0
      OBVIOUS
    <3> QED
      BY <3>1, <3>2, Zenon
  <2>4. Len(line) = 1
    <3>1. Len(line) - 1 = 0 /\ Len(line) \in Nat
      BY <2>2, <2>3, Zenon
    <3> QED
      BY <3>1
  <2>5. frame' = <<>>
    <3>1. Head(line) \in Byte
      BY <1>1, LineStep
    <3> QED
      BY <1>1, <2>1, <3>1, FrameGrows
  <2> QED
    BY <2>1, <2>4, <2>5
<1>3. /\ sending \in HostFrames /\ Len(frame) + 1 = Len(sending) + 1
      /\ \A k \in 1..Len(frame) : frame[k] = sending[k]
  BY <1>1, <1>2 DEF DInv, IntactInv
<1>4. frame \in Seq(Byte) /\ sending \in Seq(Byte)
  <2>1. frame \in Seq(Byte \ {EOF})
    BY <1>1 DEF DecoderOK
  <2> QED
    BY <1>1, <2>1 DEF LineInv
<1>5. Len(frame) = Len(sending)
  BY <1>3, <1>4
<1>6. frame = sending
  BY <1>3, <1>4, <1>5, SeqEqual
<1> QED
  BY <1>2, <1>3, <1>6

LEMMA IntactOutcome ==
  ASSUME DInv, Arrive, line' = <<>>, intact', synced
  PROVE  received' = Append(received, Body(Decoded(sending)))
<1> DEFINE m == Decoded(sending)
<1>1. frame = sending /\ sending \in HostFrames /\ frame' = <<>>
  BY IntactFrameArrives
<1>2. /\ WellFormed(sending) /\ Len(m) \in 3..MaxMessage
      /\ Crc(Body(m)) = Tail2(m)
  BY <1>1, LinkAssumption
<1>3. Head(line) \in Byte /\ PutByte(Head(line)) /\ DecoderOK /\ StoredInv /\ FollowInv
  BY LineStep DEF DInv, LInv, Arrive
<1>4. frame # <<>>
  BY <1>1, <1>2 DEF WellFormed
<1>5. [received |-> received', proto |-> proto_errors', crc |-> crc_errors']
        = Outcome(frame)
  BY <1>1, <1>3, <1>4, PutOutcome
<1>6. Len(m) >= 3 /\ ~(Len(m) > BufSize)
  BY <1>2, MessageFits, ReceiverAssumption
<1> HIDE DEF m
<1>7. Outcome(sending).received = Append(received, Body(m))
  BY <1>2, <1>6 DEF Outcome, m
<1> QED
  BY <1>1, <1>5, <1>7 DEF m

(* DecoderSound: whatever the line loses, cobs_decoder_put and             *)
(* decoder_check_and_dispatch_cb do at every end-of-frame byte what the    *)
(* bytes since the one before it say, and a legal frame that arrives whole *)
(* and in step reaches packet_from_host unchanged.                         *)
THEOREM DecodesEveryFrame == LinkSpec => DecoderSound
<1>1. LinkInit => DInv
  BY InitLInv DEF LinkInit, DecoderInit, DInv, FollowInv, IntactInv
<1>2. ASSUME DInv, [LinkNext]_lvars, frame # <<>>, frame' = <<>>
      PROVE  [received |-> received', proto |-> proto_errors', crc |-> crc_errors']
               = Outcome(frame)
  <2>1. Arrive
    BY <1>2 DEF LinkNext, HostSend, Lose, lvars, rcvVars
  <2>2. Head(line) \in Byte /\ PutByte(Head(line)) /\ DecoderOK /\ StoredInv /\ FollowInv
    BY <1>2, <2>1, LineStep DEF DInv, LInv, Arrive
  <2> QED
    BY <1>2, <2>2, PutOutcome
<1>3. ASSUME DInv, [LinkNext]_lvars, line # <<>>, line' = <<>>, intact', synced
      PROVE  received' = Append(received, Body(Decoded(sending)))
  <2>1. Arrive
    BY <1>3 DEF LinkNext, HostSend, Lose, lvars, lineVars
  <2> QED
    BY <1>3, <2>1, IntactOutcome
<1> DEFINE A == (frame # <<>> /\ frame' = <<>>) =>
                  [received |-> received', proto |-> proto_errors', crc |-> crc_errors']
                    = Outcome(frame)
           B == (line # <<>> /\ line' = <<>> /\ intact' /\ synced /\ ~spilled) =>
                  received' = Append(received, Body(Decoded(sending)))
<1>4. DInv /\ [LinkNext]_lvars => [A]_rcvVars /\ [B]_lvars
  BY <1>2, <1>3
<1>5. LinkSpec => [][A]_rcvVars /\ [][B]_lvars
  BY <1>1, <1>4, NextDInv, PTL DEF LinkSpec, lvars
<1> QED
  BY <1>5 DEF DecoderSound, FrameOutcome, IntactFrameDelivered, lvars

-----------------------------------------------------------------------------
(* The receiver alone, on any bytes: the host may be broken, the line may  *)
(* change bytes and make them up.                                          *)
StreamSpec == DecoderInit /\ [][AnyByte]_rcvVars

StreamInv == DecoderOK /\ StoredInv /\ FollowInv

LEMMA StreamInductive ==
  /\ DecoderInit => StreamInv
  /\ StreamInv /\ [AnyByte]_rcvVars => StreamInv'
<1>1. DecoderInit => StreamInv
  BY InitDecoder DEF DecoderInit, StreamInv, FollowInv
<1>2. ASSUME StreamInv, AnyByte PROVE StreamInv'
  BY <1>2, PutKeeps, PutFollows DEF AnyByte, StreamInv
<1>3. ASSUME StreamInv, UNCHANGED rcvVars PROVE StreamInv'
  BY <1>3 DEF StreamInv, rcvVars, decoder, stats, DecoderOK, StoredInv, FollowInv
<1> QED
  BY <1>1, <1>2, <1>3

(* DecoderOK: on every byte stream block_cnt stays between 1 and block_len *)
(* inside a frame, so it never wraps below zero, until the first write     *)
(* behind the buffer.                                                      *)
THEOREM CountersStay == StreamSpec => []DecoderOK
<1>1. StreamInv => DecoderOK
  BY DEF StreamInv
<1> QED
  BY <1>1, StreamInductive, PTL DEF StreamSpec

(* FrameOutcome: on every byte stream, until the first write behind the    *)
(* buffer, the frame that ends leads to what its bytes mean and to nothing *)
(* else, whatever garbage came before it.                                  *)
THEOREM DecodesAnyStream == StreamSpec => FrameOutcome
<1> DEFINE A == (frame # <<>> /\ frame' = <<>>) =>
                  [received |-> received', proto |-> proto_errors', crc |-> crc_errors']
                    = Outcome(frame)
<1>1. ASSUME StreamInv, [AnyByte]_rcvVars, frame # <<>>, frame' = <<>>
      PROVE  [received |-> received', proto |-> proto_errors', crc |-> crc_errors']
               = Outcome(frame)
  <2>1. PICK ch \in Byte : PutByte(ch)
    BY <1>1 DEF AnyByte, rcvVars
  <2> QED
    BY <1>1, <2>1, PutOutcome DEF StreamInv
<1>2. StreamInv /\ [AnyByte]_rcvVars => [A]_rcvVars
  BY <1>1
<1>3. StreamSpec => [][A]_rcvVars
  BY <1>2, StreamInductive, PTL DEF StreamSpec
<1> QED
  BY <1>3 DEF FrameOutcome
=============================================================================
