----------------------------- MODULE CobsFormat -----------------------------
(***************************************************************************)
(* The frame format that cobs_encode and cobs_decoder_put share            *)
(* (user_main/cobs.h and the description at the top of                     *)
(* user_main/message.h), and what a frame means.                           *)
(*                                                                         *)
(* A frame is the sequence of the bytes between two end-of-frame bytes.    *)
(* It is a chain of blocks: a code byte, followed by code - 1 data bytes.  *)
(* Every block but the last stands for its data followed by a zero byte,   *)
(* unless its code is MaxCode, which stands for its data alone.            *)
(*                                                                         *)
(* A byte has the values 0..MaxCode.  In the code MaxCode is 0xff; a       *)
(* smaller one has the same format with shorter blocks.                    *)
(***************************************************************************)
EXTENDS Integers, Sequences

CONSTANT MaxCode

ASSUME MaxCodeAssumption == MaxCode \in Nat /\ MaxCode >= 2

Byte == 0..MaxCode
EOF == 0                                     \* COBS_BYTE_EOF
MaxDistance == MaxCode - 1                   \* COBS_MAX_DISTANCE

(* COBS_ENCODED_MAX_SIZE *)
EncodedMaxSize_RoundsDown(n) == n + n \div MaxDistance + 1

EncodedMaxSize(n) == n + (n + MaxDistance - 1) \div MaxDistance + 1

-----------------------------------------------------------------------------
(***************************************************************************)
(* The meaning of a frame, by following the chain of its blocks: which     *)
(* positions hold code bytes, and where the block at each of them begins.  *)
(* This is the reference for both directions; it shares nothing with the   *)
(* byte-at-a-time code.                                                    *)
(***************************************************************************)

(* The code positions of frame f, from position p on; Len(f) + 1 ends it. *)
CodesFrom(f) ==
  LET codes[p \in 1..(Len(f) + 1)] ==
        IF p > Len(f) THEN {p}
        ELSE {p} \cup (IF p + f[p] > Len(f) + 1 THEN {} ELSE codes[p + f[p]])
  IN codes

Codes(f) == CodesFrom(f)[1]

(* f consists of complete blocks and holds no end-of-frame byte. *)
WellFormed(f) ==
  /\ f # <<>>
  /\ \A k \in 1..Len(f) : f[k] # EOF
  /\ Len(f) + 1 \in Codes(f)

(* The block in front of code position p stands for a zero byte too. *)
ZeroBefore(f, codes, p) ==
  \E q \in codes : q < p /\ q + f[q] = p /\ f[q] < MaxCode

(* The byte at position n, behind what the bytes before it stand for: a    *)
(* data byte stands for itself, a code byte for the zero that ended the    *)
(* block before it, if that block stands for one.                          *)
AddByte(f, codes, m, n) ==
  IF n \notin codes THEN Append(m, f[n])
  ELSE IF ZeroBefore(f, codes, n) THEN Append(m, EOF)
  ELSE m

(* What the first n bytes of a frame with these code positions stand for. *)
MessageTo(f, codes) ==
  LET message[n \in 0..Len(f)] ==
        IF n = 0 THEN <<>> ELSE AddByte(f, codes, message[n - 1], n)
  IN message

(* The message a well-formed frame stands for. *)
Decoded(f) == MessageTo(f, Codes(f))[Len(f)]
=============================================================================
