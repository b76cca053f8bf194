---------------------------- MODULE CobsEncoder -----------------------------
(***************************************************************************)
(* cobs_encode (user_main/cobs.c) as transmitter_push calls it: one step   *)
(* per turn of its loop, over a destination buffer of the size that        *)
(* transmitter_push allocates, whose last byte is a sentinel.              *)
(***************************************************************************)
EXTENDS CobsFormat

CONSTANT Messages   \* what comm_send hands over: type, data and CRC

ASSUME MessagesAssumption == \A m \in Messages : m \in Seq(Byte) /\ Len(m) >= 3

VARIABLES
  src,       \* the bytes to encode
  i,         \* how many of them have been consumed
  dst,       \* the allocated buffer
  d,         \* the pointer dst of the code, as an index into the buffer
  code_ptr,  \* where the code byte of the current block will go
  code_len,  \* length of the current block, its code byte included
  rolls,     \* history: blocks that were closed because they were full
  ret,       \* the value returned
  pc

buffer == <<dst, d, code_ptr, code_len, rolls>>
vars == <<src, i, buffer, ret, pc>>

Junk == -1       \* a byte os_malloc has not initialised
Sentinel == -2   \* the byte 0x55 behind the buffer, told apart from data
Failed == -1     \* (size_t) -1

DestSize == EncodedMaxSize(Len(src))
CodeEnd == DestSize - 1                      \* EOF reservation
More == i < Len(src)
NoRoom == d >= CodeEnd
Ch == src[i + 1]

NoBuffer == [k \in {0} |-> Sentinel]

Init ==
  /\ src = <<>> /\ i = 0 /\ dst = NoBuffer /\ d = 0
  /\ code_ptr = 0 /\ code_len = 1 /\ rolls = 0 /\ ret = 0 /\ pc = "idle"

(* transmitter_push allocates a buffer and calls cobs_encode, which         *)
(* reserves the place of the first code byte.                              *)
Start(m) ==
  /\ pc = "idle"
  /\ src' = m /\ i' = 0
  /\ dst' = [k \in 0..EncodedMaxSize(Len(m)) |->
               IF k = EncodedMaxSize(Len(m)) THEN Sentinel ELSE Junk]
  /\ d' = 1 /\ code_ptr' = 0 /\ code_len' = 1 /\ rolls' = 0
  /\ ret' = 0 /\ pc' = "loop"

(* A zero byte closes the block. *)
EncodeZero ==
  /\ pc = "loop" /\ More /\ ~NoRoom /\ Ch = EOF
  /\ dst' = [dst EXCEPT ![code_ptr] = code_len]
  /\ code_ptr' = d /\ d' = d + 1 /\ code_len' = 1
  /\ i' = i + 1 /\ UNCHANGED <<src, rolls, ret, pc>>

(* The block is full with the byte just stored and others follow. *)
Full_OneLate == code_len + 1 = MaxCode + 1
Full == code_len + 1 = MaxCode

(* A data byte that leaves the block open: it is not full, or it is full    *)
(* with the last byte of the message.                                      *)
EncodeByte ==
  /\ pc = "loop" /\ More /\ ~NoRoom /\ Ch # EOF
  /\ Full => i + 1 = Len(src)
  /\ dst' = [dst EXCEPT ![d] = Ch]
  /\ d' = d + 1 /\ code_len' = code_len + 1
  /\ i' = i + 1 /\ UNCHANGED <<src, code_ptr, rolls, ret, pc>>

(* A data byte that fills the block: the next one is begun at once. *)
EncodeFull ==
  /\ pc = "loop" /\ More /\ ~NoRoom /\ Ch # EOF
  /\ Full /\ i + 1 # Len(src)
  /\ dst' = [dst EXCEPT ![d] = Ch, ![code_ptr] = code_len + 1]
  /\ code_ptr' = d + 1 /\ d' = d + 2 /\ code_len' = 1
  /\ rolls' = rolls + 1
  /\ i' = i + 1 /\ UNCHANGED <<src, ret, pc>>

(* The end of the loop, or the failure return when the buffer is used up   *)
(* while there are bytes left.                                             *)
Finish ==
  /\ pc = "loop" /\ (More => NoRoom)
  /\ IF More THEN ret' = Failed /\ UNCHANGED <<dst, d>>
             ELSE /\ dst' = [dst EXCEPT ![code_ptr] = code_len, ![d] = EOF]
                  /\ d' = d + 1 /\ ret' = d + 1
  /\ pc' = "done" /\ UNCHANGED <<src, i, code_ptr, code_len, rolls>>

(* transmitter_push puts the buffer into the ring; the next call starts    *)
(* afresh.                                                                 *)
HandOver ==
  /\ pc = "done" /\ pc' = "idle"
  /\ src' = <<>> /\ i' = 0 /\ dst' = NoBuffer /\ d' = 0
  /\ code_ptr' = 0 /\ code_len' = 1 /\ rolls' = 0 /\ ret' = 0

Next == (\E m \in Messages : Start(m))
          \/ EncodeZero \/ EncodeByte \/ EncodeFull \/ Finish \/ HandOver

Spec == Init /\ [][Next]_vars

-----------------------------------------------------------------------------
(* Every variable keeps its type; the indices stay natural numbers. *)
TypeOK ==
  /\ src \in Seq(Byte) /\ i \in 0..Len(src)
  /\ DOMAIN dst = 0..DestSize \/ pc = "idle"
  /\ \A k \in DOMAIN dst : dst[k] \in Byte \cup {Junk, Sentinel}
  /\ d \in Nat /\ code_ptr \in Nat /\ code_len \in 1..MaxCode /\ rolls \in Nat
  /\ ret \in Nat \cup {Failed} /\ pc \in {"idle", "loop", "done"}

(* COBS_ENCODED_MAX_SIZE is enough for every message: cobs_encode never    *)
(* returns -1 (transmitter_push would store that as the frame's length)    *)
(* and never writes at or behind the sentinel, so the "buffer overflow"    *)
(* report of transmitter_push is never made.                               *)
EncoderFits ==
  /\ ret # Failed
  /\ pc # "idle" => d <= DestSize /\ code_ptr < d /\ dst[DestSize] = Sentinel

(* The returned bytes are one frame: no uninitialised byte, no zero byte   *)
(* but the last, and the blocks decode to the message that was encoded.    *)
EncodesMessage ==
  pc = "done" =>
    LET f == [k \in 1..(ret - 1) |-> dst[k - 1]]
    IN  /\ \A k \in 1..Len(f) : f[k] \in Byte
        /\ dst[ret - 1] = EOF
        /\ WellFormed(f) /\ Decoded(f) = src

(* cobs_encode stays in its arrays and makes a frame that means the        *)
(* message.                                                                *)
EncoderSound == TypeOK /\ EncodesMessage
=============================================================================
