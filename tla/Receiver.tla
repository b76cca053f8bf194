------------------------------ MODULE Receiver ------------------------------
(***************************************************************************)
(* The receive path of the serial link: cobs_decoder_put                   *)
(* (user_main/cobs.c), which do_rx feeds with the bytes of the RX FIFO,    *)
(* and decoder_check_and_dispatch_cb (user_main/comm.c), which it calls    *)
(* with every complete frame and which calls packet_from_host.             *)
(*                                                                         *)
(* The bytes of buf from buf_ind on are never read, so buf is the sequence *)
(* of the first buf_ind bytes.  A write behind buf_size hits whatever the  *)
(* linker placed there: spilled records it, and nothing is said of the     *)
(* receiver afterwards.                                                    *)
(***************************************************************************)
EXTENDS CobsFormat

CONSTANTS
  BufSize,    \* buf_size: COBS_ENCODED_MAX_SIZE(MAX_MESSAGE_SIZE)
  Crc(_),     \* crc16_block, as the two bytes that follow the message
  MaxFrame    \* bounds: MaxFrame[k] bytes in the k-th frame of a stream

ASSUME ReceiverAssumption ==
  /\ BufSize \in Nat \ {0} /\ MaxFrame \in Seq(Nat)

VARIABLES
  state, buf, overflow, block_len, block_cnt,  \* struct cobs_decoder
  proto_errors, crc_errors,                    \* struct decoder
  received,  \* history: the messages handed to packet_from_host
  spilled,   \* history: a byte was written behind the buffer
  frame,     \* history: bytes since the last end-of-frame byte
  frames     \* history: number of frames ended

decoder == <<state, buf, overflow, block_len, block_cnt>>
stats == <<proto_errors, crc_errors, received>>
rcvVars == <<decoder, stats, spilled, frame, frames>>

(* cobs_decoder_init and decoder_init *)
DecoderInit ==
  /\ state = "DEC_IDLE" /\ buf = <<>> /\ overflow = FALSE
  /\ block_len = 0 /\ block_cnt = 0
  /\ proto_errors = 0 /\ crc_errors = 0 /\ received = <<>>
  /\ spilled = FALSE /\ frame = <<>> /\ frames = 0

-----------------------------------------------------------------------------
(* The first byte of a frame is the code of its first block. *)
PutFirst_KeepsOverflow(ch) ==
  /\ state = "DEC_IDLE" /\ ch # EOF
  /\ buf' = <<>>
  /\ block_cnt' = ch /\ block_len' = ch /\ state' = "DEC_BLOCK"
  /\ UNCHANGED <<overflow, stats, spilled, frames>>

PutFirst(ch) ==
  /\ state = "DEC_IDLE" /\ ch # EOF
  /\ buf' = <<>> /\ overflow' = FALSE
  /\ block_cnt' = ch /\ block_len' = ch /\ state' = "DEC_BLOCK"
  /\ UNCHANGED <<stats, spilled, frames>>

(* End-of-frame bytes between frames are skipped. *)
PutIdle(ch) ==
  /\ state = "DEC_IDLE" /\ ch = EOF
  /\ UNCHANGED <<decoder, stats, spilled, frames>>

(* All data bytes of the block are there. *)
BlockDone_Zero == block_cnt = 0
BlockDone == block_cnt = 1

NextBlock(ch) == block_cnt' = ch /\ block_len' = ch

(* The code of the next block, after one that stands for a zero byte: the  *)
(* zero is stored without a look at buf_size.                              *)
ZeroDue_Always == TRUE
ZeroDue == block_len < MaxCode

PutZeroCode(ch) ==
  /\ state = "DEC_BLOCK" /\ ch # EOF /\ BlockDone /\ ZeroDue
  /\ buf' = Append(buf, EOF) /\ spilled' = (Len(buf) >= BufSize)
  /\ NextBlock(ch)
  /\ UNCHANGED <<state, overflow, stats, frames>>

(* The code of the next block, after a block of the maximal length. *)
PutCode(ch) ==
  /\ state = "DEC_BLOCK" /\ ch # EOF /\ BlockDone /\ ~ZeroDue
  /\ NextBlock(ch)
  /\ UNCHANGED <<state, buf, overflow, stats, spilled, frames>>

(* A data byte; one that does not fit marks the frame. *)
Fits == Len(buf) < BufSize

PutData(ch) ==
  /\ state = "DEC_BLOCK" /\ ch # EOF /\ ~BlockDone
  /\ block_cnt' = block_cnt - 1
  /\ IF Fits THEN buf' = Append(buf, ch) /\ UNCHANGED overflow
             ELSE overflow' = TRUE /\ UNCHANGED buf
  /\ spilled' = (Len(buf') > BufSize)
  /\ UNCHANGED <<state, block_len, stats, frames>>

(* decoder_check_and_dispatch_cb: at least a type byte and a CRC, then the *)
(* CRC over all but the last two bytes; the handler gets the rest.         *)
Tail2(m) == <<m[Len(m) - 1], m[Len(m)]>>
Body(m) == SubSeq(m, 1, Len(m) - 2)
TooShort(m) == Len(m) < 3

CheckAndDispatch(m) ==
  \/ /\ TooShort(m)
     /\ proto_errors' = proto_errors + 1 /\ UNCHANGED <<crc_errors, received>>
  \/ /\ ~TooShort(m) /\ Crc(Body(m)) # Tail2(m)
     /\ crc_errors' = crc_errors + 1 /\ UNCHANGED <<proto_errors, received>>
  \/ /\ ~TooShort(m) /\ Crc(Body(m)) = Tail2(m)
     /\ received' = Append(received, Body(m))
     /\ UNCHANGED <<proto_errors, crc_errors>>

(* An end-of-frame byte: a frame whose last block is complete and that did *)
(* not overflow is handed on, any other one is discarded without a trace.  *)
PutEof_GoesOn(ch) ==
  /\ state = "DEC_BLOCK" /\ ch = EOF
  /\ IF BlockDone /\ ~overflow THEN CheckAndDispatch(buf) ELSE UNCHANGED stats
  /\ state' = (IF BlockDone THEN "DEC_IDLE" ELSE state) /\ frames' = frames + 1
  /\ UNCHANGED <<buf, overflow, block_len, block_cnt, spilled>>

PutEof(ch) ==
  /\ state = "DEC_BLOCK" /\ ch = EOF
  /\ IF BlockDone /\ ~overflow THEN CheckAndDispatch(buf) ELSE UNCHANGED stats
  /\ buf' = <<>> /\ state' = "DEC_IDLE" /\ frames' = frames + 1
  /\ UNCHANGED <<overflow, block_len, block_cnt, spilled>>

(* cobs_decoder_put for one byte. *)
PutByte(ch) ==
  /\ ~spilled
  /\ frame' = IF ch = EOF THEN <<>> ELSE Append(frame, ch)
  /\ \/ PutFirst(ch) \/ PutIdle(ch) \/ PutZeroCode(ch) \/ PutCode(ch)
     \/ PutData(ch) \/ PutEof(ch)

(* Any byte at any time. *)
AnyByte ==
  /\ frames < Len(MaxFrame)
  /\ \E ch \in Byte : (ch # EOF => Len(frame) < MaxFrame[frames + 1]) /\ PutByte(ch)

-----------------------------------------------------------------------------
(* Every variable keeps its type, and a block in progress lacks at least   *)
(* one and at most block_len bytes (block_cnt never wraps below zero).     *)
DecoderOK ==
  /\ state \in {"DEC_IDLE", "DEC_BLOCK"} /\ buf \in Seq(Byte)
  /\ overflow \in BOOLEAN /\ spilled \in BOOLEAN
  /\ block_len \in Byte /\ block_cnt \in 0..block_len
  /\ state = "DEC_BLOCK" => block_cnt >= 1
  /\ proto_errors \in Nat /\ crc_errors \in Nat
  /\ frame \in Seq(Byte \ {EOF}) /\ frames \in Nat
  /\ received \in Seq(Seq(Byte))

(* What the frame that just ended must have led to, from its bytes alone:  *)
(* the message it stands for if it is well-formed, fits and carries the    *)
(* right CRC, one count of the right error otherwise, and nothing at all   *)
(* for a frame that is cut, malformed or too long.                         *)
Outcome(f) ==
  LET m == Decoded(f) IN
  IF ~WellFormed(f) \/ Len(m) > BufSize
  THEN [received |-> received, proto |-> proto_errors, crc |-> crc_errors]
  ELSE [received |-> IF Len(m) >= 3 /\ Crc(Body(m)) = Tail2(m)
                     THEN Append(received, Body(m)) ELSE received,
        proto |-> proto_errors + (IF Len(m) < 3 THEN 1 ELSE 0),
        crc |-> crc_errors +
                  (IF Len(m) >= 3 /\ Crc(Body(m)) # Tail2(m) THEN 1 ELSE 0)]

(* The byte-at-a-time decoder computes the meaning of the frame, whatever  *)
(* came before its first byte: what cobs_decoder_put and                   *)
(* decoder_check_and_dispatch_cb do at an end-of-frame byte depends on the *)
(* bytes since the previous one only, and is what the block chain says.    *)
(* This settles the FIXME on 0xff blocks for every such stream.            *)
FrameOutcome ==
  [][(frame # <<>> /\ frame' = <<>>) =>
       [received |-> received', proto |-> proto_errors', crc |-> crc_errors']
         = Outcome(frame)]_rcvVars
=============================================================================
