-------------------------------- MODULE Link --------------------------------
(***************************************************************************)
(* The host, the serial line and the firmware's receiver.  The host sends  *)
(* legal frames (message.h: COBS framing, a total length of at most        *)
(* MAX_MESSAGE_SIZE, a CRC).  The protocol uses no flow control: the line  *)
(* loses bytes when the RX FIFO is full or the baud rates differ for a     *)
(* moment, and nobody is told.                                             *)
(*                                                                         *)
(* The host and its line are external to the repository.                   *)
(***************************************************************************)
EXTENDS Receiver

CONSTANTS
  MaxMessage,  \* MAX_MESSAGE_SIZE
  HostFrames,  \* the frames the host sends, without the end-of-frame byte
  MaxSent,     \* bound: frames the host sends
  MaxLost      \* bound: bytes the line loses

(* A block of the maximal length is the only one that is longer than what  *)
(* it stands for, so a legal frame, of whatever encoder, is never longer   *)
(* than BufSize.                                                           *)
ASSUME LinkAssumption ==
  /\ MaxMessage \in Nat /\ BufSize = EncodedMaxSize(MaxMessage)
  /\ \A f \in HostFrames :
       /\ f \in Seq(Byte) /\ Len(f) <= BufSize
       /\ WellFormed(f)
       /\ LET m == Decoded(f) IN
          Len(m) \in 3..MaxMessage /\ Crc(Body(m)) = Tail2(m)
  /\ MaxSent \in Nat /\ MaxLost \in Nat

VARIABLES
  line,    \* bytes on their way
  sending, \* the frame they belong to
  sent,    \* number of frames sent
  lost,    \* number of bytes lost
  synced,  \* history: the last end-of-frame byte sent was received
  intact   \* history: no byte of the frame on its way has been lost

host == <<sending, sent>>
lineVars == <<line, host, lost, synced, intact>>

LinkInit ==
  /\ DecoderInit /\ line = <<>> /\ sending = <<>> /\ sent = 0 /\ lost = 0
  /\ synced = TRUE /\ intact = TRUE

HostSend(f) ==
  /\ line = <<>> /\ sent < MaxSent
  /\ line' = Append(f, EOF) /\ sending' = f /\ sent' = sent + 1
  /\ intact' = TRUE
  /\ UNCHANGED <<rcvVars, lost, synced>>

(* The frame is over once its end-of-frame byte has been received or lost. *)
Arrive ==
  /\ line # <<>> /\ PutByte(Head(line))
  /\ line' = Tail(line) /\ synced' = (synced \/ Head(line) = EOF)
  /\ UNCHANGED <<host, lost, intact>>

Lose ==
  /\ line # <<>> /\ lost < MaxLost
  /\ line' = Tail(line) /\ lost' = lost + 1
  /\ intact' = FALSE /\ synced' = (synced /\ Head(line) # EOF)
  /\ UNCHANGED <<rcvVars, host>>

LinkNext == (\E f \in HostFrames : HostSend(f)) \/ Arrive \/ Lose

LinkSpec == LinkInit /\ [][LinkNext]_<<rcvVars, lineVars>>

-----------------------------------------------------------------------------
(* A legal frame that arrives whole, after an end-of-frame byte that       *)
(* arrived, reaches packet_from_host unchanged, whatever was lost before   *)
(* it: one end-of-frame byte puts the receiver back in step.               *)
IntactFrameDelivered ==
  [][(line # <<>> /\ line' = <<>> /\ intact' /\ synced /\ ~spilled) =>
       received' = Append(received, Body(Decoded(sending)))]_<<rcvVars, lineVars>>

(* The zero of a block end is written without a look at buf_size           *)
(* (cobs_decoder_put): with a host that keeps to MAX_MESSAGE_SIZE the      *)
(* write stays inside the buffer unless an end-of-frame byte was lost and  *)
(* two frames came as one.  Bytes lost within a frame, which shift its     *)
(* block chain, do not suffice.                                            *)
NoSpillInStep == sent > 0 /\ spilled => ~synced

(* The decoder's counters stay in their ranges and its writes in its       *)
(* buffer, as long as the frames of the host keep to the limit and to      *)
(* their ends.                                                             *)
BufferKept == DecoderOK /\ NoSpillInStep

(* cobs_decoder_put and the dispatch do to every frame what its chain of   *)
(* blocks says, whatever came before it, and so deliver what arrives       *)
(* whole.                                                                  *)
DecoderSound == FrameOutcome /\ IntactFrameDelivered
=============================================================================
