------------------------------ MODULE Framing -------------------------------
(***************************************************************************)
(* The byte level of the serial link: the encoder, the receiver with a     *)
(* host behind a lossy line or with any byte stream, and the checksum over *)
(* disturbed bytes.  They share no state; running says which one a         *)
(* behaviour is about.                                                     *)
(***************************************************************************)
EXTENDS CobsEncoder, Link, Crc16

VARIABLE running
framingVars == <<vars, rcvVars, lineVars, crcVars, running>>

FramingInit ==
  /\ running \in {"encoder", "stream", "line", "crc"}
  /\ Init /\ LinkInit /\ CrcInit
  /\ running # "crc" => body = CHOOSE b \in Bodies : TRUE

FramingNext ==
  \/ /\ running = "encoder" /\ Next
     /\ UNCHANGED <<rcvVars, lineVars, crcVars, running>>
  \/ /\ running = "stream" /\ AnyByte
     /\ UNCHANGED <<vars, lineVars, crcVars, running>>
  \/ \E f \in HostFrames :
       running = "line" /\ HostSend(f) /\ UNCHANGED <<vars, crcVars, running>>
  \/ /\ running = "line" /\ (Arrive \/ Lose)
     /\ UNCHANGED <<vars, crcVars, running>>
  \/ /\ running = "crc" /\ CrcNext
     /\ UNCHANGED <<vars, rcvVars, lineVars, running>>

FramingSpec == FramingInit /\ [][FramingNext]_framingVars
=============================================================================
