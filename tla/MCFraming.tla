----------------------------- MODULE MCFraming ------------------------------
(***************************************************************************)
(* All messages of 3 to MaxLen bytes for the encoder; all byte streams and *)
(* the frames of all messages of 3 to MaxMessage bytes for the receiver,   *)
(* with a two-byte checksum in the place of the CRC; two messages of the   *)
(* protocol (a LOG_LEVEL_SET and an ECHO_REQUEST) with every disturbance   *)
(* of two neighbouring bytes for the CRC itself.                           *)
(***************************************************************************)
EXTENDS Framing, Folds
CONSTANT MaxLen

AllMessages == UNION {[1..n -> Byte] : n \in 3..MaxLen}

Sum(m) == MapThenFoldSet(LAMBDA x, y : x + y, 0, LAMBDA k : k * m[k],
                         LAMBDA s : CHOOSE k \in s : TRUE, 1..Len(m))
ToyCrc(m) == <<Sum(m) % (MaxCode + 1), (Sum(m) + Len(m)) % (MaxCode + 1)>>

LegalFrames ==
  {f \in UNION {[1..n -> 1..MaxCode] : n \in 1..BufSize + 1} :
     /\ WellFormed(f)
     /\ LET m == Decoded(f) IN
        Len(m) \in 3..MaxMessage /\ Crc(Body(m)) = Tail2(m)}

LongThenShort == <<9, 5>>

SomeBodies == {<<\h82, 2>>, <<\h84, 0, \ha5>>}
AllFirst == 1..255
AllSecond == 0..255
=============================================================================
