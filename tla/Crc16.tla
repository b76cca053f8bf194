------------------------------- MODULE Crc16 --------------------------------
(***************************************************************************)
(* The checksum of the serial link (user_main/crc16.c, crc16.h), from the  *)
(* sender that appends it (comm_send) to the receiver that checks it       *)
(* (decoder_check_and_dispatch_cb), over a line that may disturb two       *)
(* neighbouring bytes.                                                     *)
(*                                                                         *)
(* Both sides run in step, a byte at a time; the message is body followed  *)
(* by the two bytes of the CRC, low byte first.                            *)
(***************************************************************************)
EXTENDS Integers, Sequences, Bitwise

CONSTANTS
  Bodies,      \* the messages sent, without their CRC
  FirstErrors, \* what may hit a byte (a pattern of flipped bits)
  SecondErrors \* and the byte behind it

ASSUME CrcAssumption ==
  /\ FirstErrors \subseteq 1..255 /\ SecondErrors \subseteq 0..255
  /\ \A m \in Bodies : m \in Seq(0..255) /\ m # <<>>

VARIABLES
  body,    \* the message
  pos,     \* bytes on the line so far
  tx_crc,  \* the sender's crc16_block over body, complete once it is sent
  rx_crc,  \* the receiver's, over the received bytes but the last two
  ref_crc, \* history: the polynomial division of the same bytes
  tail,    \* the received CRC bytes
  noise,   \* history: "none", "one" (the next byte may be hit too), "past"
  accepted \* the receiver's verdict

crcVars == <<body, pos, tx_crc, rx_crc, ref_crc, tail, noise, accepted>>

CRC16_INIT_VALUE == \hffff

crc16_tab == <<
  \h0000, \h1189, \h2312, \h329b, \h4624, \h57ad, \h6536, \h74bf, \h8c48, \h9dc1,
  \haf5a, \hbed3, \hca6c, \hdbe5, \he97e, \hf8f7, \h1081, \h0108, \h3393, \h221a,
  \h56a5, \h472c, \h75b7, \h643e, \h9cc9, \h8d40, \hbfdb, \hae52, \hdaed, \hcb64,
  \hf9ff, \he876, \h2102, \h308b, \h0210, \h1399, \h6726, \h76af, \h4434, \h55bd,
  \had4a, \hbcc3, \h8e58, \h9fd1, \heb6e, \hfae7, \hc87c, \hd9f5, \h3183, \h200a,
  \h1291, \h0318, \h77a7, \h662e, \h54b5, \h453c, \hbdcb, \hac42, \h9ed9, \h8f50,
  \hfbef, \hea66, \hd8fd, \hc974, \h4204, \h538d, \h6116, \h709f, \h0420, \h15a9,
  \h2732, \h36bb, \hce4c, \hdfc5, \hed5e, \hfcd7, \h8868, \h99e1, \hab7a, \hbaf3,
  \h5285, \h430c, \h7197, \h601e, \h14a1, \h0528, \h37b3, \h263a, \hdecd, \hcf44,
  \hfddf, \hec56, \h98e9, \h8960, \hbbfb, \haa72, \h6306, \h728f, \h4014, \h519d,
  \h2522, \h34ab, \h0630, \h17b9, \hef4e, \hfec7, \hcc5c, \hddd5, \ha96a, \hb8e3,
  \h8a78, \h9bf1, \h7387, \h620e, \h5095, \h411c, \h35a3, \h242a, \h16b1, \h0738,
  \hffcf, \hee46, \hdcdd, \hcd54, \hb9eb, \ha862, \h9af9, \h8b70, \h8408, \h9581,
  \ha71a, \hb693, \hc22c, \hd3a5, \he13e, \hf0b7, \h0840, \h19c9, \h2b52, \h3adb,
  \h4e64, \h5fed, \h6d76, \h7cff, \h9489, \h8500, \hb79b, \ha612, \hd2ad, \hc324,
  \hf1bf, \he036, \h18c1, \h0948, \h3bd3, \h2a5a, \h5ee5, \h4f6c, \h7df7, \h6c7e,
  \ha50a, \hb483, \h8618, \h9791, \he32e, \hf2a7, \hc03c, \hd1b5, \h2942, \h38cb,
  \h0a50, \h1bd9, \h6f66, \h7eef, \h4c74, \h5dfd, \hb58b, \ha402, \h9699, \h8710,
  \hf3af, \he226, \hd0bd, \hc134, \h39c3, \h284a, \h1ad1, \h0b58, \h7fe7, \h6e6e,
  \h5cf5, \h4d7c, \hc60c, \hd785, \he51e, \hf497, \h8028, \h91a1, \ha33a, \hb2b3,
  \h4a44, \h5bcd, \h6956, \h78df, \h0c60, \h1de9, \h2f72, \h3efb, \hd68d, \hc704,
  \hf59f, \he416, \h90a9, \h8120, \hb3bb, \ha232, \h5ac5, \h4b4c, \h79d7, \h685e,
  \h1ce1, \h0d68, \h3ff3, \h2e7a, \he70e, \hf687, \hc41c, \hd595, \ha12a, \hb0a3,
  \h8238, \h93b1, \h6b46, \h7acf, \h4854, \h59dd, \h2d62, \h3ceb, \h0e70, \h1ff9,
  \hf78f, \he606, \hd49d, \hc514, \hb1ab, \ha022, \h92b9, \h8330, \h7bc7, \h6a4e,
  \h58d5, \h495c, \h3de3, \h2c6a, \h1ef1, \h0f78 >>

Low(x) == x % 256
High(x) == x \div 256

crc16_update_HighIndex(crc, data) ==
  High(crc) ^^ crc16_tab[(High(crc) ^^ data) + 1]

crc16_update(crc, data) == High(crc) ^^ crc16_tab[(Low(crc) ^^ data) + 1]

-----------------------------------------------------------------------------
(* The bits of a byte through the shift register of x^16 + x^12 + x^5 + 1, *)
(* least significant bit first: what a table of 256 entries abbreviates.   *)
ShiftBit(r) == IF r % 2 = 1 THEN (r \div 2) ^^ \h8408 ELSE r \div 2

Divide(crc, data) ==
  LET r[k \in 0..8] == IF k = 0 THEN crc ^^ data ELSE ShiftBit(r[k - 1])
  IN r[8]

Sent == IF pos < Len(body) THEN body[pos + 1]
        ELSE IF pos = Len(body) THEN Low(tx_crc) ELSE High(tx_crc)

CrcInit ==
  /\ body \in Bodies /\ pos = 0 /\ tail = <<>>
  /\ tx_crc = CRC16_INIT_VALUE /\ rx_crc = CRC16_INIT_VALUE
  /\ ref_crc = CRC16_INIT_VALUE
  /\ noise = "none" /\ accepted = "open"

(* A byte crosses the line with the bits of e flipped. *)
Transfer(e) ==
  LET got == Sent ^^ e IN
  /\ pos' = pos + 1
  /\ \/ /\ pos < Len(body)
        /\ tx_crc' = crc16_update(tx_crc, Sent)
        /\ rx_crc' = crc16_update(rx_crc, got)
        /\ ref_crc' = Divide(ref_crc, got)
        /\ UNCHANGED tail
     \/ /\ pos \in {Len(body), Len(body) + 1}
        /\ tail' = Append(tail, got)
        /\ UNCHANGED <<tx_crc, rx_crc, ref_crc>>
  /\ UNCHANGED <<body, accepted>>

Clean == /\ Transfer(0)
         /\ noise' = IF noise = "one" THEN "past" ELSE noise

Hit == \/ /\ noise = "none" /\ noise' = "one"
          /\ \E e \in FirstErrors : Transfer(e)
       \/ /\ noise = "one" /\ noise' = "past"
          /\ \E e \in SecondErrors \ {0} : Transfer(e)

(* The comparison of crc_calc with the two bytes copied into crc_msg. *)
CrcMatches_LowByte == tail[1] = Low(rx_crc)
CrcMatches == tail[1] + 256 * tail[2] = rx_crc

Check ==
  /\ pos = Len(body) + 2 /\ accepted = "open"
  /\ accepted' = IF CrcMatches THEN "yes" ELSE "no"
  /\ UNCHANGED <<body, pos, tx_crc, rx_crc, ref_crc, tail, noise>>

CrcNext == Clean \/ Hit \/ Check

-----------------------------------------------------------------------------
(* crc16_tab is the right table, in every entry: the table-driven          *)
(* crc16_update agrees with the bit-by-bit division over all streams.      *)
TableIsPolynomial == rx_crc = ref_crc

(* The byte order of comm_send fits the receiver's memcpy, and the         *)
(* checksum catches every disturbance that is confined to two neighbouring *)
(* bytes, the CRC's own bytes included: the receiver accepts exactly the   *)
(* undisturbed messages.                                                   *)
AcceptsOnlyIntact ==
  accepted # "open" => (accepted = "yes" <=> noise = "none")

(* The checksum is the division by the polynomial, and the receiver takes  *)
(* what was not disturbed and nothing else.                                *)
ChecksumSound == TableIsPolynomial /\ AcceptsOnlyIntact
=============================================================================
