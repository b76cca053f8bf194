------------------------------- MODULE IpAddr -------------------------------
(***************************************************************************)
(* Addresses as text (lwip/core/ipv4/ip_addr.c).  ia is an address, four   *)
(* bytes in network order, or empty before one is chosen; a byte has Bits  *)
(* bits.  A text is a sequence of characters, each one a string.           *)
(***************************************************************************)
EXTENDS Integers, Sequences, SequencesExt, FiniteSets, Bitwise

CONSTANTS Bits,               \* of a byte (8)
          ByteValues          \* the bytes of the addresses looked at

ASSUME ByteBits == Bits \in Nat \ {0} /\ ByteValues \subseteq 0..(2^Bits - 1)

VARIABLE ia
Octet == 2^Bits
U32 == Octet^4
Digits == <<"0", "1", "2", "3", "4", "5", "6", "7", "8", "9", "a", "b", "c", "d", "e", "f">>
Value(c) == (CHOOSE i \in DOMAIN Digits : Digits[i] = c) - 1
Invalid == -1

(* The character at i, or the zero behind the text.                        *)
At(t, i) == IF i <= Len(t) THEN t[i] ELSE "end"
isdigit(c) == \E i \in 1..10 : Digits[i] = c
isxdigit(c) == \E i \in DOMAIN Digits : Digits[i] = c
isspace(c) == c = " "

(* One number: 0x hexadecimal, 0 octal (with 8 and 9 as digits), else      *)
(* decimal; as many digits as there are, in 32 bits.                       *)
Number(t, i) ==
    LET hex  == At(t, i) = "0" /\ At(t, i + 1) \in {"x", "X"}
        base == IF hex THEN 16 ELSE IF At(t, i) = "0" THEN 8 ELSE 10
        from == IF hex THEN i + 2 ELSE IF At(t, i) = "0" THEN i + 1 ELSE i
        to   == CHOOSE k \in from..(Len(t) + 1) :
                    /\ \A j \in from..(k - 1) : isdigit(t[j]) \/ (hex /\ isxdigit(t[j]))
                    /\ ~isdigit(At(t, k)) /\ ~(hex /\ isxdigit(At(t, k)))
        f[j \in (from - 1)..(to - 1)] == IF j < from THEN 0 ELSE ((f[j - 1] * base) + Value(t[j])) % U32
    IN  [val |-> f[to - 1], at |-> to]

(* ipaddr_aton.  Only the last part is held against the room left for it.  *)
Parts(t) ==
    LET f[n \in 0..4] ==
            IF n = 0 THEN [parts |-> << >>, at |-> 1, more |-> TRUE]
            ELSE LET g == f[n - 1]
                     x == Number(t, g.at)
                 IN  IF ~g.more THEN g
                     ELSE IF ~isdigit(At(t, g.at)) THEN [g EXCEPT !.parts = << >>, !.more = FALSE]
                     ELSE IF At(t, x.at) # "." THEN [parts |-> Append(g.parts, x.val), at |-> x.at, more |-> FALSE]
                     ELSE [parts |-> Append(g.parts, x.val), at |-> x.at + 1, more |-> TRUE]
    IN  f[4]
Shifted(val, n) == (val * Octet^n) % U32
TooLarge_Never(val, n) == FALSE
TooLarge(val, n) == n > 1 /\ val > Octet^(5 - n) - 1
ipaddr_aton(t) ==
    LET g   == Parts(t)
        n   == Len(g.parts)
        val == g.parts[n]
        or[i \in 0..(n - 1)] == IF i = 0 THEN val ELSE or[i - 1] | Shifted(g.parts[i], 4 - i)
    IN  IF n = 0 \/ g.more THEN Invalid
        ELSE IF At(t, g.at) # "end" /\ ~isspace(At(t, g.at)) THEN Invalid
        ELSE IF TooLarge(val, n) THEN Invalid ELSE or[n - 1]

(* IPADDR_NONE is also the broadcast address: it cannot be told apart.     *)
ipaddr_addr(t) == IF ipaddr_aton(t) = Invalid THEN U32 - 1 ELSE ipaddr_aton(t)

(* ipaddr_ntoa_r: the bytes in decimal, into a buffer of buflen bytes; the *)
(* last dot is overwritten by the zero.                                    *)
Decimal_Padded(b) == <<Digits[(b \div 100) + 1], Digits[((b \div 10) % 10) + 1], Digits[(b % 10) + 1]>>
Decimal(b) == IF b < 10 THEN <<Digits[b + 1]>>
              ELSE IF b < 100 THEN <<Digits[(b \div 10) + 1], Digits[(b % 10) + 1]>>
              ELSE <<Digits[(b \div 100) + 1], Digits[((b \div 10) % 10) + 1], Digits[(b % 10) + 1]>>
ipaddr_ntoa_r(a, buflen) ==
    LET t == FlattenSeq([i \in 1..4 |-> Append(Decimal(a[i]), ".")])
    IN  IF Len(t) > buflen THEN << >> ELSE Front(t)

(* ip4_addr_netmask_valid: ones, then zeros.                               *)
Bit(m, i) == (m \div 2^i) % 2
ip4_addr_netmask_valid_FromZero(m) == \E k \in 0..(4 * Bits) : \A i \in 0..(4 * Bits - 1) : Bit(m, i) = IF i < k THEN 1 ELSE 0
ip4_addr_netmask_valid(m) ==
    LET zeros == {i \in 0..(4 * Bits - 1) : Bit(m, i) = 0}       \* of these the first loop stops at the highest
    IN  zeros = {} \/ \A i \in 0..(Max(zeros) - 1) : Bit(m, i) = 0

-----------------------------------------------------------------------------
AddrInit == ia = << >>
SetAddr(a) == ia = << >> /\ ia' = a
AddrNext == \E a \in [1..4 -> ByteValues] : SetAddr(a)

Word(a) == (((((a[1] * Octet) + a[2]) * Octet) + a[3]) * Octet) + a[4]

(* A number in some base, as a person writes it.                           *)
Numeral(v, base) ==
    LET n == Min({k \in 1..(Bits + 2) : v < base^k})
        d == [i \in 1..n |-> Digits[((v \div base^(n - i)) % base) + 1]]
    IN  CASE base = 10 -> d [] base = 16 -> <<"0", "x">> \o d [] base = 8 -> <<"0">> \o d

(* The address in n parts, the last of which holds the bytes that are left.*)
Written(a, n, base) ==
    LET last == Word([i \in 1..4 |-> IF i < n THEN 0 ELSE a[i]])
    IN  FlattenSeq([i \in 1..n |-> IF i < n THEN Append(Numeral(a[i], base), ".") ELSE Numeral(last, base)])

(* ipaddr_aton reads every way to write an address: one to four parts,     *)
(* each base, with or without a space behind it; not with other characters *)
(* behind it, a fifth part, or a last part too large for its place.        *)
AtonReads == ia # << >> =>
    \A n \in 1..4, base \in {8, 10, 16} : LET t == Written(ia, n, base) IN
        /\ ipaddr_aton(t) = Word(ia) /\ ipaddr_aton(Append(t, " ")) = Word(ia)
        /\ ipaddr_aton(Append(t, "-")) = Invalid
        /\ ipaddr_aton(t \o FlattenSeq([i \in 1..(5 - n) |-> <<".", "1">>])) = Invalid
        /\ n > 1 => ipaddr_aton(Written([ia EXCEPT ![n] = @ + Octet], n, base)) = Invalid

(* What ipaddr_ntoa prints fits its buffer and is read back by ipaddr_aton *)
(* as the same address: no byte looks like an octal number.                *)
NtoaReadBack == ia # << >> => /\ ipaddr_ntoa_r(ia, 16) # << >>
                              /\ ipaddr_addr(ipaddr_ntoa_r(ia, 16)) = Word(ia)

(* A netmask is valid when some number of leading bits makes it.           *)
NetmaskIsPrefix == ia # << >> => (ip4_addr_netmask_valid(Word(ia)) <=> \E k \in 0..(4 * Bits) : Word(ia) = U32 - 2^k \/ Word(ia) = 0)

(* Addresses survive the way through text, and masks are told from other   *)
(* addresses (ip_addr.c).                                                  *)
AddressTexts == AtonReads /\ NtoaReadBack /\ NetmaskIsPrefix
=============================================================================
