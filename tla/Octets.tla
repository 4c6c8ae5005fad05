-------------------------------- MODULE Octets --------------------------------
(***************************************************************************)
(* Integers in positional notation: what int.to_bytes, int.from_bytes,     *)
(* int.bit_length and the shifts of the codecs make of them.  A number is  *)
(* taken apart from its last digit on, by division that rounds down, and   *)
(* put together from its first.                                            *)
(***************************************************************************)
EXTENDS Integers, Sequences, SequencesExt

Octet == 0..255

\* Quotients(n, base)[k] is n without its last k digits.
Quotients(n, base) ==
    LET q[k \in Nat] == IF k = 0 THEN n ELSE q[k - 1] \div base
    IN  q

\* The number of digits of a natural number, none for zero.
Width(n, base) ==
    LET width[m \in Nat] == IF m = 0 THEN 0 ELSE 1 + width[m \div base]
    IN  width[n]

\* The lowest size digits of n, of its two's complement if n is negative.
Digits(n, base, size) ==
    LET q == Quotients(n, base)
    IN  [i \in 1..size |-> q[size - i] % base]

\* The number whose last digits are given; start is what comes before them.
Positional(start, digits, base) ==
    LET upTo[i \in 0..Len(digits)] ==
            IF i = 0 THEN start ELSE base * upTo[i - 1] + digits[i]
    IN  upTo[Len(digits)]

BitLength(n) == Width(n, 2)

BigEndian(n, size) == Digits(n, 256, size)

Unsigned(octets) == Positional(0, octets, 256)

\* Two's complement.
Signed(octets) == Positional(IF octets[1] >= 128 THEN -1 ELSE 0, octets, 256)

\* Nine equal leading bits, which 8.3.2 forbids.
Redundant(octets) ==
    /\ Len(octets) > 1
    /\ \/ octets[1] = 0 /\ octets[2] < 128
       \/ octets[1] = 255 /\ octets[2] >= 128
=============================================================================
