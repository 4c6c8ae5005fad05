----------------------------- MODULE RealContents -----------------------------
(***************************************************************************)
(* The contents octets of REAL: the binary and the decimal form, the four  *)
(* special values, and the canonical forms of CER and DER.                 *)
(*                                                                         *)
(* A value is [m, b, e], the number m * b^e with b = 2 or 10, or one of    *)
(* the four special values, which have b = 0 and their octet as m.  A      *)
(* decimal number is a string of ISO 646 codes.                            *)
(***************************************************************************)
EXTENDS Octets

\* The width of TLC's integers, which no mantissa or exponent may reach.
MaxBits == 30

Number(m, b, e) == [m |-> m, b |-> b, e |-> e]

SpecialCodes == 64..67

Abs(n) == IF n < 0 THEN -n ELSE n

\* How often factor divides n, which is not zero.
Times(n, factor) ==
    CHOOSE k \in 0..MaxBits :
        n % (factor^k) = 0 /\ (k < MaxBits => n % (factor^(k + 1)) # 0)

\* Real.prettyIn: a base 10 mantissa keeps no trailing zeros.
PrettyIn(v) ==
    IF v.b # 10 THEN v
    ELSE IF v.m = 0 THEN Number(0, 10, 0)
    ELSE Number(v.m \div 10^Times(v.m, 10), 10, v.e + Times(v.m, 10))

-----------------------------------------------------------------------------
(* The binary form.                                                        *)

\* The bits one digit of each base takes.
DigitBits(encbase) == CASE encbase = 2 -> 1 [] encbase = 8 -> 3 [] encbase = 16 -> 4

Sign(n) == IF n < 0 THEN -1 ELSE 1

(***************************************************************************)
(* _dropFloatingPoint: the mantissa takes the part of the exponent that    *)
(* the base cannot express, a fraction if the exponent is negative, and is *)
(* then multiplied by the base until it is whole.  A mantissa is exact     *)
(* here; the code's float has 53 bits.                                     *)
(***************************************************************************)
DropFloatingPoint(m, encbase, e) ==
    LET bits  == DigitBits(encbase)
        odd   == Abs(e) % bits
        whole == Sign(e) * (Abs(e) \div bits)
        down  == IF e < 0 THEN odd ELSE 0
        up    == IF e < 0 THEN 0 ELSE odd
        steps == CHOOSE k \in 0..1 :
                    /\ (Abs(m) * encbase^k) % 2^down = 0
                    /\ k = 1 => Abs(m) % 2^down # 0
    IN  [sign |-> Sign(m), base |-> encbase, e |-> whole - steps,
         m |-> (Abs(m) * 2^up * encbase^steps) \div 2^down]

\* binEncBase = None: the base with the smallest exponent, then mantissa.
AutoEncBase(v) ==
    LET Better(new, old) ==
            Abs(new.e) < Abs(old.e) \/ (Abs(new.e) = Abs(old.e) /\ new.m < old.m)
        first == DropFloatingPoint(v.m, 2, v.e)
    IN  FoldLeft(LAMBDA best, base :
                     LET new == DropFloatingPoint(v.m, base, v.e)
                     IN  IF Better(new, best) THEN new ELSE best,
                 first, <<8, 16>>)

ChooseEncBase(v, encbase) ==
    IF encbase = 0 THEN AutoEncBase(v) ELSE DropFloatingPoint(v.m, encbase, v.e)

\* Mutant: the exponent's sign bit is not looked at.
EncodeExponentUnsigned(exponent) ==
    LET size == CHOOSE n \in 1..4 : /\ exponent \div 256^n \in {0, -1}
                                    /\ n > 1 => exponent \div 256^(n - 1) \notin {0, -1}
    IN  BigEndian(exponent, size)

EncodeExponent(exponent) ==
    LET size == CHOOSE n \in 1..4 : /\ exponent \div 256^n \in {0, -1}
                                    /\ n > 1 => exponent \div 256^(n - 1) \notin {0, -1}
        octets == BigEndian(exponent, size)
    IN  CASE exponent >= 0 /\ octets[1] >= 128 -> <<0>> \o octets
          [] exponent < 0 /\ octets[1] < 128   -> <<255>> \o octets
          [] OTHER                             -> octets

EncodeMantissa(mantissa) ==
    BigEndian(mantissa, (BitLength(mantissa) + 7) \div 8)

EncodeBinary(chosen) ==
    LET digits == Times(chosen.m, chosen.base)
        rest   == chosen.m \div chosen.base^digits
        scale  == Times(rest, 2)
        exponentOctets == EncodeExponent(chosen.e + digits)
        size   == Len(exponentOctets)
        first  == 128 + (IF chosen.sign < 0 THEN 64 ELSE 0)
                  + 16 * (CASE chosen.base = 2 -> 0 [] chosen.base = 8 -> 1
                            [] chosen.base = 16 -> 2)
                  + 4 * scale + (IF size > 3 THEN 3 ELSE size - 1)
    IN  <<first>> \o (IF size > 3 THEN <<size>> ELSE <<>>) \o exponentOctets
        \o EncodeMantissa(rest \div 2^scale)

\* Bits first..last of an octet, counted from bit 1, the least significant.
Bits(octet, first, last) == (octet \div 2^(first - 1)) % 2^(last - first + 1)

\* Where the exponent's octets are, in the contents octets after the first.
ExponentSize(octets) ==
    IF Bits(octets[1], 1, 2) = 3 THEN octets[2] ELSE Bits(octets[1], 1, 2) + 1

ExponentStart(octets) == IF Bits(octets[1], 1, 2) = 3 THEN 3 ELSE 2

ExponentOctets(octets) ==
    LET last == ExponentStart(octets) + ExponentSize(octets) - 1
    IN  SubSeq(octets, ExponentStart(octets),
               IF last < Len(octets) THEN last ELSE Len(octets))

MantissaOctets(octets) ==
    SubSeq(octets, ExponentStart(octets) + ExponentSize(octets), Len(octets))

BinaryIncomplete(octets) ==
    \/ Len(octets) < 2
    \/ ExponentOctets(octets) = <<>>
    \/ MantissaOctets(octets) = <<>>

BinaryNumber(octets) ==
    LET mantissa == Unsigned(MantissaOctets(octets)) * 2^Bits(octets[1], 3, 4)
        base     == Bits(octets[1], 5, 6)
        exponent == Signed(ExponentOctets(octets))
    IN  Number(IF Bits(octets[1], 7, 7) = 1 THEN -mantissa ELSE mantissa, 2,
               CASE base = 0 -> exponent [] base = 1 -> 3 * exponent
                 [] base = 2 -> 4 * exponent)

DecodeBinary(octets) ==
    IF BinaryIncomplete(octets) \/ Bits(octets[1], 5, 6) > 2 THEN {}
    ELSE {BinaryNumber(octets)}

\* Mutant: a sign octet may be repeated in the exponent.
BinaryNotCanonicalLax(octets) ==
    \/ Bits(octets[1], 5, 6) # 0
    \/ Bits(octets[1], 3, 4) # 0
    \/ /\ ~BinaryIncomplete(octets)
       /\ LET mantissa == MantissaOctets(octets)
          IN  \/ Len(mantissa) > 1 /\ mantissa[1] = 0
              \/ Unsigned(mantissa) # 0 /\ Last(mantissa) % 2 = 0

\* _verifyBinaryForm
BinaryNotCanonical(octets) ==
    \/ Bits(octets[1], 5, 6) # 0
    \/ Bits(octets[1], 3, 4) # 0
    \/ /\ ~BinaryIncomplete(octets)
       /\ LET mantissa == MantissaOctets(octets)
          IN  \/ Redundant(ExponentOctets(octets))
              \/ Len(mantissa) > 1 /\ mantissa[1] = 0
              \/ Unsigned(mantissa) # 0 /\ Last(mantissa) % 2 = 0

-----------------------------------------------------------------------------
(* The decimal form.                                                       *)

Plus == 43
Comma == 44
Minus == 45
FullStop == 46
Space == 32
ExponentMark == 69

IsDigit(code) == code \in 48..57

AllDigits(text) == \A i \in DOMAIN text : IsDigit(text[i])

\* str(n) for an integer.
Numeral(n) ==
    LET size == CHOOSE k \in 1..10 : Abs(n) < 10^k /\ (k > 1 => 10^(k - 1) <= Abs(n))
    IN  (IF n < 0 THEN <<Minus>> ELSE <<>>)
        \o [i \in 1..size |-> 48 + ((Abs(n) \div 10^(size - i)) % 10)]

DigitsValue(digits) == FoldLeft(LAMBDA n, code : n * 10 + code - 48, 0, digits)

\* "m.Ee"; CER and DER move trailing zeros and write a zero exponent "+0".
EncodeCharacter(rules, m, e) ==
    LET zeros == IF rules = "BER" \/ m = 0 THEN 0 ELSE Times(m, 10)
        exponent == e + zeros
    IN  <<3>> \o Numeral(m \div 10^zeros) \o <<FullStop, ExponentMark>>
        \o (IF rules # "BER" /\ exponent = 0 THEN <<Plus, 48>> ELSE Numeral(exponent))

Signless(text) ==
    IF text # <<>> /\ Head(text) \in {Plus, Minus} THEN Tail(text) ELSE text

Before(text, i) == SubSeq(text, 1, i - 1)
After(text, i)  == SubSeq(text, i + 1, Len(text))

\* _ISO6093_FORMS: an integer, one with a decimal mark, one with an exponent.
IsNR1(text) == Signless(text) # <<>> /\ AllDigits(Signless(text))

Marks(text) == {i \in DOMAIN text : text[i] \in {FullStop, Comma}}

IsNR2(text) ==
    LET t == Signless(text)
    IN  Len(t) > 1 /\ \E i \in Marks(t) : AllDigits(Before(t, i)) /\ AllDigits(After(t, i))

ExponentMarks(text) == {i \in DOMAIN text : text[i] \in {ExponentMark, 101}}

IsNR3(text) ==
    \E i \in ExponentMarks(text) : IsNR2(Before(text, i)) /\ IsNR1(After(text, i))

IsForm(form, text) ==
    CASE form = 1 -> IsNR1(text) [] form = 2 -> IsNR2(text) [] form = 3 -> IsNR3(text)
      [] OTHER -> FALSE

Stripped(text) ==
    LET inner == {i \in DOMAIN text : text[i] # Space}
    IN  IF inner = {} THEN <<>>
        ELSE SubSeq(text, CHOOSE i \in inner : \A j \in inner : i <= j,
                          CHOOSE i \in inner : \A j \in inner : i >= j)

SignedNumeral(text) ==
    (IF Head(text) = Minus THEN -1 ELSE 1) * DigitsValue(Signless(text))

\* int(text), or the sign, digits and exponent of decimal.Decimal(text).
DecimalNumber(form, text) ==
    LET marked   == IF form = 3
                    THEN Before(text, CHOOSE i \in ExponentMarks(text) : TRUE) ELSE text
        exponent == IF form = 3
                    THEN SignedNumeral(After(text, CHOOSE i \in ExponentMarks(text) : TRUE))
                    ELSE 0
        mark     == CHOOSE i \in Marks(marked) : TRUE
    IN  IF form = 1 THEN Number(SignedNumeral(text), 10, 0)
        ELSE Number(SignedNumeral(Before(marked, mark) \o After(marked, mark)), 10,
                    exponent - Len(After(marked, mark)))

DecodeCharacter(octets) ==
    LET text == Stripped(Tail(octets))
    IN  IF IsForm(Bits(octets[1], 1, 6), text)
        THEN {DecimalNumber(Bits(octets[1], 1, 6), text)} ELSE {}

-----------------------------------------------------------------------------
(* RealEncoder.encodeValue and RealDecoder.valueDecoder.  encbase is       *)
(* value.binEncBase or the encoder's, 0 standing for None in both; CER and *)
(* DER always take the value's own base.                                   *)

EncodeReal(rules, encbase, v) ==
    CASE v.b = 0              -> <<v.m>>
      [] v.b # 0 /\ v.m = 0   -> <<>>
      [] v.b = 10 /\ v.m # 0  -> EncodeCharacter(rules, v.m, v.e)
      [] v.b = 2 /\ v.m # 0   ->
            EncodeBinary(ChooseEncBase(v, IF rules = "BER" THEN encbase ELSE 2))

\* _verifyCanonicalForm
NotCanonical(octets) ==
    /\ Len(octets) > 1
    /\ \/ octets[1] >= 128 /\ BinaryNotCanonical(octets)
       \/ octets[1] < 64 /\ octets[1] # 3

DecodeSpecial(octets) ==
    IF Len(octets) = 1 /\ octets[1] \in SpecialCodes
    THEN {Number(octets[1], 0, 0)} ELSE {}

DecodeReal(rules, octets) ==
    IF octets = <<>> THEN {Number(0, 10, 0)}
    ELSE IF rules # "BER" /\ NotCanonical(octets) THEN {}
    ELSE {PrettyIn(v) : v \in
            IF octets[1] >= 128 THEN DecodeBinary(octets)
            ELSE IF octets[1] >= 64 THEN DecodeSpecial(octets)
            ELSE DecodeCharacter(octets)}
=============================================================================
