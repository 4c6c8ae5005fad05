----------------------------- MODULE TimeContents -----------------------------
(***************************************************************************)
(* GeneralizedTime and UTCTime: their text, the instant it names, and what *)
(* CER and DER make of it.                                                 *)
(*                                                                         *)
(* A text is the number of digits before the fraction (integral), whether  *)
(* they say hour 24, the mark and digits of the fraction, and the zone.    *)
(* The calendar is left out: the digits before the fraction are carried    *)
(* through every conversion but checked only for their number.             *)
(***************************************************************************)
EXTENDS Octets

\* Class attributes of the two types, and of their CER and DER encoders.
GeneralizedTime ==
    [yearsDigits |-> 4, hasSubsecond |-> TRUE, optionalMinutes |-> TRUE,
     shortTZ |-> TRUE, MIN_LENGTH |-> 12, MAX_LENGTH |-> 20]

UTCTime ==
    [yearsDigits |-> 2, hasSubsecond |-> FALSE, optionalMinutes |-> FALSE,
     shortTZ |-> FALSE, MIN_LENGTH |-> 10, MAX_LENGTH |-> 14]

Text(integral, midnight24, mark, fraction, zone, offset) ==
    [integral |-> integral, midnight24 |-> midnight24, mark |-> mark,
     fraction |-> fraction, zone |-> zone, offset |-> offset]

Texts ==
    {text \in [integral : Nat, midnight24 : BOOLEAN, mark : {"none", ".", ","},
               fraction : Seq(0..9), zone : {"none", "Z", "+", "-"}, offset : Seq(0..9)] :
        /\ text.mark = "none" => text.fraction = <<>>
        /\ text.zone \in {"none", "Z"} => text.offset = <<>>}

MarkLength(text) == IF text.mark = "none" THEN 0 ELSE 1

ZoneLength(text) == IF text.zone = "none" THEN 0 ELSE 1 + Len(text.offset)

TextLength(text) ==
    text.integral + MarkLength(text) + Len(text.fraction) + ZoneLength(text)

-----------------------------------------------------------------------------
(* TimeMixIn.                                                              *)

NotCanonical(type, text) ==
    \/ text.zone # "Z"
    \/ text.mark = ","
    \/ text.integral # type.yearsDigits + 10
    \/ /\ text.mark = "."
       /\ \/ ~type.hasSubsecond
          \/ text.fraction = <<>>
          \/ Last(text.fraction) = 0
    \/ text.midnight24

\* digits[:6].ljust(6, "0")
Padded(fraction) == [i \in 1..6 |-> IF i <= Len(fraction) THEN fraction[i] ELSE 0]

Microseconds(fraction) == Positional(0, Padded(fraction), 10)

\* Minutes east of UTC; naive is what has no zone.
Instant(integral, microsecond, naive, minutes) ==
    [integral |-> integral, microsecond |-> microsecond, naive |-> naive,
     minutes |-> minutes]

FullOffset(type, text) ==
    IF type.shortTZ /\ Len(text.offset) = 2 THEN text.offset \o <<0, 0>> ELSE text.offset

OffsetMinutes(digits) == (digits[1] * 10 + digits[2]) * 60 + digits[3] * 10 + digits[4]

\* datetime.timezone takes less than a day.
OffsetRefused(digits) == Len(digits) # 4 \/ OffsetMinutes(digits) >= 24 * 60

\* Minutes or seconds that the text leaves out are zero.
FullIntegral(type, text) ==
    IF \/ type.optionalMinutes /\ text.integral = type.yearsDigits + 6
       \/ text.integral = type.yearsDigits + 8
    THEN type.yearsDigits + 10 ELSE text.integral

\* A text with a field of one digit is refused here; strptime takes some.
AsDateTime(type, text) ==
    IF \/ text.zone \in {"+", "-"} /\ OffsetRefused(FullOffset(type, text))
       \/ text.mark # "none" /\ text.fraction = <<>>
       \/ FullIntegral(type, text) # type.yearsDigits + 10
       \/ text.midnight24
    THEN {}
    ELSE {Instant(FullIntegral(type, text),
                  IF text.mark = "none" THEN 0 ELSE Microseconds(text.fraction),
                  text.zone = "none",
                  CASE text.zone = "+" -> OffsetMinutes(FullOffset(type, text))
                    [] text.zone = "-" -> -OffsetMinutes(FullOffset(type, text))
                    [] OTHER -> 0)}

SignificantDigits(digits) ==
    SubSeq(digits, 1, CHOOSE k \in 0..Len(digits) :
                         /\ \A i \in k + 1..Len(digits) : digits[i] = 0
                         /\ k > 0 => digits[k] # 0)

SixDigits(n) == Digits(n, 10, 6)

\* Mutant: the hours are taken from the offset before its sign is.
OffsetDigitsFloored(minutes) ==
    LET hours == minutes \div 60
        rest  == minutes % 60
        abs   == IF hours < 0 THEN -hours ELSE hours
    IN  <<abs \div 10, abs % 10, rest \div 10, rest % 10>>

\* HHMM of an offset without its sign.
OffsetDigits(minutes) ==
    LET abs == IF minutes < 0 THEN -minutes ELSE minutes
    IN  <<abs \div 600, (abs \div 60) % 10, (abs % 60) \div 10, abs % 10>>

FromDateTime(type, dt) ==
    LET fraction == IF type.hasSubsecond /\ dt.microsecond # 0
                    THEN SignificantDigits(SixDigits(dt.microsecond)) ELSE <<>>
    IN  Text(type.yearsDigits + 10, FALSE,
             IF fraction = <<>> THEN "none" ELSE ".", fraction,
             CASE dt.minutes < 0 -> "-" [] dt.minutes > 0 -> "+" [] OTHER -> "Z",
             IF dt.minutes = 0 THEN <<>> ELSE OffsetDigits(dt.minutes))

-----------------------------------------------------------------------------
(* TimeEncoderMixIn.                                                       *)

EncodingRefused(text) ==
    text.zone # "Z" \/ text.mark = ","

\* The first digits, without the zeros among them.
WithoutZeros(digits, searched) ==
    FlattenSeq([i \in 1..searched |-> IF digits[i] = 0 THEN <<>> ELSE <<digits[i]>>])

(***************************************************************************)
(* The loop runs from the fourth digit of the fraction, or its last, back  *)
(* to the full stop and deletes every zero on its way; a full stop that    *)
(* has come to stand before the Z goes too.                                *)
(***************************************************************************)
NormalisedFraction(fraction) ==
    LET searched == IF Len(fraction) < 4 THEN Len(fraction) ELSE 4
    IN  WithoutZeros(fraction, searched) \o SubSeq(fraction, searched + 1, Len(fraction))

Normalised(text) ==
    IF text.mark = "none" THEN text
    ELSE LET fraction == NormalisedFraction(text.fraction)
         IN  Text(text.integral, text.midnight24,
                  IF fraction = <<>> THEN "none" ELSE ".", fraction, text.zone, text.offset)

EncodeTime(type, text) ==
    IF \/ EncodingRefused(text)
       \/ TextLength(Normalised(text)) \notin type.MIN_LENGTH + 1..type.MAX_LENGTH - 1
       \/ NotCanonical(type, Normalised(text))
    THEN {} ELSE {Normalised(text)}

\* CanonicalTimeDecoderMixIn on what the string decoder has read.
DecodeTime(rules, type, text) ==
    IF rules # "BER" /\ NotCanonical(type, text) THEN {} ELSE {text}
=============================================================================
