---------------------------- MODULE ScalarContents ----------------------------
(***************************************************************************)
(* What the concrete encoders and decoders of BER, CER and DER make of the *)
(* contents octets of INTEGER, BOOLEAN, NULL, OBJECT IDENTIFIER,           *)
(* RELATIVE-OID, BIT STRING and the octet and character strings.           *)
(*                                                                         *)
(* A value is an integer, a sequence of arcs, of bits or of octets.  What  *)
(* is on the wire is a sequence of fragments, each the contents octets of  *)
(* one encoding; a primitive encoding is its own only fragment, and one in *)
(* fragments is of indefinite length, the form CER asks for.  A decoder    *)
(* returns the set of the one value it reads, or the empty set where the   *)
(* code raises PyAsn1Error.                                                *)
(***************************************************************************)
EXTENDS Octets

CONSTANTS
    MaxArcOctets,    \* MAX_OID_ARC_CONTINUATION_OCTETS
    CerSize          \* fixedChunkSize of the CER encoder

ASSUME MaxArcOctetsAssumption == MaxArcOctets \in Nat \ {0}
ASSUME CerSizeAssumption == CerSize \in Nat \ {0, 1}

-----------------------------------------------------------------------------
(* INTEGER, ENUMERATED, BOOLEAN and NULL.                                  *)

EncodeInteger(v) ==
    IF v = 0 THEN <<0>>
    ELSE BigEndian(v, BitLength(IF v >= 0 THEN v ELSE -v - 1) \div 8 + 1)

DecodeInteger(rules, octets) ==
    IF octets = <<>> \/ (rules # "BER" /\ Redundant(octets)) THEN {}
    ELSE {Signed(octets)}

EncodeBoolean(rules, v) ==
    IF v = 0 THEN <<0>> ELSE IF rules = "BER" THEN <<1>> ELSE <<255>>

DecodeBoolean(rules, octets) ==
    IF \/ Len(octets) # 1
       \/ rules # "BER" /\ octets[1] \notin {0, 255}
    THEN {} ELSE {IF octets[1] = 0 THEN 0 ELSE 1}

EncodeNull == <<>>

DecodeNull(octets) == IF octets = <<>> THEN {""} ELSE {}

-----------------------------------------------------------------------------
(* OBJECT IDENTIFIER and RELATIVE-OID.                                     *)

\* One sub-identifier, base 128, all octets but the last marked.
Packed(arc) ==
    LET size   == IF arc = 0 THEN 1 ELSE Width(arc, 128)
        digits == Digits(arc, 128, size)
    IN  [i \in 1..size |-> IF i < size THEN 128 + digits[i] ELSE digits[i]]

EncodeArcs(arcs) == FlattenSeq([i \in DOMAIN arcs |-> Packed(arcs[i])])

\* The two leading arcs share a sub-identifier.
OidRefused(oid) ==
    \/ Len(oid) < 2
    \/ oid[1] > 2
    \/ oid[2] > 39 /\ oid[1] # 2

EncodeOid(oid) ==
    IF OidRefused(oid) THEN {}
    ELSE {EncodeArcs(<<oid[2] + 40 * oid[1]>> \o SubSeq(oid, 3, Len(oid)))}

StartsArc(octets, i) == i = 1 \/ octets[i - 1] < 128

\* Mutant: one continuation octet more than the limit is let through.
ArcsRefusedLate(octets) ==
    \/ octets = <<>>
    \/ Last(octets) >= 128
    \/ \E i \in DOMAIN octets :
          /\ StartsArc(octets, i)
          /\ \/ octets[i] = 128
             \/ \A j \in i..i + MaxArcOctets + 1 :
                   j \in DOMAIN octets /\ octets[j] >= 128

\* No octets; an unfinished sub-identifier; a leading 0x80; too many octets.
ArcsRefused(octets) ==
    \/ octets = <<>>
    \/ Last(octets) >= 128
    \/ \E i \in DOMAIN octets :
          /\ StartsArc(octets, i)
          /\ \/ octets[i] = 128
             \/ \A j \in i..i + MaxArcOctets :
                   j \in DOMAIN octets /\ octets[j] >= 128

\* The loop over the octets: arcs done, and the one in progress.
Unpacked(octets) ==
    LET after[i \in 0..Len(octets)] ==
            IF i = 0 THEN [arcs |-> <<>>, subId |-> 0]
            ELSE LET s == after[i - 1]
                 IN  IF octets[i] >= 128
                     THEN [s EXCEPT !.subId = 128 * @ + (octets[i] - 128)]
                     ELSE [arcs |-> Append(s.arcs, 128 * s.subId + octets[i]), subId |-> 0]
    IN  after[Len(octets)].arcs

DecodeArcs(octets) == IF ArcsRefused(octets) THEN {} ELSE {Unpacked(octets)}

FirstTwo(subId) ==
    IF subId <= 39 THEN <<0, subId>>
    ELSE IF subId <= 79 THEN <<1, subId - 40>>
    ELSE <<2, subId - 80>>

DecodeOid(octets) == {FirstTwo(Head(arcs)) \o Tail(arcs) : arcs \in DecodeArcs(octets)}

-----------------------------------------------------------------------------
(* BIT STRING and OCTET STRING, whole or in fragments.                     *)

Primitive(octets) == [constructed |-> FALSE, fragments |-> <<octets>>]

\* s cut into pieces of size elements, the last one shorter.
Cut(s, size) ==
    [k \in 1..(Len(s) + size - 1) \div size |->
        SubSeq(s, (k - 1) * size + 1, IF k * size < Len(s) THEN k * size ELSE Len(s))]

\* The unused bits' number, then the bits from bit 8 of the first octet on.
BitsPrimitive(bits) ==
    LET size == (Len(bits) + 7) \div 8
        At(i) == IF i <= Len(bits) THEN bits[i] ELSE 0
    IN  <<size * 8 - Len(bits)>>
        \o [k \in 1..size |-> Positional(0, [i \in 1..8 |-> At(8 * (k - 1) + i)], 2)]

\* Mutant: the octet that counts the unused bits is not budgeted for.
ChunkBitsOverrun(maxChunkSize) == maxChunkSize * 8

ChunkBits(maxChunkSize) == (IF maxChunkSize > 2 THEN maxChunkSize - 1 ELSE 1) * 8

EncodeBitString(maxChunkSize, bits) ==
    LET aligned == 8 * ((Len(bits) + 7) \div 8)
    IN  IF maxChunkSize = 0 \/ aligned <= ChunkBits(maxChunkSize)
        THEN Primitive(BitsPrimitive(bits))
        ELSE LET cut == Cut(bits, ChunkBits(maxChunkSize))
             IN  [constructed |-> TRUE,
                  fragments |-> [k \in DOMAIN cut |-> BitsPrimitive(cut[k])]]

SegmentRefused(octets) ==
    \/ octets = <<>>
    \/ octets[1] > 7
    \/ Len(octets) = 1 /\ octets[1] # 0

\* fromOctetString(octets[1:], padding=octets[0])
SegmentBits(octets) ==
    [i \in 1..8 * (Len(octets) - 1) - octets[1] |->
        Digits(octets[(i + 7) \div 8 + 1], 2, 8)[((i - 1) % 8) + 1]]

UnusedBitsSet(octets) ==
    /\ Len(octets) > 1 /\ octets[1] < 8
    /\ \E i \in 8 - octets[1] + 1..8 : Digits(Last(octets), 2, 8)[i] = 1

DecodeBitString(rules, wire) ==
    IF \/ \E k \in DOMAIN wire.fragments : SegmentRefused(wire.fragments[k])
       \/ wire.constructed /\ rules = "DER"
       \/ ~wire.constructed /\ rules # "BER" /\ UnusedBitsSet(wire.fragments[1])
    THEN {}
    ELSE {FlattenSeq([k \in DOMAIN wire.fragments |-> SegmentBits(wire.fragments[k])])}

EncodeOctetString(maxChunkSize, octets) ==
    IF maxChunkSize = 0 \/ Len(octets) <= maxChunkSize THEN Primitive(octets)
    ELSE [constructed |-> TRUE, fragments |-> Cut(octets, maxChunkSize)]

fragmentSize == CerSize

\* _verifySizes, on the fragments that recordingDecodeFun has seen.
SizesRefused(fragments) ==
    \/ Len(fragments) < 2
    \/ \E k \in DOMAIN fragments :
          /\ k < Len(fragments)
          /\ Len(fragments[k]) # fragmentSize
    \/ Len(Last(fragments)) \notin 1..fragmentSize

DecodeOctetString(rules, wire) ==
    IF wire.constructed /\ (rules = "DER" \/ (rules = "CER" /\ SizesRefused(wire.fragments)))
    THEN {} ELSE {FlattenSeq(wire.fragments)}
=============================================================================
