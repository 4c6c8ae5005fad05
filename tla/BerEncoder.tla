------------------------------ MODULE BerEncoder ------------------------------
(***************************************************************************)
(* The encoders of pyasn1.codec.ber, cer and der as they run on value      *)
(* objects (no asn1Spec): what Encoder.__call__ and the concrete encoders  *)
(* it hands itself to as encodeFun make of a value.  Octets are numbers.   *)
(***************************************************************************)
EXTENDS Integers, Sequences, FiniteSets

LOCAL INSTANCE SequencesExt
LOCAL INSTANCE TLC

CONSTANT CerChunk    \* fixedChunkSize of the CER encoder, 1000 octets

ASSUME CerChunkAssumption == CerChunk \in Nat \ {0}

(***************************************************************************)
(* A value object: its type, its tags (superTags, innermost first, an      *)
(* explicit one with the format bit), the contents octets of a leaf, the   *)
(* slots of anything that holds other values, and for a CHOICE the tags of *)
(* all its alternatives.  A slot holds a set of at most one value, as its  *)
(* default is one: SEQUENCE and SET have a slot for every field, the other *)
(* types one for every component.                                          *)
(***************************************************************************)
Object(type, tags, octs, slots, alternatives) ==
    [type |-> type, tags |-> tags, octs |-> octs, slots |-> slots,
     alternatives |-> alternatives]

Slot(kind, held, default) == [kind |-> kind, held |-> held, default |-> default]

Required(v) == Slot("required", {v}, {})

Held(slot) == CHOOSE v \in slot.held : TRUE

\* What INTEGER, BOOLEAN and NULL write at once, never in indefinite form.
Scalars == {"Integer", "Boolean", "Null"}

\* options, after fixedDefLengthMode and fixedChunkSize of the rules.
Options(rules, defMode, maxChunkSize, omitEmptyOptionals) ==
    [rules |-> rules,
     defMode |-> CASE rules = "CER" -> FALSE
                   [] rules = "DER" -> TRUE
                   [] rules = "BER" -> defMode,
     maxChunkSize |-> CASE rules = "CER" -> CerChunk
                        [] rules = "DER" -> 0
                        [] rules = "BER" -> maxChunkSize,
     omitEmptyOptionals |-> omitEmptyOptionals,
     ifNotEmpty |-> FALSE]

-----------------------------------------------------------------------------
(* Headers.                                                                *)

ConstructedFormat == 32

BareTag(octet) ==
    IF (octet \div ConstructedFormat) % 2 = 1 THEN octet - ConstructedFormat ELSE octet

EncodeTag(singleTag, isConstructed) ==
    IF isConstructed THEN BareTag(singleTag) + ConstructedFormat ELSE singleTag

\* The octets of a positive number, without leading zeros.
Base256(n) ==
    LET size == CHOOSE k \in 1..4 : n < 256^k /\ n >= 256^(k - 1)
    IN  [i \in 1..size |-> (n \div 256^(size - i)) % 256]

\* Mutant: the long form starts one too late.
EncodeLengthLate(v, length, defMode) ==
    IF ~defMode /\ v.type \notin Scalars THEN <<128>>
    ELSE IF length <= 128 THEN <<length>>
    ELSE <<128 + Len(Base256(length))>> \o Base256(length)

EncodeLength(v, length, defMode) ==
    IF ~defMode /\ v.type \notin Scalars THEN <<128>>
    ELSE IF length < 128 THEN <<length>>
    ELSE <<128 + Len(Base256(length))>> \o Base256(length)

eooOctetsSubstrate == <<0, 0>>

\* One header per tag around the contents.  Only the base tag of what is not
\* constructed overrides the mode; every other header in indefinite mode gets
\* its end-of-octets, whatever form its length has.
WithHeaders(o, v, contents, isConstructed) ==
    LET written[i \in 0..Len(v.tags)] ==
            IF i = 0 THEN contents
            ELSE LET defMode == o.defMode \/ (i = 1 /\ ~isConstructed)
                 IN  <<EncodeTag(v.tags[i], isConstructed)>>
                     \o EncodeLength(v, Len(written[i - 1]), defMode)
                     \o written[i - 1]
                     \o (IF defMode THEN <<>> ELSE eooOctetsSubstrate)
    IN  written[Len(v.tags)]

-----------------------------------------------------------------------------
(* Which components are written, and in which order.                       *)

\* The slots that are not skipped as absent or equal to their default.
Written(v) ==
    SelectSeq(v.slots, LAMBDA slot :
        /\ slot.held # {}
        /\ slot.kind = "defaulted" => slot.held # slot.default)

\* How Python compares tuples and bytes.
Precedes(s, t) ==
    \E i \in 1..Len(t) :
        /\ \A j \in 1..i - 1 : j <= Len(s) /\ s[j] = t[j]
        /\ i > Len(s) \/ s[i] < t[i]

TagSetOf(v) == [i \in DOMAIN v.tags |-> BareTag(v.tags[i])]

\* An untagged CHOICE sorts by its least alternative under CER, by the chosen
\* one under DER.
ComponentSortKey(rules, v) ==
    IF v.type # "Choice" \/ v.tags # <<>> THEN TagSetOf(v)
    ELSE IF rules = "DER" THEN TagSetOf(Held(v.slots[1]))
    ELSE CHOOSE t \in v.alternatives :
             \A u \in v.alternatives : u = t \/ Precedes(t, u)

Padded(chunk, size) ==
    [i \in 1..size |-> IF i <= Len(chunk) THEN chunk[i] ELSE 0]

\* Mutant: encodings are compared by their lengths only.
SortedChunksByLength(chunks) == SortSeq(chunks, LAMBDA s, t : Len(s) < Len(t))

\* SET OF: by the encodings, padded to the longest.
SortedChunks(chunks) ==
    LET maxLen == CHOOSE n \in {Len(chunks[i]) : i \in DOMAIN chunks} :
                      \A i \in DOMAIN chunks : Len(chunks[i]) <= n
    IN  IF Len(chunks) <= 1 THEN chunks
        ELSE SortSeq(chunks, LAMBDA s, t : Precedes(Padded(s, maxLen), Padded(t, maxLen)))

-----------------------------------------------------------------------------
(* The recursion.                                                          *)

Primitive(octets) == [octets |-> octets, isConstructed |-> FALSE]
Structure(octets) == [octets |-> octets, isConstructed |-> TRUE]

\* The fragments an OCTET STRING is cut into.
Fragments(octs, size) ==
    [i \in 1..(Len(octs) + size - 1) \div size |->
        Object("OctetString", <<4>>,
               SubSeq(octs, (i - 1) * size + 1,
                      IF i * size < Len(octs) THEN i * size ELSE Len(octs)), <<>>, {})]

\* options.update(ifNotEmpty=namedType.isOptional)
ForSlot(o, slot) ==
    IF o.omitEmptyOptionals THEN [o EXCEPT !.ifNotEmpty = slot.kind = "optional"] ELSE o

\* SequenceEncoder, and SetEncoder, which sorts: options reach every component.
InOrder(o, v) ==
    IF v.type = "Set" /\ o.rules # "BER"
    THEN SortSeq(Written(v), LAMBDA s, t :
             Precedes(ComponentSortKey(o.rules, Held(s)),
                      ComponentSortKey(o.rules, Held(t))))
    ELSE Written(v)

RECURSIVE Encode(_, _), EncodeValue(_, _)

EncodeAll(o, values) == [i \in DOMAIN values |-> Encode(o, values[i])]

EncodeValue(o, v) ==
    CASE v.type \in Scalars -> Primitive(v.octs)
      [] v.type = "OctetString" ->
           IF o.maxChunkSize = 0 \/ Len(v.octs) <= o.maxChunkSize THEN Primitive(v.octs)
           ELSE Structure(FlattenSeq(EncodeAll(o, Fragments(v.octs, o.maxChunkSize))))
      [] v.type \in {"Sequence", "Set"} ->
           LET slots == InOrder(o, v)
           IN  Structure(FlattenSeq([i \in DOMAIN slots |->
                                        Encode(ForSlot(o, slots[i]), Held(slots[i]))]))
      [] v.type \in {"SequenceOf", "SetOf"} ->
           LET chunks == [i \in DOMAIN v.slots |-> Encode(o, Held(v.slots[i]))]
           IN  Structure(FlattenSeq(IF v.type = "SetOf" /\ o.rules # "BER"
                                    THEN SortedChunks(chunks) ELSE chunks))
      [] v.type = "Choice" -> Structure(Encode(o, Held(v.slots[1])))
      [] v.type = "Any" -> [octets |-> v.octs, isConstructed |-> ~o.defMode]

Encode(o, v) ==
    LET substrate == EncodeValue(o, v)
    IN  IF v.tags = <<>> THEN substrate.octets
        ELSE IF /\ substrate.octets = <<>> /\ substrate.isConstructed
                /\ o.ifNotEmpty
        THEN <<>>
        ELSE WithHeaders(o, v, substrate.octets, substrate.isConstructed)
=============================================================================
