------------------------------ MODULE BerDecoder ------------------------------
(***************************************************************************)
(* The decoder of pyasn1.codec.ber.decoder as it runs without an asn1Spec. *)
(*                                                                         *)
(* Decoder.__call__ is a state machine that reads one identifier and one   *)
(* length and then hands the contents to a concrete decoder; constructed   *)
(* decoders call it again for every component.  The recursion is an        *)
(* explicit stack here: frames[1..depth] are the calls in progress, and    *)
(* _nestingLevel is depth - 1.                                             *)
(*                                                                         *)
(* The slices the code passes around (substrate, head, tail) are windows   *)
(* of the one substrate being decoded: a frame may read the octets at      *)
(* pos .. end - 1.  Octets keep their numeric value, so the same octet is  *)
(* an identifier, a length or contents depending on where it is read.      *)
(*                                                                         *)
(* BER, CER and DER share this machine and differ in four class attributes *)
(* and in the classes that check contents in CER and DER.  The model stops *)
(* with the status "unmodelled" where it meets the identifier of a type    *)
(* whose codec is not here or a tag number above 30.                       *)
(***************************************************************************)
EXTENDS Integers, Sequences, FiniteSets

CONSTANTS
    Inputs,        \* what decode() may be given: a codec's rules and octets
    MaxNesting,    \* MAX_NESTING_DEPTH
    FragmentSize   \* fragmentSize of CER's string decoders, 1000 octets

Octet == 0..255

\* Class attributes of Decoder and OctetStringDecoder in each codec.
\* canonicalContents: the codec has cer.decoder's classes for BOOLEAN,
\* INTEGER and OCTET STRING (der.decoder derives from them).
BER == [supportIndefLength |-> TRUE, supportConstructedForm |-> TRUE,
        requireMinimalLength |-> FALSE,
        requireIndefLengthForConstructed |-> FALSE,
        canonicalContents |-> FALSE]

CER == [BER EXCEPT !.requireMinimalLength = TRUE,
                   !.requireIndefLengthForConstructed = TRUE,
                   !.canonicalContents = TRUE]

DER == [BER EXCEPT !.requireMinimalLength = TRUE,
                   !.supportIndefLength = FALSE,
                   !.supportConstructedForm = FALSE,
                   !.canonicalContents = TRUE]

(***************************************************************************)
(* Universal tags with a codec here: BOOLEAN, INTEGER, OCTET STRING, NULL, *)
(* SEQUENCE and SET.  The other universal types only differ in what they   *)
(* make of their contents octets.                                          *)
(***************************************************************************)
TagMap == [id \in {1, 2, 4, 5, 16, 17} |->
              CASE id = 1  -> "Boolean"
                []  id = 2  -> "Integer"
                []  id = 4  -> "OctetString"
                []  id = 5  -> "Null"
                []  id \in {16, 17} -> "Constructed"]

\* Universal tags whose codec is not in TagMap; 0, 8, 11, 14, 15 and 29 have none.
OtherTypes == {3, 6, 7, 9, 10, 12, 13} \cup 18..28 \cup {30}

Universal(octet)   == octet \div 64 = 0
Constructed(octet) == (octet \div 32) % 2 = 1
TagId(octet)       == octet % 32

\* Tags compare without their format bit.
Bare(octet) == IF Constructed(octet) THEN octet - 32 ELSE octet

ASSUME InputsAssumption ==
    \A in \in Inputs :
        /\ in = [rules |-> in.rules, octets |-> in.octets]
        /\ in.rules \in {BER, CER, DER}
        /\ in.octets \in Seq(Octet)

ASSUME MaxNestingAssumption == MaxNesting \in Nat

ASSUME FragmentSizeAssumption == FragmentSize \in Nat \ {0}

MAX_LENGTH_OCTETS == 8

Indefinite == -1

(***************************************************************************)
(* Decoded values.  tags is the tagSet (innermost first, formats dropped), *)
(* octs the contents of a leaf, kids the components of a container.        *)
(***************************************************************************)
Leaf(type, tags, octs) ==
    [type |-> type, tags |-> tags, octs |-> octs, kids |-> <<>>]

EndOfOctets == Leaf("EndOfOctets", <<0>>, <<>>)

NoValue == Leaf("noValue", <<>>, <<>>)

\* _decodeComponents guesses a record when the components differ in tagSet.
Container(tags, kids) ==
    [type |-> IF Cardinality({kids[i].tags : i \in DOMAIN kids}) > 1
              THEN "Record" ELSE "SequenceOf",
     tags |-> tags, octs |-> <<>>, kids |-> kids]

-----------------------------------------------------------------------------
VARIABLES
    input,       \* the rules of the codec and the octets being decoded
    frames,      \* the calls in progress, frames[depth] the running one
    parts,       \* parts[i]: what frame i has decoded of its contents
    depth,       \* number of calls in progress
    result,      \* what the last call to return handed to its caller
    status       \* "decoding", "value", the kind of error raised, or "unmodelled"

vars == <<input, frames, parts, depth, result, status>>

substrate == input.octets

Levels == 1..(MaxNesting + 2)

\* spec is "fragment" when a string decoder asks for one of its fragments
\* (its prototype as asn1Spec and substrateCollector as substrateFun), and
\* "segment" when that of CER asks, through recordingDecodeFun.
NewFrame(pos, end, spec, tags, allowEoo) ==
    [st |-> "enter", spec |-> spec, allowEoo |-> allowEoo,
     pos |-> pos, end |-> end, tags |-> tags, len |-> 0,
     decoder |-> "none", start |-> pos, stop |-> end]

NoFrame == [NewFrame(1, 1, "none", <<>>, FALSE) EXCEPT !.st = "idle"]

F == frames[depth]

Running(st) == status = "decoding" /\ depth > 0 /\ F.st = st

Octets(from, to) == SubSeq(substrate, from, to - 1)

TagSet(f) == [i \in 1..Len(f.tags) |-> Bare(f.tags[i])]

(***************************************************************************)
(* The three ways a step of a frame ends: it goes on in the same frame,    *)
(* calls the decoder again, or leaves (returning a value or raising).      *)
(***************************************************************************)
Continue(f) ==
    /\ frames' = [frames EXCEPT ![depth] = f]
    /\ UNCHANGED <<input, depth, result, status>>

\* Mutant: the component is handed all that is left, not the contents.
CallWithTheRest(spec, tags, allowEoo) ==
    /\ frames' = [frames EXCEPT
                     ![depth].st = "wait",
                     ![depth + 1] = NewFrame(F.pos, F.end, spec, tags, allowEoo)]
    /\ depth' = depth + 1
    /\ UNCHANGED <<input, parts, result, status>>

\* Mutant: allowEoo stays in the options that are passed down.
CallPassingEooDown(spec, tags, allowEoo) ==
    /\ frames' = [frames EXCEPT
                     ![depth].st = "wait",
                     ![depth + 1] = NewFrame(F.pos, F.stop, spec, tags,
                                             allowEoo \/ F.allowEoo)]
    /\ depth' = depth + 1
    /\ UNCHANGED <<input, parts, result, status>>

Call(spec, tags, allowEoo) ==
    /\ frames' = [frames EXCEPT
                     ![depth].st = "wait",
                     ![depth + 1] = NewFrame(F.pos, F.stop, spec, tags, allowEoo)]
    /\ depth' = depth + 1
    /\ UNCHANGED <<input, parts, result, status>>

Return(value, pos) ==
    /\ result' = [val |-> value, pos |-> pos]
    /\ frames' = [frames EXCEPT ![depth] = NoFrame]
    /\ parts' = [parts EXCEPT ![depth] = <<>>]
    /\ depth' = depth - 1
    /\ status' = IF depth = 1 THEN "value" ELSE status
    /\ UNCHANGED input

\* No decoder catches what a nested call raises: every frame unwinds.
Raise(kind) ==
    /\ status' = kind
    /\ frames' = [i \in Levels |-> NoFrame]
    /\ parts' = [i \in Levels |-> <<>>]
    /\ depth' = 0
    /\ UNCHANGED <<input, result>>

-----------------------------------------------------------------------------
(* Decoder.__call__ up to the choice of a concrete decoder.                *)

\* Mutants: the limit is off by one, either way.
TooDeepLate == depth - 1 > MaxNesting + 1

TooDeepEarly == depth - 1 >= MaxNesting

TooDeep == depth - 1 > MaxNesting

AtEndOfOctets ==
    /\ F.allowEoo
    /\ input.rules.supportIndefLength
    /\ F.pos + 1 < F.end
    /\ substrate[F.pos] = 0 /\ substrate[F.pos + 1] = 0

NestingExceeded == Running("enter") /\ TooDeep /\ Raise("nesting")

EndOfOctetsSeen ==
    /\ Running("enter") /\ ~TooDeep
    /\ AtEndOfOctets
    /\ Return(EndOfOctets, F.pos + 2)

DecodeTag ==
    /\ Running("enter") /\ ~TooDeep
    /\ ~AtEndOfOctets
    /\ \/ F.pos >= F.end /\ Raise("underrun")
       \/ F.pos < F.end /\ TagId(substrate[F.pos]) = 31 /\ Raise("unmodelled")
       \/ /\ F.pos < F.end /\ TagId(substrate[F.pos]) # 31
          /\ Continue([F EXCEPT !.st = "length", !.pos = @ + 1,
                                !.tags = <<substrate[F.pos]>> \o @])
          /\ UNCHANGED parts

\* Number of octets the length field takes at F.pos, its first octet included.
LengthSize == IF substrate[F.pos] <= 128 THEN 1 ELSE substrate[F.pos] - 127

\* The big-endian number in the octets from .. from + size - 1.
BigEndian(octets, from, size) ==
    LET acc[i \in 0..size] ==
            IF i = 0 THEN 0 ELSE acc[i - 1] * 256 + octets[from + i - 1]
    IN  acc[size]

DecodedLength ==
    LET first == substrate[F.pos]
    IN  IF first < 128 THEN first
        ELSE IF first = 128 THEN Indefinite
        ELSE BigEndian(substrate, F.pos + 1, first - 128)

\* _checkMinimalLength: the short form where it fits, else no leading zero.
MinimalLength ==
    LengthSize > 1 => DecodedLength >= 128 /\ substrate[F.pos + 1] # 0

ShortOfLength == F.pos >= F.end

BadLengthForm ==
    \/ substrate[F.pos] = 255
    \/ LengthSize - 1 > MAX_LENGTH_OCTETS

ShortOfLengthOctets == F.pos + LengthSize > F.end

\* Mutant: _checkMinimalLength is not called.
LengthRefusedUnchecked ==
    \/ DecodedLength = Indefinite /\ ~input.rules.supportIndefLength
    \/ /\ DecodedLength # Indefinite
       /\ input.rules.requireIndefLengthForConstructed
       /\ Constructed(Head(F.tags))

\* Mutant: the definite form is let through for constructed encodings.
LengthRefusedDefiniteToo ==
    \/ input.rules.requireMinimalLength /\ ~MinimalLength
    \/ DecodedLength = Indefinite /\ ~input.rules.supportIndefLength

LengthRefused ==
    \/ input.rules.requireMinimalLength /\ ~MinimalLength
    \/ DecodedLength = Indefinite /\ ~input.rules.supportIndefLength
    \/ /\ DecodedLength # Indefinite
       /\ input.rules.requireIndefLengthForConstructed
       /\ Constructed(Head(F.tags))

ShortOfContents ==
    /\ DecodedLength # Indefinite
    /\ DecodedLength \notin 0..(F.end - (F.pos + LengthSize))

DecodeLength ==
    /\ Running("length")
    /\ \/ ShortOfLength /\ Raise("underrun")
       \/ ~ShortOfLength /\ BadLengthForm /\ Raise("malformed")
       \/ ~ShortOfLength /\ ~BadLengthForm /\ ShortOfLengthOctets /\ Raise("underrun")
       \/ /\ ~ShortOfLength /\ ~BadLengthForm /\ ~ShortOfLengthOctets
          /\ \/ LengthRefused /\ Raise("malformed")
             \/ ~LengthRefused /\ ShortOfContents /\ Raise("underrun")
             \/ /\ ~LengthRefused /\ ~ShortOfContents
                /\ LET from == F.pos + LengthSize
                   IN  Continue([F EXCEPT
                           !.st = "codec", !.len = DecodedLength,
                           !.pos = from, !.start = from,
                           !.stop = IF DecodedLength = Indefinite THEN F.end
                                    ELSE from + DecodedLength])
                /\ UNCHANGED parts

\* stGetValueDecoderByTag, ...ByAsn1Spec (for a fragment) and
\* stTryAsExplicitTag: which concrete decoder takes the contents.
Codec ==
    LET t == Head(F.tags)
        wanted == IF F.spec # "none" THEN {4} ELSE DOMAIN TagMap
    IN  IF Universal(t) /\ TagId(t) \in wanted THEN TagMap[TagId(t)]
        ELSE IF Constructed(t) /\ ~Universal(t) THEN "ExplicitTag"
        ELSE "none"

\* The type has a codec that is not modelled.
HasOtherCodec ==
    /\ F.spec = "none"
    /\ Universal(Head(F.tags)) /\ TagId(Head(F.tags)) \in OtherTypes

NoCodec ==
    /\ Running("codec") /\ Codec = "none"
    /\ \/ HasOtherCodec /\ Raise("unmodelled")
       \/ ~HasOtherCodec /\ Raise("malformed")

-----------------------------------------------------------------------------
(* Concrete decoders that take their contents at once.                     *)

\* _verifyMinimalEncoding: no INTEGER has a first octet that it can do without.
MinimalInteger(octs) ==
    Len(octs) > 1 => /\ ~(octs[1] = 0 /\ octs[2] < 128)
                     /\ ~(octs[1] = 255 /\ octs[2] >= 128)

ContentsFit(codec, octs) ==
    CASE codec = "Integer" -> /\ Len(octs) >= 1
                              /\ input.rules.canonicalContents => MinimalInteger(octs)
      [] codec = "Boolean" -> /\ Len(octs) = 1
                              /\ input.rules.canonicalContents => octs[1] \in {0, 255}
      [] codec = "Null"    -> Len(octs) = 0

\* Simple format, except that cer.decoder.BooleanDecoder does not look.
FormatFits(codec) ==
    ~Constructed(Head(F.tags)) \/ (codec = "Boolean" /\ input.rules.canonicalContents)

\* Integer, Boolean and Null: definite length only.
DecodeSimple ==
    /\ Running("codec")
    /\ Codec \in {"Integer", "Boolean", "Null"}
    /\ IF /\ F.len # Indefinite
          /\ FormatFits(Codec) /\ ContentsFit(Codec, Octets(F.pos, F.stop))
       THEN Return(Leaf(Codec, TagSet(F), Octets(F.pos, F.stop)), F.stop)
       ELSE Raise("malformed")

\* A string decoder called for a fragment hands it to substrateCollector
\* before it looks at the format; so does ExplicitTagDecoder.
Collected ==
    /\ F.spec # "none"
    /\ \/ Codec = "OctetString" /\ F.len # Indefinite
       \/ Codec = "ExplicitTag"

\* substrate[:length], substrate[length:] with length -1 splits off the last
\* octet of the substrate.
CollectedUpTo == IF F.len # Indefinite THEN F.stop
                 ELSE IF F.pos < F.end THEN F.end - 1 ELSE F.pos

CollectFragment ==
    /\ Running("codec") /\ Collected
    /\ Return(Leaf("Octets", TagSet(F), Octets(F.pos, CollectedUpTo)),
              CollectedUpTo)

DecodePrimitiveString ==
    /\ Running("codec") /\ ~Collected
    /\ Codec = "OctetString"
    /\ F.len # Indefinite /\ ~Constructed(Head(F.tags))
    /\ Return(Leaf("OctetString", TagSet(F), Octets(F.pos, F.stop)), F.stop)

-----------------------------------------------------------------------------
(* Concrete decoders that call the decoder for their components.           *)

IsIndefinite == F.len = Indefinite

\* What the code raises before the first nested call.
FormRefused ==
    \/ Codec = "Constructed" /\ ~Constructed(Head(F.tags))
    \/ Codec = "OctetString" /\ ~IsIndefinite /\ ~input.rules.supportConstructedForm

OpenContents ==
    /\ Running("codec") /\ ~Collected
    /\ \/ Codec \in {"Constructed", "ExplicitTag"}
       \/ Codec = "OctetString" /\ (IsIndefinite \/ Constructed(Head(F.tags)))
    /\ \/ FormRefused /\ Raise("malformed")
       \/ /\ ~FormRefused
          /\ Continue([F EXCEPT !.st = "loop", !.decoder = Codec])
          /\ UNCHANGED parts

NextComponent ==
    /\ Running("loop") /\ F.decoder = "Constructed"
    /\ F.pos < F.stop
    /\ Call("none", <<>>, IsIndefinite)

\* A string that no string asked for measures its fragments in CER (DER's
\* are not constructed).
SpecOfFragments ==
    IF F.spec = "none" /\ input.rules.canonicalContents THEN "segment" ELSE "fragment"

\* recordingDecodeFun refuses a constructed identifier before the call.
NextFragment ==
    /\ Running("loop") /\ F.decoder = "OctetString"
    /\ F.pos < F.stop
    /\ IF SpecOfFragments = "segment" /\ Constructed(substrate[F.pos])
       THEN Raise("malformed")
       ELSE Call(SpecOfFragments, <<>>, IsIndefinite)

\* The value under an explicit tag extends the tagSet read so far.
ExplicitValue ==
    /\ Running("loop") /\ F.decoder = "ExplicitTag"
    /\ Call("none", F.tags, FALSE)

\* The octets of strings, one string after the other.
Joined(strings) ==
    LET joined[i \in 0..Len(strings)] ==
            IF i = 0 THEN <<>> ELSE joined[i - 1] \o strings[i]
    IN  joined[Len(strings)]

Assembled ==
    IF F.decoder = "Constructed"
    THEN Container(TagSet(F), parts[depth])
    ELSE Leaf("OctetString", TagSet(F),
              Joined([i \in 1..Len(parts[depth]) |-> parts[depth][i].octs]))

\* The contents ran out.  A string of indefinite length insists on its
\* end-of-octets; _decodeComponents takes what it has.
ContentsExhausted ==
    /\ Running("loop") /\ F.decoder \in {"Constructed", "OctetString"}
    /\ F.pos >= F.stop
    /\ IF F.decoder = "OctetString" /\ IsIndefinite
       THEN Raise("underrun")
       ELSE Return(Assembled, IF IsIndefinite THEN F.pos ELSE F.stop)

ComponentDecoded ==
    /\ Running("wait") /\ F.decoder \in {"Constructed", "OctetString"}
    /\ result.val # EndOfOctets
    /\ parts' = [parts EXCEPT ![depth] = Append(@, result.val)]
    /\ Continue([F EXCEPT !.st = "loop", !.pos = result.pos])

\* Mutant: the end-of-octets is left for the caller to read.
ContentsClosedUnread ==
    /\ Running("wait") /\ F.decoder \in {"Constructed", "OctetString"}
    /\ result.val = EndOfOctets
    /\ Return(Assembled, F.pos)

\* _verifySizes: two fragments or more, all but the last of the full size.
Segmented(strings) ==
    /\ Len(strings) > 1
    /\ \A i \in 1..Len(strings) - 1 : Len(strings[i]) = FragmentSize
    /\ Len(strings[Len(strings)]) \in 1..FragmentSize

SizesRefused ==
    /\ F.decoder = "OctetString" /\ SpecOfFragments = "segment"
    /\ ~Segmented([i \in 1..Len(parts[depth]) |-> parts[depth][i].octs])

ContentsClosed ==
    /\ Running("wait") /\ F.decoder \in {"Constructed", "OctetString"}
    /\ result.val = EndOfOctets
    /\ IF SizesRefused THEN Raise("malformed") ELSE Return(Assembled, result.pos)

\* Mutant: the contents are read again on the same guess.
RereadAsExplicit ==
    /\ parts' = [parts EXCEPT ![depth] = <<>>]
    /\ Continue([F EXCEPT !.st = "loop", !.decoder = "ExplicitTag", !.pos = F.start])

\* The explicit tag guess is refuted: read the contents again as an
\* implicitly tagged constructed value.
RereadAsConstructed ==
    /\ parts' = [parts EXCEPT ![depth] = <<>>]
    /\ Continue([F EXCEPT !.st = "loop", !.decoder = "Constructed", !.pos = F.start])

ExplicitDecoded ==
    /\ Running("wait") /\ F.decoder = "ExplicitTag"
    /\ \/ ~IsIndefinite /\ result.pos >= F.stop /\ Return(result.val, F.stop)
       \/ ~IsIndefinite /\ result.pos < F.stop /\ RereadAsConstructed
       \/ /\ IsIndefinite
          /\ parts' = [parts EXCEPT ![depth] = <<result.val>>]
          /\ Continue([F EXCEPT !.st = "closing", !.pos = result.pos])

ExplicitClosing ==
    /\ Running("closing")
    /\ frames' = [frames EXCEPT
                     ![depth].st = "wait", ![depth].decoder = "ExplicitEnd",
                     ![depth + 1] = NewFrame(F.pos, F.stop, "none", <<>>, TRUE)]
    /\ depth' = depth + 1
    /\ UNCHANGED <<input, parts, result, status>>

ExplicitClosed ==
    /\ Running("wait") /\ F.decoder = "ExplicitEnd"
    /\ \/ result.val = EndOfOctets /\ Return(parts[depth][1], result.pos)
       \/ result.val # EndOfOctets /\ RereadAsConstructed

-----------------------------------------------------------------------------
\* decode() has returned or raised.
Finished == status # "decoding" /\ UNCHANGED vars

\* decode(substrate)
Called ==
    /\ frames = [i \in Levels |->
                    IF i = 1
                    THEN NewFrame(1, Len(substrate) + 1, "none", <<>>, FALSE)
                    ELSE NoFrame]
    /\ parts = [i \in Levels |-> <<>>]
    /\ depth = 1
    /\ result = [val |-> NoValue, pos |-> 1]
    /\ status = "decoding"

Init == input \in Inputs /\ Called

Step ==
    \/ NestingExceeded \/ EndOfOctetsSeen \/ DecodeTag \/ DecodeLength
    \/ NoCodec \/ DecodeSimple \/ CollectFragment \/ DecodePrimitiveString
    \/ OpenContents \/ NextComponent \/ NextFragment \/ ExplicitValue
    \/ ContentsExhausted \/ ComponentDecoded \/ ContentsClosed
    \/ ExplicitDecoded \/ ExplicitClosing \/ ExplicitClosed

Next == Step \/ Finished

Spec == Init /\ [][Next]_vars

\* A single thread runs the decoder: it takes its next step.
FairSpec == Spec /\ WF_vars(Step)
-----------------------------------------------------------------------------
Frame ==
    [st : {"idle", "enter", "length", "codec", "loop", "wait", "closing"},
     spec : {"none", "fragment", "segment"},
     allowEoo : BOOLEAN,
     pos : Nat, end : Nat, tags : Seq(Octet), len : Nat \cup {Indefinite},
     decoder : {"none", "Constructed", "OctetString", "ExplicitTag", "ExplicitEnd"},
     start : Nat, stop : Nat]

\* The type invariant.  Values and the sequences of values in parts are as
\* deep as the substrate, so only their outer shape is typed.
TypeOK ==
    /\ input.rules \in {BER, CER, DER} /\ substrate \in Seq(Octet)
    /\ frames \in [Levels -> Frame]
    /\ DOMAIN parts = Levels
    /\ depth \in 0..(MaxNesting + 2)
    /\ DOMAIN result = {"val", "pos"} /\ result.pos \in Nat
    /\ status \in {"decoding", "value", "underrun", "malformed", "nesting", "unmodelled"}

(***************************************************************************)
(* No call looks outside the contents it was given, however lengths,       *)
(* explicit-tag re-reads and end-of-octets nest: every frame stays inside  *)
(* the window its caller handed it, behind what the caller already read,   *)
(* and hands back a position inside it.  In the code this is what makes    *)
(* `substrate[:length]` and the returned remainder of each valueDecoder    *)
(* fit together.                                                           *)
(***************************************************************************)
WindowsNested ==
    /\ \A i \in 1..depth :
          LET f == frames[i]
          IN  f.start <= f.pos /\ f.pos <= f.stop /\ f.stop <= f.end
    /\ \A i \in 1..depth - 1 :
          /\ frames[i].st = "wait"
          /\ frames[i].pos <= frames[i + 1].start
          /\ frames[i + 1].end <= frames[i].stop
    /\ depth > 0 => frames[1].end <= Len(substrate) + 1
    /\ Running("wait") => result.pos \in F.pos..F.stop

(***************************************************************************)
(* Two zero octets are an end-of-octets only where one may stand: the      *)
(* sentinel reaches a decoder that asked for it with allowEoo (options is  *)
(* shared down the calls, so it must have been popped), it is never kept   *)
(* as a component and never what decode() returns.                         *)
(***************************************************************************)
EooOnlyWhenAsked ==
    /\ \A i \in 1..depth : frames[i].allowEoo =>
          i > 1 /\ frames[i - 1].len = Indefinite
                /\ frames[i - 1].decoder # "ExplicitTag"
    /\ Running("wait") /\ result.val = EndOfOctets =>
          IsIndefinite /\ F.decoder # "ExplicitTag"
    /\ \A i \in 1..depth : \A k \in DOMAIN parts[i] : parts[i][k] # EndOfOctets
    /\ status = "value" => result.val # EndOfOctets

(***************************************************************************)
(* Every decode() call returns or raises: an explicit-tag guess is given   *)
(* up at most once per value, and every component takes octets.            *)
(***************************************************************************)
Terminates == <>(status # "decoding")
=============================================================================
