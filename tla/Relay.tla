--------------------------------- MODULE Relay ---------------------------------
(***************************************************************************)
(* Simple values on their way through the codecs: a value of the           *)
(* application's, or octets that came from elsewhere, is written, read,    *)
(* converted and written again, by encoders and decoders of one rule set.  *)
(* ScalarContents, RealContents and TimeContents say what each step makes  *)
(* of it.                                                                  *)
(***************************************************************************)
EXTENDS ScalarContents, TimeContents

CONSTANTS
    Values(_),      \* the values of a type that the application holds
    Wires(_)        \* the contents octets of a type that a peer sends

VARIABLES
    job,        \* the type, the rules, and maxChunkSize or binEncBase
    place,      \* "value", "wire" or "refused"
    value,      \* {} or the set of the value held last
    wire        \* {} or the set of the wire the value was read from

vars == <<job, place, value, wire>>

Real == INSTANCE RealContents

Canonical == job.rules # "BER"

Rules == {"BER", "CER", "DER"}

Types == {"INTEGER", "BOOLEAN", "NULL", "OID", "RELATIVE-OID", "BIT STRING",
          "OCTET STRING", "REAL", "UTCTime", "GeneralizedTime"}

\* maxChunkSize, 0 for none, and binEncBase, 0 for the one chosen by the value.
Options(type) ==
    CASE type \in {"BIT STRING", "OCTET STRING"} -> 0..4
      [] type = "REAL"                           -> {0, 2, 8, 16}
      [] OTHER                                   -> {0}

TimeType == IF job.type = "UTCTime" THEN UTCTime ELSE GeneralizedTime

IsTime == job.type \in {"UTCTime", "GeneralizedTime"}

\* The objects of the types.
Objects(type) ==
    CASE type = "INTEGER"                 -> Int
      [] type = "BOOLEAN"                 -> {0, 1}
      [] type = "NULL"                    -> {""}
      [] type \in {"OID", "RELATIVE-OID"} -> Seq(Nat)
      [] type = "BIT STRING"              -> Seq({0, 1})
      [] type = "OCTET STRING"            -> Seq(Octet)
      [] type = "REAL"                    -> [m : Int, b : {0, 2, 10}, e : Int]
      [] OTHER                            -> Texts

\* What may be on the wire: the contents octets of one encoding or of many.  Only
\* strings have a decoder for fragments in an encoding of indefinite length.
Substrates(type) ==
    IF type \in {"UTCTime", "GeneralizedTime"} THEN Texts
    ELSE {w \in [constructed : BOOLEAN, fragments : Seq(Seq(Octet))] :
             IF w.constructed THEN type \in {"BIT STRING", "OCTET STRING"}
             ELSE Len(w.fragments) = 1}

ASSUME ValuesAssumption == \A type \in Types : Values(type) \subseteq Objects(type)
ASSUME WiresAssumption == \A type \in Types : Wires(type) \subseteq Substrates(type)

-----------------------------------------------------------------------------
(* tagMap and typeMap of the encoders and decoders.                        *)

\* maxChunkSize: fixedChunkSize, or the caller's under BER.
ChunkSize == CASE job.rules = "CER" -> CerSize
               [] job.rules = "DER" -> 0
               [] job.rules = "BER" -> job.option

Encoded(v) ==
    CASE job.type = "INTEGER"      -> {Primitive(EncodeInteger(v))}
      [] job.type = "BOOLEAN"      -> {Primitive(EncodeBoolean(job.rules, v))}
      [] job.type = "NULL"         -> {Primitive(EncodeNull)}
      [] job.type = "OID"          -> {Primitive(octets) : octets \in EncodeOid(v)}
      [] job.type = "RELATIVE-OID" -> {Primitive(EncodeArcs(v))}
      [] job.type = "BIT STRING"   -> {EncodeBitString(ChunkSize, v)}
      [] job.type = "OCTET STRING" -> {EncodeOctetString(ChunkSize, v)}
      [] job.type = "REAL"         ->
            {Primitive(Real!EncodeReal(job.rules, job.option, v))}
      [] IsTime /\ Canonical       -> EncodeTime(TimeType, v)
      [] IsTime /\ ~Canonical      -> {v}

Decoded(w) ==
    CASE job.type = "INTEGER"      -> DecodeInteger(job.rules, w.fragments[1])
      [] job.type = "BOOLEAN"      -> DecodeBoolean(job.rules, w.fragments[1])
      [] job.type = "NULL"         -> DecodeNull(w.fragments[1])
      [] job.type = "OID"          -> DecodeOid(w.fragments[1])
      [] job.type = "RELATIVE-OID" -> DecodeArcs(w.fragments[1])
      [] job.type = "BIT STRING"   -> DecodeBitString(job.rules, w)
      [] job.type = "OCTET STRING" -> DecodeOctetString(job.rules, w)
      [] job.type = "REAL"         -> Real!DecodeReal(job.rules, w.fragments[1])
      [] IsTime                    -> DecodeTime(job.rules, TimeType, w)

-----------------------------------------------------------------------------
(* The steps.                                                              *)

Init ==
    /\ \E type \in Types, rules \in Rules : \E option \in Options(type) :
          job = [type |-> type, rules |-> rules, option |-> option]
    /\ \/ /\ place = "value"
          /\ \E v \in Values(job.type) : value = {v}
          /\ wire = {}
       \/ /\ place = "wire"
          /\ job.option = 0
          /\ value = {}
          /\ \E w \in Wires(job.type) : wire = {w}

\* encode(value, asn1Spec)
Write ==
    /\ place = "value"
    /\ \E v \in value : wire' = Encoded(v)
    /\ place' = IF wire' = {} THEN "refused" ELSE "wire"
    /\ UNCHANGED <<job, value>>

\* decode(substrate, asn1Spec)
Read ==
    /\ place = "wire"
    /\ \E w \in wire :
          LET read == Decoded(w)
          IN  IF read = {} THEN place' = "refused" /\ UNCHANGED value
              ELSE place' = "value" /\ value' = read
    /\ UNCHANGED <<job, wire>>

\* fromDateTime(value.asDateTime)
Convert ==
    /\ place = "value"
    /\ IsTime
    /\ \E v \in value : \E dt \in AsDateTime(TimeType, v) :
          value' = {FromDateTime(TimeType, dt)}
    /\ wire' = {}
    /\ UNCHANGED <<job, place>>

Next == Write \/ Read \/ Convert

Spec == Init /\ [][Next]_vars

-----------------------------------------------------------------------------
(* What a value stands for.                                                *)

\* A number without factors of its base in the mantissa.
Reduced(v) ==
    IF v.b = 0 THEN v
    ELSE IF v.m = 0 THEN Real!Number(0, 10, 0)
    ELSE LET k == Real!Times(v.m, v.b)
         IN  Real!Number(v.m \div v.b^k, v.b, v.e + k)

\* A datetime without a zone is taken for one in UTC.
Aware(dt) == Instant(dt.integral, dt.microsecond, FALSE, dt.minutes)

\* The instant that a text names.
Moment(text) ==
    LET named == AsDateTime(TimeType, text)
    IN  IF named = {} THEN {text} ELSE {Aware(dt) : dt \in named}

Meaning ==
    IF job.type = "REAL" THEN {Reduced(v) : v \in value}
    ELSE IF IsTime THEN UNION {Moment(v) : v \in value}
    ELSE value

\* The sub-identifiers of an OBJECT IDENTIFIER or RELATIVE-OID.
SubIds(v) ==
    IF job.type = "OID" THEN <<v[2] + 40 * v[1]>> \o SubSeq(v, 3, Len(v)) ELSE v

\* No sub-identifier has more than MaxArcOctets + 1 digits.
SubIdsFit(v) ==
    \A i \in DOMAIN SubIds(v) :
        Quotients(SubIds(v)[i], 128)[MaxArcOctets + 1] = 0

InnerZero(text) ==
    \E i \in DOMAIN text.fraction :
        text.fraction[i] = 0 /\ \E j \in i + 1..Len(text.fraction) : text.fraction[j] # 0

\* A UTCTime has no fraction, though asDateTime reads one.
SubsecondFits(text) == text.mark = "none" \/ TimeType.hasSubsecond

\* What CER and DER can carry of the times.
TimeFits(text) ==
    /\ text.zone = "Z" /\ text.mark # "," /\ ~text.midnight24
    /\ text.integral = TimeType.yearsDigits + 10
    /\ SubsecondFits(text)
    /\ text.mark = "." => text.fraction # <<>>
    /\ Len(text.fraction) <= 3
    /\ ~InnerZero(text)

\* The values that the codec has to carry.
Fits(v) ==
    CASE job.type = "OID"            -> ~OidRefused(v) /\ SubIdsFit(v)
      [] job.type = "RELATIVE-OID"   -> v # <<>> /\ SubIdsFit(v)
      [] IsTime /\ Canonical         -> TimeFits(v)
      [] IsTime /\ ~Canonical        -> SubsecondFits(v)
      [] OTHER                       -> TRUE

Contents ==
    INSTANCE Channel WITH
        Nothing <- {},
        Promised <- LAMBDA carried : \A c \in carried : c.fits,
        content <- IF value = {} THEN {}
                   ELSE {[fits |-> \A v \in value : Fits(v), meaning |-> Meaning]}

-----------------------------------------------------------------------------
(* The properties.                                                         *)

(***************************************************************************)
(* The codecs of the simple types implement the channel: what encode()     *)
(* writes decode() reads, as the value that was written, for every type,   *)
(* rule set, chunk size and base; and so does a relay that writes what it  *)
(* has read.  Beyond the promise are OBJECT IDENTIFIERs that the encoder   *)
(* refuses or whose arcs exceed the decoder's limit (the encoder has       *)
(* none), and the times that TimeFits leaves out.                          *)
(***************************************************************************)
ContentsAreCarried == Contents!Spec

\* Spellings that CER and DER accept beside the one they write.
Liberties(w) ==
    \/ job.type = "BIT STRING" /\ w.constructed
    \/ job.type \in {"BIT STRING", "OCTET STRING"} /\ ~w.constructed
       /\ job.rules = "CER" /\ Len(w.fragments[1]) > CerSize
    \/ job.type = "REAL" /\ w.fragments[1] # <<>> /\
          LET octets == w.fragments[1]
          IN  \/ octets[1] < 64
              \/ octets[1] >= 128 /\ Real!Bits(octets[1], 1, 2) = 3 /\ octets[2] <= 3
              \/ octets[1] >= 128 /\ Unsigned(Real!MantissaOctets(octets)) = 0
    \/ IsTime /\ (InnerZero(w) \/ Len(w.fraction) > 3)

(***************************************************************************)
(* A decoder of CER or DER accepts one spelling of each value, the one the *)
(* encoder writes: relayed octets are the octets that came in.  So do all  *)
(* decoders of OBJECT IDENTIFIER and RELATIVE-OID, where BER leaves no     *)
(* choice either.  Liberties names the spellings the code accepts besides. *)
(***************************************************************************)
OneSpelling ==
    [][/\ Write
       /\ Canonical \/ job.type \in {"OID", "RELATIVE-OID"}
       /\ \E w \in wire : ~Liberties(w)
       => wire' = wire]_vars

(***************************************************************************)
(* A string that is written in fragments fills all but the last, and no    *)
(* fragment, with the octet that counts a BIT STRING's unused bits, is     *)
(* longer than maxChunkSize; under CER a string is cut only if it has to   *)
(* be (9.2).  A maxChunkSize of 1, which holds no bits, is left out.       *)
(***************************************************************************)
FragmentsFill ==
    (place = "wire" /\ value # {} /\ job.type \in {"BIT STRING", "OCTET STRING"}) =>
        \A w \in wire : w.constructed =>
            /\ Len(w.fragments) > 1
            /\ \A k \in DOMAIN w.fragments :
                  ChunkSize > 1 =>
                      IF k < Len(w.fragments) THEN Len(w.fragments[k]) = ChunkSize
                      ELSE Len(w.fragments[k]) \in 1..ChunkSize

(***************************************************************************)
(* MAX_OID_ARC_CONTINUATION_OCTETS bounds every sub-identifier that is     *)
(* read, wherever it stands among the others.                              *)
(***************************************************************************)
ArcLimitHolds ==
    (place = "value" /\ wire # {} /\ job.type \in {"OID", "RELATIVE-OID"}) =>
        \A v \in value : SubIdsFit(v)

(***************************************************************************)
(* A time that is made a datetime and a time again names the same instant, *)
(* whatever its precision, its mark and the sign of its offset; the        *)
(* fraction of a UTCTime, which the type does not provide for, is lost.    *)
(***************************************************************************)
MomentsAreKept ==
    [][Convert /\ (\A v \in value : SubsecondFits(v)) => Meaning' = Meaning]_vars
=============================================================================
