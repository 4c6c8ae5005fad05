-------------------------------- MODULE MCRelay --------------------------------
(* The values and octets that Relay's runs start from.                     *)
EXTENDS Relay

Strings(alphabet, lengths) == UNION {[1..n -> alphabet] : n \in lengths}

Primitives(alphabet, lengths) == {Primitive(s) : s \in Strings(alphabet, lengths)}

InFragments(fragments, numbers) ==
    {[constructed |-> TRUE, fragments |-> f] : f \in Strings(fragments, numbers)}

-----------------------------------------------------------------------------
(* Values on both sides of every width the contents octets have.           *)

Around(n) == {n - 1, n, n + 1, -n - 1, -n, 1 - n}

IntegerValues ==
    -3..3 \cup UNION {Around(n) : n \in {127, 255, 32767, 32768, 65535, 8388607, 8388608}}

ArcValues == {<<>>} \cup {<<arc>> : arc \in {0, 127, 128, 16383, 16384, 2097151, 2097152}}

OidValues ==
    {<<a, b>> \o more : a \in 0..3, b \in {0, 39, 40, 47, 48, 127, 2097071, 2097072},
                        more \in ArcValues}
    \cup {<<>>, <<1>>}

RelativeValues == {a \o b : a \in ArcValues, b \in ArcValues}

\* All ones, and a bit pattern of period three, up to three chunks long.
BitValues ==
    {[i \in 1..n |-> 1] : n \in 0..50} \cup {[i \in 1..n |-> IF i % 3 = 0 THEN 1 ELSE 0] : n \in 0..50}

OctetValues == {[i \in 1..n |-> i] : n \in 0..3 * CerSize + 1}

RealValues ==
    {Real!PrettyIn(Real!Number(m, b, e)) : b \in {2, 10}, e \in -9..9 \cup {-129, -128, 127, 128, 32768},
                            m \in -20..20 \cup {96, 128, 255, 256, 320, 4096}}
    \cup {Real!Number(code, 0, 0) : code \in Real!SpecialCodes}

Zones(type) ==
    {<<"none", <<>>>>, <<"Z", <<>>>>, <<"+", <<0, 1, 0, 0>>>>, <<"-", <<0, 0, 3, 0>>>>,
     <<"-", <<2, 3, 6, 0>>>>}
    \cup (IF type = "UTCTime" THEN {} ELSE {<<"+", <<0, 5>>>>, <<"-", <<1, 1, 4, 5>>>>})

Fractions(type) ==
    {<<"none", <<>>>>}
    \cup {".", ","} \X Strings({0, 3}, IF type = "UTCTime" THEN 0..1 ELSE 0..4)

\* Minutes and seconds left out or not, hour 24, all zones.
TimeTexts(type) ==
    {Text(integral, midnight24, fraction[1], fraction[2], zone[1], zone[2]) :
        integral \in {10, 12, 14}, midnight24 \in BOOLEAN,
        fraction \in Fractions(type), zone \in Zones(type)}

MCValues(type) ==
    CASE type = "INTEGER"      -> IntegerValues
      [] type = "BOOLEAN"      -> {0, 1}
      [] type = "NULL"         -> {""}
      [] type = "OID"          -> OidValues
      [] type = "RELATIVE-OID" -> RelativeValues
      [] type = "BIT STRING"   -> BitValues
      [] type = "OCTET STRING" -> OctetValues
      [] type = "REAL"         -> RealValues
      [] OTHER                 -> TimeTexts(type)

-----------------------------------------------------------------------------
(* Octets that a peer may have written.                                    *)

\* Base and scaling factor, sign, and the four ways to size an exponent.
BinaryReals ==
    {Primitive(<<first>> \o rest) :
        first \in {128, 129, 130, 131, 132, 140, 144, 160, 172, 176, 192, 193},
        rest \in Strings({0, 1, 2, 127, 128, 255}, 0..3)}

\* The three forms, with spaces, signs, both marks and exponents.
DecimalReals ==
    {Primitive(<<form>> \o sign \o digits \o mark \o fraction \o exponent) :
        form \in 0..4, sign \in {<<>>, <<Real!Minus>>, <<Real!Plus>>, <<Real!Space>>},
        digits \in {<<>>, <<48>>, <<51, 48>>},
        mark \in {<<>>, <<Real!FullStop>>, <<Real!Comma>>}, fraction \in {<<>>, <<53>>, <<48>>},
        exponent \in {<<>>, <<Real!ExponentMark>>, <<Real!ExponentMark, Real!Plus, 48>>,
                      <<Real!ExponentMark, Real!Minus, 49>>, <<101, 50, Real!Space>>}}

SpecialReals == Primitives({64, 66, 67, 68}, 0..2)

MCWires(type) ==
    CASE type = "INTEGER"      -> Primitives({0, 1, 127, 128, 255}, 0..3)
      [] type = "BOOLEAN"      -> Primitives({0, 1, 255}, 0..2)
      [] type = "NULL"         -> Primitives({0}, 0..1)
      [] type \in {"OID", "RELATIVE-OID"} ->
            Primitives({0, 39, 79, 80, 127, 128, 255}, 0..4)
      [] type = "BIT STRING"   -> Primitives({0, 1, 7, 8, 128, 255}, 0..4)
                                  \cup InFragments(Strings({0, 1, 7, 255}, 0..2), 0..2)
      [] type = "OCTET STRING" -> Primitives({97}, 0..5)
                                  \cup InFragments(Strings({97}, 0..4), 0..3)
      [] type = "REAL"         -> SpecialReals \cup BinaryReals \cup DecimalReals
      [] OTHER                 -> TimeTexts(type)
=============================================================================
