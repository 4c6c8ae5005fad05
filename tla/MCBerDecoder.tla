----------------------------- MODULE MCBerDecoder -----------------------------
(***************************************************************************)
(* Instances of BerDecoder and its grammar for TLC.                        *)
(***************************************************************************)
EXTENDS BerNesting

CONSTANT Family    \* which of the families of inputs below an instance takes

\* Every octet string over alphabet of at most n octets.
OctetStrings(alphabet, n) == UNION {[1..k -> alphabet] : k \in 0..n}

\* OCTET STRINGs whose lengths take one, two and three octets.
LongStrings ==
    {length \o [i \in 1..n |-> 0] :
        length \in {<<4, 126>>, <<4, 129, 126>>, <<4, 129, 128>>,
                    <<4, 130, 0, 128>>, <<4, 129, 129>>}, n \in {126, 128}}

\* Strings of up to three fragments: empty, short, long, constructed, nested
\* and foreign ones, closed or not, under a tag or not.
SegmentedStrings ==
    LET fragments == {<<4, 0>>, <<4, 1, 7>>, <<4, 2, 7, 7>>, <<36, 0>>, <<4, 128, 0, 0>>,
                      <<160, 0>>}
        strings == {<<36, 128>> \o Joined(s) \o tail :
                       s \in UNION {[1..n -> fragments] : n \in 0..3},
                       tail \in {<<>>, <<0, 0>>}}
    IN  {s \in strings \cup {<<160, 128>> \o s \o <<0, 0>> : s \in strings} :
            Len(s) <= 13}

InputsOf(rules, octets) == [rules : {rules}, octets : octets]

FamilyInputs ==
    CASE
      \* Containers, primitives and tags in every arrangement; strings with
      \* nested, raw and foreign fragments; tags on tags, guessed explicit
      \* and read again.
      Family = "grammar" ->
        InputsOf(BER, OctetStrings({0, 1, 2, 4, 48, 128, 160}, 6)
                      \cup OctetStrings({0, 4, 36, 128, 160}, 7)
                      \cup OctetStrings({0, 4, 128, 160}, 8))
        \cup InputsOf(BER, SegmentedStrings) \cup InputsOf(CER, SegmentedStrings)
        \cup InputsOf(CER, OctetStrings({0, 1, 2, 33, 48, 128, 255}, 5))
        \cup InputsOf(DER, OctetStrings({0, 1, 2, 3, 33, 48, 128, 255}, 5))
      \* Nesting beyond a small limit, of containers and of fragments, and
      \* length forms that are refused.
    [] Family = "depth" ->
        InputsOf(BER, OctetStrings({0, 5, 48, 128, 160}, 6)
                      \cup OctetStrings({0, 4, 48, 128, 137, 160}, 5)
                      \cup OctetStrings({0, 36, 128}, 8))
      \* Long, short and indefinite lengths in every arrangement.
    [] Family = "canonical" ->
        InputsOf(DER, OctetStrings({0, 4, 5, 36, 48, 128, 129, 160}, 6))
        \cup InputsOf(CER, OctetStrings({0, 5, 48, 128, 129, 160}, 7))
        \cup InputsOf(DER, OctetStrings({0, 1, 2, 3, 33, 48, 127, 128, 255}, 5))
        \cup InputsOf(CER, OctetStrings({0, 1, 2, 48, 127, 128, 255}, 5))
        \cup InputsOf(DER, LongStrings) \cup InputsOf(CER, LongStrings)
=============================================================================
