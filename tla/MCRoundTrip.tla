------------------------------ MODULE MCRoundTrip ------------------------------
(***************************************************************************)
(* Values for RoundTrip, by their kinds.                                    *)
(***************************************************************************)
EXTENDS RoundTrip

LOCAL INSTANCE SequencesExt

Seven  == Object("Integer", <<2>>, <<7>>, <<>>, {})
Nul  == Object("Null", <<5>>, <<>>, <<>>, {})
Str(octs) == Object("OctetString", <<4>>, octs, <<>>, {})
Zeros(n)  == Str([i \in 1..n |-> 0])

\* Explicitly tagged.
Tagged(v, tags) == [v EXCEPT !.tags = @ \o tags]

Holder(type, id, slots) == Object(type, <<id>>, <<>>, slots, {})

\* The alternatives are BOOLEAN, NULL and the one chosen.
Choice(v) == Object("Choice", <<>>, <<>>, <<Required(v)>>, {<<1>>, <<5>>, TagSetOf(v)})

Blob == Object("Any", <<>>, <<2, 1, 7>>, <<Required(Seven)>>, {})

Leaves == {Seven, Nul, Str(<<>>), Str(<<0, 0>>), Str(<<1, 2, 3>>)}

TaggedLeaves == {Tagged(v, t) : v \in Leaves, t \in {<<160>>, <<160, 161>>}}

ListsOf(type, id, items, n) ==
    {Holder(type, id, [i \in DOMAIN s |-> Required(s[i])]) : s \in UNION {[1..k -> items] : k \in 0..n}}

Empty == Holder("SequenceOf", 16, <<>>)

Components == {Seven, Str(<<0, 0>>), Empty, Choice(Nul), Blob,
               Tagged(Seven, <<160>>), Tagged(Blob, <<160>>), Tagged(Choice(Seven), <<160>>),
               Tagged(Empty, <<160>>)}

\* A field, filled in every way that its kind admits.
Fields(values) ==
    {Required(v) : v \in values}
    \cup {Slot("optional", held, {}) : held \in {{}} \cup {{v} : v \in values}}
    \cup {Slot("defaulted", held, {Seven}) : held \in {{}, {Seven}, {Str(<<0, 0>>)}}}

Sequences == {Holder("Sequence", 16, slots) : slots \in [1..2 -> Fields(Components)]}

\* Fields with distinct tags, in every order of declaration.
SetFields ==
    <<Slot("defaulted", {Seven}, {Seven}), Required(Str(<<0, 0>>)),
      Slot("optional", {Tagged(Nul, <<160>>)}, {}), Required(Choice(Nul))>>

SetValues ==
    {Holder("Set", 17, [i \in 1..3 |-> SetFields[p[i]]]) :
        p \in {p \in [1..3 -> 1..4] : \A i, j \in 1..3 : p[i] = p[j] => i = j}}

\* Strings one of which is a prefix of another, or is when padded.
SetsOf == ListsOf("SetOf", 17, {Str(o) : o \in {<<>>, <<0>>, <<0, 0>>, <<1>>, <<0, 1>>}}, 3)

Nests ==
    LET inner == {Empty, Choice(Empty), Holder("SequenceOf", 16, <<Required(Empty)>>),
                  Holder("Sequence", 16, <<Slot("optional", {Empty}, {}), Required(Empty)>>),
                  Holder("SetOf", 17, <<Required(Zeros(1)), Required(Zeros(3))>>),
                  Holder("Set", 17, <<Required(Str(<<1, 2, 3>>)), Required(Seven)>>)}
    IN  ListsOf("SequenceOf", 16, inner, 2) \cup ListsOf("SetOf", 17, inner, 2)
        \cup {Holder("Sequence", 16, s) : s \in [1..2 -> Fields(inner)]}
        \cup {Tagged(v, <<160>>) : v \in inner}

\* Contents of 125 to 130 and of 253 to 258 octets, in one and two headers.
Longs ==
    LET strings == {Zeros(n) : n \in 125..130 \cup 253..258}
    IN  strings \cup {Tagged(v, <<160>>) : v \in strings}
        \cup {Holder("Sequence", 16, <<Required(v)>>) : v \in strings}

AllOptions ==
    {Options("BER", defMode, size, omit) : defMode \in BOOLEAN, size \in 0..2, omit \in BOOLEAN}
    \cup {Options(rules, FALSE, 0, omit) : rules \in {"CER", "DER"}, omit \in BOOLEAN}

Whole == {Options("BER", defMode, 0, FALSE) : defMode \in BOOLEAN}
         \cup {Options("DER", FALSE, 0, FALSE)}

RoundTrips ==
    [value : Leaves \cup TaggedLeaves \cup Sequences \cup SetValues \cup SetsOf \cup Nests,
     options : AllOptions]
    \cup [value : Longs, options : Whole]

\* Every substrate is made from a message.
NoOctets == {}
=============================================================================
