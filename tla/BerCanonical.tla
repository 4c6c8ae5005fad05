----------------------------- MODULE BerCanonical -----------------------------
(***************************************************************************)
(* The canonical encoding of a decoded value, and what the DER and CER     *)
(* decoders have to do with it.                                            *)
(*                                                                         *)
(* The encoding of a value is made of those of its components.  That is    *)
(* not written as a recursive operator: the generations of a value are its *)
(* components, theirs, and so on, and a function from the values of one    *)
(* generation to their encodings gives the function for the one before.    *)
(***************************************************************************)
EXTENDS BerGrammar

\* What is left of a length when its last k octets are dropped.
Quotients(n) ==
    LET left[k \in 0..MAX_LENGTH_OCTETS] == IF k = 0 THEN n ELSE left[k - 1] \div 256
    IN  left

\* The short form where it fits, otherwise as few octets as possible.
LengthOctets(n) ==
    LET left == Quotients(n)
        size == CHOOSE k \in 1..MAX_LENGTH_OCTETS :
                    left[k - 1] # 0 /\ (k < MAX_LENGTH_OCTETS => left[k] = 0)
    IN  IF n < 128 THEN <<n>>
        ELSE <<128 + size>> \o [i \in 1..size |-> left[size - i] % 256]

\* Contents under the constructed form of tag t.
Construction(t, contents, indefinite) ==
    IF indefinite THEN <<t + 32, 128>> \o contents \o <<0, 0>>
    ELSE <<t + 32>> \o LengthOctets(Len(contents)) \o contents

\* An encoding under explicit tags, the innermost first.
Wrapped(tags, encoding, indefinite) ==
    LET wrapped[i \in 0..Len(tags)] ==
            IF i = 0 THEN encoding ELSE Construction(tags[i], wrapped[i - 1], indefinite)
    IN  wrapped[Len(tags)]

\* The encoding of v when kids are those of its components.
Encoded(v, kids, indefinite) ==
    Wrapped(Tail(v.tags),
            IF v.type \in {"Record", "SequenceOf"}
            THEN Construction(v.tags[1], Joined(kids), indefinite)
            ELSE <<v.tags[1]>> \o LengthOctets(Len(v.octs)) \o v.octs,
            indefinite)

Components(values) == UNION {{v.kids[i] : i \in DOMAIN v.kids} : v \in values}

Generations(v, n) ==
    LET generation[k \in 0..n] == IF k = 0 THEN {v} ELSE Components(generation[k - 1])
    IN  generation

\* The encoding of v, whose components nest at most n deep, with every
\* constructed encoding in the definite (DER) or the indefinite (CER) form.
Encoding(v, n, indefinite) ==
    LET generation == Generations(v, n)
        encodings[k \in 0..n] ==
            [u \in generation[n - k] |->
                Encoded(u, [i \in 1..Len(u.kids) |->
                               IF k = 0 THEN <<>> ELSE encodings[k - 1][u.kids[i]]],
                        indefinite)]
    IN  encodings[n][v]

\* What decode() returned, encoded.  It nests no deeper than it has octets.
ResultEncoded(indefinite) == Encoding(result.val, Len(substrate), indefinite)

\* Nowhere in the input is there what reads as a BOOLEAN of constructed format.
HasNoConstructedBoolean(in) ==
    \A p \in 1..Len(in.octets) - 1 : in.octets[p] = 33 => in.octets[p + 1] # 1

(***************************************************************************)
(* DER has one encoding of a value: what the DER decoder accepts is, octet *)
(* for octet, the definite-length encoding of the value it returns, so     *)
(* there are no two accepted spellings of it.  A BOOLEAN has two, for its  *)
(* decoder does not look at the format (cer/decoder.py:193): 21 01 FF is   *)
(* TRUE as well.  Inputs with such a header are left out.                  *)
(***************************************************************************)
DerIsCanonical ==
    status = "value" /\ input.rules = DER /\ HasNoConstructedBoolean(input) =>
        Octets(1, result.pos) = ResultEncoded(FALSE)

\* Nowhere in the input is there what reads as a string made of fragments.
HasNoConstructedString(in) ==
    \A p \in 1..Len(in.octets) - 1 : ~IsConstructedString(in, p)

(***************************************************************************)
(* CER likewise, with every constructed encoding of indefinite length, but *)
(* for the end-of-octets of containers that the substrate's end leaves     *)
(* open.  Strings count as written in one piece, as long as they may be,   *)
(* and inputs with strings in fragments are left out: the decoder takes    *)
(* the two for one value, and does not see where the fragments were cut    *)
(* inside another fragment.                                                *)
(***************************************************************************)
CerIsCanonical ==
    status = "value" /\ input.rules = CER /\ HasNoConstructedString(input) =>
        LET e == ResultEncoded(TRUE)
        IN  /\ result.pos - 1 <= Len(e)
            /\ Octets(1, result.pos) = SubSeq(e, 1, result.pos - 1)
            /\ result.pos <= Len(e) =>
                   /\ result.pos = End(input)
                   /\ \A i \in result.pos..Len(e) : e[i] = 0
=============================================================================
