------------------------------ MODULE BerGrammar ------------------------------
(***************************************************************************)
(* A reference grammar for the input of BerDecoder.                        *)
(*                                                                         *)
(* The grammar is a chart over the spans of an input.  Values(in, p, q, w) *)
(* is the set of values whose encoding is exactly the octets p .. q - 1 of *)
(* a contents window that ends at w.  It knows nothing of frames, re-reads *)
(* or end-of-octets probes; it says what X.690 clause 8.1 (with 8.3.2, 9.1, *)
(* 9.2, 10.1, 10.2 and 11.1 for CER and DER) says about one encoding.      *)
(*                                                                         *)
(* The decoder lets five things through beyond it, and the grammar grants  *)
(* them, each where it says so:                                            *)
(*   unclosed   a container of indefinite length that ends with its window *)
(*              instead of an end-of-octets                                *)
(*   primitive  an OCTET STRING of indefinite length whose identifier has  *)
(*              the primitive format                                       *)
(*   raw        a fragment of constructed form and definite length, taken  *)
(*              as it stands: with an OCTET STRING tag its fragments are   *)
(*              not joined                                                 *)
(*   foreign    a fragment with a tag that is not OCTET STRING's; one of   *)
(*              indefinite length is cut one octet before its window ends  *)
(*   format     in DER, a BOOLEAN whose identifier has the constructed     *)
(*              format                                                     *)
(* It has no values under the tag numbers above 30, nor of the types that  *)
(* BerDecoder leaves out.                                                  *)
(***************************************************************************)
EXTENDS BerDecoder

\* Octets that the length field at p + 1 takes, and what it says.
SizeAt(in, p) == IF in.octets[p + 1] <= 128 THEN 1 ELSE in.octets[p + 1] - 127

ContentsAt(in, p) == p + 1 + SizeAt(in, p)

IsIndefiniteAt(in, p) == in.octets[p + 1] = 128

LengthAt(in, p) ==
    IF in.octets[p + 1] < 128 THEN in.octets[p + 1]
    ELSE BigEndian(in.octets, p + 2, in.octets[p + 1] - 128)

\* The length forms that the rules of the codec allow.
LengthAllowed(in, p) ==
    /\ IsIndefiniteAt(in, p) => in.rules.supportIndefLength
    /\ in.rules.requireMinimalLength /\ SizeAt(in, p) > 1 =>
          LengthAt(in, p) >= 128 /\ in.octets[p + 2] # 0
    /\ in.rules.requireIndefLengthForConstructed /\ Constructed(in.octets[p]) =>
          IsIndefiniteAt(in, p)

\* A complete header starts at p and ends before q.
HeaderFits(in, p, q) ==
    /\ p + 1 < q /\ TagId(in.octets[p]) # 31
    /\ SizeAt(in, p) <= MAX_LENGTH_OCTETS + 1
    /\ ContentsAt(in, p) <= q
    /\ LengthAllowed(in, p)

\* The definite length at p says that its contents end at q.
EndsAt(in, p, q) == ~IsIndefiniteAt(in, p) /\ ContentsAt(in, p) + LengthAt(in, p) = q

ZerosAt(in, p) == in.octets[p] = 0 /\ in.octets[p + 1] = 0

-----------------------------------------------------------------------------
(* The productions.  A span is an item (a value, or a fragment of a        *)
(* string), or a run of items that follow each other; chart gives what the *)
(* shorter spans mean.                                                     *)

Spans(in) ==
    LET positions == 1..Len(in.octets) + 1
    IN  {"item", "run"} \X {"none", "fragment", "segment"} \X positions \X positions \X positions

\* The items that the contents of the constructed encoding p .. q - 1 hold:
\* up to q in the definite form, up to the end-of-octets in the indefinite.
Contents(in, chart, spec, p, q, w, unclosed) ==
    LET c == ContentsAt(in, p)
    IN  IF ~IsIndefiniteAt(in, p)
        THEN IF EndsAt(in, p, q) THEN chart[<<"run", spec, c, q, q>>] ELSE {}
        ELSE (IF ZerosAt(in, q - 2) THEN chart[<<"run", spec, c, q - 2, w>>] ELSE {})
             \cup (IF unclosed /\ q = w THEN chart[<<"run", spec, c, q, w>>] ELSE {})

IsContainer(t) == Universal(t) /\ Constructed(t) /\ TagId(t) \in {16, 17}

IsTagged(t) == Constructed(t) /\ ~Universal(t)

IsConstructedString(in, p) ==
    \/ in.octets[p] = 36 /\ (IsIndefiniteAt(in, p) \/ in.rules.supportConstructedForm)
    \/ in.octets[p] = 4 /\ IsIndefiniteAt(in, p)      \* liberty: primitive

\* Contents that say the same as shorter ones (INTEGER) or others (BOOLEAN).
IsSpareSpelling(in, p, q) ==
    LET c == ContentsAt(in, p)
    IN  \/ /\ TagId(in.octets[p]) = 2 /\ q > c + 1
           /\ \/ in.octets[c] = 0 /\ in.octets[c + 1] \in 0..127
              \/ in.octets[c] = 255 /\ in.octets[c + 1] \in 128..255
        \/ TagId(in.octets[p]) = 1 /\ in.octets[c] \in 1..254

\* A primitive encoding of a known universal type.
PrimitiveValues(in, p, q) ==
    LET t == in.octets[p]
        n == q - ContentsAt(in, p)
    IN  IF /\ Universal(t) /\ TagId(t) \in {1, 2, 4, 5}
           /\ Constructed(t) => t = 33 /\ in.rules.canonicalContents  \* liberty: format
           /\ EndsAt(in, p, q)
           /\ TagId(t) = 1 => n = 1
           /\ TagId(t) = 2 => n > 0
           /\ TagId(t) = 5 => n = 0
           /\ in.rules.canonicalContents => ~IsSpareSpelling(in, p, q)
        THEN {Leaf(TagMap[TagId(t)], <<Bare(t)>>, SubSeq(in.octets, ContentsAt(in, p), q - 1))}
        ELSE {}

\* CER cuts a string, but not its fragments, into segments of one size.
SpecBelow(in, spec) ==
    IF spec = "none" /\ in.rules.canonicalContents THEN "segment" ELSE "fragment"

IsSegmentation(r) ==
    /\ Len(r) > 1
    /\ \A i \in DOMAIN r : Len(r[i]) \in 1..FragmentSize
    /\ \A i \in DOMAIN r : i < Len(r) => Len(r[i]) = FragmentSize

\* The joined fragments of a constructed OCTET STRING.
Strings(in, chart, spec, p, q, w) ==
    LET below == SpecBelow(in, spec)
    IN  {Joined(r) : r \in {k \in Contents(in, chart, below, p, q, w, FALSE) :
                               below = "segment" => IsSegmentation(k)}}

\* The tagSet of a value found under one more tag.
Retagged(v, t) == [v EXCEPT !.tags = Append(@, Bare(t))]

\* One value under a tag of another class is explicitly tagged (and closed,
\* like a string); more are the components of an implicitly tagged container.
TaggedValues(in, chart, p, q, w) ==
    LET t == in.octets[p]
    IN  {Container(<<Bare(t)>>, r) :
            r \in {k \in Contents(in, chart, "none", p, q, w, TRUE) : Len(k) > 1}}
        \cup {Retagged(r[1], t) :
            r \in {k \in Contents(in, chart, "none", p, q, w, FALSE) : Len(k) = 1}}

ValueItems(in, chart, p, q, w) ==
    LET t == in.octets[p]
    IN  IF ~HeaderFits(in, p, q) THEN {}
        ELSE IF IsContainer(t)                        \* liberty: unclosed
             THEN {Container(<<Bare(t)>>, r) : r \in Contents(in, chart, "none", p, q, w, TRUE)}
        ELSE IF IsConstructedString(in, p)
             THEN {Leaf("OctetString", <<Bare(t)>>, o) : o \in Strings(in, chart, "none", p, q, w)}
        ELSE IF IsTagged(t) THEN TaggedValues(in, chart, p, q, w)
        ELSE PrimitiveValues(in, p, q)

\* A fragment whose contents are taken as they stand.  The slice up to length
\* -1 leaves the last octet of the window.
IsCaptured(in, p, q, w) ==
    \/ in.octets[p] = 4 /\ EndsAt(in, p, q)
    \/ in.octets[p] = 36 /\ EndsAt(in, p, q)          \* liberty: raw
    \/ /\ IsTagged(in.octets[p])                      \* liberty: foreign
       /\ \/ EndsAt(in, p, q)
          \/ /\ IsIndefiniteAt(in, p)
             /\ q = IF ContentsAt(in, p) < w THEN w - 1 ELSE w

\* What one fragment of a constructed OCTET STRING adds to it.
FragmentItems(in, chart, spec, p, q, w) ==
    IF ~HeaderFits(in, p, q) \/ (spec = "segment" /\ Constructed(in.octets[p])) THEN {}
    ELSE IF IsCaptured(in, p, q, w) THEN {SubSeq(in.octets, ContentsAt(in, p), q - 1)}
    ELSE IF in.octets[p] \in {4, 36} /\ IsIndefiniteAt(in, p) THEN Strings(in, chart, spec, p, q, w)
    ELSE {}

\* The runs that begin with one of items and go on as one of runs.
Prefixed(items, runs) == {<<s[1]>> \o s[2] : s \in items \X runs}

Runs(chart, spec, p, q, w) ==
    IF p = q THEN {<<>>}
    ELSE UNION {Prefixed(chart[<<"item", spec, p, m, w>>],
                         chart[<<"run", spec, m, q, w>>]) : m \in p + 2..q}

Production(in, chart, what, spec, p, q, w) ==
    IF what = "run" THEN Runs(chart, spec, p, q, w)
    ELSE IF spec = "none" THEN ValueItems(in, chart, p, q, w)
    ELSE FragmentItems(in, chart, spec, p, q, w)

Chart(in) ==
    LET chart[s \in Spans(in)] == Production(in, chart, s[1], s[2], s[3], s[4], s[5])
    IN  chart

Values(in, p, q, w) == Chart(in)[<<"item", "none", p, q, w>>]

-----------------------------------------------------------------------------
End(in) == Len(in.octets) + 1

(***************************************************************************)
(* decode() agrees with the grammar: the octets it consumed are the one    *)
(* prefix of the substrate that encodes a value, what it returns is the    *)
(* one value they encode, and it refuses a substrate only if no prefix of  *)
(* it is the encoding of a value.  The frames, the explicit-tag guess and  *)
(* its refutation, the end-of-octets probes and the raw capture of         *)
(* fragments all have to work together for it.                             *)
(***************************************************************************)
DecodesTheGrammar ==
    \A q \in 1..End(input) :
        /\ status = "value" =>
              Values(input, 1, q, End(input)) = IF q = result.pos THEN {result.val} ELSE {}
        /\ status \in {"underrun", "malformed"} =>
              Values(input, 1, q, End(input)) = {}
=============================================================================
