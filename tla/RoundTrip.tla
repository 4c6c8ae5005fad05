------------------------------- MODULE RoundTrip -------------------------------
(***************************************************************************)
(* An encoder and a decoder of one rule set: encode() writes a value and   *)
(* decode() reads what it wrote, with the octets of a next message behind  *)
(* it.  BerEncoder says what is written, BerDecoder runs on it.            *)
(***************************************************************************)
EXTENDS BerDecoder, BerEncoder

LOCAL INSTANCE TLC

CONSTANT
    Messages         \* values, with the options they are encoded with

VARIABLE
    sent             \* the message that input was made from

exchange == <<vars, sent>>

\* A NULL that follows the message on the wire.
Trailer == <<5, 0>>

RulesOf(o) == CASE o.rules = "BER" -> BER
                [] o.rules = "CER" -> CER
                [] o.rules = "DER" -> DER

\* encode(value, **options), then decode(substrate).
Begin ==
    /\ sent \in Messages
    /\ input = [rules |-> RulesOf(sent.options),
                octets |-> Encode(sent.options, sent.value) \o Trailer]
    /\ Called

Exchange == Begin /\ [][Next /\ UNCHANGED sent]_exchange

-----------------------------------------------------------------------------
(* What a value means.                                                     *)

\* A value that holds no other.
Hollow(v) == v.type \in Scalars \cup {"OctetString"}

Lists == {"SequenceOf", "SetOf"}

(***************************************************************************)
(* What the peer is to find: neither absent components nor defaults, nor,  *)
(* under omitEmptyOptionals, OPTIONAL ones that are empty.                 *)
(***************************************************************************)
RECURSIVE Expected(_, _), IsEmpty(_, _)
IsEmpty(o, v) == v.type \in {"Sequence", "Set"} \cup Lists /\ Expected(o, v) = <<>>

Expected(o, v) ==
    SelectSeq(v.slots, LAMBDA slot :
        /\ slot.held # {}
        /\ slot.kind = "defaulted" => slot.held # slot.default
        /\ slot.kind = "optional" =>
               ~(o.omitEmptyOptionals /\ IsEmpty(o, Held(slot))))

\* Whether r is v, the components of a SET in any order.
RECURSIVE IsReadAs(_, _, _)
IsReadAs(o, v, r) ==
    CASE Hollow(v) -> r = Leaf(v.type, TagSetOf(v), v.octs)
      [] v.type \in {"Choice", "Any"} ->
           \* Tags of its own come after those of what it holds.
           LET n == Len(r.tags) - Len(v.tags)
           IN  /\ n >= 0
               /\ SubSeq(r.tags, n + 1, Len(r.tags)) = TagSetOf(v)
               /\ IsReadAs(o, Held(v.slots[1]), [r EXCEPT !.tags = SubSeq(@, 1, n)])
      [] OTHER ->
           LET slots == Expected(o, v)
               orders == IF v.type \in {"Set", "SetOf"} THEN Permutations(DOMAIN slots)
                         ELSE {[i \in DOMAIN slots |-> i]}
           IN  /\ r.tags = TagSetOf(v)
               /\ Len(r.kids) = Len(slots)
               /\ \E order \in orders : \A i \in DOMAIN slots :
                      IsReadAs(o, Held(slots[i]), r.kids[order[i]])

(***************************************************************************)
(* A tagged INTEGER, BOOLEAN or NULL in indefinite form: its explicit      *)
(* tags get a definite length and an end-of-octets all the same            *)
(* (encoder.py:193), so what is written is no encoding.                    *)
(***************************************************************************)
RECURSIVE Miswritten(_, _)
Miswritten(o, v) ==
    \/ ~o.defMode /\ v.type \in Scalars /\ Len(v.tags) > 1
    \/ \E i \in DOMAIN v.slots : \E w \in v.slots[i].held : Miswritten(o, w)

(***************************************************************************)
(* A component of a SEQUENCE OF, SET OF or CHOICE that is empty: below an  *)
(* OPTIONAL component it is dropped too under omitEmptyOptionals, because  *)
(* ifNotEmpty is handed down with the options (encoder.py:699).            *)
(***************************************************************************)
RECURSIVE HoldsEmptyElement(_, _)
HoldsEmptyElement(o, v) ==
    \E i \in DOMAIN v.slots : \E w \in v.slots[i].held :
        \/ v.type \in Lists \cup {"Choice"} /\ IsEmpty(o, w)
        \/ HoldsEmptyElement(o, w)

ReadBack ==
    /\ status \in {"decoding", "value"}
    /\ status = "value" =>
           /\ IsReadAs(sent.options, sent.value, result.val)
           /\ Octets(result.pos, Len(substrate) + 1) = Trailer

(***************************************************************************)
(* What encode() writes, decode() reads: the value comes back, and nothing *)
(* of what follows it on the wire is taken or touched.  Tags, both length  *)
(* forms at their boundaries, fragments, end-of-octets, omitted components *)
(* and sorted ones must agree between encoder.py and decoder.py, which     *)
(* share no code.  Miswritten values and options that drop components are  *)
(* left out.                                                               *)
(***************************************************************************)
WrittenIsRead ==
    /\ ~Miswritten(sent.options, sent.value)
    /\ ~(sent.options.omitEmptyOptionals /\ HoldsEmptyElement(sent.options, sent.value))
    => ReadBack

(***************************************************************************)
(* What examples/round_trip.py:4 demonstrates, "encoding the same ASN.1    *)
(* value with every codec pyasn1 ships and verifying they all agree", for  *)
(* all values under the default options.                                   *)
(***************************************************************************)
EveryCodecAgrees ==
    ~sent.options.omitEmptyOptionals => ReadBack

-----------------------------------------------------------------------------
(* One encoding per value.                                                 *)

Swapped(slots, i) == [slots EXCEPT ![i] = slots[i + 1], ![i + 1] = slots[i]]

\* Values that mean the same and differ in one thing: two neighbours in a SET
\* or SET OF change places, or a default is written out or taken out.
RECURSIVE Neighbours(_)
Neighbours(v) ==
    {[v EXCEPT !.slots = Swapped(@, i)] :
        i \in {i \in 1..Len(v.slots) - 1 : v.type \in {"Set", "SetOf"}}}
    \cup {[v EXCEPT !.slots[i].held = v.slots[i].default \ @] :
        i \in {i \in DOMAIN v.slots : /\ v.slots[i].kind = "defaulted"
                                      /\ v.slots[i].held \in {{}, v.slots[i].default}}}
    \cup UNION {UNION {{[v EXCEPT !.slots[i].held = {n}] : n \in Neighbours(w)} :
                          w \in v.slots[i].held} : i \in DOMAIN v.slots}

(***************************************************************************)
(* CER and DER write values that mean the same alike: the order in which   *)
(* a SET was declared or a SET OF was filled (cer/encoder.py:155, sorted   *)
(* by padded encodings; :187, by tags; der/encoder.py:18, by the chosen    *)
(* alternative) does not show, nor does a default that was set.            *)
(***************************************************************************)
OneEncodingPerValue ==
    sent.options.rules # "BER" /\ status # "decoding" =>
        \A v \in Neighbours(sent.value) :
            Encode(sent.options, v) \o Trailer = substrate
=============================================================================
