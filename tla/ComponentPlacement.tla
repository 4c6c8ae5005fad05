-------------------------- MODULE ComponentPlacement --------------------------
(***************************************************************************)
(* How UniversalConstructedTypeDecoder puts the components it decodes into *)
(* the fields of a SEQUENCE or SET schema, in the loops of valueDecoder    *)
(* (definite length) and indefLenValueDecoder, and the tag arithmetic of   *)
(* NamedTypes they rely on.                                                *)
(*                                                                         *)
(* A component on the wire is its tagSet, and a field is the set of        *)
(* tagSets it accepts (several for an untagged CHOICE) and whether it may  *)
(* be left out (OPTIONAL or DEFAULT).  A component decodes under a schema  *)
(* that accepts its tagSet; under no schema it decodes if its tagSet is    *)
(* the tag of a universal type.  Positions are the code's plus one.        *)
(***************************************************************************)
EXTENDS Integers, Sequences, FiniteSets

CONSTANTS
    Tags,             \* tagSets of components
    SelfDescribing,   \* those of universal types
    Inputs            \* schemas, length forms and what is on the wire

ASSUME TagsAssumption == SelfDescribing \subseteq Tags

Field == [tags : SUBSET Tags, omissible : BOOLEAN]

\* "open" is the indefinite form without its end-of-octets.
Forms == {"definite", "indefinite", "open"}

ASSUME InputsAssumption ==
    \A in \in Inputs :
        /\ in.isSet \in BOOLEAN /\ in.form \in Forms
        /\ in.fields \in Seq(Field)
        /\ in.wire \in Seq(Tags)

VARIABLES
    input,     \* the call's input
    idx,       \* the next field
    read,      \* number of components decoded
    placed,    \* placed[i]: which component field i holds, zero for noValue
    status     \* "decoding", "value", or the kind of error raised

vars == <<input, idx, read, placed, status>>

fields == input.fields
wire   == input.wire

Positions == 1..Len(fields)

-----------------------------------------------------------------------------
(* NamedTypes.                                                             *)

Required == {i \in Positions : ~fields[i].omissible}

\* Mutant: the run of omissible fields without the field that ends it.
NearPositionOmissible(i) ==
    {j \in i..Len(fields) : \A k \in i..j : k \notin Required}

\* ambiguousTypes[i]: field i, the omissible fields after it and the required
\* field that ends their run.
NearPosition(i) ==
    {j \in i..Len(fields) : \A k \in i..j - 1 : k \notin Required}

\* No tagSet is accepted by two of the fields ps, or looking one up raises
\* the PostponedError.
Distinct(ps) == \A i, j \in ps : i # j => fields[i].tags \cap fields[j].tags = {}

Accepting(ps, tag) == {i \in ps : tag \in fields[i].tags}

Indefinite == input.form # "definite"

-----------------------------------------------------------------------------
(* One component.                                                          *)

Fail(kind) ==
    /\ status' = kind
    /\ UNCHANGED <<input, idx, read, placed>>

\* Mutant: the rest of the contents is not taken over.
PlaceRereading(i) ==
    /\ placed' = IF fields = <<>> THEN Append(placed, read + 1)
                 ELSE [placed EXCEPT ![i] = read + 1]
    /\ idx' = i + 1
    /\ UNCHANGED <<input, read, status>>

\* asn1Object.setComponentByPosition(i, component) and the loop's bookkeeping.
Place(i) ==
    /\ placed' = IF fields = <<>> THEN Append(placed, read + 1)
                 ELSE [placed EXCEPT ![i] = read + 1]
    /\ read' = read + 1
    /\ idx' = i + 1
    /\ UNCHANGED <<input, status>>

Decoding == status = "decoding" /\ read < Len(wire)

Component == wire[read + 1]

\* Mutant: the last field is taken for the end of the schema.
UnguidedEarly ==
    \/ fields = <<>>
    \/ Indefinite /\ idx >= Len(fields)

\* Without a schema, and when the indefinite form has passed the last field,
\* which in a SET only says which component came last.
Unguided ==
    \/ fields = <<>>
    \/ Indefinite /\ idx > Len(fields)

Excessive ==
    ~Indefinite /\ ~input.isSet /\ fields # <<>> /\ idx > Len(fields)

ExcessiveComponent == Decoding /\ Excessive /\ Fail("malformed")

\* The fields whose schemas decodeFun is given a choice of.
Candidates ==
    IF input.isSet THEN Positions
    ELSE IF idx \in Required THEN {idx}
    ELSE NearPosition(idx)

\* tagMapUnique is a PostponedError, which the decoder takes for a schema.
AmbiguousSet ==
    /\ Decoding /\ ~Unguided
    /\ input.isSet /\ ~Distinct(Positions)
    /\ Fail("AttributeError")

\* A component decoded by its own tag, in a schema it may not belong to.
UnguidedComponent ==
    /\ Decoding /\ Unguided
    /\ \/ Component \notin SelfDescribing /\ Fail("malformed")
       \/ /\ Component \in SelfDescribing
          /\ \/ fields = <<>> /\ Place(idx)
             \/ fields # <<>> /\ ~input.isSet /\ Fail("IndexError")
             \/ /\ fields # <<>> /\ input.isSet
                /\ LET accepting == Accepting(Positions, Component)
                   IN  IF accepting # {}
                       THEN Place(CHOOSE i \in accepting : TRUE)
                       ELSE Fail("malformed")

\* A component decoded by the schema of the field it belongs to.
GuidedComponent ==
    /\ Decoding /\ ~Unguided /\ ~Excessive
    /\ input.isSet => Distinct(Positions)
    /\ LET accepting == Accepting(Candidates, Component)
       IN  \/ accepting = {} /\ Fail("malformed")
           \/ /\ accepting # {}
              /\ IF Distinct(Candidates)
                 THEN Place(CHOOSE i \in accepting : TRUE)
                 ELSE Fail("malformed")

-----------------------------------------------------------------------------
(* The end of the contents.                                                *)

AtEnd == status = "decoding" /\ read = Len(wire)

SubstrateEnds ==
    /\ AtEnd /\ input.form = "open"
    /\ Fail("underrun")

\* Mutant: what counts as seen is how far the fields were passed.
RequiredSeenByIndex == \A i \in Required : i < idx

\* requiredComponents.issubset(seenIndices).
RequiredSeen == \A i \in Required : placed[i] # 0

ContentsEnd ==
    /\ AtEnd /\ input.form # "open"
    /\ \/ ~RequiredSeen /\ Fail("malformed")
       \/ RequiredSeen /\ Fail("value")

Finished == status # "decoding" /\ UNCHANGED vars

Init ==
    /\ input \in Inputs
    /\ idx = 1
    /\ read = 0
    /\ placed = [i \in Positions |-> 0]
    /\ status = "decoding"

Next ==
    \/ ExcessiveComponent \/ AmbiguousSet \/ UnguidedComponent \/ GuidedComponent
    \/ SubstrateEnds \/ ContentsEnd
    \/ Finished

Spec == Init /\ [][Next]_vars

-----------------------------------------------------------------------------
(* What a schema promises (X.690 8.9 and 8.11): the components of a        *)
(* SEQUENCE fill its fields in order, those of a SET in any order, and     *)
(* only omissible fields are left out.                                     *)

\* X.680 25.6 and 27.3: the tags that could be taken for one another differ.
Legal ==
    IF input.isSet THEN Distinct(Positions)
    ELSE \A i \in Positions \ Required : Distinct(NearPosition(i))

\* m[k] is the field that component k fills.  The decoder lets a component of
\* a SET come again.
Fills(m) ==
    /\ \A k \in DOMAIN m : wire[k] \in fields[m[k]].tags
    /\ ~input.isSet => \A j, k \in DOMAIN m : j < k => m[j] < m[k]
    /\ Required \subseteq {m[k] : k \in DOMAIN m}

\* The fields as m leaves them: the last component that came for each.
Filling(m) ==
    [i \in Positions |->
        IF \E k \in DOMAIN m : m[k] = i
        THEN CHOOSE k \in DOMAIN m : m[k] = i /\ \A l \in k + 1..Len(wire) : m[l] # i
        ELSE 0]

Fillings == {Filling(m) : m \in {f \in [1..Len(wire) -> Positions] : Fills(f)}}

\* Every component that is kept was read and is in a field that the schema
\* has; without a schema all that were read are kept, in their order.
Shaped ==
    IF fields = <<>> THEN placed = [k \in 1..read |-> k]
    ELSE placed \in [Positions -> 0..read]

TypeOK ==
    /\ input \in Inputs
    /\ idx \in Nat \ {0} /\ read \in 0..Len(wire)
    /\ placed \in Seq(0..read) /\ Shaped
    /\ status \in {"decoding", "value", "malformed", "underrun",
                   "IndexError", "AttributeError"}

(***************************************************************************)
(* A value that comes back holds the components where the schema puts      *)
(* them, whatever fields were left out and whatever the length form: no    *)
(* component is dropped, lands in a neighbour's field, or leaves a         *)
(* required field empty.                                                   *)
(***************************************************************************)
PlacedAsTheSchemaSays ==
    status = "value" /\ fields # <<>> => placed \in Fillings

(***************************************************************************)
(* A message of the schema is not refused: when the components fill the    *)
(* fields of a legal schema in exactly one way, that is what comes back.   *)
(* For a SET of indefinite length this holds when every component tells    *)
(* its own type.                                                           *)
(***************************************************************************)
AcceptsTheSchema ==
    /\ Legal /\ fields # <<>> /\ input.form # "open"
    /\ Indefinite /\ input.isSet => {wire[k] : k \in DOMAIN wire} \subseteq SelfDescribing
    /\ status \notin {"decoding", "value"}
    => Fillings = {}

(***************************************************************************)
(* What is no PyAsn1Error: CHANGES.rst:103 says that every failure of the  *)
(* decoders is one.  With a legal schema the one exception is a component  *)
(* too many, behind a last field that is filled, in the indefinite form of *)
(* a SEQUENCE (decoder.py:1267, :1298); the definite form refuses it as    *)
(* it should.                                                              *)
(***************************************************************************)
OnlyExcessEscapes ==
    Legal =>
        /\ status # "AttributeError"
        /\ status = "IndexError" =>
               /\ Indefinite /\ ~input.isSet
               /\ placed[Len(fields)] # 0 /\ read < Len(wire)
=============================================================================
