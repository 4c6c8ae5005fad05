------------------------------ MODULE TagSets -------------------------------
(***************************************************************************)
(* Tags and tag sets (pyasn1/type/tag.py).  A tag set remembers the tag    *)
(* its type was born with (base) and the tags that are written, innermost  *)
(* first (supers).  Tags compare by class and number, never by format.     *)
(***************************************************************************)
EXTENDS Integers, Sequences

\* No tag: the base of CHOICE and ANY, and an argument left out.
NoTag == [class |-> "none", format |-> "simple", id |-> 0]

Classes == {"universal", "application", "context", "private"}
Formats == {"simple", "constructed"}

TagType == [class : Classes \cup {"none"}, format : Formats, id : Nat]

TagSetType == [base : TagType, supers : Seq(TagType)]

ClassId(tag) == <<tag.class, tag.id>>

ClassIds(ts) == [i \in DOMAIN ts.supers |-> ClassId(ts.supers[i])]

\* TagSet.__eq__ and __hash__.
SameTags(ts, other) == ClassIds(ts) = ClassIds(other)

TagSet(base, supers) == [base |-> base, supers |-> supers]

\* baseTagSet: what the codecs look up when nobody registered the whole set.
BaseTagSet(ts) ==
    TagSet(ts.base, IF ts.base = NoTag THEN <<>> ELSE <<ts.base>>)

\* Mutant: the last tag speaks for all of them.
DiffersFromBaseByLast(ts) ==
    IF ts.base = NoTag THEN ts.supers # <<>>
    ELSE ts.supers = <<>> \/ ClassId(ts.supers[Len(ts.supers)]) # ClassId(ts.base)

\* differsFromBaseTagSet, settled when the tag set is made.
DiffersFromBase(ts) ==
    IF ts.base = NoTag THEN ts.supers # <<>>
    ELSE Len(ts.supers) # 1 \/ ClassId(ts.supers[1]) # ClassId(ts.base)

\* The tags below an explicit one have a constructed encoding.
MayTagExplicitly(tag) == tag.class # "universal"

TagExplicitly(ts, tag) ==
    [ts EXCEPT !.supers = Append(@, [tag EXCEPT !.format = "constructed"])]

\* Mutant: the new tag comes with the form it was given.
TagImplicitlyAsGiven(ts, tag) ==
    IF ts.supers = <<>> THEN [ts EXCEPT !.supers = <<tag>>]
    ELSE [ts EXCEPT !.supers[Len(ts.supers)] = tag]

\* The last tag is replaced and its format stays: the contents do not change.
TagImplicitly(ts, tag) ==
    LET n == Len(ts.supers)
    IN  IF n = 0 THEN [ts EXCEPT !.supers = <<tag>>]
        ELSE [ts EXCEPT !.supers[n] = [tag EXCEPT !.format = ts.supers[n].format]]

IsSuperTagSetOf(ts, other) ==
    /\ Len(ts.supers) <= Len(other.supers)
    /\ \A i \in DOMAIN ts.supers : ClassId(ts.supers[i]) = ClassId(other.supers[i])
=============================================================================
