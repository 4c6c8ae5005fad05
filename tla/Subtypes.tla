------------------------------ MODULE Subtypes ------------------------------
(***************************************************************************)
(* How types and values are derived: a class is declared, clone() replaces *)
(* what an object was made with, subtype() tags it once more and adds a    *)
(* constraint (pyasn1/type/base.py).  Objects that differ in nothing else  *)
(* are what schemas, decoders and assignments compare with isSuperTypeOf.  *)
(*                                                                         *)
(* An object is never changed; types lists them in the order they were     *)
(* made, with the object each was derived from and how.  A derivation that *)
(* raises makes no object, so it is no step.                               *)
(***************************************************************************)
EXTENDS TagSets, Constraints, FiniteSets

CONSTANTS
    Declared,      \* classes: kind, tagSet and subtypeSpec
    Specs(_),      \* constraints that fit a kind
    Tags,          \* tags that are applied
    Recovered(_),    \* tag sets that decoders clone objects of a kind with
    Payloads(_),   \* values of a kind
    Scalars,       \* the simple kinds: their objects are made with a value, or none
    MaxTypes       \* bound: objects made

\* An object holds {v}, or nothing (noValue): then it is a schema.
Nothing == {}

Kinds == {d.kind : d \in Declared}

\* Nothing here nests so deep that a derivation from it could not be read.
IsArgument(c) == Nests4(c) /\ IsLegal(c)

\* Above its first tag a tag set has constructed ones, and the first has the
\* form of the base, if there is one: decoders recover tags without it.
IsFormed(ts) ==
    /\ ts \in TagSetType
    /\ \A k \in 2..Len(ts.supers) : ts.supers[k].format = "constructed"
    /\ ts.base # NoTag => Len(ts.supers) >= 1 /\ ts.supers[1].format = ts.base.format

ASSUME DeclaredAssumption ==
    \A d \in Declared : /\ d.kind \in STRING
                        /\ IsArgument(d.spec)
                        /\ d.tagSet \in TagSetType
                        /\ Len(d.tagSet.supers) = Len(BaseTagSet(d.tagSet).supers)
                        /\ \A i \in DOMAIN d.tagSet.supers :
                              d.tagSet.supers[i].format = d.tagSet.base.format

ASSUME SpecsAssumption == \A k \in Kinds : \A c \in Specs(k) : IsArgument(c)

ASSUME TagsAssumption == Tags \subseteq TagType

ASSUME RecoveredAssumption == \A k \in Kinds : \A ts \in Recovered(k) : IsFormed(ts)

ASSUME ScalarsAssumption == Scalars \subseteq Kinds

VARIABLE types

Object(kind, tagSet, spec, value, parent, how) ==
    [kind |-> kind, tagSet |-> tagSet, spec |-> spec, value |-> value,
     parent |-> parent, how |-> how]

\* Mutant: only values that are given are checked, by who is given them.
ConstructibleUnchecked(spec, value) == TRUE

\* SimpleAsn1Type.__init__: what it is given must pass its constraints.
Constructible(spec, value) == \A v \in value : Admits(spec, About(v))

Make(o) ==
    /\ Constructible(o.spec, o.value)
    /\ types' = Append(types, o)

Init == \E d \in Declared :
           types = <<Object(d.kind, d.tagSet, d.spec, Nothing, 0, "declared")>>

Declare ==
    \E d \in Declared : Make(Object(d.kind, d.tagSet, d.spec, Nothing, 0, "declared"))

\* What clone() and subtype() of t may be given for a value, and what becomes
\* of value x then.
Offers(t) == {Nothing} \cup IF t.kind \in Scalars THEN {{v} : v \in Payloads(t.kind)} ELSE {}

Given(v, x) == IF v = Nothing THEN x ELSE v

\* No constraint: what an argument that is left out stands for.
Unsaid == Constraint("unsaid", <<>>, <<>>, <<>>)

\* The tag set of a clone: none is given, or one a decoder has recovered, or
\* the base alone, which the encoder writes fragments with.
Retags(t) == {t.tagSet, BaseTagSet(t.tagSet)} \cup Recovered(t.kind)

\* clone(): whatever is given takes the place of what the object had.
Clone(i) ==
    LET t == types[i]
    IN  \E v \in Offers(t), c \in Specs(t.kind) \cup {Unsaid}, ts \in Retags(t) :
           /\ <<v, c, ts>> # <<Nothing, Unsaid, t.tagSet>>
           /\ Make(Object(t.kind, ts, IF c = Unsaid THEN t.spec ELSE c,
                          Given(v, t.value), i, "clone"))

\* implicitTag and explicitTag: each tags what the object has, and the
\* explicit one is looked at last.
Tagged(ts, implicit, explicit) ==
    IF explicit # NoTag THEN TagExplicitly(ts, explicit)
    ELSE IF implicit # NoTag THEN TagImplicitly(ts, implicit)
    ELSE ts

Narrowed(spec, c) == IF c = Unsaid THEN spec ELSE Add(spec, c)

Subtype(i) ==
    LET t == types[i]
    IN  \E v \in Offers(t), c \in Specs(t.kind) \cup {Unsaid},
           implicit, explicit \in Tags \cup {NoTag} :
           /\ <<v, c, implicit, explicit>> # <<Nothing, Unsaid, NoTag, NoTag>>
           /\ explicit # NoTag => MayTagExplicitly(explicit)
           /\ c = Unsaid \/ CanAdd(t.spec, c)
           /\ Make(Object(t.kind, Tagged(t.tagSet, implicit, explicit), Narrowed(t.spec, c),
                          Given(v, t.value), i, "subtype"))

Next ==
    /\ Len(types) < MaxTypes
    /\ \/ Declare
       \/ \E i \in DOMAIN types : Clone(i) \/ Subtype(i)

Spec == Init /\ [][Next]_types

-----------------------------------------------------------------------------
(* Comparing types.                                                        *)

IsSameTypeWith(t, u, matchTags, matchConstraints) ==
    \/ t = u
    \/ /\ matchTags => SameTags(t.tagSet, u.tagSet)
       /\ matchConstraints => Same(t.spec, u.spec)

\* Tags that need not match settle the question before constraints are asked.
IsSuperTypeOf(t, u, matchTags, matchConstraints) ==
    \/ ~matchTags
    \/ /\ IsSuperTagSetOf(t.tagSet, u.tagSet)
       /\ matchConstraints => IsSuperConstraintOf(t.spec, u.spec)

\* setComponentByPosition: u is accepted where a component of type t is due.
\* strictConstraints is an attribute of the container's class.
Fits(t, u, strict) ==
    IF strict THEN IsSameTypeWith(t, u, TRUE, TRUE) ELSE IsSuperTypeOf(t, u, TRUE, TRUE)

-----------------------------------------------------------------------------
(* Properties.                                                             *)

\* The values of t's kind that its constraints let through.
Accepted(t) == {v \in Payloads(t.kind) : Admits(t.spec, About(v))}

\* subtype() uses the + of the constraint objects.  That of an intersection
\* narrows; single values, and unions on either side, unite what they are given
\* with what it should narrow.
Widened(t, p) ==
    HasValues(p.spec) /\ t.spec # p.spec /\ t.spec.class \in SingleValued \cup {"Union"}

IsWidened(i) == types[i].how = "subtype" /\ Widened(types[i], types[types[i].parent])

\* subtype() specialises: what the new type accepts its parent accepts too,
\* unless + has united the two constraints.
SubtypesNarrow ==
    \A i \in DOMAIN types :
        types[i].how = "subtype" /\ ~IsWidened(i) =>
            Accepted(types[i]) \subseteq Accepted(types[types[i].parent])

\* The types that t was made from by subtype() alone, itself included: no set
\* with t that is closed under that leaves one of them out.
IsClosed(S) == \A j \in S : types[j].how = "subtype" => types[j].parent \in S

Lineage(i) == {j \in 1..i : \A S \in SUBSET (1..i) : i \in S /\ IsClosed(S) => j \in S}

\* A value satisfies every type that it is a value of by derivation, however
\* it came there: given to the constructor, to clone() or subtype(), or kept
\* from the object these were called on.
ValuesFitTheirLineage ==
    \A i \in DOMAIN types :
        (\A j \in Lineage(i) : ~IsWidened(j)) =>
            \A j \in Lineage(i) : types[i].value \subseteq Accepted(types[j])

\* isSuperTypeOf decides which objects a component takes: what it takes then
\* satisfies the component's constraints.  Two things in the code defeat it
\* and are left out: the operands of a union count as its supertypes, and
\* constraints of different classes compare equal if their arguments do.
SupertypesAreSound ==
    \A i, j \in DOMAIN types :
        LET t == types[i]
            u == types[j]
        IN  /\ t.kind = u.kind /\ \E strict \in BOOLEAN : Fits(t, u, strict)
            /\ \A c \in {u.spec} \cup ValueMap(u.spec) : c.class # "Union"
            /\ Same(t.spec, u.spec) => t.spec = u.spec
            => Accepted(u) \subseteq Accepted(t)

\* Everything above the first tag holds a whole encoding, so it is written
\* constructed; the first tag keeps the form of the base its object has,
\* through any sequence of implicit and explicit tagging, and of clones that
\* take over tags from a substrate or go back to the base.
TagsKeepTheirForm ==
    \A i \in DOMAIN types :
        LET ts == types[i].tagSet
        IN  /\ \A k \in 2..Len(ts.supers) : ts.supers[k].format = "constructed"
            /\ ts.base # NoTag => ts.supers[1].format = ts.base.format

\* Encoders ask every object whether its tag set differs from its base, where
\* only then a codec of its own may be registered for it.  The answer is stored
\* when a tag set is made, from its length and one tag: it is what comparing
\* the two would say, for sets without a base or without tags too.
DifferenceIsStored ==
    \A i \in DOMAIN types :
        LET ts == types[i].tagSet
        IN  DiffersFromBase(ts) = ~SameTags(ts, BaseTagSet(ts))
=============================================================================
