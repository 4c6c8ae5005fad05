--------------------------- MODULE SubtypesProofs ---------------------------
(***************************************************************************)
(* Proofs about Subtypes, for every set of classes, constraints, tags and  *)
(* values, and any number of objects.                                      *)
(*                                                                         *)
(* The inductive invariant says of every object how it relates to the one  *)
(* it was derived from.  Objects are never changed, so what held when an   *)
(* object was made holds ever after, and only the new object is looked at. *)
(***************************************************************************)
EXTENDS Subtypes, SequenceTheorems, TLAPS

IsList(s) == s = [i \in 1..Len(s) |-> s[i]] /\ Len(s) \in Nat

IsRecord(c) == c = Constraint(c.class, c.args, c.operands, c.status)

\* Constraints of these classes are arguments as they were given.
GivenSpec(spec) == spec.class \notin ConstraintSets \cup SingleValued

\* What a constraint set holds is an argument that was given once.
ArgumentsIn(c) == \A i \in DOMAIN c.operands : Nests4(c.operands[i])

Proper(o) ==
    /\ o.kind \in Kinds
    /\ IsFormed(o.tagSet)
    /\ IsRecord(o.spec)
    /\ o.spec.class \notin SingleValued => IsConstraint(o.spec)
    /\ GivenSpec(o.spec) => Nests4(o.spec)
    /\ o.spec.class \in ConstraintSets => ArgumentsIn(o.spec)
    /\ o.value \subseteq Payloads(o.kind)
    /\ Constructible(o.spec, o.value)

\* The constraint of a subtype is its parent's, or a sum with it.
Specialised(spec, parent) ==
    \/ spec = parent
    \/ \E c : IsArgument(c) /\ CanAdd(parent, c) /\ spec = Add(parent, c)

Derived(o, p) ==
    /\ o.kind = p.kind
    /\ o.how = "subtype" => Specialised(o.spec, p.spec)

Rooted(o) == o.parent = 0 /\ o.how = "declared"

IInv ==
    /\ IsList(types)
    /\ \A i \in 1..Len(types) :
          /\ Proper(types[i])
          /\ \/ Rooted(types[i])
             \/ /\ types[i].parent \in 1..(i - 1)
                /\ Derived(types[i], types[types[i].parent])

-----------------------------------------------------------------------------
(* Lists.                                                                  *)

LEMMA AppendedList ==
    ASSUME NEW s, IsList(s), NEW o
    PROVE  /\ IsList(Append(s, o))
           /\ Len(Append(s, o)) = Len(s) + 1
           /\ \A i \in 1..Len(s) : Append(s, o)[i] = s[i]
           /\ Append(s, o)[Len(s) + 1] = o
<1> DEFINE S == {s[i] : i \in 1..Len(s)} \cup {o}
<1>1. s \in Seq(S) /\ o \in S
  BY DEF IsList
<1>2. Append(s, o) \in Seq(S)
  BY <1>1
<1>3. Append(s, o) = [i \in 1..Len(Append(s, o)) |-> Append(s, o)[i]]
  BY <1>2, LenProperties
<1> QED
  BY <1>1, <1>2, <1>3 DEF IsList

-----------------------------------------------------------------------------
(* Tags.                                                                   *)

\* Tagging keeps the base, and the form of the first tag.
LEMMA TaggedIsFormed ==
    ASSUME NEW ts, IsFormed(ts), NEW implicit \in Tags \cup {NoTag}, NEW explicit \in Tags \cup {NoTag}
    PROVE  IsFormed(Tagged(ts, implicit, explicit)) /\ Tagged(ts, implicit, explicit).base = ts.base
<1>1. implicit \in TagType /\ explicit \in TagType
  BY TagsAssumption DEF TagType, NoTag, Formats, Classes
<1>2. ASSUME NEW tag \in TagType
      PROVE  IsFormed(TagExplicitly(ts, tag)) /\ TagExplicitly(ts, tag).base = ts.base
  <2> DEFINE top == [tag EXCEPT !.format = "constructed"]
             new == TagExplicitly(ts, tag)
  <2>1. top \in TagType /\ top.format = "constructed"
    BY DEF TagType, Formats
  <2>2. ts.supers \in Seq(TagType) /\ ts.base \in TagType
    BY DEF IsFormed, TagSetType
  <2>3. new.supers = Append(ts.supers, top) /\ new.base = ts.base /\ new \in TagSetType
    BY <2>1, <2>2 DEF IsFormed, TagSetType, TagExplicitly
  <2> HIDE DEF top, new
  <2>4. ASSUME NEW k \in 2..Len(new.supers)
        PROVE  new.supers[k].format = "constructed"
    BY <2>1, <2>2, <2>3 DEF IsFormed
  <2>5. ASSUME new.base # NoTag
        PROVE  Len(new.supers) >= 1 /\ new.supers[1].format = new.base.format
    BY <2>2, <2>3, <2>5 DEF IsFormed
  <2>6. IsFormed(new)
    BY <2>3, <2>4, <2>5 DEF IsFormed
  <2> QED
    BY <2>3, <2>6 DEF new
<1>3. ASSUME NEW tag \in TagType
      PROVE  IsFormed(TagImplicitly(ts, tag)) /\ TagImplicitly(ts, tag).base = ts.base
  <2> DEFINE n == Len(ts.supers)
             kept == [tag EXCEPT !.format = ts.supers[n].format]
             new == TagImplicitly(ts, tag)
  <2>1. ts.supers \in Seq(TagType) /\ ts.base \in TagType /\ n \in Nat
    BY DEF IsFormed, TagSetType
  <2>2. CASE n = 0
    <3>1. new.supers = <<tag>> /\ new.base = ts.base /\ new \in TagSetType
      BY <2>1, <2>2 DEF IsFormed, TagSetType, TagImplicitly
    <3>2. ts.base = NoTag
      BY <2>2 DEF IsFormed
    <3> QED
      BY <3>1, <3>2 DEF IsFormed
  <2>3. CASE n > 0
    <3>0. ts.supers[n] \in TagType
      BY <2>1, <2>3, ElementOfSeq
    <3>1. kept \in TagType /\ kept.format = ts.supers[n].format
      BY <3>0 DEF TagType
    <3>2. new = [ts EXCEPT !.supers = [ts.supers EXCEPT ![n] = kept]]
      BY <2>1, <2>3 DEF IsFormed, TagSetType, TagImplicitly
    <3>a. [ts.supers EXCEPT ![n] = kept] \in Seq(TagType)
      BY <2>1, <2>3, <3>1
    <3>b. new.supers = [ts.supers EXCEPT ![n] = kept] /\ new.base = ts.base /\ new \in TagSetType
      BY <3>2, <3>a DEF IsFormed, TagSetType
    <3>3. Len(new.supers) = n /\ \A k \in 1..n : new.supers[k].format = ts.supers[k].format
      BY <2>1, <2>3, <3>1, <3>b
    <3> HIDE DEF new, kept
    <3> QED
      BY <2>1, <2>3, <3>b, <3>3 DEF IsFormed, new
  <2> QED
    BY <2>1, <2>2, <2>3
<1> QED
  BY <1>1, <1>2, <1>3 DEF Tagged

\* What differsFromBaseTagSet is worked out from is the comparison.
LEMMA DiffersIsComparison ==
    ASSUME NEW ts \in TagSetType
    PROVE  DiffersFromBase(ts) <=> ~SameTags(ts, BaseTagSet(ts))
<1>1. ts.supers \in Seq(TagType)
  BY DEF TagSetType
<1>2. CASE ts.base = NoTag
  <2>1. BaseTagSet(ts).supers = <<>>
    BY <1>2 DEF BaseTagSet, TagSet
  <2>2. ClassIds(BaseTagSet(ts)) = [i \in {} |-> ClassId(<<>>[i])]
    BY <2>1 DEF ClassIds
  <2>3. SameTags(ts, BaseTagSet(ts)) <=> DOMAIN ts.supers = {}
    BY <2>2 DEF SameTags, ClassIds
  <2> QED
    BY <1>1, <1>2, <2>3 DEF DiffersFromBase
<1>3. CASE ts.base # NoTag
  <2>1. BaseTagSet(ts).supers = <<ts.base>>
    BY <1>3 DEF BaseTagSet, TagSet
  <2>2. ClassIds(BaseTagSet(ts)) = [i \in 1..1 |-> ClassId(ts.base)]
    BY <2>1 DEF ClassIds
  <2>3. SameTags(ts, BaseTagSet(ts)) <=>
           DOMAIN ts.supers = 1..1 /\ ClassId(ts.supers[1]) = ClassId(ts.base)
    BY <2>2 DEF SameTags, ClassIds
  <2>4. DOMAIN ts.supers = 1..1 <=> Len(ts.supers) = 1
    <3>1. DOMAIN ts.supers = 1..Len(ts.supers) /\ Len(ts.supers) \in Nat
      BY <1>1, LenProperties
    <3>2. ASSUME NEW n \in Nat, 1..n = 1..1
          PROVE  n = 1
      <4>1. 1 \in 1..n /\ n \in 1..n
        BY <3>2
      <4> QED
        BY <3>2, <4>1
    <3> QED
      BY <3>1, <3>2
  <2> QED
    BY <1>3, <2>3, <2>4 DEF DiffersFromBase
<1> QED
  BY <1>2, <1>3

-----------------------------------------------------------------------------
(* Constraints.                                                            *)

\* What a constraint that nests less deep admits does not depend on how many
\* levels are left: one lemma for each level.
LEMMA Agree1 ==
    ASSUME NEW c, Nests1(c), NEW q
    PROVE  Admits1(c, q) <=> Admits2(c, q)
<1>1. ASSUME NEW i \in DOMAIN c.operands, NEW r
      PROVE  Admits0(c.operands[i], r) <=> Admits1(c.operands[i], r)
  BY DEF Nests1
<1>2. {i \in DOMAIN c.operands : Admits0(c.operands[i], Question(c, q, i))}
         = {i \in DOMAIN c.operands : Admits1(c.operands[i], Question(c, q, i))}
  BY <1>1
<1> QED
  BY <1>2 DEF Admits1, Admits2

LEMMA Agree2 ==
    ASSUME NEW c, Nests2(c), NEW q
    PROVE  Admits2(c, q) <=> Admits3(c, q)
<1>1. ASSUME NEW i \in DOMAIN c.operands, NEW r
      PROVE  Admits1(c.operands[i], r) <=> Admits2(c.operands[i], r)
  BY Agree1 DEF Nests2
<1>2. {i \in DOMAIN c.operands : Admits1(c.operands[i], Question(c, q, i))}
         = {i \in DOMAIN c.operands : Admits2(c.operands[i], Question(c, q, i))}
  BY <1>1
<1> QED
  BY <1>2 DEF Admits2, Admits3

LEMMA Agree3 ==
    ASSUME NEW c, Nests3(c), NEW q
    PROVE  Admits3(c, q) <=> Admits4(c, q)
<1>1. ASSUME NEW i \in DOMAIN c.operands, NEW r
      PROVE  Admits2(c.operands[i], r) <=> Admits3(c.operands[i], r)
  BY Agree2 DEF Nests3
<1>2. {i \in DOMAIN c.operands : Admits2(c.operands[i], Question(c, q, i))}
         = {i \in DOMAIN c.operands : Admits3(c.operands[i], Question(c, q, i))}
  BY <1>1
<1> QED
  BY <1>2 DEF Admits3, Admits4

LEMMA Agree4 ==
    ASSUME NEW c, Nests4(c), NEW q
    PROVE  Admits4(c, q) <=> Admits(c, q)
<1>1. ASSUME NEW i \in DOMAIN c.operands, NEW r
      PROVE  Admits3(c.operands[i], r) <=> Admits4(c.operands[i], r)
  BY Agree3 DEF Nests4
<1>2. {i \in DOMAIN c.operands : Admits3(c.operands[i], Question(c, q, i))}
         = {i \in DOMAIN c.operands : Admits4(c.operands[i], Question(c, q, i))}
  BY <1>1
<1> QED
  BY <1>2 DEF Admits4, Admits

\* What nests less deep may be told apart less finely.
LEMMA NestsLess ==
    ASSUME NEW c
    PROVE  /\ Nests1(c) => Nests2(c)
           /\ Nests2(c) => Nests3(c)
           /\ Nests3(c) => Nests4(c)
<1>1. ASSUME NEW d, Nests1(d)
      PROVE  Nests2(d)
  BY <1>1 DEF Nests1, Nests2
<1>2. ASSUME NEW d, Nests2(d)
      PROVE  Nests3(d)
  BY <1>1, <1>2 DEF Nests2, Nests3
<1>3. ASSUME NEW d, Nests3(d)
      PROVE  Nests4(d)
  BY <1>2, <1>3 DEF Nests3, Nests4
<1> QED
  BY <1>1, <1>2, <1>3

\* Of all things that an intersection is given, each has to admit the value.
LEMMA IntersectionAdmits ==
    ASSUME NEW c, c.class = "Intersection", NEW v, Admits(c, About(v)), NEW i \in DOMAIN c.operands,
           c.operands # <<>>
    PROVE  Admits4(c.operands[i], About(v))
<1>1. TestValue(c, About(v), {k \in DOMAIN c.operands : Admits4(c.operands[k], Question(c, About(v), k))})
  BY DEF Admits, HasValues
<1>2. i \in {k \in DOMAIN c.operands : Admits4(c.operands[k], Question(c, About(v), k))}
  BY <1>1 DEF TestValue, IntersectionTest
<1>3. Question(c, About(v), i) = About(v)
  BY DEF Question
<1> QED
  BY <1>2, <1>3

\* A sum that is no union narrows.
LEMMA SumNarrows ==
    ASSUME NEW p, IsRecord(p), p.class \notin SingleValued => IsConstraint(p),
           GivenSpec(p) => Nests4(p),
           NEW c, IsArgument(c), CanAdd(p, c),
           HasValues(p) => Add(p, c).class \notin SingleValued \cup {"Union"},
           NEW v, Admits(Add(p, c), About(v))
    PROVE  Admits(p, About(v))
<1> DEFINE s == Add(p, c)
<1> SUFFICES ASSUME HasValues(p)
             PROVE  Admits(p, About(v))
  BY DEF Admits
<1>1. p.class \notin SingleValued \cup {"Union"}
  <2>1. p.class \in SingleValued \cup ConstraintSets => s.class = p.class
    BY DEF Add, Unite, IsRecord, Constraint
  <2> QED
    BY <2>1 DEF ConstraintSets
<1>2. IsConstraint(p) /\ IsConstraint(c)
  BY <1>1 DEF IsArgument, Nests4
<1>3. CASE p.class = "Intersection"
  <2>1. s = [p EXCEPT !.operands = Append(p.operands, c)]
    BY <1>3 DEF Add, ConstraintSets
  <2>2. s.class = "Intersection" /\ s.operands = Append(p.operands, c)
    BY <1>2, <1>3, <2>1 DEF IsConstraint, Constraint
  <2>3. IsList(p.operands)
    BY <1>2 DEF IsConstraint, IsList
  <2>4. /\ IsList(s.operands) /\ Len(s.operands) = Len(p.operands) + 1
        /\ \A i \in 1..Len(p.operands) : s.operands[i] = p.operands[i]
    BY <2>2, <2>3, AppendedList
  <2> HIDE DEF s
  <2>5. DOMAIN s.operands = 1..Len(p.operands) + 1 /\ DOMAIN p.operands = 1..Len(p.operands)
        /\ Len(p.operands) \in Nat
    BY <2>3, <2>4 DEF IsList
  <2>6. s.operands # <<>>
    BY <2>4, <2>5
  <2>7. \A i \in DOMAIN p.operands : Admits4(p.operands[i], About(v))
    BY <2>2, <2>4, <2>5, <2>6, IntersectionAdmits DEF s
  <2>8. \A i \in DOMAIN p.operands : Question(p, About(v), i) = About(v)
    BY <1>3 DEF Question
  <2>9. {i \in DOMAIN p.operands : Admits4(p.operands[i], Question(p, About(v), i))} = DOMAIN p.operands
    BY <2>7, <2>8
  <2> QED
    BY <1>3, <2>9 DEF Admits, TestValue, IntersectionTest
<1>4. CASE p.class # "Intersection"
  <2>1. GivenSpec(p)
    BY <1>1, <1>4 DEF GivenSpec, ConstraintSets
  <2>2. c.class \in ConstraintSets /\ s = [c EXCEPT !.operands = <<p>> \o c.operands]
    BY <1>1, <1>4 DEF CanAdd, Add, ConstraintSets
  <2>3. s.class = c.class /\ s.operands = <<p>> \o c.operands
    BY <1>2, <2>2 DEF IsConstraint, Constraint
  <2>4. s.class = "Intersection"
    BY <2>2, <2>3 DEF ConstraintSets
  <2>5. IsList(c.operands)
    BY <1>2 DEF IsConstraint, IsList
  <2> DEFINE S == {c.operands[i] : i \in 1..Len(c.operands)} \cup {p}
  <2>6. c.operands \in Seq(S) /\ <<p>> \in Seq(S) /\ Len(<<p>>) = 1 /\ <<p>>[1] = p
    BY <2>5 DEF IsList
  <2> HIDE DEF S, s
  <2>7. 1 \in DOMAIN s.operands /\ s.operands[1] = p /\ s.operands # <<>>
    BY <2>3, <2>6, ConcatProperties, LenProperties
  <2>8. Admits4(p, About(v))
    BY <2>4, <2>7, IntersectionAdmits DEF s
  <2> QED
    BY <2>1, <2>8, Agree4 DEF GivenSpec
<1> QED
  BY <1>3, <1>4

\* A sum is a constraint again, and no argument nests in vain: it is a set.
LEMMA SumIsProper ==
    ASSUME NEW p, IsRecord(p), p.class \notin SingleValued => IsConstraint(p),
           GivenSpec(p) => Nests4(p), p.class \in ConstraintSets => ArgumentsIn(p),
           NEW c, IsArgument(c), CanAdd(p, c)
    PROVE  LET s == Add(p, c)
           IN  /\ IsRecord(s) /\ ~GivenSpec(s)
               /\ s.class \notin SingleValued => IsConstraint(s)
               /\ s.class \in ConstraintSets => ArgumentsIn(s)
<1> DEFINE s == Add(p, c)
<1>0. IsConstraint(c)
  BY DEF IsArgument, Nests4
<1>1. CASE p.class \in ConstraintSets
  <2>1. s = [p EXCEPT !.operands = Append(p.operands, c)]
    BY <1>1 DEF Add
  <2>2. s.class = p.class /\ s.operands = Append(p.operands, c) /\ IsRecord(s)
    BY <2>1 DEF IsRecord, Constraint
  <2>3. IsList(p.operands)
    BY <1>1 DEF IsConstraint, IsList, ConstraintSets, SingleValued
  <2>4. /\ IsList(s.operands) /\ Len(s.operands) = Len(p.operands) + 1
        /\ \A i \in 1..Len(p.operands) : s.operands[i] = p.operands[i]
        /\ s.operands[Len(p.operands) + 1] = c
    BY <2>2, <2>3, AppendedList
  <2> HIDE DEF s
  <2>6. ArgumentsIn(s)
    <3>1. PICK n \in Nat : n = Len(p.operands) /\ DOMAIN p.operands = 1..n
                           /\ DOMAIN s.operands = 1..n + 1
      BY <2>3, <2>4 DEF IsList
    <3> QED
      BY <1>1, <2>4, <3>1 DEF ArgumentsIn, IsArgument
  <2>5. s.class # "InnerType" /\ ~GivenSpec(s)
    BY <1>1, <2>2 DEF ConstraintSets, GivenSpec
  <2> QED
    BY <2>2, <2>4, <2>5, <2>6 DEF IsConstraint, IsRecord, IsList, s
<1>2. CASE p.class \in SingleValued
  <2>1. s = Unite(p, c)
    BY <1>2 DEF Add, ConstraintSets, SingleValued
  <2>2. s.class = p.class /\ IsRecord(s)
    BY <2>1 DEF IsRecord, Constraint, Unite
  <2> QED
    BY <1>2, <2>2 DEF GivenSpec, ConstraintSets, SingleValued
<1>3. CASE p.class \notin ConstraintSets \cup SingleValued
  <2>1. c.class \in ConstraintSets /\ s = [c EXCEPT !.operands = <<p>> \o c.operands]
    BY <1>3 DEF CanAdd, Add
  <2>2. s.class = c.class /\ s.operands = <<p>> \o c.operands /\ IsRecord(s)
    BY <1>0, <2>1 DEF IsRecord, IsConstraint, Constraint
  <2>3. IsList(c.operands)
    BY <1>0 DEF IsConstraint, IsList
  <2> DEFINE S == {c.operands[i] : i \in 1..Len(c.operands)} \cup {p}
  <2>4. c.operands \in Seq(S) /\ <<p>> \in Seq(S)
    BY <2>3 DEF IsList
  <2> HIDE DEF S, s
  <2>5. IsList(s.operands)
    BY <2>2, <2>4, ConcatProperties, LenProperties DEF IsList
  <2>6. s.class # "InnerType" /\ ~GivenSpec(s)
    BY <2>1, <2>2 DEF ConstraintSets, GivenSpec
  <2>7. ArgumentsIn(s)
    <3>1. PICK n \in Nat : n = Len(c.operands) /\ DOMAIN c.operands = 1..n
      BY <2>3 DEF IsList
    <3>2. /\ DOMAIN s.operands = 1..n + 1 /\ s.operands[1] = p
          /\ \A i \in 1..n : s.operands[i + 1] = c.operands[i]
      BY <2>2, <2>4, <3>1, ConcatProperties, LenProperties
    <3>3. Nests4(p)
      BY <1>3 DEF GivenSpec
    <3>4. \A i \in 1..n : Nests4(c.operands[i])
      BY <3>1, NestsLess DEF IsArgument, Nests4
    <3>5. ASSUME NEW k \in 1..n + 1
          PROVE  Nests4(s.operands[k])
      <4>1. CASE k = 1
        BY <3>2, <3>3, <4>1
      <4>2. CASE k # 1
        <5>1. k - 1 \in 1..n /\ s.operands[k] = c.operands[k - 1]
          <6>1. PICK i \in 1..n : k = i + 1
            BY <4>2
          <6> QED
            BY <3>2, <6>1
        <5> QED
          BY <3>4, <5>1
      <4> QED
        BY <4>1, <4>2
    <3> QED
      BY <3>2, <3>5 DEF ArgumentsIn
  <2> QED
    BY <2>2, <2>5, <2>6, <2>7 DEF IsConstraint, IsRecord, IsList, s
<1> QED
  BY <1>1, <1>2, <1>3

-----------------------------------------------------------------------------
(* The invariant.                                                          *)

LEMMA DeclaredIsProper ==
    ASSUME NEW d \in Declared
    PROVE  LET o == Object(d.kind, d.tagSet, d.spec, Nothing, 0, "declared")
           IN  Proper(o) /\ Rooted(o)
<1> DEFINE o == Object(d.kind, d.tagSet, d.spec, Nothing, 0, "declared")
<1>1. /\ o.kind = d.kind /\ o.tagSet = d.tagSet /\ o.spec = d.spec
      /\ o.value = {} /\ o.parent = 0 /\ o.how = "declared"
  BY DEF Object, Nothing
<1> HIDE DEF o
<1>2. IsArgument(d.spec) /\ d.tagSet \in TagSetType
      /\ Len(d.tagSet.supers) = Len(BaseTagSet(d.tagSet).supers)
      /\ \A i \in DOMAIN d.tagSet.supers : d.tagSet.supers[i].format = d.tagSet.base.format
  BY DeclaredAssumption
<1>3. IsFormed(d.tagSet)
  <2>1. d.tagSet.supers \in Seq(TagType)
    BY <1>2 DEF TagSetType
  <2>2. Len(d.tagSet.supers) = IF d.tagSet.base = NoTag THEN 0 ELSE 1
    BY <1>2 DEF BaseTagSet, TagSet
  <2>3. DOMAIN d.tagSet.supers = 1..Len(d.tagSet.supers)
    BY <2>1, LenProperties
  <2> QED
    BY <1>2, <2>2, <2>3 DEF IsFormed
<1>4. d.kind \in Kinds
  BY DEF Kinds
<1>5. IsConstraint(d.spec) /\ Nests4(d.spec)
  BY <1>2 DEF IsArgument, Nests4
<1>7. ArgumentsIn(d.spec)
  BY <1>5, NestsLess DEF ArgumentsIn, Nests4
<1>6. Proper(o)
  BY <1>1, <1>3, <1>4, <1>5, <1>7 DEF Proper, IsConstraint, IsRecord, Constructible
<1> QED
  BY <1>1, <1>6 DEF Rooted, o

LEMMA NewObject ==
    ASSUME IInv, NEW o, Proper(o), types' = Append(types, o),
           \/ Rooted(o)
           \/ o.parent \in DOMAIN types /\ Derived(o, types[o.parent])
    PROVE  IInv'
<1>1. /\ IsList(types') /\ Len(types') = Len(types) + 1
      /\ \A i \in 1..Len(types) : types'[i] = types[i]
      /\ types'[Len(types) + 1] = o
  BY AppendedList DEF IInv
<1>2. Len(types) \in Nat /\ DOMAIN types = 1..Len(types)
  BY DEF IInv, IsList
<1>3. ASSUME NEW i \in 1..Len(types)
      PROVE  /\ Proper(types'[i])
             /\ \/ Rooted(types'[i])
                \/ /\ types'[i].parent \in 1..(i - 1)
                   /\ Derived(types'[i], types'[types'[i].parent])
  <2>1. \A j \in 1..(i - 1) : types'[j] = types[j]
    BY <1>1, <1>2
  <2> QED
    BY <1>1, <2>1 DEF IInv
<1>4. \/ Rooted(o)
      \/ o.parent \in 1..(Len(types) + 1 - 1) /\ Derived(o, types'[o.parent])
  BY <1>1, <1>2
<1>5. \A i \in 1..Len(types') : i \in 1..Len(types) \/ i = Len(types) + 1
  BY <1>1, <1>2
<1> QED
  BY <1>1, <1>3, <1>4, <1>5 DEF IInv

LEMMA GivenValue ==
    ASSUME NEW t, Proper(t), NEW v \in Offers(t)
    PROVE  Given(v, t.value) \subseteq Payloads(t.kind)
BY DEF Proper, Offers, Given, Nothing

\* A tag set that goes back to its base has the form of the base.
LEMMA BaseIsFormed ==
    ASSUME NEW ts, IsFormed(ts)
    PROVE  IsFormed(BaseTagSet(ts))
<1>1. ts.base \in TagType
  BY DEF IsFormed, TagSetType
<1>2. CASE ts.base = NoTag
  <2>1. BaseTagSet(ts) = [base |-> NoTag, supers |-> <<>>]
    BY <1>2 DEF BaseTagSet, TagSet
  <2> QED
    BY <1>1, <1>2, <2>1 DEF IsFormed, TagSetType
<1>3. CASE ts.base # NoTag
  <2>1. BaseTagSet(ts) = [base |-> ts.base, supers |-> <<ts.base>>]
    BY <1>3 DEF BaseTagSet, TagSet
  <2> QED
    BY <1>1, <2>1 DEF IsFormed, TagSetType
<1> QED
  BY <1>2, <1>3

LEMMA CloneStep ==
    ASSUME IInv, NEW i \in DOMAIN types, Clone(i)
    PROVE  IInv'
<1> DEFINE t == types[i]
<1>1. Proper(t)
  BY DEF IInv, IsList
<1> HIDE DEF t
<1>2. PICK v \in Offers(t), c \in Specs(t.kind) \cup {Unsaid} :
         \E ts \in Retags(t) :
            Make(Object(t.kind, ts, IF c = Unsaid THEN t.spec ELSE c,
                        Given(v, t.value), i, "clone"))
  BY DEF Clone, t
<1>a. PICK ts \in Retags(t) :
         Make(Object(t.kind, ts, IF c = Unsaid THEN t.spec ELSE c,
                     Given(v, t.value), i, "clone"))
  BY <1>2
<1> DEFINE o == Object(t.kind, ts, IF c = Unsaid THEN t.spec ELSE c,
                       Given(v, t.value), i, "clone")
<1>3. /\ o.kind = t.kind /\ o.tagSet = ts /\ o.spec = IF c = Unsaid THEN t.spec ELSE c
      /\ o.value = Given(v, t.value) /\ o.parent = i /\ o.how = "clone"
  BY DEF Object
<1>4. types' = Append(types, o) /\ Constructible(o.spec, o.value)
  BY <1>a DEF Make
<1> HIDE DEF o
<1>5. c # Unsaid => IsArgument(c)
  BY <1>1, SpecsAssumption DEF Proper
<1>6. c # Unsaid => IsConstraint(c) /\ Nests4(c) /\ IsRecord(c) /\ ArgumentsIn(c)
  BY <1>5, NestsLess DEF IsArgument, Nests4, IsConstraint, IsRecord, ArgumentsIn
<1>b. IsFormed(o.tagSet)
  <2>1. ts = t.tagSet \/ ts = BaseTagSet(t.tagSet) \/ ts \in Recovered(t.kind)
    BY DEF Retags
  <2> QED
    BY <1>1, <1>3, <2>1, BaseIsFormed, RecoveredAssumption DEF Proper
<1>7. Proper(o)
  BY <1>1, <1>b, <1>3, <1>4, <1>6, GivenValue DEF Proper
<1>8. Derived(o, t)
  BY <1>3 DEF Derived
<1> QED
  BY <1>3, <1>4, <1>7, <1>8, NewObject DEF t

LEMMA SubtypeStep ==
    ASSUME IInv, NEW i \in DOMAIN types, Subtype(i)
    PROVE  IInv'
<1> DEFINE t == types[i]
<1>1. Proper(t)
  BY DEF IInv, IsList
<1> HIDE DEF t
<1>2. PICK v \in Offers(t), c \in Specs(t.kind) \cup {Unsaid},
           implicit \in Tags \cup {NoTag}, explicit \in Tags \cup {NoTag} :
         /\ c = Unsaid \/ CanAdd(t.spec, c)
         /\ Make(Object(t.kind, Tagged(t.tagSet, implicit, explicit), Narrowed(t.spec, c),
                        Given(v, t.value), i, "subtype"))
  BY DEF Subtype, t
<1> DEFINE o == Object(t.kind, Tagged(t.tagSet, implicit, explicit), Narrowed(t.spec, c),
                       Given(v, t.value), i, "subtype")
<1>3. /\ o.kind = t.kind /\ o.tagSet = Tagged(t.tagSet, implicit, explicit)
      /\ o.spec = Narrowed(t.spec, c)
      /\ o.value = Given(v, t.value) /\ o.parent = i /\ o.how = "subtype"
  BY DEF Object
<1>4. types' = Append(types, o) /\ Constructible(o.spec, o.value)
  BY <1>2 DEF Make
<1> HIDE DEF o
<1>5. IsFormed(o.tagSet) /\ o.tagSet.base = t.tagSet.base
  BY <1>1, <1>3, TaggedIsFormed DEF Proper
<1>6. c # Unsaid => IsArgument(c) /\ CanAdd(t.spec, c) /\ o.spec = Add(t.spec, c)
  BY <1>1, <1>2, <1>3, SpecsAssumption DEF Proper, Narrowed
<1>7. c = Unsaid => o.spec = t.spec
  BY <1>3 DEF Narrowed
<1>8. /\ IsRecord(o.spec)
      /\ o.spec.class \notin SingleValued => IsConstraint(o.spec)
      /\ GivenSpec(o.spec) => Nests4(o.spec)
      /\ o.spec.class \in ConstraintSets => ArgumentsIn(o.spec)
  BY <1>1, <1>6, <1>7, SumIsProper DEF Proper
<1>9. Proper(o)
  BY <1>1, <1>3, <1>4, <1>5, <1>8, GivenValue DEF Proper
<1>10. Derived(o, t)
  BY <1>3, <1>5, <1>6, <1>7 DEF Derived, Specialised
<1> QED
  BY <1>3, <1>4, <1>9, <1>10, NewObject DEF t

LEMMA InitIsSound == Init => IInv
<1> SUFFICES ASSUME NEW d \in Declared,
                    types = <<Object(d.kind, d.tagSet, d.spec, Nothing, 0, "declared")>>
             PROVE  IInv
  BY DEF Init
<1>1. IsList(types) /\ Len(types) = 1 /\ types[1] = Object(d.kind, d.tagSet, d.spec, Nothing, 0, "declared")
  BY DEF IsList
<1> QED
  BY <1>1, DeclaredIsProper DEF IInv

LEMMA NextIsSound == IInv /\ [Next]_types => IInv'
<1> SUFFICES ASSUME IInv, [Next]_types
             PROVE  IInv'
  OBVIOUS
<1>1. CASE Declare
  <2>1. PICK d \in Declared :
           types' = Append(types, Object(d.kind, d.tagSet, d.spec, Nothing, 0, "declared"))
    BY <1>1 DEF Declare, Make
  <2> QED
    BY <2>1, DeclaredIsProper, NewObject
<1>2. ASSUME NEW i \in DOMAIN types, Clone(i)
      PROVE  IInv'
  BY <1>2, CloneStep
<1>3. ASSUME NEW i \in DOMAIN types, Subtype(i)
      PROVE  IInv'
  BY <1>3, SubtypeStep
<1>4. CASE UNCHANGED types
  BY <1>4 DEF IInv
<1> QED
  BY <1>1, <1>2, <1>3, <1>4 DEF Next

\* The invariant holds of every list of objects the operations can make.
THEOREM Invariant == Spec => []IInv
<1>1. Init => IInv
  BY InitIsSound
<1>2. IInv /\ [Next]_types => IInv'
  BY NextIsSound
<1> QED
  BY <1>1, <1>2, PTL DEF Spec

-----------------------------------------------------------------------------
(* What follows from it.                                                   *)

\* However a type is tagged, implicitly or explicitly and in any order, tags
\* above the first are constructed and the first has the form of its base.
THEOREM TagForms == Spec => []TagsKeepTheirForm
<1>1. IInv => TagsKeepTheirForm
  BY DEF IInv, IsList, Proper, IsFormed, TagsKeepTheirForm
<1> QED
  BY <1>1, Invariant, PTL

\* For any tag set that derivation can lead to, with a base or without, the
\* stored differsFromBaseTagSet is what comparing it with its base says.
THEOREM Differences == Spec => []DifferenceIsStored
<1>1. ASSUME IInv
      PROVE  DifferenceIsStored
  <2> SUFFICES ASSUME NEW i \in DOMAIN types
               PROVE  DiffersFromBase(types[i].tagSet) =
                         ~SameTags(types[i].tagSet, BaseTagSet(types[i].tagSet))
    BY DEF DifferenceIsStored
  <2>1. types[i].tagSet \in TagSetType
    BY <1>1 DEF IInv, IsList, Proper, IsFormed
  <2>2. DiffersFromBase(types[i].tagSet) \in BOOLEAN
        /\ SameTags(types[i].tagSet, BaseTagSet(types[i].tagSet)) \in BOOLEAN
    BY DEF DiffersFromBase, SameTags
  <2> QED
    BY <2>1, <2>2, DiffersIsComparison
<1> QED
  BY <1>1, Invariant, PTL

LEMMA NarrowsUnderInvariant ==
    ASSUME IInv
    PROVE  SubtypesNarrow
<1> SUFFICES ASSUME NEW i \in DOMAIN types, types[i].how = "subtype", ~IsWidened(i)
             PROVE  Accepted(types[i]) \subseteq Accepted(types[types[i].parent])
  BY DEF SubtypesNarrow
<1> DEFINE t == types[i]
           p == types[t.parent]
<1>1. /\ t.parent \in DOMAIN types /\ Derived(t, p) /\ Proper(p)
  <2>1. \/ Rooted(t)
        \/ t.parent \in 1..(i - 1) /\ Derived(t, p)
    BY DEF IInv, IsList
  <2>2. t.parent \in 1..(i - 1) /\ Derived(t, p)
    BY <2>1 DEF Rooted
  <2>3. DOMAIN types = 1..Len(types) /\ Len(types) \in Nat
    BY DEF IInv, IsList
  <2>4. t.parent \in 1..Len(types)
    BY <2>2, <2>3
  <2> QED
    BY <2>2, <2>3, <2>4 DEF IInv
<1>2. ~Widened(t, p)
  BY DEF IsWidened
<1> HIDE DEF t, p
<1>3. t.kind = p.kind /\ Specialised(t.spec, p.spec)
  BY <1>1 DEF Derived, t
<1>4. ASSUME NEW v, Admits(t.spec, About(v))
      PROVE  Admits(p.spec, About(v))
  <2>1. CASE t.spec = p.spec
    BY <1>4, <2>1
  <2>2. CASE t.spec # p.spec
    <3>1. PICK c : IsArgument(c) /\ CanAdd(p.spec, c) /\ t.spec = Add(p.spec, c)
      BY <1>3, <2>2 DEF Specialised
    <3>2. HasValues(p.spec) => Add(p.spec, c).class \notin SingleValued \cup {"Union"}
      BY <1>2, <2>2, <3>1 DEF Widened
    <3> QED
      BY <1>1, <1>4, <3>1, <3>2, SumNarrows DEF Proper
  <2> QED
    BY <2>1, <2>2
<1>5. Accepted(t) \subseteq Accepted(p)
  BY <1>3, <1>4 DEF Accepted
<1> QED
  BY <1>5 DEF t, p

\* subtype() specialises unless + unites: what the new type accepts, the one it
\* was derived from accepts, for constraints of every class.
THEOREM Narrowing == Spec => []SubtypesNarrow
<1>1. IInv => SubtypesNarrow
  BY NarrowsUnderInvariant
<1> QED
  BY <1>1, Invariant, PTL

\* The parent of one of i's types is one of them again.
LEMMA LineageIsClosed ==
    ASSUME IInv, NEW i \in DOMAIN types
    PROVE  i \in Lineage(i) /\ IsClosed(Lineage(i)) /\ Lineage(i) \subseteq 1..i /\ 1..i \subseteq DOMAIN types
<1>1. i \in 1..i /\ 1..i \subseteq DOMAIN types /\ i \in Nat
  BY DEF IInv, IsList
<1>2. ASSUME NEW j \in Lineage(i), types[j].how = "subtype"
      PROVE  types[j].parent \in Lineage(i)
  <2>1. j \in 1..i
    BY DEF Lineage
  <2>2. types[j].parent \in 1..(j - 1)
    BY <1>1, <1>2, <2>1 DEF IInv, IsList, Rooted
  <2>3. types[j].parent \in 1..i
    BY <1>1, <2>1, <2>2
  <2>4. ASSUME NEW S \in SUBSET (1..i), i \in S, IsClosed(S)
        PROVE  types[j].parent \in S
    BY <1>2, <2>4 DEF Lineage, IsClosed
  <2> QED
    BY <2>3, <2>4 DEF Lineage
<1>3. i \in Lineage(i)
  BY <1>1 DEF Lineage
<1> QED
  BY <1>1, <1>2, <1>3 DEF IsClosed, Lineage

\* A value passes the constraints of its own type and of every type that one
\* was derived from by subtype(), however it came to be the object's value.
THEOREM Fitting == Spec => []ValuesFitTheirLineage
<1>1. ASSUME IInv
      PROVE  ValuesFitTheirLineage
  <2> SUFFICES ASSUME NEW i \in DOMAIN types, \A j \in Lineage(i) : ~IsWidened(j)
               PROVE  \A j \in Lineage(i) : types[i].value \subseteq Accepted(types[j])
    BY DEF ValuesFitTheirLineage
  <2> DEFINE S == {j \in Lineage(i) : Accepted(types[i]) \subseteq Accepted(types[j])}
  <2>1. types[i].value \subseteq Accepted(types[i])
    BY <1>1 DEF IInv, IsList, Proper, Constructible, Accepted
  <2>2. /\ i \in Lineage(i) /\ IsClosed(Lineage(i))
        /\ Lineage(i) \subseteq 1..i /\ 1..i \subseteq DOMAIN types
    BY <1>1, LineageIsClosed
  <2>3. i \in S /\ S \in SUBSET (1..i)
    BY <2>2
  <2>4. ASSUME NEW j \in S, types[j].how = "subtype"
        PROVE  types[j].parent \in S
    <3>1. types[j].parent \in Lineage(i)
      BY <2>2, <2>4 DEF IsClosed
    <3>2. Accepted(types[j]) \subseteq Accepted(types[types[j].parent])
      BY <1>1, <2>2, <2>4, NarrowsUnderInvariant DEF SubtypesNarrow
    <3> QED
      BY <3>1, <3>2
  <2>5. IsClosed(S)
    BY <2>4 DEF IsClosed
  <2> HIDE DEF S
  <2>6. Lineage(i) \subseteq S
    BY <2>3, <2>5 DEF Lineage
  <2> QED
    BY <2>1, <2>6 DEF S
<1> QED
  BY <1>1, Invariant, PTL

-----------------------------------------------------------------------------
(* Comparing constraints.                                                  *)

\* == is symmetric: one lemma for each level.
LEMMA SameArgumentsBack ==
    ASSUME NEW c, NEW d, NEW equal, SameArguments(c, d, equal)
    PROVE  SameArguments(d, c, equal) /\ Operands(c, d) = Operands(d, c)
BY DEF SameArguments, Operands

LEMMA SameBack1 ==
    ASSUME NEW c, NEW d, Same1(c, d)
    PROVE  Same1(d, c)
<1>1. {i \in Operands(c, d) : Same0(c.operands[i], d.operands[i])}
         = {i \in Operands(d, c) : Same0(d.operands[i], c.operands[i])}
  BY DEF Operands, Same0
<1> QED
  BY <1>1, SameArgumentsBack DEF Same1

LEMMA SameBack2 ==
    ASSUME NEW c, NEW d, Same2(c, d)
    PROVE  Same2(d, c)
<1>1. {i \in Operands(c, d) : Same1(c.operands[i], d.operands[i])}
         = {i \in Operands(d, c) : Same1(d.operands[i], c.operands[i])}
  BY SameBack1 DEF Operands
<1> QED
  BY <1>1, SameArgumentsBack DEF Same2

LEMMA SameBack3 ==
    ASSUME NEW c, NEW d, Same3(c, d)
    PROVE  Same3(d, c)
<1>1. {i \in Operands(c, d) : Same2(c.operands[i], d.operands[i])}
         = {i \in Operands(d, c) : Same2(d.operands[i], c.operands[i])}
  BY SameBack2 DEF Operands
<1> QED
  BY <1>1, SameArgumentsBack DEF Same3

LEMMA SameBack4 ==
    ASSUME NEW c, NEW d, Same4(c, d)
    PROVE  Same4(d, c)
<1>1. {i \in Operands(c, d) : Same3(c.operands[i], d.operands[i])}
         = {i \in Operands(d, c) : Same3(d.operands[i], c.operands[i])}
  BY SameBack3 DEF Operands
<1> QED
  BY <1>1, SameArgumentsBack DEF Same4

LEMMA SameBack ==
    ASSUME NEW c, NEW d, Same(c, d)
    PROVE  Same(d, c)
<1>1. {i \in Operands(c, d) : Same4(c.operands[i], d.operands[i])}
         = {i \in Operands(d, c) : Same4(d.operands[i], c.operands[i])}
  BY SameBack4 DEF Operands
<1> QED
  BY <1>1, SameArgumentsBack DEF Same

\* What a constraint set that is no union admits, its members admit.
LEMMA MemberAdmits ==
    ASSUME NEW c, c.class # "Union", NEW m \in Members(c), Nests4(m),
           NEW v, Admits(c, About(v))
    PROVE  Admits(m, About(v))
<1>1. PICK i \in DOMAIN c.operands : m = c.operands[i] /\ c.class \in ConstraintSets
  BY DEF Members
<1>2. c.class = "Intersection"
  BY <1>1 DEF ConstraintSets
<1>3. c.operands # <<>>
  BY <1>1
<1>4. Admits4(c.operands[i], About(v))
  BY <1>2, <1>3, IntersectionAdmits
<1> QED
  BY <1>1, <1>4, Agree4

\* A supertype that has no union on the way to its subtype takes all its values.
LEMMA SupertypeAdmits ==
    ASSUME NEW c, NEW d, IsSuperConstraintOf(c, d), Same(c, d) => c = d,
           d.class \in ConstraintSets => ArgumentsIn(d),
           \A e \in {d} \cup ValueMap(d) : e.class # "Union",
           NEW v, Admits(d, About(v))
    PROVE  Admits(c, About(v))
<1>1. CASE ~HasValues(c)
  BY <1>1 DEF Admits
<1>2. CASE Same(d, c)
  BY <1>2, SameBack
<1>3. ASSUME NEW m \in Members(d)
      PROVE  Nests4(m) /\ Admits(m, About(v)) /\ m \in ValueMap(d)
  <2>1. Nests4(m)
    BY <1>3 DEF Members, ArgumentsIn
  <2> QED
    BY <2>1, MemberAdmits DEF ValueMap
<1>4. ASSUME NEW m \in Members(d), NEW n \in Members(m)
      PROVE  Nests3(n) /\ Admits(n, About(v)) /\ n \in ValueMap(d)
  <2>1. Nests3(n)
    BY <1>3 DEF Members, Nests4
  <2>2. Admits(n, About(v))
    BY <1>3, <2>1, NestsLess, MemberAdmits
  <2> QED
    BY <2>1, <2>2 DEF ValueMap
<1>5. ASSUME NEW m \in Members(d), NEW n \in Members(m), NEW o \in Members(n)
      PROVE  Admits(o, About(v))
  <2>1. Nests4(o)
    BY <1>4, NestsLess DEF Members, Nests3
  <2> QED
    BY <1>4, <2>1, MemberAdmits
<1>6. CASE c \in ValueMap(d)
  BY <1>3, <1>4, <1>5, <1>6 DEF ValueMap
<1> QED
  BY <1>1, <1>2, <1>6 DEF IsSuperConstraintOf

\* What isSuperTypeOf and isSameTypeWith let into a component satisfies the
\* component's constraints, for constraints of every class and any values, as
\* far as no union and no chance equality of arguments misleads them.
THEOREM Accepting == Spec => []SupertypesAreSound
<1>1. ASSUME IInv
      PROVE  SupertypesAreSound
  <2> SUFFICES ASSUME NEW i \in DOMAIN types, NEW j \in DOMAIN types,
                      types[i].kind = types[j].kind,
                      NEW strict \in BOOLEAN, Fits(types[i], types[j], strict),
                      \A c \in {types[j].spec} \cup ValueMap(types[j].spec) :
                          c.class # "Union",
                      Same(types[i].spec, types[j].spec) => types[i].spec = types[j].spec,
                      NEW v, Admits(types[j].spec, About(v))
               PROVE  Admits(types[i].spec, About(v))
    BY Zenon DEF SupertypesAreSound, Accepted
  <2>1. Proper(types[j])
    BY <1>1 DEF IInv, IsList
  <2>2. \/ types[i].spec = types[j].spec
        \/ IsSuperConstraintOf(types[i].spec, types[j].spec)
    BY DEF Fits, IsSameTypeWith, IsSuperTypeOf
  <2> QED
    BY <2>1, <2>2, SupertypeAdmits DEF Proper
<1> QED
  BY <1>1, Invariant, PTL
=============================================================================
