---------------------------- MODULE Constraints -----------------------------
(***************************************************************************)
(* Constraint objects (pyasn1/type/constraint.py).  A constraint is a      *)
(* record: its class, the plain values among its arguments, the            *)
(* constraints among them, and for InnerTypeConstraint their statuses.     *)
(* Values, fields and indices are sequences: <<n>> is a number, a string    *)
(* is its characters, a mapping its components, and None is <<>>.          *)
(*                                                                         *)
(* An operand is a constraint again.  They nest at most five deep here     *)
(* (a bound), and constraint sets within constraint sets three deep.       *)
(***************************************************************************)
EXTENDS Integers, Sequences

LOCAL INSTANCE SequencesExt

None == <<>>

Constraint(class, args, operands, status) ==
    [class |-> class, args |-> args, operands |-> operands, status |-> status]

ConstraintSets == {"Intersection", "Union"}

\* SingleValueConstraint and its heir: plain values, kept as a set.
SingleValued == {"SingleValue", "PermittedAlphabet"}

\* __bool__: the constraint was given something to say.
HasValues(c) == c.args # <<>> \/ c.operands # <<>> \/ c.status # <<>>

\* What the constructors demand: otherwise they raise PyAsn1Error.
IsLegal(c) ==
    /\ c.class \in {"ValueRange", "ValueSize"} =>
          Len(c.args) = 2 /\ c.args[1][1] <= c.args[2][1]
    /\ c.class = "InnerType" =>
          \A i \in DOMAIN c.status :
              c.status[i] \in {"PRESENT", "ABSENT", "OPTIONAL", "unset"}

\* How a constraint is written down here.
IsConstraint(c) ==
    /\ c = Constraint(c.class, c.args, c.operands, c.status)
    /\ c.operands = [i \in 1..Len(c.operands) |-> c.operands[i]]
    /\ Len(c.operands) \in Nat
    /\ c.class = "InnerType" => DOMAIN c.status \subseteq DOMAIN c.operands

\* c nests that deep at most.
Nests1(c) == IsConstraint(c) /\ c.operands = <<>>
Nests2(c) == IsConstraint(c) /\ \A i \in DOMAIN c.operands : Nests1(c.operands[i])
Nests3(c) == IsConstraint(c) /\ \A i \in DOMAIN c.operands : Nests2(c.operands[i])
Nests4(c) == IsConstraint(c) /\ \A i \in DOMAIN c.operands : Nests3(c.operands[i])

-----------------------------------------------------------------------------
(* __call__ and _testValue: does c admit value v, at index idx of what     *)
(* contains it?  admitting is the set of c's operands that, asked in turn, *)
(* admit what c asks them about.                                           *)

SingleValueTest(c, v) == v \in ToSet(c.args)

\* INCLUDES is a union of values and constraints.
ContainedSubtypeTest(c, v, admitting) == v \in ToSet(c.args) \/ admitting # {}

InRange(c, n) == c.args[1][1] <= n /\ n <= c.args[2][1]

ValueRangeTest(c, v) == InRange(c, v[1])

ValueSizeTest(c, v) == InRange(c, Len(v))

PermittedAlphabetTest(c, v) == \A i \in DOMAIN v : <<v[i]>> \in ToSet(c.args)

ComponentPresentTest(v) == v # None

ComponentAbsentTest(v) == v = None

\* Each operand is asked about its field.
WithComponentsTest(c, admitting) == admitting = DOMAIN c.operands

\* The last plain constraint counts if it says anything; failing that the last
\* triple for this index, and there must be one.  The triples come first, as
\* many as there are statuses.
InnerTypeTest(c, v, idx, admitting) ==
    LET single == {n \in DOMAIN c.operands : n = Len(c.operands) /\ n > Len(c.status)}
        mine == {i \in DOMAIN c.status : c.args[i] = idx}
    IN  IF \E n \in single : HasValues(c.operands[n]) THEN single \subseteq admitting
        ELSE c.status # <<>> =>
                \E last \in mine :
                   /\ \A i \in mine : i <= last
                   /\ CASE c.status[last] = "ABSENT" -> v = None
                        [] c.status[last] # "ABSENT" /\ v = None -> c.status[last] # "PRESENT"
                        [] OTHER -> last \in admitting

ExclusionTest(admitting) == admitting = {}

IntersectionTest(c, admitting) == admitting = DOMAIN c.operands

UnionTest(admitting) == admitting # {}

TestValue(c, q, admitting) ==
    \/ c.class = "SingleValue"       /\ SingleValueTest(c, q.value)
    \/ c.class = "ContainedSubtype"  /\ ContainedSubtypeTest(c, q.value, admitting)
    \/ c.class = "ValueRange"        /\ ValueRangeTest(c, q.value)
    \/ c.class = "ValueSize"         /\ ValueSizeTest(c, q.value)
    \/ c.class = "PermittedAlphabet" /\ PermittedAlphabetTest(c, q.value)
    \/ c.class = "ComponentPresent"  /\ ComponentPresentTest(q.value)
    \/ c.class = "ComponentAbsent"   /\ ComponentAbsentTest(q.value)
    \/ c.class = "WithComponents"    /\ WithComponentsTest(c, admitting)
    \/ c.class = "InnerType"         /\ InnerTypeTest(c, q.value, q.idx, admitting)
    \/ c.class = "Exclusion"         /\ ExclusionTest(admitting)
    \/ c.class = "Intersection"      /\ IntersectionTest(c, admitting)
    \/ c.class = "Union"             /\ UnionTest(admitting)

About(v) == [value |-> v, idx |-> None]

\* What c, asked q, asks operand i: value.get(field), a component by itself, or q.
Question(c, q, i) ==
    CASE c.class = "WithComponents" ->
            About(IF c.args[i][1] \in DOMAIN q.value THEN q.value[c.args[i][1]] ELSE None)
      [] c.class = "InnerType" -> About(q.value)
      [] OTHER -> q

\* One definition for each level of nesting.
Admits0(c, q) == FALSE
Admits1(c, q) == HasValues(c) => TestValue(c, q,
    {i \in DOMAIN c.operands : Admits0(c.operands[i], Question(c, q, i))})
Admits2(c, q) == HasValues(c) => TestValue(c, q,
    {i \in DOMAIN c.operands : Admits1(c.operands[i], Question(c, q, i))})
Admits3(c, q) == HasValues(c) => TestValue(c, q,
    {i \in DOMAIN c.operands : Admits2(c.operands[i], Question(c, q, i))})
Admits4(c, q) == HasValues(c) => TestValue(c, q,
    {i \in DOMAIN c.operands : Admits3(c.operands[i], Question(c, q, i))})
Admits(c, q) == HasValues(c) => TestValue(c, q,
    {i \in DOMAIN c.operands : Admits4(c.operands[i], Question(c, q, i))})

-----------------------------------------------------------------------------
(* Operators on constraints.                                               *)

\* SingleValueConstraint.__add__ unites sets: the result lists them in some
\* order, and the operands of a constraint set become members no value equals.
Iterable(c) == c.class \in ConstraintSets \cup SingleValued

Unite(c, d) ==
    [c EXCEPT !.args = SetToSeq(ToSet(@) \cup (IF d.class \in SingleValued THEN ToSet(d.args) ELSE {})),
              !.operands = SetToSeq(ToSet(@) \cup ToSet(d.operands))]

\* c + d, as subtype() asks for it: a constraint set appends, single values
\* unite, and the + of what has none is the set's that it is added to.
CanAdd(c, d) ==
    \/ ConstraintSets \cap {c.class, d.class} # {}
    \/ c.class \in SingleValued /\ Iterable(d)

\* Mutant: what was said before is forgotten.
AddReplacing(c, d) ==
    IF c.class \in ConstraintSets THEN [c EXCEPT !.operands = <<d>>]
    ELSE IF c.class \in SingleValued THEN Unite(c, d)
    ELSE [d EXCEPT !.operands = <<c>> \o @]

\* The sum.
Add(c, d) ==
    IF c.class \in ConstraintSets THEN [c EXCEPT !.operands = Append(@, d)]
    ELSE IF c.class \in SingleValued THEN Unite(c, d)
    ELSE [d EXCEPT !.operands = <<c>> \o @]

\* == compares the arguments, whatever the classes, and so on in them.
SameArguments(c, d, equal) ==
    /\ c.args = d.args /\ c.status = d.status
    /\ DOMAIN c.operands = DOMAIN d.operands /\ equal = DOMAIN c.operands

Operands(c, d) == DOMAIN c.operands \cap DOMAIN d.operands

Same0(c, d) == FALSE
Same1(c, d) == SameArguments(c, d,
    {i \in Operands(c, d) : Same0(c.operands[i], d.operands[i])})
Same2(c, d) == SameArguments(c, d,
    {i \in Operands(c, d) : Same1(c.operands[i], d.operands[i])})
Same3(c, d) == SameArguments(c, d,
    {i \in Operands(c, d) : Same2(c.operands[i], d.operands[i])})
Same4(c, d) == SameArguments(c, d,
    {i \in Operands(c, d) : Same3(c.operands[i], d.operands[i])})
Same(c, d) == SameArguments(c, d,
    {i \in Operands(c, d) : Same4(c.operands[i], d.operands[i])})

\* getValueMap(): all operands of a constraint set and of those within it.
Members(c) ==
    {c.operands[i] : i \in {j \in DOMAIN c.operands :
                               c.class \in ConstraintSets /\ HasValues(c.operands[j])}}

ValueMap(c) ==
    LET inner == UNION {Members(d) : d \in Members(c)}
    IN  Members(c) \cup inner \cup UNION {Members(d) : d \in inner}

\* Mutant: it asks its own operands.
IsSuperConstraintOfBack(c, d) ==
    d = c \/ ~HasValues(c) \/ Same(d, c) \/ d \in ValueMap(c)

\* isSuperTypeOf().
IsSuperConstraintOf(c, d) ==
    d = c \/ ~HasValues(c) \/ Same(d, c) \/ c \in ValueMap(d)
=============================================================================
