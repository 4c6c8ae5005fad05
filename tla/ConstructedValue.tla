--------------------------- MODULE ConstructedValue ---------------------------
(***************************************************************************)
(* The life of constructed objects: SEQUENCE OF (SequenceOfAndSetOfBase),  *)
(* SEQUENCE (SequenceAndSetBase) and CHOICE (Choice).                      *)
(*                                                                         *)
(* A pyasn1 object is a schema or a value, and both are mutable: reading a *)
(* component that is not there instantiates it, and a component is held by *)
(* reference.  The heap makes the references visible.  Objects 1 ..        *)
(* Len(Prototypes) are the schemas that classes hold as componentType; the *)
(* rest are made by the application, or for it when it reads.  Scalars are *)
(* immutable, so they are held by value; INTEGER stands for all of them.   *)
(* Positions are the code's plus one.                                      *)
(*                                                                         *)
(* clone() is a recursion, and takes a step for every component.  Any      *)
(* other operation that raises leaves everything as it was, and is no step.*)
(***************************************************************************)
EXTENDS Integers, Sequences, FiniteSets

CONSTANTS
    Schemas,       \* for each constructed type its kind and its fields
    Prototypes,    \* the schema objects that fields refer to
    Numbers,       \* values of INTEGERs
    MaxNew,        \* bounds: sizes of the heap up to which objects are made from
    MaxCloned,     \* a class, and are cloned or reset
    MaxObjects,    \* bound: size of the heap
    MaxLength,     \* bound: positions of a SEQUENCE OF
    MaxWide        \* bound: size of the heap up to which all of them are filled,
                   \* components are put in and objects are cleared

Types == DOMAIN Schemas

\* Names of what is no constructed type.
ASSUME NamesAssumption == Types \cap {"INTEGER", "nothing", "broken"} = {}

\* What a position holds: nothing (noValue), a scalar (its schema is zero) or
\* a constructed object.
Absent    == [kind |-> "absent", num |-> 0, ref |-> 0]
Scalar(n) == [kind |-> "scalar", num |-> n, ref |-> 0]
Ref(o)    == [kind |-> "ref", num |-> 0, ref |-> o]

ASSUME BoundsAssumption ==
    /\ {MaxNew, MaxCloned, MaxObjects, MaxLength, MaxWide} \subseteq Nat
    /\ MaxNew <= MaxObjects /\ MaxCloned <= MaxObjects

ASSUME NumbersAssumption == Numbers \subseteq Nat \ {0}

\* What can describe a component: INTEGER, with its value if it is a DEFAULT,
\* or one of the prototypes.
Described == {Scalar(n) : n \in Numbers \cup {0}} \cup {Ref(p) : p \in DOMAIN Prototypes}

\* OPTIONAL and DEFAULT are for the fields of a SEQUENCE.
ASSUME SchemasAssumption ==
    \A t \in Types :
        /\ Schemas[t].kind \in {"of", "record", "choice"}
        /\ Schemas[t].fields \in
              Seq([schema : Described, omission : {"required", "optional", "default"}])
        /\ Schemas[t].kind = "of" => Len(Schemas[t].fields) = 1
        /\ Schemas[t].kind # "record" =>
              \A i \in DOMAIN Schemas[t].fields : Schemas[t].fields[i].omission = "required"

\* rank says of each type how deep its components may nest.
Ranks(rank) ==
    \A t \in Types : \A i \in DOMAIN Schemas[t].fields :
        LET schema == Schemas[t].fields[i].schema
        IN  schema.kind = "ref" => rank[Prototypes[schema.ref].type] < rank[t]

\* No type has itself as a component, at whatever depth.
ASSUME TypesAssumption ==
    IsFiniteSet(Types) /\ \E rank \in [Types -> 0..Cardinality(Types)] : Ranks(rank)

VARIABLES
    heap,      \* objects by number; isSchema says _componentValues is noValue
    given,     \* objects the application has put into another one
    copying    \* calls of clone() in progress

vars == <<heap, given, copying>>

Kind(h, o) == Schemas[h[o].type].kind

\* The field that describes position i: one for all in a SEQUENCE OF.
Field(t, i) ==
    Schemas[t].fields[IF Schemas[t].kind = "of" THEN 1 ELSE i]

Positions(t) ==
    IF Schemas[t].kind = "of" THEN 1..MaxLength ELSE DOMAIN Schemas[t].fields

Holds(x, i) == i \in DOMAIN x.comps /\ x.comps[i] # Absent

\* A new object: a schema, although one of a record or a choice holds an
\* empty list.
Fresh(t) ==
    [type |-> t, isSchema |-> Schemas[t].kind = "of", comps |-> <<>>, chosen |-> 0]

Length(x) ==
    IF DOMAIN x.comps = {} THEN 0
    ELSE CHOOSE n \in DOMAIN x.comps : \A i \in DOMAIN x.comps : i <= n

\* The components of x with e at position i; a list that is empty is filled
\* up first.
With(x, i, e) ==
    IF Schemas[x.type].kind = "of" THEN [j \in DOMAIN x.comps \cup {i} |->
                                            IF j = i THEN e ELSE x.comps[j]]
    ELSE [j \in Positions(x.type) |->
             IF j = i THEN e ELSE IF j \in DOMAIN x.comps THEN x.comps[j] ELSE Absent]

\* In heap h, a position that field f describes may hold e.
Fits(h, e, f) ==
    IF f.schema.kind = "scalar" THEN e.kind = "scalar"
    ELSE e.kind = "ref" /\ h[e.ref].type = Prototypes[f.schema.ref].type

Component(h) ==
    {Absent} \cup {Scalar(n) : n \in Numbers \cup {0}} \cup {Ref(o) : o \in DOMAIN h}

\* x may be an object of heap h.
IsObject(h, x) ==
    /\ x = [type |-> x.type, isSchema |-> x.isSchema,
            comps |-> x.comps, chosen |-> x.chosen]
    /\ x.type \in Types /\ x.isSchema \in BOOLEAN
    /\ x.isSchema => x.comps = <<>>
    /\ DOMAIN x.comps \subseteq Positions(x.type)
    /\ \A i \in DOMAIN x.comps :
          /\ x.comps[i] \in Component(h)
          /\ x.comps[i] = Absent \/ Fits(h, x.comps[i], Field(x.type, i))
          /\ Schemas[x.type].kind = "of" => x.comps[i] # Absent
    /\ x.chosen \in {0} \cup Positions(x.type)
    /\ Schemas[x.type].kind # "choice" => x.chosen = 0

IsSequence(h) == Len(h) \in Nat /\ h = [o \in 1..Len(h) |-> h[o]]

IsHeap(h) == IsSequence(h) /\ \A o \in DOMAIN h : IsObject(h, h[o])

ASSUME PrototypesAssumption == IsHeap(Prototypes)

\* A DEFAULT is a number, or a SEQUENCE OF numbers that is a value.  Of these the
\* encoder's == tells what Meaning does: it compares the lists of components.
ASSUME DefaultsAssumption ==
    \A t \in Types : \A i \in DOMAIN Schemas[t].fields :
        LET f == Schemas[t].fields[i]
            default == Prototypes[f.schema.ref]
        IN  f.omission = "default" =>
               \/ f.schema.kind = "scalar" /\ f.schema.num # 0
               \/ /\ f.schema.kind = "ref" /\ Schemas[default.type].kind = "of"
                  /\ ~default.isSchema
                  /\ Cardinality(DOMAIN default.comps) = Length(default)
                  /\ \A j \in DOMAIN default.comps :
                        default.comps[j].kind = "scalar" /\ default.comps[j].num # 0

-----------------------------------------------------------------------------
(* Schema or value, and what a value stands for.                           *)

\* Position i of x holds a value, given which objects are values.
IsSet(x, isValue, i) ==
    /\ Holds(x, i)
    /\ x.comps[i].kind = "scalar" => x.comps[i].num # 0
    /\ x.comps[i].kind = "ref" => isValue[x.comps[i].ref]

\* x.isValue is True.  Where it is not, it is False or raises (Raises).
IsValue(x, isValue) ==
    /\ ~x.isSchema
    /\ CASE Schemas[x.type].kind = "of" ->
              Cardinality(DOMAIN x.comps) = Length(x)
              /\ \A i \in DOMAIN x.comps : IsSet(x, isValue, i)
         [] Schemas[x.type].kind = "record" ->
              \A i \in Positions(x.type) :
                  Field(x.type, i).omission = "required" => IsSet(x, isValue, i)
         [] Schemas[x.type].kind = "choice" ->
              x.chosen # 0 /\ IsSet(x, isValue, x.chosen)

Values(h) ==
    LET isValue[o \in DOMAIN h] == IsValue(h[o], isValue)
    IN  isValue

Meant(type, num, parts) == [type |-> type, num |-> num, parts |-> parts]

NoMeaning == Meant("nothing", 0, <<>>)

\* An encoder raises, or isValue does.
Broken == Meant("broken", 0, <<>>)

\* What component e stands for.
MeaningOf(e, meaning) ==
    IF e.kind = "ref" THEN meaning[e.ref] ELSE Meant("INTEGER", e.num, <<>>)

\* isValue of the component at position i of x raises.
Refuses(x, isValue, meaning, i) ==
    /\ Holds(x, i) /\ x.comps[i].kind = "ref"
    /\ ~isValue[x.comps[i].ref] /\ meaning[x.comps[i].ref] = Broken

\* x.isValue raises: a CHOICE that was reset() looks for the alternative that it
\* says is chosen, or it asks a component that raises.  A record asks in order,
\* until one is no value; of a SEQUENCE OF the order is not kept here, and one
\* with components of both kinds is said to raise.
Raises(x, isValue, meaning) ==
    CASE Schemas[x.type].kind = "of" ->
           /\ ~x.isSchema /\ Cardinality(DOMAIN x.comps) = Length(x)
           /\ \E i \in DOMAIN x.comps : Refuses(x, isValue, meaning, i)
      [] Schemas[x.type].kind = "record" ->
           \E i \in Positions(x.type) :
               /\ Field(x.type, i).omission = "required" /\ Refuses(x, isValue, meaning, i)
               /\ \A j \in Positions(x.type) :
                     j < i /\ Field(x.type, j).omission = "required" => IsSet(x, isValue, j)
      [] Schemas[x.type].kind = "choice" ->
           x.chosen # 0 /\ (x.isSchema \/ Refuses(x, isValue, meaning, x.chosen))

\* Value x has a component that the encoder asks in vain, or cannot encode.
Breaks(x, meaning) ==
    \E i \in DOMAIN x.comps :
        /\ Holds(x, i) /\ (Schemas[x.type].kind = "choice" => i = x.chosen)
        /\ MeaningOf(x.comps[i], meaning) = Broken

\* Omissible components that are no values, or have the default value, are left
\* out.
Encoding(x, isValue, meaning) ==
    LET Of(i) == MeaningOf(x.comps[i], meaning)
        Encoded(e) == IF e.kind = "ref" THEN isValue[e.ref] ELSE e.num # 0
        LeftOut(i) ==
            \/ ~Holds(x, i)
            \/ Field(x.type, i).omission # "required" /\ ~Encoded(x.comps[i])
            \/ /\ Field(x.type, i).omission = "default"
               /\ Of(i) = MeaningOf(Field(x.type, i).schema, meaning)
    IN  CASE Schemas[x.type].kind = "choice" -> Meant(x.type, x.chosen, <<Of(x.chosen)>>)
          [] Schemas[x.type].kind = "of" ->
               Meant(x.type, 0, [i \in DOMAIN x.comps |-> Of(i)])
          [] Schemas[x.type].kind = "record" ->
               Meant(x.type, 0, [i \in Positions(x.type) |->
                   IF LeftOut(i) THEN NoMeaning ELSE Of(i)])

\* What an encoder makes of object x.
Meaning(x, isValue, meaning) ==
    IF IsValue(x, isValue)
    THEN IF Breaks(x, meaning) THEN Broken ELSE Encoding(x, isValue, meaning)
    ELSE IF Raises(x, isValue, meaning) THEN Broken ELSE NoMeaning

Meanings(h) ==
    LET isValue == Values(h)
        meaning[o \in DOMAIN h] == Meaning(h[o], isValue, meaning)
    IN  meaning

-----------------------------------------------------------------------------
(* The application's objects, and what it puts into them.                  *)

Made == Len(Prototypes) + 1..Len(heap)

\* The one thread is not inside a clone().
Idle == copying = <<>>

\* Bound: while the heap is large a SEQUENCE OF is written to at its start.
InBounds(o, i) == Kind(heap, o) = "of" /\ i > 1 => Len(heap) <= MaxWide

\* Mutant: the alternative that is read is chosen.
ChosenAfterReading(x, i, supplied) == i

\* Reading an alternative does not choose it when another one is chosen.
ChosenAfter(x, i, supplied) ==
    IF Schemas[x.type].kind # "choice" THEN 0
    ELSE IF supplied \/ x.chosen = 0 THEN i ELSE x.chosen

\* A choice drops the component of the alternative it had.
Put(x, i, e, supplied) ==
    LET chosen == ChosenAfter(x, i, supplied)
        put == With(x, i, e)
    IN  [x EXCEPT !.isSchema = FALSE, !.chosen = chosen,
                  !.comps = IF x.chosen \notin {0, chosen}
                            THEN [put EXCEPT ![x.chosen] = Absent] ELSE put]

-----------------------------------------------------------------------------
(* clone(), a recursion: each call in progress has the object it clones,   *)
(* the clone, the last position it has taken over, and the position it is  *)
(* for (of no object, if the application gets it).                         *)

Top == copying[Len(copying)]

\* Mutant: the last component is not taken over.
ClonedButLast(x) == {i \in DOMAIN x.comps : i < Length(x)}

\* The positions whose components a clone takes over.  A choice that cannot
\* say which one that is, is cloned without.
Cloned(x) ==
    {i \in DOMAIN x.comps :
        Holds(x, i) /\ (Schemas[x.type].kind = "choice" => i = x.chosen)}

Left == {i \in Cloned(heap[Top.from]) : i > Top.done}

\* clone(cloneValueFlag=True) of o is called from the calls in stack.
CallClone(o, stack, into, at) ==
    /\ heap' = Append(heap, Fresh(heap[o].type))
    /\ copying' = Append(stack, [from |-> o, to |-> Len(heap) + 1, done |-> 0,
                                 into |-> into, at |-> at])
    /\ UNCHANGED given

\* A SEQUENCE OF that is a schema has nothing to iterate over, and a choice
\* does not find the component it says is chosen.
CloneFails ==
    LET x == heap[Top.from]
    IN  \/ Kind(heap, Top.from) = "of" /\ x.isSchema
        \/ Kind(heap, Top.from) = "choice" /\ x.chosen # 0 /\ ~x.isSchema
           /\ ~Holds(x, x.chosen)

\* The exception ends all the calls, and nobody has what they had made.
\* Bound: a clone that does not fit in the heap ends the same way.
CloneRaises ==
    /\ ~Idle
    /\ CloneFails \/ Len(heap) > MaxObjects
    /\ heap' = SubSeq(heap, 1, copying[1].to - 1)
    /\ copying' = <<>>
    /\ UNCHANGED given

\* Position i is next.
Taking(i) ==
    /\ ~Idle /\ ~CloneFails /\ Len(heap) <= MaxObjects
    /\ \A j \in Left : i <= j

Advanced(i) == [copying EXCEPT ![Len(copying)].done = i]

\* Mutant: a clone takes the components over as they are.
TakeAsIs(i) ==
    /\ Taking(i)
    /\ heap' = [heap EXCEPT ![Top.to] = Put(@, i, heap[Top.from].comps[i], TRUE)]
    /\ copying' = Advanced(i)
    /\ UNCHANGED given

TakeScalar(i) ==
    /\ Taking(i)
    /\ heap[Top.from].comps[i].kind = "scalar"
    /\ heap' = [heap EXCEPT ![Top.to] = Put(@, i, heap[Top.from].comps[i], TRUE)]
    /\ copying' = Advanced(i)
    /\ UNCHANGED given

CloneComponent(i) ==
    /\ Taking(i)
    /\ heap[Top.from].comps[i].kind = "ref"
    /\ CallClone(heap[Top.from].comps[i].ref, Advanced(i), Top.to, i)

\* The caller puts the clone where it is for: into the clone it is making,
\* or, if it is the DEFAULT of a field, into the object that is read.
CloneReturns ==
    /\ ~Idle /\ ~CloneFails /\ Len(heap) <= MaxObjects
    /\ Left = {}
    /\ heap' = IF Top.into = 0 THEN heap
               ELSE [heap EXCEPT ![Top.into] =
                        Put(@, Top.at, Ref(Top.to), Len(copying) > 1)]
    /\ copying' = SubSeq(copying, 1, Len(copying) - 1)
    /\ UNCHANGED given

-----------------------------------------------------------------------------
(* What the application may do to an object it has.                        *)

New(t) ==
    /\ Idle /\ Len(heap) < MaxNew
    /\ heap' = Append(heap, Fresh(t))
    /\ UNCHANGED <<given, copying>>

CloneValue(o) ==
    /\ Idle /\ Len(heap) < MaxCloned
    /\ CallClone(o, <<>>, 0, 0)

\* Mutant: a component is the schema object itself, not a clone of it.
InstantiateShared(o, i) ==
    /\ Idle /\ InBounds(o, i)
    /\ heap' = [heap EXCEPT ![o] = Put(@, i, Field(@.type, i).schema, FALSE)]
    /\ UNCHANGED <<given, copying>>

\* setComponentByPosition(i): the schema of a scalar takes the position as it
\* is, that of a constructed component is cloned, with its value if that is
\* a DEFAULT.
Instantiate(o, i) ==
    LET f == Field(heap[o].type, i)
    IN  /\ Idle /\ InBounds(o, i)
        /\ \/ /\ f.schema.kind = "scalar"
              /\ heap' = [heap EXCEPT ![o] = Put(@, i, f.schema, FALSE)]
              /\ UNCHANGED <<given, copying>>
           \/ /\ f.schema.kind = "ref" /\ f.omission # "default"
              /\ Len(heap) < MaxObjects
              /\ heap' = [Append(heap, Fresh(heap[f.schema.ref].type)) EXCEPT ![o] =
                             Put(@, i, Ref(Len(heap) + 1), FALSE)]
              /\ UNCHANGED <<given, copying>>
           \/ /\ f.schema.kind = "ref" /\ f.omission = "default"
              /\ CallClone(f.schema.ref, <<>>, o, i)

\* getComponentByPosition(i), with instantiate as it is by default.  What is
\* there is handed out; a chosen alternative is always looked up.
Get(o, i) ==
    /\ ~Holds(heap[o], i) /\ heap[o].chosen # i
    /\ Instantiate(o, i)

\* The application's own object, of the field's type, is put in by reference.
Set(o, i, e) ==
    /\ Idle /\ Len(heap) <= MaxWide /\ InBounds(o, i)
    /\ Fits(heap, e, Field(heap[o].type, i))
    /\ heap' = [heap EXCEPT ![o] = Put(@, i, e, TRUE)]
    /\ given' = IF e.kind = "ref" THEN given \cup {e.ref} ELSE given
    /\ UNCHANGED copying

\* append() takes the number of components for their length.
Add(o, e) ==
    /\ Kind(heap, o) = "of"
    /\ LET i == Cardinality(DOMAIN heap[o].comps) + 1
       IN  i <= MaxLength /\ Set(o, i, e)

\* sort() of numbers closes the gaps: the n-th position is to hold what position
\* order[n] has held.
SortUp(o) ==
    /\ Idle
    /\ Kind(heap, o) = "of" /\ ~heap[o].isSchema
    /\ LET held == heap[o].comps
           n == Cardinality(DOMAIN held)
       IN  /\ \A i \in DOMAIN held : held[i].kind = "scalar"
           /\ n > 1 => \A i \in DOMAIN held : held[i].num # 0
           /\ \E order \in [1..n -> DOMAIN held] :
                 /\ \A j, k \in 1..n : j < k =>
                       order[j] # order[k] /\ held[order[j]].num <= held[order[k]].num
                 /\ heap' = [heap EXCEPT ![o].comps = [k \in 1..n |-> held[order[k]]]]
    /\ UNCHANGED <<given, copying>>

Clear(o) ==
    /\ Idle /\ Len(heap) <= MaxWide
    /\ heap' = [heap EXCEPT ![o].isSchema = FALSE, ![o].comps = <<>>, ![o].chosen = 0]
    /\ UNCHANGED <<given, copying>>

\* Mutant: reset() marks the object a schema and forgets to drop its components.
ResetKeeping(o) ==
    /\ Idle
    /\ heap' = [heap EXCEPT ![o].isSchema = TRUE]
    /\ UNCHANGED <<given, copying>>

\* Choice inherits reset(), which knows nothing of the chosen alternative.
Reset(o) ==
    /\ Idle /\ Len(heap) <= MaxCloned
    /\ heap' = [heap EXCEPT ![o].isSchema = TRUE, ![o].comps = <<>>]
    /\ UNCHANGED <<given, copying>>

Init ==
    /\ heap = Prototypes
    /\ given = {}
    /\ copying = <<>>

Entries == {Scalar(n) : n \in Numbers} \cup {Ref(o) : o \in Made}

CloneStep ==
    /\ ~Idle
    /\ \/ \E i \in Left : TakeScalar(i) \/ CloneComponent(i)
       \/ CloneReturns \/ CloneRaises

Next ==
    \/ CloneStep
    \/ \E t \in Types : New(t)
    \/ \E o \in Made :
          \/ CloneValue(o) \/ Clear(o) \/ Reset(o) \/ SortUp(o)
          \/ \E i \in Positions(heap[o].type) :
                Get(o, i) \/ Instantiate(o, i) \/ \E e \in Entries : Set(o, i, e)
          \/ \E e \in Entries : Add(o, e)

Spec == Init /\ [][Next]_vars

-----------------------------------------------------------------------------
Call == [from : DOMAIN heap, to : Made, done : Nat, into : {0} \cup Made, at : Nat]

TypeOK == IsHeap(heap) /\ given \subseteq Made /\ copying \in Seq(Call)

(***************************************************************************)
(* Schemas stay what they are: whatever is done to the values made from    *)
(* them, no value holds an object that a class holds as its componentType, *)
(* and none of those changes.  A DEFAULT that is a SEQUENCE OF is cloned   *)
(* where it is read, or appending to one value would change all others.    *)
(***************************************************************************)
PrototypesUntouched ==
    /\ SubSeq(heap, 1, Len(Prototypes)) = Prototypes
    /\ \A o \in Made : \A i \in DOMAIN heap[o].comps :
          heap[o].comps[i].kind = "ref" => heap[o].comps[i].ref \in Made

(***************************************************************************)
(* Two objects, or two positions of one, share a component only if the     *)
(* application put it there: reading and cloning never make an alias.      *)
(***************************************************************************)
NoHiddenSharing ==
    \A o \in Made : \A i \in DOMAIN heap[o].comps :
        heap[o].comps[i].kind = "ref" /\ heap[o].comps[i].ref \notin given =>
            \A p \in Made : \A j \in DOMAIN heap[p].comps :
                heap[p].comps[j] = heap[o].comps[i] => <<p, j>> = <<o, i>>

\* The clone of x is what x is, given which of its components' clones are so:
\* an empty SEQUENCE OF comes out a schema; a record that is a schema since it
\* was reset comes out empty, which may be a value; and a CHOICE that was reset
\* but says what it has chosen, of which isValue raises, comes out empty too.
Clonable(x, clonable) ==
    /\ Schemas[x.type].kind = "of" => DOMAIN x.comps # {}
    /\ Schemas[x.type].kind = "record" => ~x.isSchema
    /\ x.chosen # 0 => ~x.isSchema
    /\ \A i \in DOMAIN x.comps : x.comps[i].kind = "ref" => clonable[x.comps[i].ref]

Clonables(h) ==
    LET clonable[o \in DOMAIN h] == Clonable(h[o], clonable)
    IN  clonable

(***************************************************************************)
(* A clone made with cloneValueFlag is, when its clone() returns, a value  *)
(* if and only if the original is one, and stands for the same (an encoder *)
(* raises for both or for none), except that some objects that hold        *)
(* nothing, or of which isValue raises, are not cloned to what they are    *)
(* (Clonable).  The flag "controls original value inheritance"             *)
(* (CHANGES.rst).                                                          *)
(***************************************************************************)
ClonesMeanTheSame ==
    ~Idle /\ ~CloneFails /\ Left = {} /\ Clonables(heap)[Top.from] =>
        /\ Values(heap)[Top.to] <=> Values(heap)[Top.from]
        /\ Meanings(heap)[Top.to] = Meanings(heap)[Top.from]

Unfinished == {copying[k].to : k \in DOMAIN copying}

\* What is made for the field when it is read is a value at once, and not
\* because it is the DEFAULT.
ValueAtOnce(f) ==
    /\ f.omission # "default"
    /\ IF f.schema.kind = "scalar" THEN f.schema.num # 0
       ELSE LET t == Prototypes[f.schema.ref].type
            IN  /\ Schemas[t].kind = "record"
                /\ \A i \in Positions(t) : Field(t, i).omission # "required"

\* Reading position i of x, which holds nothing, makes no value, and mends none:
\* x does not grow, is no record or CHOICE that was reset, nor a SEQUENCE OF that
\* is not asked now but would raise, and does not get a value from its schema.
ReadsNothing(x, i, meaning) ==
    /\ ~Holds(x, i)
    /\ Schemas[x.type].kind = "of" =>
          /\ i <= Length(x)
          /\ \A j \in DOMAIN x.comps : MeaningOf(x.comps[j], meaning) # Broken
    /\ Schemas[x.type].kind = "record" => ~x.isSchema
    /\ x.chosen # 0 => ~x.isSchema
    /\ ~ValueAtOnce(Field(x.type, i))

\* A clone() that the application has called, or that reads a DEFAULT.
ClonesToRead ==
    /\ ~Idle
    /\ copying[1].into # 0 => /\ ReadsNothing(heap[copying[1].into], copying[1].at,
                                           Meanings(heap))
                              /\ Clonables(heap)[copying[1].from]

Reading ==
    \/ ClonesToRead
    \/ \E o \in Made : \E i \in Positions(heap[o].type) :
          ReadsNothing(heap[o], i, Meanings(heap)) /\ Get(o, i)

KeepsMeanings ==
    LET before == Meanings(heap)
        after == Meanings(heap')
    IN  \A p \in (Made \ Unfinished) \cap DOMAIN heap' : after[p] = before[p]

(***************************************************************************)
(* Reading a field or an alternative changes what no object stands for,    *)
(* nor makes it a value: what it instantiates is no value, or has the      *)
(* value the field has anyway.  Nor does any step of a clone().            *)
(* ReadsNothing excepts the cases where reading does make a value, as of   *)
(* an OPTIONAL SEQUENCE that requires no component, or mends an object of  *)
(* which isValue raises, as of a CHOICE that was reset.                    *)
(***************************************************************************)
ReadingMeansNothing == [][Reading => KeepsMeanings]_vars
=============================================================================
