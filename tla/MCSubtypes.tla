----------------------------- MODULE MCSubtypes -----------------------------
(***************************************************************************)
(* Small types for Subtypes: INTEGER, a character string, CHOICE and       *)
(* SEQUENCE, declared with the constraint objects schemas use.             *)
(***************************************************************************)
EXTENDS Subtypes

Plain(class, args)    == Constraint(class, args, <<>>, <<>>)
Of(class, operands)   == Constraint(class, <<>>, operands, <<>>)

One    == Plain("SingleValue", <<<<1>>>>)
Two    == Plain("SingleValue", <<<<2>>>>)
Low    == Plain("ValueRange", <<<<1>>, <<2>>>>)
Listed == Plain("SingleValue", <<<<1>>, <<2>>>>)
High   == Plain("ValueRange", <<<<2>>, <<3>>>>)
Ends   == Of("Union", <<One, Plain("SingleValue", <<<<3>>>>)>>)
NotTwo == Of("Exclusion", <<Two>>)
OrTwo  == Constraint("ContainedSubtype", <<<<2>>>>, <<High>>, <<>>)

Letter == Plain("PermittedAlphabet", <<<<1>>>>)
Short  == Plain("ValueSize", <<<<0>>, <<1>>>>)

Present == Constraint("ComponentPresent", <<>>, <<>>, <<"must be present">>)
Gone    == Constraint("ComponentAbsent", <<>>, <<>>, <<"must be absent">>)
HasFirst == Constraint("WithComponents", <<<<1>>>>, <<Present>>, <<>>)
Either   == Of("Union", <<HasFirst, Constraint("WithComponents", <<<<1>>, <<2>>>>, <<Gone, Present>>, <<>>)>>)
Inner    == Of("InnerType", <<Either>>)
Indexed  == Constraint("InnerType", <<<<>>, <<1>>, <<>>>>, <<Gone, HasFirst, Either>>,
                       <<"ABSENT", "PRESENT", "OPTIONAL">>)

MCSpecs(kind) ==
    CASE kind = "INTEGER" -> {One, High, Ends, NotTwo, OrTwo, Of("Intersection", <<Low>>)}
      [] kind = "String" -> {Letter, Short, Plain("PermittedAlphabet", <<<<2>>>>)}
      [] kind = "SEQUENCE" -> {HasFirst, Either, Inner, Indexed}
      [] OTHER -> {}

MCPayloads(kind) ==
    CASE kind = "INTEGER" -> {<<1>>, <<2>>, <<3>>}
      [] kind = "String" -> {<<>>, <<1>>, <<2>>, <<1, 2>>}
      [] kind = "SEQUENCE" -> [1..2 -> {<<>>, <<1>>}]
      [] OTHER -> {}

Universal(n, format) == [class |-> "universal", format |-> format, id |-> n]

Class(kind, tagSet, spec) == [kind |-> kind, tagSet |-> tagSet, spec |-> spec]

Born(tag) == BaseTagSet(TagSet(tag, <<>>))

\* Character strings are OCTET STRINGs that are tagged.
CharacterString == TagImplicitly(Born(Universal(4, "simple")), Universal(22, "simple"))

Anything == Of("Intersection", <<>>)

MCDeclared ==
    {Class("INTEGER", Born(Universal(2, "simple")), c) :
        c \in {Anything, Of("Intersection", <<Low>>), Of("Intersection", <<Ends, NotTwo>>),
               Listed, Low, Ends, NotTwo}}
    \cup {Class("String", CharacterString, c) : c \in {Anything, Letter}}
    \cup {Class("SEQUENCE", Born(Universal(16, "constructed")), c) : c \in {Anything, Inner}}
    \cup {Class("CHOICE", Born(NoTag), Anything)}

MCScalars == {"INTEGER", "String"}

\* What decoders make of the substrate: a schemaless value has the tags alone,
\* a guessed container keeps the base of its prototype.
MCRecovered(kind) ==
    LET outer == [class |-> "context", format |-> "constructed", id |-> 1]
    IN  CASE kind = "INTEGER" -> {TagSet(NoTag, <<Universal(2, "simple")>>),
                                  TagSet(NoTag, <<Universal(2, "simple"), outer>>)}
          [] kind = "SEQUENCE" -> {TagSet(Universal(16, "constructed"), <<outer>>)}
          [] OTHER -> {}

MCTags == {[class |-> "context", format |-> "simple", id |-> 1],
           [class |-> "universal", format |-> "simple", id |-> 2]}
=============================================================================
