------------------------- MODULE BerConformanceProofs -------------------------
(***************************************************************************)
(* Proof that the decoder of BerDecoder agrees with the grammar of         *)
(* BerGrammar, for any input, any of the rule sets and any nesting limit.  *)
(*                                                                         *)
(* Each call in progress is read as a claim about the grammar: what it has *)
(* decoded so far begins every way to read its contents (Progress).  A     *)
(* value that is returned is then the only item that starts where the call *)
(* did, and an error means that there is none; no call can be right about  *)
(* its contents if a call it waits for found nothing, so an error of the   *)
(* innermost call refutes them all.                                        *)
(***************************************************************************)
EXTENDS BerGrammarProofs, BerNesting

-----------------------------------------------------------------------------
(* What a value that a call returns stands for.                            *)

Bares(tags) == [i \in 1..Len(tags) |-> Bare(tags[i])]

\* The value x, decoded under the tags that an explicit tag decoder passed on.
Under(x, given) == [x EXCEPT !.tags = @ \o Bares(given)]

IsValue(x) ==
    /\ x = [type |-> x.type, tags |-> x.tags, octs |-> x.octs, kids |-> x.kids]
    /\ x.tags \in Seq(Octet)

\* Of a fragment only the octets matter.
Means(spec, val, given, x) ==
    IF spec = "none" THEN IsValue(x) /\ val = Under(x, given) ELSE val.octs = x

Yields(in, spec, given, p, w, val, q) ==
    \E x \in Item(in, spec, p, q, w) : Means(spec, val, given, x) /\ Only(in, spec, p, w, q, x)

-----------------------------------------------------------------------------
(* What a call passes on to the call it makes.                             *)

Asks(in, f) == IF f.decoder = "OctetString" THEN SpecBelow(in, f.spec) ELSE "none"

Probes(f) == f.decoder # "ExplicitTag" /\ f.len = Indefinite

Given(f) == IF f.decoder = "ExplicitTag" THEN f.tags ELSE <<>>

\* decode() calls the decoder like a frame that has the whole substrate left.
Root(in) == NewFrame(1, End(in), "none", <<>>, FALSE)

\* Frame f was called by up.
CalledBy(in, up, f) ==
    /\ f.spec = Asks(in, up) /\ f.end = up.stop /\ (Probes(up) => f.allowEoo)
    /\ f.spec = "segment" => ~Constructed(in.octets[up.pos])
    /\ up.pos \in Positions(in) /\ f.end \in Positions(in) /\ up.pos <= f.end
    /\ f.len = Indefinite => in.rules.supportIndefLength

-----------------------------------------------------------------------------
(* What a call knows of the octets it was given.                           *)

TagRead(in, up, f) ==
    /\ f.tags = <<in.octets[up.pos]>> \o Given(up) /\ up.pos < f.end
    /\ TagId(in.octets[up.pos]) # 31
    /\ ~(f.allowEoo /\ Zeros(in, up.pos, f.end))

OctsOf(ps) == [i \in 1..Len(ps) |-> ps[i].octs]

\* A string decoder that reads its fragments.
ReadsFragments(in, p, f, ps) ==
    /\ f.decoder = "OctetString" /\ f.st \in {"loop", "wait"}
    /\ f.st = "wait" => f.pos < f.stop
    /\ in.octets[p] \in {4, 36}
    /\ f.spec = "none" => IsConstructedString(in, p)
    /\ f.spec # "none" => f.len = Indefinite
    /\ Progress(in, SpecBelow(in, f.spec), f, f.pos, OctsOf(ps))

\* The contents of a tag of another class are not one value: the first ends
\* where they do not.
Refuted(in, f, ps) ==
    \/ /\ ps = <<>> /\ f.pos = f.start /\ f.start < f.stop
       /\ \E m \in f.start..f.stop : \E x \in Item(in, "none", f.start, m, f.stop) :
             Only(in, "none", f.start, f.stop, m, x) /\ ~IsEnd(in, f, m)
    \/ Len(ps) = 1 /\ ~IsEnd(in, f, f.pos)
    \/ Len(ps) > 1

ReadsComponents(in, p, f, ps) ==
    /\ f.decoder = "Constructed" /\ f.st \in {"loop", "wait"} /\ f.spec = "none"
    /\ f.st = "wait" => f.pos < f.stop
    /\ \/ IsContainer(in.octets[p])
       \/ IsTagged(in.octets[p]) /\ Refuted(in, f, ps)
    /\ Progress(in, "none", f, f.pos, ps)

\* An explicit tag decoder before it has the value, and behind it.
ReadsValue(in, p, f, ps) ==
    /\ f.decoder = "ExplicitTag" /\ f.st \in {"loop", "wait"} /\ f.spec = "none"
    /\ f.pos = f.start /\ ps = <<>>
    /\ IsTagged(in.octets[p])

ReadsEnd(in, p, f, ps) ==
    /\ \/ f.decoder = "ExplicitTag" /\ f.st = "closing"
       \/ f.decoder = "ExplicitEnd" /\ f.st = "wait"
    /\ f.spec = "none" /\ f.len = Indefinite
    /\ IsTagged(in.octets[p])
    /\ \E x \in Item(in, "none", f.start, f.pos, f.stop) :
          /\ IsValue(x) /\ ps = <<Under(x, f.tags)>>
          /\ Only(in, "none", f.start, f.stop, f.pos, x)

Knows(in, up, f, ps) ==
    /\ CalledBy(in, up, f)
    /\ \/ f.st = "enter" /\ f.pos = up.pos /\ f.tags = Given(up) /\ ps = <<>>
       \/ f.st = "length" /\ TagRead(in, up, f) /\ f.pos = up.pos + 1 /\ ps = <<>>
       \/ /\ f.st = "codec" /\ TagRead(in, up, f) /\ HeaderRead(in, up.pos, f)
          /\ f.pos = f.start /\ ps = <<>>
       \/ /\ f.st \in {"loop", "wait", "closing"}
          /\ TagRead(in, up, f) /\ HeaderRead(in, up.pos, f)
          /\ \/ ReadsFragments(in, up.pos, f, ps)
             \/ ReadsComponents(in, up.pos, f, ps)
             \/ ReadsValue(in, up.pos, f, ps)
             \/ ReadsEnd(in, up.pos, f, ps)

\* A call that waits was told the truth.
Answers(in, f, val, pos) ==
    \/ val = EndOfOctets /\ Zeros(in, f.pos, f.stop) /\ pos = f.pos + 2
    \/ val # EndOfOctets /\ Yields(in, Asks(in, f), Given(f), f.pos, f.stop, val, pos)

-----------------------------------------------------------------------------
(* The invariant.                                                          *)

Up(i) == IF i = 1 THEN Root(input) ELSE frames[i - 1]

FramesKnow == \A i \in 1..depth : Knows(input, Up(i), frames[i], parts[i])

UnusedAreEmpty == \A i \in Levels : i > depth => parts[i] = <<>>

CallsAreAnswered == Running("wait") => Answers(input, F, result.val, result.pos)

ValuesAreItems ==
    status = "value" => Answers(input, Root(input), result.val, result.pos)

ErrorsMeanNothing ==
    status \in {"underrun", "malformed"} => Nothing(input, "none", 1, End(input))

GInv ==
    /\ FramesKnow /\ UnusedAreEmpty /\ CallsAreAnswered
    /\ ValuesAreItems /\ ErrorsMeanNothing

-----------------------------------------------------------------------------
(* Claims about frames.                                                    *)

\* Stage, decoder and position of a frame say nothing of its window.
SameWindow(f, g) == f.start = g.start /\ f.stop = g.stop /\ f.end = g.end /\ f.len = g.len

LEMMA SameWindows ==
    ASSUME NEW in, NEW f, NEW g, SameWindow(f, g)
    PROVE  /\ \A p : HeaderRead(in, p, f) <=> HeaderRead(in, p, g)
           /\ \A to : IsEnd(in, f, to) <=> IsEnd(in, g, to)
           /\ \A spec, pos, items :
                 Progress(in, spec, f, pos, items) <=> Progress(in, spec, g, pos, items)
<1>1. \A p : HeaderRead(in, p, f) <=> HeaderRead(in, p, g)
  BY DEF SameWindow, HeaderRead
<1>2. \A to : IsEnd(in, f, to) <=> IsEnd(in, g, to)
  BY DEF SameWindow, IsEnd
<1>3. \A spec, pos, items :
          Progress(in, spec, f, pos, items) <=> Progress(in, spec, g, pos, items)
  BY <1>2 DEF SameWindow, Progress
<1> QED
  BY <1>1, <1>2, <1>3

\* The first item of the contents of an explicit tag.
LEMMA FirstItem ==
    ASSUME NEW in, IsInput(in), NEW p, NEW f, HeaderRead(in, p, f),
           NEW pos, NEW x, Only(in, "none", f.start, f.stop, pos, x)
    PROVE  Progress(in, "none", f, pos, <<x>>) /\ InWindow(in, f, pos)
<1>1. InWindow(in, f, f.start) /\ f.start \in Int /\ f.stop \in Int
  BY HeaderReadFacts DEF Positions
<1>2. pos \in f.start + 2..f.stop
  BY DEF Only
<1>3. f.start < f.stop /\ pos \in f.start..f.stop
  BY <1>1, <1>2
<1>4. Progress(in, "none", f, f.start, <<>>)
  BY <1>1, ProgressBegins
<1>5. Progress(in, "none", f, pos, Append(<<>>, x))
  BY <1>1, <1>3, <1>4, ProgressGoesOn
<1>6. Append(<<>>, x) = <<x>>
  OBVIOUS
<1> QED
  BY <1>1, <1>3, <1>5, <1>6 DEF InWindow

\* What a tag of another class has under it is not to be read.
LEMMA NoValueUnderTag ==
    ASSUME NEW in, IsInput(in), NEW p, NEW f, HeaderRead(in, p, f), IsTagged(in.octets[p]),
           Nothing(in, "none", f.start, f.stop)
    PROVE  Nothing(in, "none", p, f.end)
<1>1. /\ InWindow(in, f, f.start) /\ f.start \in Int /\ f.stop \in Int /\ f.start <= f.stop
      /\ f.start \in f.start..f.stop
  BY HeaderReadFacts DEF Positions
<1>2. Progress(in, "none", f, f.start, <<>>)
  BY <1>1, ProgressBegins
<1>3. CASE f.start < f.stop /\ ~(f.len = Indefinite /\ Zeros(in, f.start, f.stop))
  <2>1. Hopeless(in, "none", f)
    BY <1>1, <1>2, <1>3, ProgressFails
  <2> QED
    BY <2>1, HopelessContainer
<1>4. CASE ~(f.start < f.stop)
  <2>1. f.start = f.stop
    BY <1>1, <1>4
  <2>2. Complete(in, "none", f, f.start, <<>>)
    BY <1>1, <1>2, <2>1, ProgressEnds
  <2>3. Ends(in, f, f.start, f.stop)
    BY <2>1 DEF Ends, Closes, LeftOpen
  <2> QED
    BY <1>1, <2>2, <2>3, EmptyTagged
<1>5. CASE f.len = Indefinite /\ Zeros(in, f.start, f.stop)
  <2>2. Complete(in, "none", f, f.start, <<>>)
    BY <1>1, <1>2, <1>5, ProgressEnds
  <2>3. Ends(in, f, f.start, f.start + 2)
    BY <1>5 DEF Ends, Closes
  <2> QED
    BY <1>1, <2>2, <2>3, EmptyTagged
<1> QED
  BY <1>3, <1>4, <1>5

\* One value under it, and then neither another one nor an end-of-octets.
LEMMA NoEndUnderTag ==
    ASSUME NEW in, IsInput(in), NEW p, NEW f, HeaderRead(in, p, f), IsTagged(in.octets[p]),
           f.len = Indefinite,
           NEW pos, NEW x, Only(in, "none", f.start, f.stop, pos, x),
           Nothing(in, "none", pos, f.stop), ~Zeros(in, pos, f.stop)
    PROVE  Nothing(in, "none", p, f.end)
<1>1. Progress(in, "none", f, pos, <<x>>) /\ InWindow(in, f, pos)
  BY FirstItem
<1>2. pos \in f.start..f.stop /\ f.start \in Int /\ f.stop \in Int
  BY <1>1, HeaderReadFacts DEF InWindow, Positions
<1>3. CASE pos = f.stop
  <2>1. Complete(in, "none", f, pos, <<x>>)
    BY <1>1, <1>3, ProgressEnds
  <2> QED
    BY <1>3, <2>1, OpenTagged
<1>4. CASE pos # f.stop
  <2>1. pos < f.stop
    BY <1>2, <1>4
  <2>2. Hopeless(in, "none", f)
    BY <1>1, <2>1, ProgressFails
  <2> QED
    BY <2>2, HopelessContainer
<1> QED
  BY <1>3, <1>4

LEMMA SpecsBelow == \A in, spec : SpecBelow(in, spec) \in {"fragment", "segment"}
  BY DEF SpecBelow

\* If a call finds nothing, the call that waits for it has found nothing.
LEMMA NothingSpreads ==
    ASSUME NEW in, IsInput(in), NEW up, NEW f, NEW ps, Knows(in, up, f, ps), f.st = "wait",
           f.pos \in f.start..f.stop,
           NEW c, CalledBy(in, f, c),
           Nothing(in, c.spec, f.pos, c.end), ~(c.allowEoo /\ Zeros(in, f.pos, c.end))
    PROVE  Nothing(in, f.spec, up.pos, f.end)
<1> DEFINE p == up.pos
<1>1. HeaderRead(in, p, f) /\ f.spec \in {"none", "fragment", "segment"}
  BY DEF Knows, CalledBy, Asks, SpecBelow
<1>2. /\ c.spec = Asks(in, f) /\ c.end = f.stop
      /\ Probes(f) => ~Zeros(in, f.pos, f.stop)
  BY DEF CalledBy
<1>3. InWindow(in, f, f.pos)
  BY <1>1, HeaderReadFacts DEF InWindow
<1> HIDE DEF p
<1>4. CASE ReadsFragments(in, p, f, ps)
  <2>1. /\ Nothing(in, SpecBelow(in, f.spec), f.pos, f.stop) /\ f.pos < f.stop
        /\ f.len = Indefinite => ~Zeros(in, f.pos, f.stop)
        /\ Progress(in, SpecBelow(in, f.spec), f, f.pos, OctsOf(ps))
    BY <1>2, <1>4 DEF ReadsFragments, Asks, Probes
  <2>2. Hopeless(in, SpecBelow(in, f.spec), f)
    BY <1>3, <2>1, SpecsBelow, ProgressFails
  <2>3. /\ f.spec = "none" /\ IsConstructedString(in, p) => Nothing(in, "none", p, f.end)
        /\ f.spec # "none" /\ in.octets[p] \in {4, 36} /\ IsIndefiniteAt(in, p)
              => Nothing(in, f.spec, p, f.end)
    BY <1>1, <2>2, HopelessString
  <2> QED
    BY <1>1, <1>4, <2>3 DEF ReadsFragments, HeaderRead, p
<1>5. CASE ReadsComponents(in, p, f, ps)
  <2>1. /\ Nothing(in, "none", f.pos, f.stop) /\ f.pos < f.stop
        /\ f.len = Indefinite => ~Zeros(in, f.pos, f.stop)
        /\ Progress(in, "none", f, f.pos, ps)
        /\ IsContainer(in.octets[p]) \/ IsTagged(in.octets[p])
        /\ f.spec = "none"
    BY <1>2, <1>5 DEF ReadsComponents, Asks, Probes
  <2>2. Hopeless(in, "none", f)
    BY <1>3, <2>1, ProgressFails
  <2> QED
    BY <1>1, <2>1, <2>2, HopelessContainer DEF p
<1>6. CASE ReadsValue(in, p, f, ps)
  <2>1. /\ Nothing(in, "none", f.start, f.stop) /\ IsTagged(in.octets[p]) /\ f.spec = "none"
    BY <1>2, <1>6 DEF ReadsValue, Asks
  <2> QED
    BY <1>1, <2>1, NoValueUnderTag DEF p
<1>7. CASE ReadsEnd(in, p, f, ps)
  <2>1. /\ Nothing(in, "none", f.pos, f.stop) /\ IsTagged(in.octets[p]) /\ f.spec = "none"
        /\ f.len = Indefinite /\ ~Zeros(in, f.pos, f.stop)
    BY <1>2, <1>7 DEF ReadsEnd, Asks, Probes
  <2>2. PICK x : Only(in, "none", f.start, f.stop, f.pos, x)
    BY <1>7 DEF ReadsEnd
  <2> QED
    BY <1>1, <2>1, <2>2, NoEndUnderTag DEF p
<1> QED
  BY <1>4, <1>5, <1>6, <1>7 DEF Knows, p

-----------------------------------------------------------------------------
(* Tags.                                                                   *)

LEMMA BareIsAnOctet == \A t \in Octet : Bare(t) \in Octet
  BY DEF Bare, Constructed, Octet

LEMMA BaresOf ==
    ASSUME NEW t \in Octet, NEW given \in Seq(Octet)
    PROVE  /\ Bares(given) \in Seq(Octet)
           /\ <<t>> \o given \in Seq(Octet)
           /\ Bares(<<t>> \o given) = <<Bare(t)>> \o Bares(given)
<1>1. PICK n \in Nat : n = Len(given)
  OBVIOUS
<1>2. Bares(given) \in Seq(Octet) /\ Len(Bares(given)) = n
  <2>1. \A i \in 1..n : Bare(given[i]) \in Octet
    BY <1>1, BareIsAnOctet
  <2> QED
    BY <1>1, <2>1 DEF Bares
<1>3. /\ <<t>> \o given \in Seq(Octet) /\ Len(<<t>> \o given) = n + 1
      /\ \A i \in 1..n + 1 : (<<t>> \o given)[i] = IF i = 1 THEN t ELSE given[i - 1]
  <2>1. <<t>> \in Seq(Octet) /\ Len(<<t>>) = 1
    OBVIOUS
  <2>2. <<t>> \o given \in Seq(Octet) /\ Len(<<t>> \o given) = n + 1
    BY <1>1, <2>1
  <2>3. \A i \in 1..n + 1 : (<<t>> \o given)[i] = IF i <= 1 THEN <<t>>[i] ELSE given[i - 1]
    BY <1>1, <2>1
  <2>4. ASSUME NEW i \in 1..n + 1
        PROVE  (<<t>> \o given)[i] = IF i = 1 THEN t ELSE given[i - 1]
    <3>1. CASE i = 1
      BY <2>3, <3>1
    <3>2. CASE i # 1
      <4>1. ~(i <= 1)
        BY <3>2
      <4> QED
        BY <2>3, <3>2, <4>1
    <3> QED
      BY <3>1, <3>2
  <2> QED
    BY <2>2, <2>4
<1> DEFINE a == Bares(<<t>> \o given)
           b == <<Bare(t)>> \o Bares(given)
<1>4. a = [i \in 1..n + 1 |-> Bare((<<t>> \o given)[i])]
  BY <1>3 DEF Bares
<1>5. b \in Seq(Octet) /\ Len(b) = n + 1
      /\ \A i \in 1..n + 1 : b[i] = IF i <= 1 THEN <<Bare(t)>>[i] ELSE Bares(given)[i - 1]
  <2>1. <<Bare(t)>> \in Seq(Octet) /\ Len(<<Bare(t)>>) = 1
    BY BareIsAnOctet
  <2> QED
    BY <1>2, <2>1
<1>6. \A i \in 1..n : Bares(given)[i] = Bare(given[i])
  BY <1>1 DEF Bares
<1>7. \A i \in 1..n + 1 : a[i] = b[i]
  <2>1. SUFFICES ASSUME NEW i \in 1..n + 1
                 PROVE  Bare((<<t>> \o given)[i]) = b[i]
    BY <1>4
  <2>2. CASE i = 1
    <3>1. b[i] = Bare(t)
      BY <1>5, <2>2
    <3> QED
      BY <1>3, <2>2, <3>1
  <2>3. CASE i # 1
    <3>1. i - 1 \in 1..n /\ ~(i <= 1)
      BY <2>3
    <3>2. b[i] = Bare(given[i - 1])
      BY <1>5, <1>6, <3>1
    <3> QED
      BY <1>3, <2>3, <3>2
  <2> QED
    BY <2>2, <2>3
<1>8. b = [i \in 1..n + 1 |-> b[i]]
  BY <1>5
<1>9. a = b
  BY <1>4, <1>7, <1>8
<1> QED
  BY <1>2, <1>3, <1>9

\* Values field by field.
LEMMA ValuesByField ==
    ASSUME NEW a, NEW s, NEW o, NEW k
    PROVE  /\ \A given : Under(Value(a, s, o, k), given) = Value(a, s \o Bares(given), o, k)
           /\ \A t : Retagged(Value(a, s, o, k), t) = Value(a, Append(s, Bare(t)), o, k)
<1>1. ASSUME NEW given
      PROVE  Under(Value(a, s, o, k), given) = Value(a, s \o Bares(given), o, k)
  BY DEF Under, Value
<1>2. ASSUME NEW t
      PROVE  Retagged(Value(a, s, o, k), t) = Value(a, Append(s, Bare(t)), o, k)
  BY DEF Retagged, Value
<1> QED
  BY <1>1, <1>2

LEMMA FieldsMakeValues ==
    ASSUME NEW a, NEW s \in Seq(Octet), NEW o, NEW k
    PROVE  IsValue(Value(a, s, o, k))
  BY DEF IsValue, Value

LEMMA FieldsOfValues ==
    ASSUME NEW x, IsValue(x)
    PROVE  \E a, s, o, k : s \in Seq(Octet) /\ x = Value(a, s, o, k)
  BY Zenon DEF IsValue, Value

\* What a decoder makes of its contents, with its tag and those passed to it.
LEMMA LeavesUnderTags ==
    ASSUME NEW t \in Octet, NEW given \in Seq(Octet), NEW type, NEW octs
    PROVE  /\ IsValue(Leaf(type, <<Bare(t)>>, octs))
           /\ Leaf(type, Bares(<<t>> \o given), octs) = Under(Leaf(type, <<Bare(t)>>, octs), given)
<1>1. <<Bare(t)>> \in Seq(Octet)
  BY BareIsAnOctet
<1>2. Bares(<<t>> \o given) = <<Bare(t)>> \o Bares(given)
  BY BaresOf
<1>3. \A s : Leaf(type, s, octs) = Value(type, s, octs, <<>>)
  BY DEF Leaf, Value
<1>4. IsValue(Leaf(type, <<Bare(t)>>, octs))
  <2>1. IsValue(Value(type, <<Bare(t)>>, octs, <<>>))
    BY <1>1, FieldsMakeValues
  <2> QED
    BY <1>3, <2>1
<1>5. Under(Leaf(type, <<Bare(t)>>, octs), given) = Value(type, <<Bare(t)>> \o Bares(given), octs, <<>>)
  BY <1>3, ValuesByField
<1> QED
  BY <1>2, <1>3, <1>4, <1>5

LEMMA ContainersUnderTags ==
    ASSUME NEW t \in Octet, NEW given \in Seq(Octet), NEW kids
    PROVE  /\ IsValue(Container(<<Bare(t)>>, kids))
           /\ Container(Bares(<<t>> \o given), kids) = Under(Container(<<Bare(t)>>, kids), given)
<1>1. <<Bare(t)>> \in Seq(Octet)
  BY BareIsAnOctet
<1>2. Bares(<<t>> \o given) = <<Bare(t)>> \o Bares(given)
  BY BaresOf
<1> DEFINE a == Container(<<>>, kids).type
<1>3. \A s : Container(s, kids) = Value(a, s, <<>>, kids)
  BY DEF Container, Value
<1> HIDE DEF a
<1>4. IsValue(Container(<<Bare(t)>>, kids))
  <2>1. IsValue(Value(a, <<Bare(t)>>, <<>>, kids))
    BY <1>1, FieldsMakeValues
  <2> QED
    BY <1>3, <2>1
<1>5. Under(Container(<<Bare(t)>>, kids), given) = Value(a, <<Bare(t)>> \o Bares(given), <<>>, kids)
  BY <1>3, ValuesByField
<1> QED
  BY <1>2, <1>3, <1>4, <1>5

LEMMA OctetsAssociate ==
    ASSUME NEW s \in Seq(Octet), NEW t \in Seq(Octet), NEW r \in Seq(Octet)
    PROVE  s \o (t \o r) = (s \o t) \o r
<1> DEFINE P(a, b, c) == (a \o b) \o c = a \o (b \o c)
<1>1. \A S : \A a, b, c \in Seq(S) : P(a, b, c)
  BY ConcatAssociative, Zenon
<1>2. P(s, t, r)
  <2> HIDE DEF P
  <2> QED
    BY <1>1
<1> QED
  BY <1>2

LEMMA TaggedUnderTags ==
    ASSUME NEW t \in Octet, NEW given \in Seq(Octet), NEW x, IsValue(x)
    PROVE  /\ IsValue(Retagged(x, t))
           /\ Under(x, <<t>> \o given) = Under(Retagged(x, t), given)
<1>1. PICK b \in Octet : b = Bare(t)
  BY BareIsAnOctet
<1>2. Bares(<<t>> \o given) = <<b>> \o Bares(given) /\ Bares(given) \in Seq(Octet)
  BY <1>1, BaresOf
<1>3. PICK a, s, o, k : s \in Seq(Octet) /\ x = Value(a, s, o, k)
  BY FieldsOfValues
<1>4. s \o (<<b>> \o Bares(given)) = Append(s, b) \o Bares(given)
  <2>1. <<b>> \in Seq(Octet) /\ Append(s, b) = s \o <<b>>
    BY <1>3
  <2>2. s \in Seq(Octet)
    BY <1>3
  <2>3. s \o (<<b>> \o Bares(given)) = (s \o <<b>>) \o Bares(given)
    BY <1>2, <2>1, <2>2, OctetsAssociate
  <2> QED
    BY <1>2, <2>1, <2>3
<1>5. Append(s, b) \in Seq(Octet)
  BY <1>3
<1>6. Retagged(x, t) = Value(a, Append(s, b), o, k)
  BY <1>1, <1>3, ValuesByField
<1>7. Under(x, <<t>> \o given) = Value(a, s \o (<<b>> \o Bares(given)), o, k)
  <2>1. \A g : Under(x, g) = Value(a, s \o Bares(g), o, k)
    BY <1>3, ValuesByField
  <2>2. Under(x, <<t>> \o given) = Value(a, s \o Bares(<<t>> \o given), o, k)
    BY <2>1, Zenon
  <2> QED
    BY <1>2, <2>2
<1>8. Under(Retagged(x, t), given) = Value(a, Append(s, b) \o Bares(given), o, k)
  BY <1>6, ValuesByField
<1>9. IsValue(Retagged(x, t))
  <2>1. IsValue(Value(a, Append(s, b), o, k))
    BY <1>5, FieldsMakeValues
  <2> QED
    BY <1>6, <2>1
<1> QED
  BY <1>4, <1>7, <1>8, <1>9

LEMMA UnderNoTags ==
    ASSUME NEW x, IsValue(x)
    PROVE  Under(x, <<>>) = x
<1>1. PICK a, s, o, k : s \in Seq(Octet) /\ x = Value(a, s, o, k)
  BY FieldsOfValues
<1>2. Bares(<<>>) = <<>>
  BY DEF Bares
<1>3. s \o <<>> = s
  BY <1>1, ConcatEmptySeq
<1>4. Under(x, <<>>) = Value(a, s \o Bares(<<>>), o, k)
  BY <1>1, ValuesByField
<1> QED
  BY <1>1, <1>2, <1>3, <1>4

-----------------------------------------------------------------------------
(* How a step ends.                                                        *)

LEMMA InputsAreInputs ==
    ASSUME IInv
    PROVE  /\ IsInput(input) /\ End(input) \in Positions(input) /\ 1 \in Positions(input)
           /\ \A k \in Nat : 1 <= k /\ k <= Len(substrate) + 1 => k \in Positions(input)
<1>1. PICK n \in Nat : n = Len(substrate)
  BY DEF IInv, TypeOK
<1> QED
  BY <1>1 DEF IInv, TypeOK, IsInput, Positions, End, substrate

LEMMA RootFields ==
    \A in : LET r == Root(in)
            IN  /\ r.pos = 1 /\ r.stop = End(in) /\ r.decoder = "none" /\ r.len = 0
                /\ Asks(in, r) = "none" /\ Given(r) = <<>>
  BY DEF Root, NewFrame, Asks, Given

\* The running frame, with the frame that called it.
LEMMA RunningKnows ==
    ASSUME IInv, GInv, NEW st, Running(st)
    PROVE  /\ Known /\ F.st = st /\ depth > 0 /\ IsInput(input)
           /\ Knows(input, Up(depth), F, parts[depth])
<1>1. Known /\ F.st = st /\ depth > 0
  BY RunningIsKnown
<1>2. depth \in 1..depth
  BY <1>1 DEF Known
<1> QED
  BY <1>1, <1>2, InputsAreInputs DEF GInv, FramesKnow, F

\* There is nothing where the frame at level i was told to look.
Fails(i) ==
    /\ Nothing(input, frames[i].spec, Up(i).pos, frames[i].end)
    /\ ~(frames[i].allowEoo /\ Zeros(input, Up(i).pos, frames[i].end))

LEMMA FailureSpreads ==
    ASSUME IInv, GInv, depth > 0, Fails(depth)
    PROVE  Nothing(input, "none", 1, End(input))
<1>1. depth \in 1..depth /\ depth \in Nat
  BY DEF IInv, TypeOK
<1> DEFINE T == {i \in 1..depth : Fails(i)}
<1>2. T \subseteq Nat /\ T # {}
  BY <1>1
<1>3. PICK i \in T : \A j \in T : i <= j
  <2> HIDE DEF T
  <2> QED
    BY <1>2, LeastElement
<1>4. i \in 1..depth /\ Fails(i) /\ Knows(input, Up(i), frames[i], parts[i])
  BY <1>3 DEF GInv, FramesKnow
<1>5. CASE i = 1
  <2>1. Up(i) = Root(input)
    BY <1>5 DEF Up
  <2>2. /\ frames[i].spec = "none" /\ frames[i].end = End(input) /\ Up(i).pos = 1
    BY <1>4, <2>1, RootFields DEF Knows, CalledBy
  <2> QED
    BY <1>4, <2>2 DEF Fails
<1>6. CASE i # 1
  <2>1. PICK j \in 1..depth - 1 : i = j + 1
    BY <1>1, <1>4, <1>6
  <2>2. j \in 1..depth /\ i - 1 = j /\ j \in Int
    BY <1>1, <2>1
  <2>3. Up(i) = frames[j]
    BY <1>6, <2>2 DEF Up
  <2>4. Knows(input, Up(j), frames[j], parts[j])
    BY <2>2 DEF GInv, FramesKnow
  <2>5. frames[j].st = "wait" /\ frames[j].pos \in frames[j].start..frames[j].stop
    <3>1. frames[j].pos \in Nat /\ frames[j].start \in Nat /\ frames[j].stop \in Nat
      <4>1. depth \in 0..MaxNesting + 2 /\ MaxNesting \in Nat
        BY MaxNestingAssumption DEF IInv, TypeOK
      <4>2. j \in Levels
        BY <2>2, <4>1 DEF Levels
      <4>3. frames[j] \in Frame
        BY <4>2 DEF IInv, TypeOK
      <4> QED
        BY <4>3 DEF Frame
    <3>2. frames[j].start <= frames[j].pos /\ frames[j].pos <= frames[j].stop
      BY <2>2 DEF IInv, WindowsNested
    <3>3. frames[j].st = "wait"
      BY <2>1 DEF IInv, WindowsNested
    <3> QED
      BY <3>1, <3>2, <3>3
  <2>6. CalledBy(input, frames[j], frames[i])
    BY <1>4, <2>3 DEF Knows
  <2>7. /\ Nothing(input, frames[i].spec, frames[j].pos, frames[i].end)
        /\ ~(frames[i].allowEoo /\ Zeros(input, frames[j].pos, frames[i].end))
    BY <1>4, <2>3 DEF Fails
  <2>8. Nothing(input, frames[j].spec, Up(j).pos, frames[j].end)
    BY <2>4, <2>5, <2>6, <2>7, InputsAreInputs, NothingSpreads
  <2>9. TagRead(input, Up(j), frames[j])
    BY <2>4, <2>5 DEF Knows
  <2>10. Fails(j)
    BY <2>8, <2>9 DEF Fails, TagRead
  <2>11. j \in T
    BY <2>2, <2>10
  <2> HIDE DEF T
  <2> QED
    BY <1>3, <2>1, <2>2, <2>11
<1> QED
  BY <1>5, <1>6

LEMMA RaiseMeansNothing ==
    ASSUME IInv, GInv, depth > 0, NEW kind \in {"underrun", "malformed", "nesting", "unmodelled"},
           Raise(kind), kind \in {"underrun", "malformed"} => Fails(depth)
    PROVE  GInv'
<1>1. /\ status' = kind /\ depth' = 0 /\ input' = input
      /\ parts' = [i \in Levels |-> <<>>]
  BY DEF Raise
<1>2. FramesKnow' /\ UnusedAreEmpty' /\ CallsAreAnswered' /\ ValuesAreItems'
  BY <1>1 DEF FramesKnow, UnusedAreEmpty, CallsAreAnswered, ValuesAreItems, Running
<1>3. ErrorsMeanNothing'
  <2>1. kind \in {"underrun", "malformed"} => Nothing(input, "none", 1, End(input))
    BY FailureSpreads
  <2> QED
    BY <1>1, <2>1 DEF ErrorsMeanNothing
<1> QED
  BY <1>2, <1>3 DEF GInv

LEMMA ReturnAnswers ==
    ASSUME IInv, GInv, status = "decoding", depth > 0, NEW value, NEW pos,
           Return(value, pos), Answers(input, Up(depth), value, pos)
    PROVE  GInv'
<1>1. depth \in 1..MaxNesting + 2 /\ depth \in Levels /\ depth \in Nat /\ MaxNesting \in Nat
  BY MaxNestingAssumption DEF IInv, TypeOK, Levels
<1>2. /\ depth' = depth - 1 /\ input' = input /\ result' = [val |-> value, pos |-> pos]
      /\ status' = IF depth = 1 THEN "value" ELSE "decoding"
      /\ \A i \in 1..depth - 1 : frames'[i] = frames[i] /\ parts'[i] = parts[i]
      /\ \A i \in Levels : parts'[i] = IF i = depth THEN <<>> ELSE parts[i]
  BY <1>1 DEF IInv, Return, TypeOK, Levels
<1>3. result'.val = value /\ result'.pos = pos
  BY <1>2
<1>4. FramesKnow'
  <2>1. SUFFICES ASSUME NEW i \in 1..depth - 1
                 PROVE  Knows(input', Up(i)', frames'[i], parts'[i])
    BY <1>2 DEF FramesKnow
  <2>2. Up(i)' = Up(i)
    <3>1. i # 1 => i - 1 \in 1..depth - 1
      BY <1>1
    <3> QED
      BY <1>2, <3>1 DEF Up
  <2>3. i \in 1..depth
    BY <1>1
  <2> QED
    BY <1>2, <2>2, <2>3 DEF GInv, FramesKnow
<1>5. UnusedAreEmpty'
  <2>1. SUFFICES ASSUME NEW i \in Levels, i > depth - 1
                 PROVE  parts'[i] = <<>>
    BY <1>2 DEF UnusedAreEmpty
  <2>2. i = depth \/ i > depth
    BY <1>1, <2>1 DEF Levels
  <2> QED
    BY <1>2, <2>1, <2>2 DEF GInv, UnusedAreEmpty
<1>6. CallsAreAnswered'
  <2>1. SUFFICES ASSUME depth' > 0
                 PROVE  Answers(input', F', value, pos)
    BY <1>3 DEF CallsAreAnswered, Running
  <2>2. depth - 1 \in 1..depth - 1 /\ depth # 1
    BY <1>1, <1>2, <2>1
  <2>3. F' = frames[depth - 1]
    BY <1>2, <2>2 DEF F
  <2>4. Up(depth) = frames[depth - 1]
    BY <2>2 DEF Up
  <2> QED
    BY <1>2, <2>3, <2>4
<1>7. ValuesAreItems'
  <2>1. depth = 1 => Up(depth) = Root(input)
    BY DEF Up
  <2> QED
    BY <1>2, <1>3, <2>1 DEF ValuesAreItems
<1>8. ErrorsMeanNothing'
  BY <1>2 DEF ErrorsMeanNothing
<1> QED
  BY <1>4, <1>5, <1>6, <1>7, <1>8 DEF GInv

LEMMA ContinueKnows ==
    ASSUME IInv, GInv, status = "decoding", depth > 0, NEW f, NEW p,
           Knows(input, Up(depth), f, p), f.st # "wait",
           Continue(f), \A i \in Levels : parts'[i] = IF i = depth THEN p ELSE parts[i]
    PROVE  GInv'
<1>1. depth \in 1..MaxNesting + 2 /\ depth \in Levels /\ depth \in Nat /\ MaxNesting \in Nat
  BY MaxNestingAssumption DEF IInv, TypeOK, Levels
<1>2. /\ depth' = depth /\ input' = input /\ result' = result /\ status' = status
      /\ frames'[depth] = f
      /\ \A i \in 1..depth - 1 : frames'[i] = frames[i] /\ i \in Levels
  BY <1>1 DEF IInv, Continue, TypeOK, Levels
<1>3. FramesKnow'
  <2>1. SUFFICES ASSUME NEW i \in 1..depth
                 PROVE  Knows(input, Up(i)', frames'[i], parts'[i])
    BY <1>2 DEF FramesKnow
  <2>2. Up(i)' = Up(i)
    <3>1. i # 1 => i - 1 \in 1..depth - 1
      BY <1>1
    <3> QED
      BY <1>2, <3>1 DEF Up
  <2>3. CASE i = depth
    BY <1>1, <1>2, <2>2, <2>3
  <2>4. CASE i # depth
    <3>1. i \in 1..depth - 1
      BY <1>1, <2>4
    <3> QED
      BY <1>2, <2>2, <2>4, <3>1 DEF GInv, FramesKnow
  <2> QED
    BY <2>3, <2>4
<1>4. UnusedAreEmpty'
  BY <1>1, <1>2 DEF UnusedAreEmpty, GInv, Levels
<1>5. CallsAreAnswered' /\ ValuesAreItems' /\ ErrorsMeanNothing'
  BY <1>2 DEF CallsAreAnswered, ValuesAreItems, ErrorsMeanNothing, Running, F
<1> QED
  BY <1>3, <1>4, <1>5 DEF GInv

LEMMA CallKnows ==
    ASSUME IInv, GInv, status = "decoding", depth > 0, depth <= MaxNesting + 1,
           NEW f, NEW new, Knows(input, Up(depth), f, parts[depth]),
           Knows(input, f, new, <<>>), new.st = "enter",
           frames' = [frames EXCEPT ![depth] = f, ![depth + 1] = new],
           depth' = depth + 1, UNCHANGED <<input, parts, result, status>>
    PROVE  GInv'
<1>1. /\ depth \in 1..MaxNesting + 1 /\ depth \in Levels /\ depth \in Nat /\ MaxNesting \in Nat
      /\ depth + 1 \in Levels
  BY MaxNestingAssumption DEF IInv, TypeOK, Levels
<1>2. /\ frames'[depth] = f /\ frames'[depth + 1] = new
      /\ \A i \in 1..depth - 1 : frames'[i] = frames[i]
  <2>1. frames \in [Levels -> Frame] /\ depth # depth + 1
    BY <1>1 DEF IInv, TypeOK
  <2>2. \A i \in 1..depth - 1 : i # depth /\ i # depth + 1 /\ i \in Levels
    BY <1>1 DEF Levels
  <2>3. \A i \in Levels : frames'[i] = IF i = depth + 1 THEN new ELSE IF i = depth THEN f ELSE frames[i]
    BY <2>1, <1>1
  <2> QED
    BY <2>1, <2>2, <2>3, <1>1
<1>3. FramesKnow'
  <2>1. SUFFICES ASSUME NEW i \in 1..depth + 1
                 PROVE  Knows(input, Up(i)', frames'[i], parts[i])
    BY DEF FramesKnow
  <2>2. i # depth + 1 => Up(i)' = Up(i)
    <3>1. i # depth + 1 /\ i # 1 => i - 1 \in 1..depth - 1
      BY <1>1
    <3> QED
      BY <1>2, <3>1 DEF Up
  <2>3. CASE i = depth
    <3>1. Up(i)' = Up(depth)
      BY <1>1, <2>2, <2>3
    <3> QED
      BY <1>2, <2>3, <3>1
  <2>4. CASE i = depth + 1
    <3>1. Up(i)' = f
      <4>1. i # 1 /\ i - 1 = depth
        BY <1>1, <2>4
      <4> QED
        BY <1>2, <4>1 DEF Up
    <3>2. parts[i] = <<>>
      <4>1. i \in Levels /\ i > depth
        BY <1>1, <2>4
      <4> QED
        BY <4>1 DEF GInv, UnusedAreEmpty
    <3> QED
      BY <1>2, <2>4, <3>1, <3>2
  <2>5. CASE i # depth /\ i # depth + 1
    <3>1. i \in 1..depth - 1 /\ i \in 1..depth
      BY <1>1, <2>5
    <3> QED
      BY <1>2, <2>2, <2>5, <3>1 DEF GInv, FramesKnow
  <2> QED
    BY <2>3, <2>4, <2>5
<1>4. UnusedAreEmpty'
  BY <1>1 DEF UnusedAreEmpty, GInv, Levels
<1>5. F' = new
  BY <1>2 DEF F
<1>6. CallsAreAnswered' /\ ValuesAreItems' /\ ErrorsMeanNothing'
  BY <1>5 DEF CallsAreAnswered, ValuesAreItems, ErrorsMeanNothing, Running
<1> QED
  BY <1>3, <1>4, <1>6 DEF GInv

-----------------------------------------------------------------------------
(* The running frame.                                                      *)

\* f has read its header.
Located(in, up, f) ==
    CalledBy(in, up, f) /\ TagRead(in, up, f) /\ HeaderRead(in, up.pos, f)

\* g is f at another stage, with another decoder or further on.
Moved(f, g) ==
    /\ SameWindow(f, g)
    /\ g.spec = f.spec /\ g.tags = f.tags /\ (g.allowEoo <=> f.allowEoo)

LEMMA MovedFrames ==
    ASSUME NEW in, NEW up, NEW f, NEW g, Located(in, up, f), Moved(f, g)
    PROVE  Located(in, up, g)
<1>1. CalledBy(in, up, g)
  BY DEF Located, CalledBy, Moved, SameWindow
<1>2. TagRead(in, up, g)
  BY DEF Located, TagRead, Moved, SameWindow
<1>3. HeaderRead(in, up.pos, g)
  BY SameWindows DEF Located, Moved
<1> QED
  BY <1>1, <1>2, <1>3 DEF Located

LEMMA GivenAreOctets ==
    ASSUME IInv, depth > 0
    PROVE  Given(Up(depth)) \in Seq(Octet)
<1>1. CASE depth = 1
  <2>1. Up(depth) = Root(input)
    BY <1>1 DEF Up
  <2>2. Given(Up(depth)) = <<>>
    BY <2>1, RootFields
  <2> QED
    BY <2>2
<1>2. CASE depth # 1
  <2>1. depth \in 0..MaxNesting + 2 /\ MaxNesting \in Nat
    BY MaxNestingAssumption DEF IInv, TypeOK
  <2>2. depth - 1 \in Levels /\ Up(depth) = frames[depth - 1]
    BY <1>2, <2>1 DEF Up, Levels
  <2>3. Up(depth) \in Frame
    BY <2>2 DEF IInv, TypeOK
  <2> QED
    BY <2>3 DEF Given, Frame
<1> QED
  BY <1>1, <1>2

LEMMA RunningReads ==
    ASSUME IInv, GInv, NEW st \in {"codec", "loop", "wait", "closing"}, Running(st)
    PROVE  /\ Located(input, Up(depth), F)
           /\ Given(Up(depth)) \in Seq(Octet)
           /\ input.octets[Up(depth).pos] \in Octet
           /\ Head(F.tags) = input.octets[Up(depth).pos]
           /\ TagSet(F) = Bares(<<input.octets[Up(depth).pos]>> \o Given(Up(depth)))
<1>1. Knows(input, Up(depth), F, parts[depth]) /\ F.st = st /\ depth > 0 /\ IsInput(input)
  BY RunningKnows
<1> DEFINE up == Up(depth)
<1> HIDE DEF up
<1>2. Located(input, up, F)
  BY <1>1 DEF Knows, Located, up
<1>3. Given(up) \in Seq(Octet)
  BY <1>1, GivenAreOctets DEF up
<1>4. input.octets[up.pos] \in Octet
  BY <1>1, <1>2, HeaderReadFacts DEF Located
<1>5. F.tags = <<input.octets[up.pos]>> \o Given(up)
  BY <1>2 DEF Located, TagRead
<1>6. Head(<<input.octets[up.pos]>> \o Given(up)) = input.octets[up.pos]
  BY <1>3, <1>4
<1> QED
  BY <1>2, <1>3, <1>4, <1>5, <1>6 DEF TagSet, Bares, up

\* What each of the decoders has read.
LEMMA ReadersRead ==
    ASSUME IInv, GInv, NEW st \in {"loop", "wait", "closing"}, Running(st)
    PROVE  /\ F.decoder = "OctetString" =>
                 ReadsFragments(input, Up(depth).pos, F, parts[depth])
           /\ F.decoder = "Constructed" =>
                 ReadsComponents(input, Up(depth).pos, F, parts[depth])
           /\ F.decoder = "ExplicitTag" /\ st # "closing" =>
                 ReadsValue(input, Up(depth).pos, F, parts[depth])
           /\ F.decoder = "ExplicitEnd" \/ st = "closing" =>
                 ReadsEnd(input, Up(depth).pos, F, parts[depth])
           /\ F.decoder \in {"OctetString", "Constructed", "ExplicitTag", "ExplicitEnd"}
<1>1. Knows(input, Up(depth), F, parts[depth]) /\ F.st = st
  BY RunningKnows
<1> DEFINE p == Up(depth).pos
<1> HIDE DEF p
<1>2. \/ ReadsFragments(input, p, F, parts[depth])
      \/ ReadsComponents(input, p, F, parts[depth])
      \/ ReadsValue(input, p, F, parts[depth])
      \/ ReadsEnd(input, p, F, parts[depth])
  BY <1>1 DEF Knows, p
<1>3. ReadsFragments(input, p, F, parts[depth]) => F.decoder = "OctetString" /\ st # "closing"
  BY <1>1 DEF ReadsFragments
<1>4. ReadsComponents(input, p, F, parts[depth]) => F.decoder = "Constructed" /\ st # "closing"
  BY <1>1 DEF ReadsComponents
<1>5. ReadsValue(input, p, F, parts[depth]) => F.decoder = "ExplicitTag" /\ st # "closing"
  BY <1>1 DEF ReadsValue
<1>6. ReadsEnd(input, p, F, parts[depth]) =>
          F.decoder = "ExplicitEnd" \/ (F.decoder = "ExplicitTag" /\ st = "closing")
  BY <1>1 DEF ReadsEnd
<1> QED
  BY <1>2, <1>3, <1>4, <1>5, <1>6 DEF p

\* The frame was told to look where nothing is.
LEMMA RunningFails ==
    ASSUME IInv, GInv, NEW st \in {"codec", "loop", "wait", "closing"}, Running(st),
           Nothing(input, F.spec, Up(depth).pos, F.end)
    PROVE  Fails(depth)
<1>1. TagRead(input, Up(depth), F)
  BY RunningReads DEF Located
<1> QED
  BY <1>1 DEF Fails, TagRead, F

\* It has found the one item.
LEMMA RunningFinds ==
    ASSUME IInv, GInv, NEW st \in {"codec", "loop", "wait", "closing"}, Running(st),
           NEW x, NEW z, Only(input, F.spec, Up(depth).pos, F.end, z, x),
           NEW val, val # EndOfOctets, Means(F.spec, val, Given(Up(depth)), x)
    PROVE  Answers(input, Up(depth), val, z)
<1> DEFINE up == Up(depth)
<1> HIDE DEF up
<1>1. F.spec = Asks(input, up) /\ F.end = up.stop
  BY RunningReads DEF Located, CalledBy, up
<1>2. x \in Item(input, Asks(input, up), up.pos, z, up.stop) /\ Only(input, Asks(input, up), up.pos, up.stop, z, x)
      /\ Means(Asks(input, up), val, Given(up), x)
  BY <1>1 DEF Only, up
<1>3. Yields(input, Asks(input, up), Given(up), up.pos, up.stop, val, z)
  BY <1>2 DEF Yields
<1> QED
  BY <1>3 DEF Answers, up

-----------------------------------------------------------------------------
(* Before the contents are read.                                           *)

LEMMA InitKnows ==
    ASSUME Init
    PROVE  GInv
<1>1. IInv
  BY InitIsSound
<1>2. /\ End(input) \in Positions(input) /\ 1 \in Positions(input) /\ 1 <= End(input)
      /\ depth = 1 /\ status = "decoding" /\ parts = [i \in Levels |-> <<>>]
      /\ 1 \in Levels
  BY <1>1, InputsAreInputs, MaxNestingAssumption DEF Init, Called, End, Positions, Levels
<1> DEFINE first == NewFrame(1, End(input), "none", <<>>, FALSE)
<1>3. frames[1] = first /\ F = first /\ parts[1] = <<>>
  BY <1>2 DEF Init, Called, substrate, End, F
<1>4. /\ first.st = "enter" /\ first.spec = "none" /\ first.pos = 1 /\ first.end = End(input)
      /\ first.tags = <<>> /\ first.len = 0
  BY DEF NewFrame
<1> HIDE DEF first
<1>5. /\ Root(input).pos = 1 /\ Root(input).stop = End(input) /\ ~Probes(Root(input))
      /\ Asks(input, Root(input)) = "none" /\ Given(Root(input)) = <<>>
  BY RootFields DEF Probes, Indefinite
<1>6. CalledBy(input, Root(input), first)
  BY <1>2, <1>4, <1>5 DEF CalledBy, Indefinite
<1>7. Knows(input, Root(input), first, <<>>)
  BY <1>4, <1>5, <1>6 DEF Knows
<1>8. FramesKnow
  BY <1>2, <1>3, <1>7 DEF FramesKnow, Up
<1>9. UnusedAreEmpty /\ CallsAreAnswered /\ ValuesAreItems /\ ErrorsMeanNothing
  BY <1>2, <1>3, <1>4 DEF UnusedAreEmpty, CallsAreAnswered, ValuesAreItems, ErrorsMeanNothing,
                          Running
<1> QED
  BY <1>8, <1>9 DEF GInv

\* Only a codec with indefinite lengths looks for an end-of-octets.
LEMMA ProbesAreAllowed ==
    ASSUME IInv, GInv, Known, F.allowEoo
    PROVE  input.rules.supportIndefLength
<1>1. depth > 1 /\ depth \in Nat /\ depth \in 1..depth
  BY DEF Known
<1>2. frames[depth - 1].len = Indefinite
  BY <1>1 DEF IInv, EooOnlyWhenAsked, F
<1>3. depth - 1 \in 1..depth
  BY <1>1
<1>4. CalledBy(input, Up(depth - 1), frames[depth - 1])
  BY <1>3 DEF GInv, FramesKnow, Knows
<1> QED
  BY <1>2, <1>4 DEF CalledBy

LEMMA EndOfOctetsSeenKnows ==
    ASSUME IInv, GInv, EndOfOctetsSeen
    PROVE  GInv'
<1>1. /\ Known /\ F.st = "enter" /\ depth > 0
      /\ Knows(input, Up(depth), F, parts[depth])
  BY RunningKnows DEF EndOfOctetsSeen
<1>2. F.pos = Up(depth).pos /\ F.end = Up(depth).stop
  BY <1>1 DEF Knows, CalledBy
<1>3. Zeros(input, F.pos, F.end)
  BY DEF EndOfOctetsSeen, AtEndOfOctets, Zeros, ZerosAt, substrate
<1>4. Answers(input, Up(depth), EndOfOctets, F.pos + 2)
  BY <1>2, <1>3 DEF Answers
<1> QED
  BY <1>1, <1>4, ReturnAnswers DEF EndOfOctetsSeen, Known

LEMMA DecodeTagKnows ==
    ASSUME IInv, GInv, DecodeTag
    PROVE  GInv'
<1>1. /\ Known /\ F.st = "enter" /\ depth > 0 /\ IsInput(input)
      /\ Knows(input, Up(depth), F, parts[depth])
  BY RunningKnows DEF DecodeTag
<1> DEFINE up == Up(depth)
<1> HIDE DEF up
<1>2. /\ F.pos = up.pos /\ F.tags = Given(up) /\ parts[depth] = <<>> /\ CalledBy(input, up, F)
  BY <1>1 DEF Knows, up
<1>3. /\ up.pos \in Positions(input) /\ F.end \in Positions(input)
      /\ F.spec \in {"none", "fragment", "segment"} /\ up.pos \in Int /\ F.end \in Int
  BY <1>2 DEF CalledBy, Asks, SpecBelow, Positions
<1>4. CASE F.pos >= F.end
  <2>1. ~HeaderFits(input, up.pos, F.end) /\ ~Zeros(input, up.pos, F.end)
    BY <1>2, <1>3, <1>4 DEF HeaderFits, Zeros
  <2>2. Nothing(input, F.spec, up.pos, F.end)
    BY <1>1, <1>3, <2>1, NoHeader
  <2>3. Fails(depth)
    BY <2>1, <2>2 DEF Fails, F, up
  <2>4. Raise("underrun")
    BY <1>3, <1>2, <1>4 DEF DecodeTag
  <2> QED
    BY <1>1, <2>3, <2>4, RaiseMeansNothing
<1>6. CASE ~(F.pos >= F.end) /\ TagId(substrate[F.pos]) = 31
  <2>1. Raise("unmodelled")
    BY <1>6 DEF DecodeTag
  <2> QED
    BY <1>1, <2>1, RaiseMeansNothing
<1>5. CASE ~(F.pos >= F.end) /\ TagId(substrate[F.pos]) # 31
  <2> DEFINE f == [F EXCEPT !.st = "length", !.pos = @ + 1, !.tags = <<substrate[F.pos]>> \o @]
  <2>1. Continue(f) /\ UNCHANGED parts /\ up.pos < F.end
    BY <1>2, <1>3, <1>5 DEF DecodeTag
  <2>2. /\ f.st = "length" /\ f.pos = F.pos + 1 /\ f.tags = <<substrate[F.pos]>> \o F.tags
        /\ f.spec = F.spec /\ f.end = F.end /\ f.allowEoo = F.allowEoo /\ f.len = F.len
    BY <1>1 DEF Known, Frame
  <2> HIDE DEF f
  <2>3. ~(F.allowEoo /\ Zeros(input, up.pos, F.end))
    <3>1. F.allowEoo => input.rules.supportIndefLength
      BY <1>1, ProbesAreAllowed
    <3> QED
      BY <1>2, <3>1 DEF DecodeTag, AtEndOfOctets, Zeros, ZerosAt, substrate
  <2>4. TagRead(input, up, f)
    BY <1>2, <1>5, <2>1, <2>2, <2>3 DEF TagRead, substrate
  <2>5. CalledBy(input, up, f)
    BY <1>2, <2>2 DEF CalledBy
  <2>6. Knows(input, up, f, <<>>)
    BY <1>2, <2>2, <2>4, <2>5 DEF Knows
  <2>7. \A i \in Levels : parts'[i] = IF i = depth THEN <<>> ELSE parts[i]
    BY <1>2, <2>1
  <2> QED
    BY <1>1, <2>1, <2>2, <2>6, <2>7, ContinueKnows DEF Known, up
<1> QED
  BY <1>4, <1>5, <1>6

-----------------------------------------------------------------------------
(* The length.                                                             *)

\* A frame that has read its identifier, and the octets of its length.
LEMMA RunningLength ==
    ASSUME IInv, GInv, Running("length")
    PROVE  /\ Known /\ IsInput(input)
           /\ CalledBy(input, Up(depth), F) /\ TagRead(input, Up(depth), F)
           /\ Up(depth).pos \in Positions(input) /\ F.end \in Positions(input)
           /\ Up(depth).pos \in Nat /\ F.pos = Up(depth).pos + 1 /\ parts[depth] = <<>>
           /\ F.spec \in {"none", "fragment", "segment"} /\ F.stop = F.end
           /\ input.octets[Up(depth).pos] \in Octet
           /\ Head(F.tags) = input.octets[Up(depth).pos]
<1> DEFINE up == Up(depth)
<1>1. /\ Known /\ F.st = "length" /\ depth > 0 /\ IsInput(input)
      /\ Knows(input, up, F, parts[depth]) /\ Given(up) \in Seq(Octet)
  BY RunningKnows, GivenAreOctets
<1> HIDE DEF up
<1>2. CalledBy(input, up, F) /\ TagRead(input, up, F) /\ F.pos = up.pos + 1 /\ parts[depth] = <<>>
  BY <1>1 DEF Knows
<1>3. /\ up.pos \in Positions(input) /\ F.end \in Positions(input)
      /\ F.spec \in {"none", "fragment", "segment"} /\ up.pos < F.end
  BY <1>2 DEF CalledBy, Asks, SpecBelow, TagRead
<1>4. PICK n \in Nat : n = Len(input.octets)
  BY <1>1 DEF IsInput
<1>5. up.pos \in Nat /\ up.pos \in 1..n
  BY <1>3, <1>4 DEF Positions
<1>6. input.octets[up.pos] \in Octet
  BY <1>1, <1>4, <1>5 DEF IsInput
<1>7. F.stop = F.end
  BY <1>1 DEF Known, StageOK
<1>8. Head(F.tags) = input.octets[up.pos]
  BY <1>1, <1>2, <1>6 DEF TagRead
<1> QED
  BY <1>1, <1>2, <1>3, <1>5, <1>6, <1>7, <1>8 DEF up

LEMMA LengthIsRead ==
    ASSUME IInv, GInv, Running("length"), NEW p \in Nat, p = Up(depth).pos, p + 1 < F.end
    PROVE  /\ input.octets[p + 1] \in Octet
           /\ LengthSize = SizeAt(input, p) /\ SizeAt(input, p) \in Nat
           /\ F.pos + LengthSize = ContentsAt(input, p)
           /\ ContentsAt(input, p) \in Nat
           /\ DecodedLength = IF IsIndefiniteAt(input, p) THEN Indefinite ELSE LengthAt(input, p)
<1>1. F.pos = p + 1 /\ IsInput(input) /\ p \in Positions(input) /\ F.end \in Positions(input)
  BY RunningLength
<1>2. PICK n \in Nat : n = Len(input.octets)
  BY <1>1 DEF IsInput
<1>3. p + 1 \in 1..n
  BY <1>1, <1>2 DEF Positions
<1>4. input.octets[p + 1] \in Octet
  BY <1>1, <1>2, <1>3 DEF IsInput
<1>5. LengthSize = SizeAt(input, p) /\ SizeAt(input, p) \in Nat
  BY <1>1, <1>4 DEF LengthSize, SizeAt, substrate, Octet
<1>6. F.pos + LengthSize = ContentsAt(input, p) /\ ContentsAt(input, p) \in Nat
  BY <1>1, <1>5 DEF ContentsAt
<1>7. DecodedLength = IF IsIndefiniteAt(input, p) THEN Indefinite ELSE LengthAt(input, p)
  <2>1. PICK b \in Octet : b = input.octets[p + 1]
    BY <1>4
  <2>2. F.pos + 1 = p + 2
    BY <1>1
  <2>3. DecodedLength = IF b < 128 THEN b ELSE IF b = 128 THEN Indefinite
                        ELSE BigEndian(input.octets, p + 2, b - 128)
    BY <1>1, <2>1, <2>2 DEF DecodedLength, substrate
  <2>4. /\ IsIndefiniteAt(input, p) <=> b = 128
        /\ LengthAt(input, p) = IF b < 128 THEN b ELSE BigEndian(input.octets, p + 2, b - 128)
    BY <2>1 DEF IsIndefiniteAt, LengthAt
  <2> QED
    BY <2>3, <2>4 DEF Octet
<1> QED
  BY <1>4, <1>5, <1>6, <1>7

\* The checks of the length amount to the header of the grammar.
LEMMA LengthIsChecked ==
    ASSUME IInv, GInv, Running("length"), NEW p \in Nat, p = Up(depth).pos
    PROVE  /\ HeaderFits(input, p, F.end) <=>
                 ~ShortOfLength /\ ~BadLengthForm /\ ~ShortOfLengthOctets /\ ~LengthRefused
           /\ HeaderFits(input, p, F.end) =>
                 (ShortOfContents <=>
                     /\ ~IsIndefiniteAt(input, p)
                     /\ ~(ContentsAt(input, p) + LengthAt(input, p) <= F.end))
           /\ HeaderFits(input, p, F.end) /\ ~IsIndefiniteAt(input, p) =>
                 LengthAt(input, p) \in Nat
           /\ ~HeaderFits(input, p, F.end) => Fails(depth)
<1>1. /\ F.pos = p + 1 /\ IsInput(input) /\ p \in Positions(input) /\ F.end \in Positions(input)
      /\ TagRead(input, Up(depth), F) /\ F.spec \in {"none", "fragment", "segment"}
      /\ Head(F.tags) = input.octets[p] /\ TagId(input.octets[p]) # 31
  BY RunningLength DEF TagRead
<1>2. F.end \in Nat
  BY RunningLength DEF Known
<1>3. ~HeaderFits(input, p, F.end) => Fails(depth)
  BY <1>1, NoHeader DEF Fails, TagRead, F
<1>4. CASE ~(p + 1 < F.end)
  BY <1>1, <1>2, <1>3, <1>4 DEF HeaderFits, ShortOfLength
<1>5. CASE p + 1 < F.end
  <2>1. PICK b \in Octet : b = input.octets[p + 1]
    BY <1>5, LengthIsRead
  <2>2. PICK s \in Nat : s = SizeAt(input, p)
    BY <1>5, LengthIsRead
  <2>3. PICK c \in Nat : c = ContentsAt(input, p)
    BY <1>5, LengthIsRead
  <2>4. /\ LengthSize = s /\ F.pos + LengthSize = c
        /\ DecodedLength = IF IsIndefiniteAt(input, p) THEN Indefinite ELSE LengthAt(input, p)
    BY <1>5, <2>2, <2>3, LengthIsRead
  <2>5. s = IF b <= 128 THEN 1 ELSE b - 127
    BY <2>1, <2>2 DEF SizeAt
  <2>6. ~ShortOfLength
    BY <1>1, <1>2, <1>5 DEF ShortOfLength
  <2>7. BadLengthForm <=> ~(s <= MAX_LENGTH_OCTETS + 1)
    <3>1. BadLengthForm <=> b = 255 \/ s - 1 > MAX_LENGTH_OCTETS
      BY <1>1, <2>1, <2>4 DEF BadLengthForm, substrate
    <3> QED
      BY <2>5, <3>1 DEF MAX_LENGTH_OCTETS, Octet
  <2>8. ShortOfLengthOctets <=> ~(c <= F.end)
    BY <1>2, <2>4 DEF ShortOfLengthOctets
  <2>9. HeaderFits(input, p, F.end) <=>
            s <= MAX_LENGTH_OCTETS + 1 /\ c <= F.end /\ LengthAllowed(input, p)
    BY <1>1, <1>5, <2>2, <2>3 DEF HeaderFits
  <2>10. CASE ~(c <= F.end)
    BY <1>3, <2>8, <2>9, <2>10
  <2>11. CASE c <= F.end
    <3>1. ~IsIndefiniteAt(input, p) => LengthAt(input, p) \in Nat
      BY <1>1, <1>5, <2>3, <2>11, LengthsAreNatural
    <3>2. DecodedLength = Indefinite <=> IsIndefiniteAt(input, p)
      BY <2>4, <3>1 DEF Indefinite
    <3>3. LengthRefused <=> ~LengthAllowed(input, p)
      <4>1. IsIndefiniteAt(input, p) <=> b = 128
        BY <2>1 DEF IsIndefiniteAt
      <4>2. s > 1 => ~IsIndefiniteAt(input, p)
        BY <2>5, <4>1 DEF Octet
      <4>3. F.pos + 1 = p + 2
        BY <1>1
      <4>4. MinimalLength <=> (s > 1 => LengthAt(input, p) >= 128 /\ input.octets[p + 2] # 0)
        BY <2>4, <4>2, <4>3 DEF MinimalLength, substrate
      <4> HIDE DEF IsIndefiniteAt
      <4> QED
        BY <1>1, <2>2, <3>2, <4>4 DEF LengthRefused, LengthAllowed
    <3>4. ShortOfContents <=> /\ ~IsIndefiniteAt(input, p)
                              /\ ~(c + LengthAt(input, p) <= F.end)
      <4>1. CASE IsIndefiniteAt(input, p)
        BY <3>2, <4>1 DEF ShortOfContents
      <4>2. CASE ~IsIndefiniteAt(input, p)
        <5>1. PICK len \in Nat : len = LengthAt(input, p)
          BY <3>1, <4>2
        <5>2. DecodedLength = len
          BY <2>4, <4>2, <5>1
        <5>3. ShortOfContents <=> len \notin 0..(F.end - c)
          BY <2>4, <3>2, <4>2, <5>2 DEF ShortOfContents
        <5>4. len \notin 0..(F.end - c) <=> ~(c + len <= F.end)
          BY <1>2
        <5> QED
          BY <4>2, <5>1, <5>3, <5>4
      <4> QED
        BY <4>1, <4>2
    <3> QED
      BY <1>3, <2>3, <2>6, <2>7, <2>8, <2>9, <2>11, <3>1, <3>3, <3>4
  <2> QED
    BY <2>10, <2>11
<1> QED
  BY <1>4, <1>5

LEMMA DecodeLengthKnows ==
    ASSUME IInv, GInv, DecodeLength
    PROVE  GInv'
<1>1. Running("length")
  BY DEF DecodeLength
<1> DEFINE up == Up(depth)
           p == up.pos
<1>2. /\ Known /\ IsInput(input) /\ status = "decoding" /\ depth > 0
      /\ CalledBy(input, up, F) /\ TagRead(input, up, F)
      /\ p \in Positions(input) /\ F.end \in Positions(input)
      /\ p \in Nat /\ F.pos = p + 1 /\ parts[depth] = <<>>
      /\ F.spec \in {"none", "fragment", "segment"} /\ F.end \in Nat
  BY <1>1, RunningLength, RunningKnows DEF Known
<1>3. /\ HeaderFits(input, p, F.end) <=>
            ~ShortOfLength /\ ~BadLengthForm /\ ~ShortOfLengthOctets /\ ~LengthRefused
      /\ HeaderFits(input, p, F.end) =>
            (ShortOfContents <=>
                /\ ~IsIndefiniteAt(input, p)
                /\ ~(ContentsAt(input, p) + LengthAt(input, p) <= F.end))
      /\ HeaderFits(input, p, F.end) /\ ~IsIndefiniteAt(input, p) => LengthAt(input, p) \in Nat
      /\ ~HeaderFits(input, p, F.end) => Fails(depth)
  BY <1>1, <1>2, LengthIsChecked
<1> HIDE DEF up, p
<1>4. CASE ~HeaderFits(input, p, F.end)
  <2>1. Raise("underrun") \/ Raise("malformed")
    BY <1>3, <1>4 DEF DecodeLength
  <2> QED
    BY <1>2, <1>3, <1>4, <2>1, RaiseMeansNothing
<1>5. CASE HeaderFits(input, p, F.end) /\ ShortOfContents
  <2>1. Raise("underrun")
    BY <1>3, <1>5 DEF DecodeLength
  <2>2. Nothing(input, F.spec, p, F.end)
    BY <1>2, <1>3, <1>5, TooLong
  <2>3. Fails(depth)
    BY <1>2, <2>2 DEF Fails, TagRead, F, up, p
  <2> QED
    BY <1>2, <2>1, <2>3, RaiseMeansNothing
<1>6. CASE HeaderFits(input, p, F.end) /\ ~ShortOfContents
  <2> DEFINE from == F.pos + LengthSize
             stop == IF DecodedLength = Indefinite THEN F.end ELSE from + DecodedLength
             f == [F EXCEPT !.st = "codec", !.len = DecodedLength, !.pos = from, !.start = from,
                            !.stop = IF DecodedLength = Indefinite THEN F.end
                                     ELSE from + DecodedLength]
  <2>1. Continue(f) /\ UNCHANGED parts
    BY <1>3, <1>6 DEF DecodeLength
  <2>2. /\ f.st = "codec" /\ f.pos = from /\ f.start = from /\ f.len = DecodedLength
        /\ f.stop = stop /\ f.spec = F.spec /\ f.end = F.end /\ f.tags = F.tags
        /\ f.allowEoo = F.allowEoo
    BY <1>2 DEF Known, Frame
  <2> HIDE DEF f
  <2>3. p + 1 < F.end /\ LengthAllowed(input, p)
    BY <1>6 DEF HeaderFits
  <2>4. /\ from = ContentsAt(input, p) /\ from \in Nat
        /\ DecodedLength = IF IsIndefiniteAt(input, p) THEN Indefinite ELSE LengthAt(input, p)
    BY <1>1, <1>2, <2>3, LengthIsRead DEF up, p
  <2> HIDE DEF from
  <2>5. DecodedLength = Indefinite <=> IsIndefiniteAt(input, p)
    BY <1>3, <1>6, <2>4 DEF Indefinite
  <2>6. stop \in from..F.end
    <3>1. from <= F.end
      BY <1>6, <2>4 DEF HeaderFits
    <3>2. CASE IsIndefiniteAt(input, p)
      BY <1>2, <2>4, <2>5, <3>1, <3>2
    <3>3. CASE ~IsIndefiniteAt(input, p)
      <4>1. PICK len \in Nat : len = LengthAt(input, p)
        BY <1>3, <1>6, <3>3
      <4>2. from + len <= F.end
        BY <1>3, <1>6, <2>4, <3>3, <4>1
      <4>3. stop = from + len
        BY <2>4, <2>5, <3>3, <4>1
      <4> QED
        BY <1>2, <2>4, <4>2, <4>3
    <3> QED
      BY <3>2, <3>3
  <2>7. stop = IF IsIndefiniteAt(input, p) THEN F.end ELSE from + LengthAt(input, p)
    BY <2>4, <2>5
  <2> HIDE DEF stop
  <2>8. HeaderRead(input, p, f)
    BY <1>2, <1>6, <2>2, <2>4, <2>5, <2>6, <2>7 DEF HeaderRead
  <2>9. CalledBy(input, up, f)
    BY <1>2, <2>2, <2>3, <2>5 DEF CalledBy, LengthAllowed
  <2>10. TagRead(input, up, f)
    BY <1>2, <2>2 DEF TagRead
  <2>11. Knows(input, up, f, <<>>)
    BY <2>2, <2>8, <2>9, <2>10 DEF Knows, p
  <2>12. \A i \in Levels : parts'[i] = IF i = depth THEN <<>> ELSE parts[i]
    BY <1>2, <2>1
  <2> QED
    BY <1>2, <2>1, <2>2, <2>11, <2>12, ContinueKnows DEF up
<1> QED
  BY <1>4, <1>5, <1>6

-----------------------------------------------------------------------------
(* The choice of a decoder, and those that take their contents at once.    *)

\* What a codec is chosen for.
IsSimple(t) == Universal(t) /\ TagId(t) \in {1, 2, 5}

LEMMA CodecMeans ==
    ASSUME IInv, GInv, Running("codec"), NEW t, t = input.octets[Up(depth).pos]
    PROVE  /\ t \in Octet /\ Head(F.tags) = t /\ F.spec \in {"none", "fragment", "segment"}
           /\ Codec = "OctetString" <=> t \in {4, 36}
           /\ Codec = "ExplicitTag" <=> IsTagged(t)
           /\ F.spec = "none" =>
                 /\ Codec = "Constructed" <=> Universal(t) /\ TagId(t) \in {16, 17}
                 /\ Codec \in {"Integer", "Boolean", "Null"} <=> IsSimple(t)
                 /\ IsSimple(t) => Codec = TagMap[TagId(t)]
           /\ F.spec # "none" => Codec \in {"OctetString", "ExplicitTag", "none"}
<1>1. t \in Octet /\ Head(F.tags) = t
  BY RunningReads
<1>2. F.spec \in {"none", "fragment", "segment"}
  BY RunningReads DEF Located, CalledBy, Asks, SpecBelow
<1>3. Universal(t) /\ TagId(t) = 4 <=> t \in {4, 36}
  BY <1>1, Kinds
<1>4. /\ DOMAIN TagMap = {1, 2, 4, 5, 16, 17}
      /\ TagMap[1] = "Boolean" /\ TagMap[2] = "Integer" /\ TagMap[4] = "OctetString"
      /\ TagMap[5] = "Null" /\ TagMap[16] = "Constructed" /\ TagMap[17] = "Constructed"
  BY DEF TagMap
<1>5. CASE F.spec # "none"
  <2>1. Codec = IF Universal(t) /\ TagId(t) = 4 THEN "OctetString"
                ELSE IF Constructed(t) /\ ~Universal(t) THEN "ExplicitTag" ELSE "none"
    BY <1>1, <1>4, <1>5 DEF Codec
  <2> QED
    BY <1>1, <1>2, <1>3, <1>5, <2>1 DEF IsTagged
<1>6. CASE F.spec = "none"
  <2>1. Codec = IF Universal(t) /\ TagId(t) \in {1, 2, 4, 5, 16, 17} THEN TagMap[TagId(t)]
                ELSE IF Constructed(t) /\ ~Universal(t) THEN "ExplicitTag" ELSE "none"
    BY <1>1, <1>4, <1>6 DEF Codec
  <2>2. CASE Universal(t) /\ TagId(t) \in {1, 2, 4, 5, 16, 17}
    <3>1. PICK id \in {1, 2, 4, 5, 16, 17} : id = TagId(t)
      BY <2>2
    <3>2. Codec = TagMap[id]
      BY <2>1, <2>2, <3>1
    <3> HIDE DEF TagMap
    <3>3. /\ Codec = "OctetString" <=> id = 4
          /\ Codec = "Constructed" <=> id \in {16, 17}
          /\ Codec \in {"Integer", "Boolean", "Null"} <=> id \in {1, 2, 5}
          /\ Codec # "ExplicitTag"
      BY <1>4, <3>1, <3>2
    <3> QED
      BY <1>1, <1>2, <1>3, <1>6, <2>2, <3>1, <3>2, <3>3 DEF IsTagged, IsSimple
  <2>3. CASE ~(Universal(t) /\ TagId(t) \in {1, 2, 4, 5, 16, 17})
    <3>1. Codec = IF Constructed(t) /\ ~Universal(t) THEN "ExplicitTag" ELSE "none"
      BY <2>1, <2>3
    <3>2. ~IsSimple(t) /\ t \notin {4, 36} /\ ~(Universal(t) /\ TagId(t) \in {16, 17})
      BY <1>3, <2>3 DEF IsSimple
    <3> QED
      BY <1>1, <1>2, <1>6, <3>1, <3>2 DEF IsTagged
  <2> QED
    BY <2>2, <2>3
<1> QED
  BY <1>2, <1>5, <1>6

\* The frame at the choice of its decoder.
LEMMA RunningCodec ==
    ASSUME IInv, GInv, Running("codec")
    PROVE  /\ Known /\ IsInput(input) /\ status = "decoding" /\ depth > 0
           /\ Located(input, Up(depth), F) /\ HeaderRead(input, Up(depth).pos, F)
           /\ F.pos = F.start /\ parts[depth] = <<>>
<1>1. Known /\ IsInput(input) /\ F.st = "codec" /\ Knows(input, Up(depth), F, parts[depth])
  BY RunningKnows
<1>2. Located(input, Up(depth), F)
  BY RunningReads
<1>3. F.pos = F.start /\ parts[depth] = <<>>
  BY <1>1 DEF Knows
<1> QED
  BY <1>1, <1>2, <1>3 DEF Known, Located

\* A leaf that is the one value here.
LEMMA LeafFound ==
    ASSUME IInv, GInv, NEW st \in {"codec", "loop", "wait", "closing"}, Running(st),
           F.spec = "none", NEW type, type # "EndOfOctets", NEW octs, NEW z,
           Only(input, "none", Up(depth).pos, F.end, z,
                Leaf(type, <<Bare(input.octets[Up(depth).pos])>>, octs))
    PROVE  Answers(input, Up(depth), Leaf(type, TagSet(F), octs), z)
<1> DEFINE t == input.octets[Up(depth).pos]
           x == Leaf(type, <<Bare(t)>>, octs)
           given == Given(Up(depth))
<1>1. t \in Octet /\ given \in Seq(Octet) /\ TagSet(F) = Bares(<<t>> \o given)
  BY RunningReads
<1>2. IsValue(x) /\ Leaf(type, Bares(<<t>> \o given), octs) = Under(x, given)
  BY <1>1, LeavesUnderTags
<1>3. Means("none", Leaf(type, TagSet(F), octs), given, x)
  BY <1>1, <1>2 DEF Means
<1>4. Leaf(type, TagSet(F), octs) # EndOfOctets
  BY OthersAreNoSentinel
<1>5. Only(input, "none", Up(depth).pos, F.end, z, x)
  OBVIOUS
<1> HIDE DEF x, t, given
<1> QED
  BY <1>3, <1>4, <1>5, RunningFinds DEF given

LEMMA NoCodecKnows ==
    ASSUME IInv, GInv, NoCodec
    PROVE  GInv'
<1> DEFINE t == input.octets[Up(depth).pos]
<1>1. Running("codec") /\ Codec = "none" /\ (Raise("malformed") \/ Raise("unmodelled"))
  BY DEF NoCodec
<1>2. /\ IsInput(input) /\ depth > 0 /\ HeaderRead(input, Up(depth).pos, F)
  BY <1>1, RunningCodec
<1>3. /\ t \in Octet /\ F.spec \in {"none", "fragment", "segment"} /\ t \notin {4, 36} /\ ~IsTagged(t)
      /\ F.spec = "none" =>
            ~IsSimple(t) /\ ~(Universal(t) /\ TagId(t) \in {16, 17})
  BY <1>1, CodecMeans
<1>6. CASE Raise("unmodelled")
  BY <1>2, <1>6, RaiseMeansNothing
<1>4. CASE Raise("malformed") /\ F.spec # "none"
  <2>1. Nothing(input, F.spec, Up(depth).pos, F.end)
    BY <1>2, <1>3, <1>4, NoFragment
  <2> QED
    BY <1>1, <1>2, <1>4, <2>1, RunningFails, RaiseMeansNothing
<1>5. CASE Raise("malformed") /\ F.spec = "none"
  <2>1. ~IsContainer(t) /\ ~IsConstructedString(input, Up(depth).pos)
    BY <1>3, <1>5 DEF IsContainer, IsConstructedString
  <2>2. ~PrimitiveFits(input, Up(depth).pos, F)
    <3>1. Universal(t) /\ TagId(t) = 4 => t \in {4, 36}
      BY <1>3, Kinds
    <3> QED
      BY <1>3, <1>5, <3>1 DEF PrimitiveFits, IsSimple
  <2>3. Nothing(input, "none", Up(depth).pos, F.end)
    BY <1>2, <1>3, <2>1, <2>2, NoPrimitiveValue
  <2> QED
    BY <1>1, <1>2, <1>5, <2>3, RunningFails, RaiseMeansNothing
<1> QED
  BY <1>1, <1>4, <1>5, <1>6

\* The octets that a codec is given.
LEMMA ContentsOctets ==
    ASSUME IInv, GInv, Running("codec")
    PROVE  LET octs == Octets(F.pos, F.stop)
               n == F.stop - F.start
           IN  /\ n \in Nat /\ Len(octs) = n
               /\ n >= 1 => octs[1] = input.octets[F.start] /\ octs[1] \in Octet
               /\ n >= 2 => octs[2] = input.octets[F.start + 1] /\ octs[2] \in Octet
<1>1. Known /\ F.pos = F.start /\ IsInput(input)
  BY RunningCodec
<1>2. PICK a, b \in Positions(input) : a = F.start /\ b = F.stop /\ a <= b
  BY <1>1, RunningCodec, HeaderReadFacts DEF Known
<1>3. a \in Int /\ b \in Int /\ b - a \in Nat
  BY <1>2 DEF Positions
<1>4. /\ Part(input, a, b) \in Seq(Octet) /\ Len(Part(input, a, b)) = b - a
      /\ \A k \in 1..b - a : /\ Part(input, a, b)[k] = input.octets[a + k - 1]
                            /\ Part(input, a, b)[k] \in Octet
  BY <1>1, <1>2, PartFacts, ElementOfSeq
<1>5. Octets(F.pos, F.stop) = Part(input, a, b)
  BY <1>1, <1>2 DEF Octets, Part, substrate
<1>6. /\ b - a >= 1 => 1 \in 1..b - a /\ a + 1 - 1 = a
      /\ b - a >= 2 => 2 \in 1..b - a /\ a + 2 - 1 = a + 1
  BY <1>3
<1> QED
  BY <1>2, <1>3, <1>4, <1>5, <1>6

LEMMA DecodeSimpleKnows ==
    ASSUME IInv, GInv, DecodeSimple
    PROVE  GInv'
<1> DEFINE p == Up(depth).pos
           t == input.octets[p]
<1>1. Running("codec") /\ Codec \in {"Integer", "Boolean", "Null"}
  BY DEF DecodeSimple
<1>2. /\ IsInput(input) /\ depth > 0 /\ HeaderRead(input, p, F) /\ status = "decoding"
      /\ F.pos = F.start /\ Known
  BY <1>1, RunningCodec
<1>3. /\ t \in Octet /\ Head(F.tags) = t /\ F.spec = "none" /\ t \notin {4, 36} /\ ~IsTagged(t)
      /\ IsSimple(t) /\ Codec = TagMap[TagId(t)]
  BY <1>1, CodecMeans
<1>4. ~IsContainer(t) /\ ~IsConstructedString(input, p)
  BY <1>3 DEF IsSimple, IsContainer, IsConstructedString
<1>5. PICK id \in {1, 2, 5} : id = TagId(t)
  BY <1>3 DEF IsSimple
<1>6. /\ id = 1 => Codec = "Boolean"
      /\ id = 2 => Codec = "Integer"
      /\ id = 5 => Codec = "Null"
  BY <1>3, <1>5 DEF TagMap
<1> DEFINE octs == Octets(F.pos, F.stop)
           n == F.stop - F.start
<1>7. /\ n \in Nat /\ Len(octs) = n
      /\ n >= 1 => octs[1] = input.octets[F.start] /\ octs[1] \in Octet
      /\ n >= 2 => octs[2] = input.octets[F.start + 1] /\ octs[2] \in Octet
  BY <1>1, <1>2, ContentsOctets
<1>10. ContentsFit(Codec, octs) <=>
          /\ id = 1 => n = 1
          /\ id = 2 => n > 0
          /\ id = 5 => n = 0
          /\ input.rules.canonicalContents => ~IsSpareSpelling(input, p, F.stop)
  <2>1. IsSpareSpelling(input, p, F.stop) <=>
            \/ /\ id = 2 /\ n > 1
               /\ \/ input.octets[F.start] = 0 /\ input.octets[F.start + 1] \in 0..127
                  \/ input.octets[F.start] = 255 /\ input.octets[F.start + 1] \in 128..255
            \/ id = 1 /\ input.octets[F.start] \in 1..254
    <3>1. ContentsAt(input, p) = F.start /\ TagId(input.octets[p]) = id
      BY <1>2, <1>5 DEF HeaderRead
    <3>2. F.stop > F.start + 1 <=> n > 1
      BY <1>2 DEF Known
    <3> QED
      BY <3>1, <3>2 DEF IsSpareSpelling
  <2> HIDE DEF octs, n
  <2> DEFINE spare == IsSpareSpelling(input, p, F.stop)
             strict == input.rules.canonicalContents
  <2>2. CASE id = 1
    <3>1. id # 2 /\ id # 5
      BY <2>2
    <3>2. spare <=> input.octets[F.start] \in 1..254
      BY <2>1, <3>1, <2>2
    <3>3. ContentsFit(Codec, octs) <=> n = 1 /\ (strict => octs[1] \in {0, 255})
      BY <1>6, <1>7, <2>2 DEF ContentsFit
    <3>4. n = 1 => (octs[1] \in {0, 255} <=> ~spare)
      <4> SUFFICES ASSUME n = 1 PROVE octs[1] \in {0, 255} <=> ~spare
        OBVIOUS
      <4>1. PICK a \in 0..255 : a = octs[1] /\ a = input.octets[F.start]
        BY <1>7 DEF Octet
      <4>2. a \in {0, 255} <=> ~(a \in 1..254)
        OBVIOUS
      <4> QED
        BY <3>2, <4>1, <4>2
    <3>5. ContentsFit(Codec, octs) <=> n = 1 /\ (strict => ~spare)
      BY <3>3, <3>4, Zenon
    <3> QED
      BY <2>2, <3>1, <3>5, Zenon
  <2>3. CASE id = 2
    <3>1. id # 1 /\ id # 5
      BY <2>3
    <3>2. ContentsFit(Codec, octs) <=> n >= 1 /\ (strict => MinimalInteger(octs))
      BY <1>6, <1>7, <2>3 DEF ContentsFit
    <3>3. MinimalInteger(octs) <=> ~spare
      <4>1. CASE n > 1
        <5>7. n >= 1 /\ n >= 2
          BY <1>7, <4>1
        <5>6. /\ octs[1] \in 0..255 /\ octs[1] = input.octets[F.start]
              /\ octs[2] \in 0..255 /\ octs[2] = input.octets[F.start + 1]
          BY <1>7, <5>7, Zenon DEF Octet
        <5>1. PICK a \in 0..255 : a = octs[1] /\ a = input.octets[F.start]
          BY <5>6, Zenon
        <5>5. PICK b \in 0..255 : b = octs[2] /\ b = input.octets[F.start + 1]
          BY <5>6, Zenon
        <5>2. MinimalInteger(octs) <=> ~(a = 0 /\ b < 128) /\ ~(a = 255 /\ b >= 128)
          BY <1>7, <4>1, <5>1, <5>5 DEF MinimalInteger
        <5>3. spare <=> (a = 0 /\ b \in 0..127) \/ (a = 255 /\ b \in 128..255)
          BY <2>1, <2>3, <3>1, <4>1, <5>1, <5>5
        <5>4. (b < 128 <=> b \in 0..127) /\ (b >= 128 <=> b \in 128..255)
          OBVIOUS
        <5> HIDE DEF spare
        <5> QED
          BY <5>2, <5>3, <5>4
      <4>2. CASE ~(n > 1)
        <5>1. MinimalInteger(octs)
          BY <1>7, <4>2 DEF MinimalInteger
        <5>2. ~spare
          BY <2>1, <2>3, <3>1, <4>2
        <5> QED
          BY <5>1, <5>2
      <4> QED
        BY <4>1, <4>2
    <3>4. n >= 1 <=> n > 0
      BY <1>7
    <3>5. ContentsFit(Codec, octs) <=> n > 0 /\ (strict => ~spare)
      BY <3>2, <3>3, <3>4, Zenon
    <3> QED
      BY <2>3, <3>1, <3>5, Zenon
  <2>4. CASE id = 5
    <3>1. ContentsFit(Codec, octs) <=> n = 0
      BY <1>6, <1>7, <2>4 DEF ContentsFit
    <3> QED
      BY <1>7, <2>1, <2>4, <3>1
  <2> QED
    BY <1>5, <2>2, <2>3, <2>4
<1>11. FormatFits(Codec) <=> (Constructed(t) => t = 33 /\ input.rules.canonicalContents)
  <2>1. Constructed(t) => (t = 33 <=> id = 1)
    BY <1>3, <1>5 DEF IsSimple, Universal, Constructed, TagId, Octet
  <2>2. Codec = "Boolean" <=> id = 1
    BY <1>5, <1>6
  <2> QED
    BY <1>3, <2>1, <2>2 DEF FormatFits
<1>12. PrimitiveFits(input, p, F) <=>
          F.len # Indefinite /\ FormatFits(Codec) /\ ContentsFit(Codec, octs)
  <2>1. PrimitiveFits(input, p, F) <=>
            /\ Constructed(t) => t = 33 /\ input.rules.canonicalContents
            /\ F.len # Indefinite
            /\ id = 1 => n = 1
            /\ id = 2 => n > 0
            /\ id = 5 => n = 0
            /\ input.rules.canonicalContents => ~IsSpareSpelling(input, p, F.stop)
    BY <1>3, <1>5 DEF PrimitiveFits, IsSimple
  <2> HIDE DEF octs, n
  <2> QED
    BY <1>10, <1>11, <2>1
<1>8. CASE PrimitiveFits(input, p, F)
  <2>5. octs = SubSeq(input.octets, F.start, F.stop - 1)
    BY <1>2 DEF Octets, substrate
  <2>1. Return(Leaf(Codec, TagSet(F), octs), F.stop)
    BY <1>12, <1>8 DEF DecodeSimple
  <2>2. Only(input, "none", p, F.end, F.stop, Leaf(TagMap[TagId(t)], <<Bare(t)>>, octs))
    BY <1>2, <1>8, <2>5, PrimitiveValue
  <2>3. Codec # "EndOfOctets"
    BY <1>1
  <2> HIDE DEF octs
  <2>4. Answers(input, Up(depth), Leaf(Codec, TagSet(F), octs), F.stop)
    BY <1>1, <1>3, <2>2, <2>3, LeafFound
  <2> QED
    BY <1>2, <2>1, <2>4, ReturnAnswers
<1>9. CASE ~PrimitiveFits(input, p, F)
  <2>1. Raise("malformed")
    BY <1>9, <1>12 DEF DecodeSimple
  <2>2. Nothing(input, "none", p, F.end)
    BY <1>2, <1>3, <1>4, <1>9, NoPrimitiveValue
  <2> QED
    BY <1>1, <1>2, <1>3, <2>1, <2>2, RunningFails, RaiseMeansNothing
<1> QED
  BY <1>8, <1>9

LEMMA CollectFragmentKnows ==
    ASSUME IInv, GInv, CollectFragment
    PROVE  GInv'
<1> DEFINE p == Up(depth).pos
           t == input.octets[p]
           to == CollectedUpTo
           octs == SubSeq(input.octets, F.start, to - 1)
           val == Leaf("Octets", TagSet(F), octs)
<1>1. Running("codec") /\ Collected
  BY DEF CollectFragment
<1>2. /\ IsInput(input) /\ depth > 0 /\ HeaderRead(input, p, F) /\ status = "decoding"
      /\ F.pos = F.start
  BY <1>1, RunningCodec
<1>3. /\ F.spec \in {"fragment", "segment"}
      /\ (t \in {4, 36} /\ F.len # Indefinite) \/ IsTagged(t)
      /\ F.spec = "segment" => ~Constructed(t)
  BY <1>1, CodecMeans, RunningReads DEF Collected, Located, CalledBy
<1>4. to = CapturedTo(F)
  BY <1>2 DEF CollectedUpTo, CapturedTo
<1>5. Only(input, F.spec, p, F.end, CapturedTo(F),
           SubSeq(input.octets, F.start, CapturedTo(F) - 1))
  BY <1>2, <1>3, CapturedFragment
<1>6. Return(val, to)
  BY <1>2 DEF CollectFragment, Octets, substrate
<1>7. val # EndOfOctets /\ val.octs = octs
  BY OthersAreNoSentinel DEF Leaf
<1> HIDE DEF to, val
<1>8. Only(input, F.spec, p, F.end, to, octs)
  BY <1>3, <1>4, <1>5
<1>9. Means(F.spec, val, Given(Up(depth)), octs)
  BY <1>3, <1>7 DEF Means
<1> HIDE DEF octs
<1>10. Answers(input, Up(depth), val, to)
  BY <1>1, <1>7, <1>8, <1>9, RunningFinds
<1> QED
  BY <1>2, <1>6, <1>10, ReturnAnswers

LEMMA DecodePrimitiveStringKnows ==
    ASSUME IInv, GInv, DecodePrimitiveString
    PROVE  GInv'
<1> DEFINE p == Up(depth).pos
           t == input.octets[p]
           octs == SubSeq(input.octets, F.start, F.stop - 1)
<1>1. /\ Running("codec") /\ ~Collected /\ Codec = "OctetString"
      /\ F.len # Indefinite /\ ~Constructed(Head(F.tags))
  BY DEF DecodePrimitiveString
<1>2. /\ IsInput(input) /\ depth > 0 /\ HeaderRead(input, p, F) /\ status = "decoding"
      /\ F.pos = F.start
  BY <1>1, RunningCodec
<1>3. t \in Octet /\ Head(F.tags) = t /\ F.spec = "none" /\ t \in {4, 36}
  BY <1>1, CodecMeans DEF Collected
<1>4. Universal(t) /\ TagId(t) = 4
  BY <1>3, Kinds
<1>5. PrimitiveFits(input, p, F)
  BY <1>1, <1>3, <1>4 DEF PrimitiveFits, IsSpareSpelling
<1>6. TagMap[TagId(t)] = "OctetString"
  BY <1>4 DEF TagMap
<1>7. Only(input, "none", p, F.end, F.stop, Leaf("OctetString", <<Bare(t)>>, octs))
  BY <1>2, <1>5, <1>6, PrimitiveValue
<1>8. Return(Leaf("OctetString", TagSet(F), octs), F.stop)
  BY <1>2 DEF DecodePrimitiveString, Octets, substrate
<1> HIDE DEF octs
<1>9. Answers(input, Up(depth), Leaf("OctetString", TagSet(F), octs), F.stop)
  BY <1>1, <1>3, <1>7, LeafFound
<1> QED
  BY <1>2, <1>8, <1>9, ReturnAnswers

-----------------------------------------------------------------------------
(* Calls of the decoder for what the contents hold.                        *)

\* The running frame at another stage, with another decoder or further on.
AtStage(st, dec, pos) == [F EXCEPT !.st = st, !.decoder = dec, !.pos = pos]

LEMMA StagesMove ==
    ASSUME Known, NEW st, NEW dec, NEW pos
    PROVE  LET f == AtStage(st, dec, pos)
           IN  /\ f.st = st /\ f.decoder = dec /\ f.pos = pos
               /\ f.start = F.start /\ f.stop = F.stop /\ f.end = F.end /\ f.len = F.len
               /\ f.spec = F.spec /\ f.tags = F.tags /\ f.allowEoo = F.allowEoo
               /\ Moved(F, f)
<1> DEFINE f == AtStage(st, dec, pos)
<1>1. /\ f.st = st /\ f.decoder = dec /\ f.pos = pos
      /\ f.start = F.start /\ f.stop = F.stop /\ f.end = F.end /\ f.len = F.len
      /\ f.spec = F.spec /\ f.tags = F.tags /\ f.allowEoo = F.allowEoo
  BY DEF Known, Frame, AtStage
<1> HIDE DEF f
<1>2. Moved(F, f)
  BY <1>1 DEF Moved, SameWindow
<1> QED
  BY <1>1, <1>2 DEF f

\* What the decoder of f makes of its contents.
Reads(in, p, f, ps) ==
    \/ ReadsFragments(in, p, f, ps)
    \/ ReadsComponents(in, p, f, ps)
    \/ ReadsValue(in, p, f, ps)
    \/ ReadsEnd(in, p, f, ps)

LEMMA StageKnows ==
    ASSUME IInv, GInv, NEW now \in {"codec", "loop", "wait", "closing"}, Running(now),
           NEW st \in {"loop", "wait", "closing"}, NEW dec, NEW pos, NEW ps,
           Reads(input, Up(depth).pos, AtStage(st, dec, pos), ps)
    PROVE  /\ Knows(input, Up(depth), AtStage(st, dec, pos), ps)
           /\ AtStage(st, dec, pos).st = st
<1> DEFINE f == AtStage(st, dec, pos)
           up == Up(depth)
<1>1. Known /\ Located(input, up, F)
  BY RunningKnows, RunningReads
<1>2. f.st = st /\ Moved(F, f)
  BY <1>1, StagesMove
<1>3. Reads(input, up.pos, f, ps)
  OBVIOUS
<1> HIDE DEF f, up
<1>4. Located(input, up, f)
  BY <1>1, <1>2, MovedFrames
<1>5. Knows(input, up, f, ps)
  BY <1>2, <1>3, <1>4 DEF Knows, Located, Reads
<1> QED
  BY <1>2, <1>5 DEF f, up

\* The frame goes on reading its contents.
LEMMA StageContinues ==
    ASSUME IInv, GInv, NEW now \in {"codec", "loop", "wait", "closing"}, Running(now),
           NEW st \in {"loop", "closing"}, NEW dec, NEW pos, NEW ps,
           Reads(input, Up(depth).pos, AtStage(st, dec, pos), ps),
           Continue(AtStage(st, dec, pos)),
           \A i \in Levels : parts'[i] = IF i = depth THEN ps ELSE parts[i]
    PROVE  GInv'
<1> DEFINE f == AtStage(st, dec, pos)
<1>1. Known /\ depth > 0 /\ status = "decoding"
  BY RunningKnows DEF Known
<1>2. Knows(input, Up(depth), f, ps) /\ f.st # "wait"
  BY StageKnows
<1> HIDE DEF f
<1> QED
  BY <1>1, <1>2, ContinueKnows DEF f

\* It waits for the decoder, which it called for what it asks for.
LEMMA StageCalls ==
    ASSUME IInv, GInv, NEW now \in {"loop", "closing"}, Running(now), NEW dec,
           Reads(input, Up(depth).pos, AtStage("wait", dec, F.pos), parts[depth]),
           NEW f, f = AtStage("wait", dec, F.pos),
           NEW new, new = NewFrame(F.pos, F.stop, Asks(input, f), Given(f), new.allowEoo),
           Probes(f) => new.allowEoo,
           Asks(input, f) = "segment" => ~Constructed(input.octets[F.pos]),
           frames' = [frames EXCEPT ![depth] = f, ![depth + 1] = new],
           depth' = depth + 1, UNCHANGED <<input, parts, result, status>>
    PROVE  GInv'
<1>1. /\ Known /\ depth > 0 /\ status = "decoding" /\ F.st = now /\ depth <= MaxNesting + 1
      /\ IsInput(input)
  BY RunningKnows DEF Known
<1>2. Knows(input, Up(depth), f, parts[depth])
  BY StageKnows
<1>3. f.pos = F.pos /\ f.stop = F.stop
  BY <1>1, StagesMove
<1>4. new.st = "enter" /\ new.pos = f.pos /\ new.end = f.stop /\ new.tags = Given(f)
      /\ new.spec = Asks(input, f) /\ new.len = 0
  BY <1>3 DEF NewFrame
<1>5. f.pos \in Positions(input) /\ f.stop \in Positions(input) /\ f.pos <= f.stop
  <2>1. /\ F.pos \in Nat /\ F.stop \in Nat /\ 1 <= F.pos /\ F.pos <= F.stop
        /\ F.stop <= Len(substrate) + 1 /\ 1 <= F.stop /\ F.pos <= Len(substrate) + 1
    <3>1. PICK n \in Nat : n = Len(substrate)
      BY <1>1 DEF Known
    <3> QED
      BY <1>1, <3>1 DEF Known
  <2> QED
    BY <1>3, <2>1, InputsAreInputs
<1>6. CalledBy(input, f, new)
  BY <1>3, <1>4, <1>5 DEF CalledBy, Indefinite
<1>7. Knows(input, f, new, <<>>)
  BY <1>4, <1>6 DEF Knows
<1> QED
  BY <1>1, <1>2, <1>4, <1>7, CallKnows

LEMMA OpenContentsKnows ==
    ASSUME IInv, GInv, OpenContents
    PROVE  GInv'
<1> DEFINE p == Up(depth).pos
           t == input.octets[p]
<1>1. /\ Running("codec") /\ ~Collected
      /\ \/ Codec \in {"Constructed", "ExplicitTag"}
         \/ Codec = "OctetString" /\ (F.len = Indefinite \/ Constructed(Head(F.tags)))
  BY DEF OpenContents, IsIndefinite
<1>2. /\ IsInput(input) /\ depth > 0 /\ HeaderRead(input, p, F) /\ status = "decoding"
      /\ F.pos = F.start /\ Known /\ parts[depth] = <<>>
  BY <1>1, RunningCodec
<1>3. /\ t \in Octet /\ Head(F.tags) = t /\ F.spec \in {"none", "fragment", "segment"}
      /\ Codec = "OctetString" <=> t \in {4, 36}
      /\ Codec = "ExplicitTag" <=> IsTagged(t)
      /\ F.spec = "none" => (Codec = "Constructed" <=> Universal(t) /\ TagId(t) \in {16, 17})
      /\ F.spec # "none" => Codec \in {"OctetString", "ExplicitTag", "none"}
  BY <1>1, CodecMeans
<1>4. /\ F.spec # "none" => Codec = "OctetString" /\ F.len = Indefinite
      /\ Codec \in {"Constructed", "ExplicitTag"} => F.spec = "none"
  BY <1>1, <1>3 DEF Collected
<1>5. /\ F.len = Indefinite <=> IsIndefiniteAt(input, p)
      /\ t \in {4, 36} => Universal(t) /\ TagId(t) = 4 /\ (Constructed(t) <=> t = 36)
  BY <1>2, <1>3, Kinds DEF HeaderRead
<1>6. CASE FormRefused
  <2>1. Raise("malformed") /\ F.spec = "none"
    <3>1. Raise("malformed")
      BY <1>6 DEF OpenContents
    <3>2. F.spec = "none"
      BY <1>3, <1>4, <1>6 DEF FormRefused, IsIndefinite
    <3> QED
      BY <3>1, <3>2
  <2>2. CASE Codec = "Constructed"
    <3>1. Universal(t) /\ TagId(t) \in {16, 17} /\ ~Constructed(t) /\ t \notin {4, 36}
      BY <1>3, <1>6, <2>1, <2>2 DEF FormRefused
    <3>2. /\ ~IsContainer(t) /\ ~IsTagged(t) /\ ~IsConstructedString(input, p)
          /\ ~PrimitiveFits(input, p, F)
      BY <3>1 DEF IsContainer, IsTagged, IsConstructedString, PrimitiveFits
    <3>3. Nothing(input, "none", p, F.end)
      BY <1>2, <3>2, NoPrimitiveValue
    <3> QED
      BY <1>1, <1>2, <2>1, <3>3, RunningFails, RaiseMeansNothing
  <2>3. CASE Codec = "OctetString"
    <3>1. t = 36 /\ F.len # Indefinite /\ ~input.rules.supportConstructedForm /\ Constructed(t)
      BY <1>1, <1>3, <1>5, <1>6, <2>3 DEF FormRefused, IsIndefinite
    <3>2. /\ ~IsContainer(t) /\ ~IsTagged(t) /\ ~IsConstructedString(input, p)
          /\ ~PrimitiveFits(input, p, F)
      <4>1. ~IsContainer(t) /\ ~IsTagged(t)
        BY <1>3, <3>1, Kinds
      <4> QED
        BY <1>5, <3>1, <4>1 DEF IsConstructedString, PrimitiveFits
    <3>3. Nothing(input, "none", p, F.end)
      BY <1>2, <3>2, NoPrimitiveValue
    <3> QED
      BY <1>1, <1>2, <2>1, <3>3, RunningFails, RaiseMeansNothing
  <2> QED
    BY <1>6, <2>2, <2>3 DEF FormRefused
<1>7. CASE ~FormRefused
  <2> DEFINE f == AtStage("loop", Codec, F.pos)
  <2>1. Continue([F EXCEPT !.st = "loop", !.decoder = Codec]) /\ UNCHANGED parts
    BY <1>7 DEF OpenContents
  <2>2. [F EXCEPT !.st = "loop", !.decoder = Codec] = f
    BY <1>2 DEF Known, Frame, AtStage
  <2>3. /\ f.st = "loop" /\ f.decoder = Codec /\ f.pos = F.pos /\ f.start = F.start
        /\ f.spec = F.spec /\ f.len = F.len /\ Moved(F, f)
    BY <1>2, StagesMove
  <2> HIDE DEF f
  <2>4. \A spec \in {"none", "fragment", "segment"} : Progress(input, spec, f, f.pos, <<>>)
    <3>1. InWindow(input, f, f.start)
      BY <1>2, <2>3, HeaderReadFacts DEF InWindow, Moved, SameWindow
    <3> QED
      BY <1>2, <2>3, <3>1, ProgressBegins
  <2> HIDE DEF t, p
  <2>5. Reads(input, p, f, <<>>)
    <3>1. CASE Codec = "Constructed"
      <4>1. F.spec = "none" /\ IsContainer(t)
        BY <1>3, <1>4, <1>7, <3>1 DEF FormRefused, IsContainer
      <4>2. ReadsComponents(input, p, f, <<>>)
        BY <2>3, <2>4, <3>1, <4>1 DEF ReadsComponents, t
      <4> QED
        BY <4>2 DEF Reads
    <3>2. CASE Codec = "OctetString"
      <4>1. OctsOf(<<>>) = <<>>
        BY DEF OctsOf
      <4>2. t \in {4, 36} /\ (F.spec # "none" => F.len = Indefinite)
        BY <1>3, <1>4, <3>2
      <4>3. IsConstructedString(input, p)
        BY <1>1, <1>3, <1>5, <1>7, <3>2, <4>2
           DEF FormRefused, IsIndefinite, IsConstructedString, t
      <4>4. ReadsFragments(input, p, f, <<>>)
        BY <2>3, <2>4, <3>2, <4>1, <4>2, <4>3 DEF ReadsFragments, SpecBelow, t
      <4> QED
        BY <4>4 DEF Reads
    <3>3. CASE Codec = "ExplicitTag"
      <4>1. ReadsValue(input, p, f, <<>>)
        BY <1>2, <1>3, <1>4, <2>3, <3>3 DEF ReadsValue, t
      <4> QED
        BY <4>1 DEF Reads
    <3> QED
      BY <1>1, <3>1, <3>2, <3>3
  <2>6. \A i \in Levels : parts'[i] = IF i = depth THEN <<>> ELSE parts[i]
    BY <1>2, <2>1
  <2> QED
    BY <1>1, <2>1, <2>2, <2>5, <2>6, StageContinues DEF f, p
<1> QED
  BY <1>6, <1>7

\* The frame while it reads its contents.
LEMMA RunningContents ==
    ASSUME IInv, GInv, NEW st \in {"loop", "wait", "closing"}, Running(st)
    PROVE  /\ Known /\ IsInput(input) /\ status = "decoding" /\ depth > 0
           /\ HeaderRead(input, Up(depth).pos, F)
           /\ F.pos \in F.start..F.stop /\ InWindow(input, F, F.pos)
<1>1. Known /\ IsInput(input) /\ depth > 0
  BY RunningKnows
<1>2. HeaderRead(input, Up(depth).pos, F)
  BY RunningReads DEF Located
<1>3. F.pos \in F.start..F.stop
  BY <1>1 DEF Known
<1>4. InWindow(input, F, F.pos)
  BY <1>1, <1>2, <1>3, HeaderReadFacts DEF InWindow
<1> QED
  BY <1>1, <1>2, <1>3, <1>4 DEF Known

\* A call from the loop: the frame keeps its decoder.
LEMMA LoopCalls ==
    ASSUME IInv, GInv, Running("loop"), NEW spec, NEW tags, NEW allowEoo,
           Call(spec, tags, allowEoo),
           NEW f, f = AtStage("wait", F.decoder, F.pos),
           spec = Asks(input, f), tags = Given(f), Probes(f) => allowEoo,
           spec = "segment" => ~Constructed(input.octets[F.pos]),
           Reads(input, Up(depth).pos, f, parts[depth])
    PROVE  GInv'
<1> DEFINE new == NewFrame(F.pos, F.stop, spec, tags, allowEoo)
<1>1. Known
  BY RunningKnows
<1>2. [F EXCEPT !.st = "wait"] = f
  BY <1>1 DEF Known, Frame, AtStage
<1>3. frames' = [frames EXCEPT ![depth] = f, ![depth + 1] = new]
  <2>1. frames \in [Levels -> Frame] /\ depth \in Levels /\ F = frames[depth]
    BY <1>1 DEF IInv, TypeOK, Known, F
  <2>2. frames' = [frames EXCEPT ![depth] = [@ EXCEPT !.st = "wait"], ![depth + 1] = new]
    BY DEF Call
  <2> HIDE DEF new
  <2> QED
    BY <1>2, <2>1, <2>2
<1>4. new.allowEoo = allowEoo
  BY DEF NewFrame
<1>5. new = NewFrame(F.pos, F.stop, Asks(input, f), Given(f), new.allowEoo)
  BY <1>4
<1>6. depth' = depth + 1 /\ UNCHANGED <<input, parts, result, status>>
  BY DEF Call
<1> HIDE DEF new
<1> QED
  BY <1>3, <1>4, <1>5, <1>6, StageCalls

LEMMA NextComponentKnows ==
    ASSUME IInv, GInv, NextComponent
    PROVE  GInv'
<1> DEFINE f == AtStage("wait", F.decoder, F.pos)
           p == Up(depth).pos
<1>1. /\ Running("loop") /\ F.decoder = "Constructed" /\ F.pos < F.stop
      /\ Call("none", <<>>, F.len = Indefinite)
  BY DEF NextComponent, IsIndefinite
<1>2. Known /\ ReadsComponents(input, p, F, parts[depth])
  BY <1>1, RunningKnows, ReadersRead
<1>3. /\ f.st = "wait" /\ f.decoder = "Constructed" /\ f.pos = F.pos /\ f.len = F.len
      /\ f.start = F.start /\ f.stop = F.stop /\ f.spec = F.spec /\ SameWindow(F, f)
  BY <1>1, <1>2, StagesMove DEF Moved
<1> HIDE DEF f, p
<1>4. Progress(input, "none", f, f.pos, parts[depth])
  BY <1>2, <1>3, SameWindows DEF ReadsComponents
<1>5. Refuted(input, F, parts[depth]) => Refuted(input, f, parts[depth])
  BY <1>3, SameWindows DEF Refuted
<1>6. ReadsComponents(input, p, f, parts[depth])
  BY <1>1, <1>2, <1>3, <1>4, <1>5 DEF ReadsComponents
<1>7. "none" = Asks(input, f) /\ <<>> = Given(f) /\ (Probes(f) => F.len = Indefinite)
  BY <1>3 DEF Asks, Given, Probes
<1> QED
  BY <1>1, <1>6, <1>7, LoopCalls DEF Reads, f, p

LEMMA NextFragmentKnows ==
    ASSUME IInv, GInv, NextFragment
    PROVE  GInv'
<1> DEFINE f == AtStage("wait", F.decoder, F.pos)
           p == Up(depth).pos
           below == SpecBelow(input, F.spec)
<1>1. /\ Running("loop") /\ F.decoder = "OctetString" /\ F.pos < F.stop
      /\ IF below = "segment" /\ Constructed(input.octets[F.pos])
         THEN Raise("malformed")
         ELSE Call(below, <<>>, F.len = Indefinite)
  BY DEF NextFragment, IsIndefinite, SpecOfFragments, SpecBelow, substrate
<1>2. /\ Known /\ IsInput(input) /\ depth > 0 /\ HeaderRead(input, p, F)
      /\ InWindow(input, F, F.pos)
      /\ ReadsFragments(input, p, F, parts[depth])
  BY <1>1, RunningContents, ReadersRead
<1>3. F.spec \in {"none", "fragment", "segment"}
  BY <1>1, RunningReads DEF Located, CalledBy, Asks, SpecBelow
<1>4. CASE below = "segment" /\ Constructed(input.octets[F.pos])
  <2>1. Raise("malformed")
    BY <1>1, <1>4
  <2>2. F.pos \in Positions(input) /\ F.stop \in Positions(input)
    BY <1>2, WindowPositions DEF InWindow
  <2>3. Nothing(input, below, F.pos, F.stop)
    BY <1>2, <1>4, <2>2, ConstructedSegment
  <2>4. ~Zeros(input, F.pos, F.stop)
    BY <1>4 DEF Zeros, ZerosAt, Constructed
  <2>5. Hopeless(input, below, F)
    BY <1>1, <1>2, <2>3, <2>4, SpecsBelow, ProgressFails DEF ReadsFragments
  <2>6. Nothing(input, F.spec, p, F.end)
    BY <1>2, <1>3, <2>5, HopelessString DEF ReadsFragments, HeaderRead
  <2> QED
    BY <1>1, <1>2, <2>1, <2>6, RunningFails, RaiseMeansNothing
<1>5. CASE ~(below = "segment" /\ Constructed(input.octets[F.pos]))
  <2>1. Call(below, <<>>, F.len = Indefinite)
    BY <1>1, <1>5
  <2>2. /\ f.st = "wait" /\ f.decoder = "OctetString" /\ f.pos = F.pos /\ f.len = F.len
        /\ f.start = F.start /\ f.stop = F.stop /\ f.spec = F.spec /\ SameWindow(F, f)
    BY <1>1, <1>2, StagesMove DEF Moved
  <2> HIDE DEF f, p
  <2>3. Progress(input, below, f, f.pos, OctsOf(parts[depth]))
    BY <1>2, <2>2, SameWindows DEF ReadsFragments
  <2>4. ReadsFragments(input, p, f, parts[depth])
    BY <1>1, <1>2, <2>2, <2>3 DEF ReadsFragments
  <2>5. below = Asks(input, f) /\ <<>> = Given(f) /\ (Probes(f) => F.len = Indefinite)
    BY <2>2 DEF Asks, Given, Probes
  <2> HIDE DEF below
  <2> QED
    BY <1>1, <1>5, <2>1, <2>4, <2>5, LoopCalls DEF Reads, f, p
<1> QED
  BY <1>4, <1>5

LEMMA ExplicitValueKnows ==
    ASSUME IInv, GInv, ExplicitValue
    PROVE  GInv'
<1> DEFINE f == AtStage("wait", F.decoder, F.pos)
           p == Up(depth).pos
<1>1. Running("loop") /\ F.decoder = "ExplicitTag" /\ Call("none", F.tags, FALSE)
  BY DEF ExplicitValue
<1>2. Known /\ ReadsValue(input, p, F, parts[depth])
  BY <1>1, RunningKnows, ReadersRead
<1>3. /\ f.st = "wait" /\ f.decoder = "ExplicitTag" /\ f.pos = F.pos /\ f.start = F.start
      /\ f.spec = F.spec /\ f.tags = F.tags
  BY <1>1, <1>2, StagesMove
<1> HIDE DEF f, p
<1>4. ReadsValue(input, p, f, parts[depth])
  BY <1>2, <1>3 DEF ReadsValue
<1>5. "none" = Asks(input, f) /\ F.tags = Given(f) /\ ~Probes(f)
  BY <1>3 DEF Asks, Given, Probes
<1> QED
  BY <1>1, <1>4, <1>5, LoopCalls DEF Reads, f, p

LEMMA ExplicitClosingKnows ==
    ASSUME IInv, GInv, ExplicitClosing
    PROVE  GInv'
<1> DEFINE f == AtStage("wait", "ExplicitEnd", F.pos)
           p == Up(depth).pos
           new == NewFrame(F.pos, F.stop, "none", <<>>, TRUE)
<1>1. Running("closing")
  BY DEF ExplicitClosing
<1>2. Known /\ ReadsEnd(input, p, F, parts[depth])
  BY <1>1, RunningKnows, ReadersRead
<1>3. /\ f.st = "wait" /\ f.decoder = "ExplicitEnd" /\ f.pos = F.pos /\ f.start = F.start
      /\ f.stop = F.stop /\ f.len = F.len /\ f.spec = F.spec /\ f.tags = F.tags
  BY <1>2, StagesMove
<1>4. [F EXCEPT !.st = "wait", !.decoder = "ExplicitEnd"] = f
  BY <1>2 DEF Known, Frame, AtStage
<1>5. frames' = [frames EXCEPT ![depth] = f, ![depth + 1] = new]
  <2>1. frames \in [Levels -> Frame] /\ depth \in Levels /\ F = frames[depth]
    BY <1>2 DEF IInv, TypeOK, Known, F
  <2>2. frames' = [frames EXCEPT ![depth] = [@ EXCEPT !.st = "wait", !.decoder = "ExplicitEnd"],
                                 ![depth + 1] = new]
    BY <2>1 DEF ExplicitClosing
  <2> HIDE DEF new
  <2> QED
    BY <1>4, <2>1, <2>2
<1>6. depth' = depth + 1 /\ UNCHANGED <<input, parts, result, status>>
  BY DEF ExplicitClosing
<1>7. new.allowEoo = TRUE
  BY DEF NewFrame
<1>8. Asks(input, f) = "none" /\ Given(f) = <<>>
  BY <1>3 DEF Asks, Given
<1>9. new = NewFrame(F.pos, F.stop, Asks(input, f), Given(f), new.allowEoo)
  BY <1>7, <1>8
<1> HIDE DEF f, p, new
<1>10. ReadsEnd(input, p, f, parts[depth])
  BY <1>2, <1>3 DEF ReadsEnd
<1> QED
  BY <1>1, <1>5, <1>6, <1>7, <1>8, <1>9, <1>10, StageCalls DEF Reads, f, p

-----------------------------------------------------------------------------
(* The contents of a container or a string.                                *)

LEMMA OctsOfMore ==
    ASSUME NEW S, NEW ps \in Seq(S), NEW v
    PROVE  OctsOf(Append(ps, v)) = Append(OctsOf(ps), v.octs)
<1>1. PICK n \in Nat : n = Len(ps)
  OBVIOUS
<1> DEFINE T == {ps[i].octs : i \in 1..n} \cup {v.octs}
           a == OctsOf(Append(ps, v))
           b == Append(OctsOf(ps), v.octs)
<1>2. OctsOf(ps) \in Seq(T) /\ Len(OctsOf(ps)) = n /\ v.octs \in T
      /\ \A i \in 1..n : OctsOf(ps)[i] = ps[i].octs
  <2>1. \A i \in 1..n : ps[i].octs \in T
    OBVIOUS
  <2>2. OctsOf(ps) = [i \in 1..n |-> ps[i].octs]
    BY <1>1 DEF OctsOf
  <2> HIDE DEF T
  <2>3. OctsOf(ps) \in [1..n -> T]
    BY <2>1, <2>2
  <2>4. v.octs \in T
    BY DEF T
  <2> QED
    BY <1>1, <2>2, <2>3, <2>4
<1> HIDE DEF T
<1>3. /\ Append(ps, v) \in Seq(S \cup {v}) /\ Len(Append(ps, v)) = n + 1
      /\ \A i \in 1..n + 1 : Append(ps, v)[i] = IF i = n + 1 THEN v ELSE ps[i]
  <2>1. ps \in Seq(S \cup {v})
    OBVIOUS
  <2> QED
    BY <1>1, <2>1
<1>4. a = [i \in 1..n + 1 |-> Append(ps, v)[i].octs]
  BY <1>3 DEF OctsOf
<1>5. /\ b \in Seq(T) /\ Len(b) = n + 1
      /\ \A i \in 1..n + 1 : b[i] = IF i = n + 1 THEN v.octs ELSE OctsOf(ps)[i]
  BY <1>2
<1>6. b = [i \in 1..n + 1 |-> b[i]]
  BY <1>5
<1>7. \A i \in 1..n + 1 : a[i] = b[i]
  <2>1. SUFFICES ASSUME NEW i \in 1..n + 1
                 PROVE  Append(ps, v)[i].octs = b[i]
    BY <1>4
  <2>2. CASE i = n + 1
    BY <1>3, <1>5, <2>2
  <2>3. CASE i # n + 1
    <3>1. i \in 1..n
      BY <2>3
    <3>2. Append(ps, v)[i] = ps[i] /\ b[i] = OctsOf(ps)[i]
      BY <1>3, <1>5, <2>3
    <3> QED
      BY <1>2, <3>1, <3>2
  <2> QED
    BY <2>2, <2>3
<1> HIDE DEF b
<1> QED
  BY <1>4, <1>6, <1>7 DEF b

\* Once the guess of an explicit tag is refuted the contents are more than one item.
LEMMA RefutedAtTheEnd ==
    ASSUME NEW in, IsInput(in), NEW f, InWindow(in, f, f.pos), NEW ps, Refuted(in, f, ps),
           NEW z, Ends(in, f, f.pos, z)
    PROVE  Len(ps) > 1
<1>1. IsEnd(in, f, f.pos)
  BY DEF Ends, Closes, LeftOpen, IsEnd
<1>2. ASSUME ps = <<>>, f.pos = f.start, f.start < f.stop,
             NEW m, NEW x, Only(in, "none", f.start, f.stop, m, x)
      PROVE  FALSE
  <2>1. f.start \in Positions(in) /\ f.stop \in Positions(in) /\ f.start \in Int /\ f.stop \in Int
    BY WindowPositions DEF InWindow, Positions
  <2>2. in.octets[f.start] # 0
    BY <1>2, <2>1, OnlyIsSomething
  <2> QED
    BY <1>1, <1>2, <2>1, <2>2 DEF IsEnd, Zeros, ZerosAt
<1> QED
  BY <1>1, <1>2 DEF Refuted

\* What is put together from the whole contents is the one value.
LEMMA AssembledIsFound ==
    ASSUME IInv, GInv, NEW st \in {"loop", "wait"}, Running(st),
           F.decoder \in {"Constructed", "OctetString"}, NEW z, Ends(input, F, F.pos, z),
           F.decoder = "OctetString" =>
               Closes(input, F, F.pos, z) /\ WellCut(input, F.spec, OctsOf(parts[depth]))
    PROVE  Answers(input, Up(depth), Assembled, z)
<1> DEFINE p == Up(depth).pos
           t == input.octets[p]
           given == Given(Up(depth))
           ps == parts[depth]
<1>1. /\ IsInput(input) /\ HeaderRead(input, p, F) /\ F.pos \in F.start..F.stop
      /\ InWindow(input, F, F.pos)
  BY RunningContents
<1>2. t \in Octet /\ given \in Seq(Octet) /\ TagSet(F) = Bares(<<t>> \o given)
  BY RunningReads
<1>3. F.pos = F.stop \/ Zeros(input, F.pos, F.stop)
  BY DEF Ends, Closes, LeftOpen
<1>4. Assembled # EndOfOctets
  BY AssembledIsNoSentinel
<1>5. CASE F.decoder = "Constructed"
  <2>1. ReadsComponents(input, p, F, ps)
    BY <1>5, ReadersRead
  <2> HIDE DEF p, ps
  <2>2. Progress(input, "none", F, F.pos, ps) /\ F.spec = "none"
    BY <2>1 DEF ReadsComponents
  <2>3. Complete(input, "none", F, F.pos, ps)
    BY <1>1, <1>3, <2>2, ProgressEnds
  <2>4. PICK n \in Nat : n = Len(ps)
    BY <2>2 DEF Progress
  <2>5. IsContainer(t) \/ (IsTagged(t) /\ n > 1)
    BY <1>1, <2>1, <2>4, RefutedAtTheEnd DEF ReadsComponents
  <2>6. Only(input, "none", p, F.end, z, Container(<<Bare(t)>>, ps))
    BY <1>1, <2>3, <2>4, <2>5, CompleteContainer
  <2>7. Assembled = Container(TagSet(F), ps)
    BY <1>5 DEF Assembled, ps
  <2>8. /\ IsValue(Container(<<Bare(t)>>, ps))
        /\ Container(Bares(<<t>> \o given), ps) = Under(Container(<<Bare(t)>>, ps), given)
    BY <1>2, ContainersUnderTags
  <2> DEFINE x == Container(<<Bare(t)>>, ps)
  <2> HIDE DEF x
  <2>9. Means(F.spec, Assembled, given, x)
    BY <1>2, <2>2, <2>7, <2>8 DEF Means, x
  <2>10. Only(input, F.spec, Up(depth).pos, F.end, z, x)
    BY <2>2, <2>6 DEF x, p
  <2> HIDE DEF t
  <2> QED
    BY <1>4, <2>9, <2>10, RunningFinds
<1>6. CASE F.decoder = "OctetString"
  <2>1. ReadsFragments(input, p, F, ps)
    BY <1>6, ReadersRead
  <2> DEFINE octs == Joined(OctsOf(ps))
  <2>2. Assembled = Leaf("OctetString", TagSet(F), octs)
    BY <1>6 DEF Assembled, OctsOf
  <2> HIDE DEF p, ps
  <2>3. Progress(input, SpecBelow(input, F.spec), F, F.pos, OctsOf(ps)) /\ t \in {4, 36}
    BY <2>1 DEF ReadsFragments
  <2>4. Complete(input, SpecBelow(input, F.spec), F, F.pos, OctsOf(ps))
    BY <1>1, <1>3, <2>3, SpecsBelow, ProgressEnds
  <2>8. /\ F.spec \in {"none", "fragment", "segment"}
        /\ F.spec = "segment" => ~Constructed(t)
    BY RunningReads DEF Located, CalledBy, Asks, SpecBelow, p
  <2>9. WellCut(input, F.spec, OctsOf(ps))
    BY <1>6 DEF ps
  <2>5. /\ F.spec = "none" /\ IsConstructedString(input, p) =>
              Only(input, "none", p, F.end, z, Leaf("OctetString", <<Bare(t)>>, octs))
        /\ F.spec # "none" /\ t \in {4, 36} /\ IsIndefiniteAt(input, p) =>
              Only(input, F.spec, p, F.end, z, octs)
    BY <1>1, <1>6, <2>4, <2>8, <2>9, CompleteString DEF p
  <2>6. CASE F.spec = "none"
    <3>1. Only(input, "none", p, F.end, z, Leaf("OctetString", <<Bare(t)>>, octs))
      BY <2>1, <2>5, <2>6 DEF ReadsFragments
    <3> HIDE DEF octs
    <3> QED
      BY <2>2, <2>6, <3>1, LeafFound DEF p
  <2>7. CASE F.spec # "none"
    <3>1. Only(input, F.spec, p, F.end, z, octs)
      BY <1>1, <2>1, <2>3, <2>5, <2>7 DEF ReadsFragments, HeaderRead
    <3>2. Assembled.octs = octs
      BY <2>2 DEF Leaf
    <3>3. Means(F.spec, Assembled, given, octs)
      BY <2>7, <3>2 DEF Means
    <3> HIDE DEF octs
    <3> QED
      BY <1>4, <2>7, <3>1, <3>3, RunningFinds DEF p
  <2> QED
    BY <2>6, <2>7
<1> QED
  BY <1>5, <1>6

\* The only codec that reads strings of definite length in fragments is BER's.
LEMMA DefiniteStringsAreNotCut ==
    ASSUME IInv, GInv, Running("loop"), F.decoder = "OctetString", F.len # Indefinite, NEW items
    PROVE  WellCut(input, F.spec, items)
<1> DEFINE p == Up(depth).pos
<1>1. ReadsFragments(input, p, F, parts[depth]) /\ HeaderRead(input, p, F)
  BY ReadersRead, RunningContents
<1>2. /\ F.spec = "none" /\ IsConstructedString(input, p) /\ ~IsIndefiniteAt(input, p)
      /\ LengthAllowed(input, p)
  BY <1>1 DEF ReadsFragments, HeaderRead, HeaderFits
<1>3. input.octets[p] = 36 /\ input.rules.supportConstructedForm
  BY <1>2 DEF IsConstructedString
<1>4. ~input.rules.requireIndefLengthForConstructed
  BY <1>2, <1>3 DEF LengthAllowed, Constructed
<1>5. input.rules \in {BER, CER, DER}
  BY DEF IInv, TypeOK
<1>6. input.rules = BER
  BY <1>3, <1>4, <1>5 DEF BER, CER, DER
<1>7. ~input.rules.canonicalContents
  BY <1>6 DEF BER
<1> QED
  BY <1>7 DEF WellCut, SpecBelow

\* The check of the sizes is the segmentation of the grammar.
LEMMA SizesAreChecked ==
    ASSUME Known
    PROVE  SizesRefused <=>
               F.decoder = "OctetString" /\ ~WellCut(input, F.spec, OctsOf(parts[depth]))
<1> DEFINE r == OctsOf(parts[depth])
<1>1. PICK size \in Nat \ {0} : size = FragmentSize
  BY FragmentSizeAssumption
<1>2. SpecOfFragments = SpecBelow(input, F.spec)
  BY DEF SpecOfFragments, SpecBelow
<1>3. r = [i \in 1..Len(parts[depth]) |-> parts[depth][i].octs]
  BY DEF OctsOf
<1>5. PICK n \in Nat : n = Len(parts[depth])
  BY DEF Known, NoSentinel
<1>6. Len(r) = n /\ DOMAIN r = 1..n
  BY <1>3, <1>5
<1> HIDE DEF r
<1>4. Segmented(r) <=> IsSegmentation(r)
  <2>1. Segmented(r) <=> /\ n > 1
                         /\ \A i \in 1..n - 1 : Len(r[i]) = size
                         /\ Len(r[n]) \in 1..size
    BY <1>1, <1>6 DEF Segmented
  <2>2. IsSegmentation(r) <=> /\ n > 1
                              /\ \A i \in 1..n : Len(r[i]) \in 1..size
                              /\ \A i \in 1..n : i < n => Len(r[i]) = size
    BY <1>1, <1>6 DEF IsSegmentation
  <2>3. ASSUME n > 1, \A i \in 1..n - 1 : Len(r[i]) = size, Len(r[n]) \in 1..size,
               NEW i \in 1..n
        PROVE  Len(r[i]) \in 1..size /\ (i < n => Len(r[i]) = size)
    <3>1. CASE i = n
      BY <2>3, <3>1
    <3>2. CASE i # n
      <4>1. i \in 1..n - 1
        BY <3>2
      <4>2. Len(r[i]) = size
        BY <2>3, <4>1
      <4> QED
        BY <4>2
    <3> QED
      BY <3>1, <3>2
  <2>4. ASSUME n > 1, \A i \in 1..n : Len(r[i]) \in 1..size,
               \A i \in 1..n : i < n => Len(r[i]) = size
        PROVE  (\A i \in 1..n - 1 : Len(r[i]) = size) /\ Len(r[n]) \in 1..size
    <3>1. n \in 1..n /\ \A i \in 1..n - 1 : i \in 1..n /\ i < n
      BY <2>4
    <3> QED
      BY <2>4, <3>1
  <2> QED
    BY <2>1, <2>2, <2>3, <2>4
<1> QED
  BY <1>2, <1>3, <1>4 DEF SizesRefused, WellCut, r

LEMMA ContentsExhaustedKnows ==
    ASSUME IInv, GInv, ContentsExhausted
    PROVE  GInv'
<1> DEFINE p == Up(depth).pos
<1>1. Running("loop") /\ F.decoder \in {"Constructed", "OctetString"} /\ F.pos >= F.stop
  BY DEF ContentsExhausted
<1>2. /\ Known /\ IsInput(input) /\ status = "decoding" /\ depth > 0
      /\ HeaderRead(input, p, F) /\ InWindow(input, F, F.pos) /\ F.pos \in F.start..F.stop
  BY <1>1, RunningContents
<1>3. F.pos = F.stop
  BY <1>1, <1>2 DEF Known
<1>4. CASE F.decoder = "OctetString" /\ IsIndefinite
  <2>1. Raise("underrun")
    BY <1>4 DEF ContentsExhausted
  <2>2. ReadsFragments(input, p, F, parts[depth])
    BY <1>1, <1>4, ReadersRead
  <2>3. Progress(input, SpecBelow(input, F.spec), F, F.pos, OctsOf(parts[depth]))
    BY <2>2 DEF ReadsFragments
  <2>4. Complete(input, SpecBelow(input, F.spec), F, F.stop, OctsOf(parts[depth]))
    BY <1>2, <1>3, <2>3, SpecsBelow, ProgressEnds
  <2>5. F.len = Indefinite
    BY <1>4 DEF IsIndefinite
  <2>7. F.spec \in {"none", "fragment", "segment"}
    BY <1>1, RunningReads DEF Located, CalledBy, Asks, SpecBelow
  <2>6. /\ F.spec = "none" /\ IsConstructedString(input, p) => Nothing(input, "none", p, F.end)
        /\ F.spec # "none" /\ input.octets[p] \in {4, 36} => Nothing(input, F.spec, p, F.end)
    BY <1>2, <2>4, <2>5, <2>7, OpenString
  <2>8. Nothing(input, F.spec, p, F.end)
    BY <2>2, <2>6, <2>7 DEF ReadsFragments
  <2> QED
    BY <1>1, <1>2, <2>1, <2>8, RunningFails, RaiseMeansNothing
<1>5. CASE ~(F.decoder = "OctetString" /\ IsIndefinite)
  <2>1. Return(Assembled, F.stop)
    BY <1>3, <1>5 DEF ContentsExhausted
  <2>2. Ends(input, F, F.pos, F.stop)
        /\ (F.decoder = "OctetString" => Closes(input, F, F.pos, F.stop))
    BY <1>3, <1>5 DEF Ends, Closes, LeftOpen, IsIndefinite
  <2>4. F.decoder = "OctetString" => WellCut(input, F.spec, OctsOf(parts[depth]))
    BY <1>1, <1>5, DefiniteStringsAreNotCut DEF IsIndefinite
  <2>3. Answers(input, Up(depth), Assembled, F.stop)
    BY <1>1, <2>2, <2>4, AssembledIsFound
  <2> QED
    BY <1>2, <2>1, <2>3, ReturnAnswers
<1> QED
  BY <1>4, <1>5

LEMMA ContentsClosedKnows ==
    ASSUME IInv, GInv, ContentsClosed
    PROVE  GInv'
<1> DEFINE p == Up(depth).pos
           items == OctsOf(parts[depth])
<1>1. /\ Running("wait") /\ F.decoder \in {"Constructed", "OctetString"}
      /\ result.val = EndOfOctets
      /\ IF SizesRefused THEN Raise("malformed") ELSE Return(Assembled, result.pos)
  BY DEF ContentsClosed
<1>2. /\ status = "decoding" /\ depth > 0 /\ IsInput(input) /\ HeaderRead(input, p, F)
      /\ InWindow(input, F, F.pos) /\ F.pos \in F.start..F.stop /\ Known
  BY <1>1, RunningContents
<1>3. Zeros(input, F.pos, F.stop) /\ result.pos = F.pos + 2
  BY <1>1 DEF GInv, CallsAreAnswered, Answers
<1>4. F.len = Indefinite
  BY <1>1 DEF IInv, EooOnlyWhenAsked, IsIndefinite
<1>5. Closes(input, F, F.pos, result.pos) /\ Ends(input, F, F.pos, result.pos)
  BY <1>3, <1>4 DEF Closes, Ends
<1>6. CASE ~SizesRefused
  <2>1. F.decoder = "OctetString" => WellCut(input, F.spec, items)
    BY <1>2, <1>6, SizesAreChecked
  <2>2. Answers(input, Up(depth), Assembled, result.pos)
    BY <1>1, <1>5, <2>1, AssembledIsFound
  <2> QED
    BY <1>1, <1>2, <1>6, <2>2, ReturnAnswers
<1>7. CASE SizesRefused
  <2>1. /\ F.decoder = "OctetString" /\ ~WellCut(input, F.spec, items)
        /\ Raise("malformed")
    BY <1>1, <1>2, <1>7, SizesAreChecked
  <2>2. F.spec = "none"
    BY <2>1, RunningReads, <1>1 DEF WellCut, SpecBelow
  <2>3. ReadsFragments(input, p, F, parts[depth])
    BY <1>1, <2>1, ReadersRead
  <2>4. Progress(input, SpecBelow(input, F.spec), F, F.pos, items) /\ IsConstructedString(input, p)
    BY <2>2, <2>3 DEF ReadsFragments
  <2> HIDE DEF items
  <2>5. Complete(input, SpecBelow(input, F.spec), F, F.pos, items)
    BY <1>2, <1>3, <1>4, <2>4, SpecsBelow, ProgressEnds
  <2>6. Nothing(input, F.spec, p, F.end)
    BY <1>2, <1>5, <2>1, <2>2, <2>4, <2>5, CompleteString
  <2> QED
    BY <1>1, <1>2, <2>1, <2>6, RunningFails, RaiseMeansNothing
<1> QED
  BY <1>6, <1>7

\* There is one item where a call was told to look.
LEMMA OnlyOneEnd ==
    ASSUME NEW in, IsInput(in), NEW spec \in {"none", "fragment", "segment"},
           NEW p \in Positions(in), NEW w \in Positions(in),
           NEW m, NEW x, Only(in, spec, p, w, m, x), NEW q, NEW y, Only(in, spec, p, w, q, y)
    PROVE  m = q /\ x = y
<1>1. m \in Positions(in) /\ m \in p + 2..w /\ p \in Int /\ w \in Int
  BY OnlyIsSomething DEF Positions
<1>2. m <= w
  BY <1>1
<1>3. Item(in, spec, p, m, w) = {x} /\ Item(in, spec, p, q, w) = {y}
      /\ (m # q => Item(in, spec, p, m, w) = {})
  BY <1>1, <1>2 DEF Only
<1> QED
  BY <1>3

\* What the call that is over has found for the frame.
LEMMA ComponentFound ==
    ASSUME IInv, GInv, Running("wait"), result.val # EndOfOctets
    PROVE  \E x : /\ Means(Asks(input, F), result.val, Given(F), x)
                  /\ Only(input, Asks(input, F), F.pos, F.stop, result.pos, x)
<1>1. Yields(input, Asks(input, F), Given(F), F.pos, F.stop, result.val, result.pos)
  BY DEF GInv, CallsAreAnswered, Answers
<1> QED
  BY <1>1 DEF Yields

LEMMA ComponentDecodedKnows ==
    ASSUME IInv, GInv, ComponentDecoded
    PROVE  GInv'
<1> DEFINE p == Up(depth).pos
           ps == parts[depth]
           val == result.val
           f == AtStage("loop", F.decoder, result.pos)
<1>1. /\ Running("wait") /\ F.decoder \in {"Constructed", "OctetString"} /\ val # EndOfOctets
      /\ parts' = [parts EXCEPT ![depth] = Append(ps, val)]
      /\ Continue([F EXCEPT !.st = "loop", !.pos = result.pos])
  BY DEF ComponentDecoded
<1>2. /\ Known /\ IsInput(input) /\ F.st = "wait" /\ HeaderRead(input, p, F)
      /\ InWindow(input, F, F.pos) /\ F.pos \in F.start..F.stop
  BY <1>1, RunningContents, RunningKnows
<1>3. [F EXCEPT !.st = "loop", !.pos = result.pos] = f
  BY <1>2 DEF Known, Frame, AtStage
<1>4. /\ f.st = "loop" /\ f.decoder = F.decoder /\ f.pos = result.pos /\ f.len = F.len
      /\ f.start = F.start /\ f.stop = F.stop /\ f.spec = F.spec /\ SameWindow(F, f)
  BY <1>2, StagesMove DEF Moved
<1>5. Given(F) = <<>>
  BY <1>1 DEF Given
<1>6. PICK x : Means(Asks(input, F), val, <<>>, x) /\ Only(input, Asks(input, F), F.pos, F.stop, result.pos, x)
  BY <1>1, <1>5, ComponentFound
<1> HIDE DEF f
<1>7. Reads(input, p, f, Append(ps, val))
  <2>1. CASE F.decoder = "Constructed"
    <3>1. ReadsComponents(input, p, F, ps)
      BY <1>1, <2>1, ReadersRead
    <3>2. Asks(input, F) = "none"
      BY <2>1 DEF Asks
    <3>3. val = x
      <4>1. IsValue(x) /\ val = Under(x, <<>>)
        BY <1>6, <3>2 DEF Means
      <4> QED
        BY <4>1, UnderNoTags
    <3> HIDE DEF p, ps, val
    <3>4. F.pos < F.stop /\ Progress(input, "none", F, F.pos, ps)
      BY <1>2, <3>1 DEF ReadsComponents
    <3>5. Progress(input, "none", F, result.pos, Append(ps, x))
      BY <1>2, <1>6, <3>2, <3>4, ProgressGoesOn
    <3>6. Progress(input, "none", f, f.pos, Append(ps, x))
      BY <1>4, <3>5, SameWindows
    <3>7. PICK n \in Nat : n = Len(ps)
      BY <3>4 DEF Progress
    <3>8. Len(Append(ps, x)) = n + 1
      BY <3>4, <3>7 DEF Progress
    <3>9. Refuted(input, F, ps) => Refuted(input, f, Append(ps, x))
      <4>1. CASE ps = <<>> /\ F.pos = F.start /\ \E m \in F.start..F.stop :
                    \E y \in Item(input, "none", F.start, m, F.stop) :
                        Only(input, "none", F.start, F.stop, m, y) /\ ~IsEnd(input, F, m)
        <5>1. PICK m, y : Only(input, "none", F.start, F.stop, m, y) /\ ~IsEnd(input, F, m)
          BY <4>1
        <5>2. F.start \in Positions(input) /\ F.stop \in Positions(input)
          BY <1>2 DEF InWindow
        <5>3. m = result.pos
          BY <1>2, <1>6, <3>2, <4>1, <5>1, <5>2, OnlyOneEnd
        <5>4. ~IsEnd(input, f, f.pos)
          BY <1>4, <5>1, <5>3, SameWindows
        <5>5. n = 0
          BY <3>7, <4>1
        <5> QED
          BY <3>8, <5>4, <5>5 DEF Refuted
      <4>2. CASE n = 1 \/ n > 1
        <5>1. n + 1 > 1
          BY <4>2
        <5> QED
          BY <3>8, <5>1 DEF Refuted
      <4> QED
        BY <3>7, <4>1, <4>2 DEF Refuted
    <3>10. ReadsComponents(input, p, f, Append(ps, x))
      BY <1>4, <2>1, <3>1, <3>6, <3>9 DEF ReadsComponents
    <3> QED
      BY <3>3, <3>10 DEF Reads
  <2>2. CASE F.decoder = "OctetString"
    <3>1. ReadsFragments(input, p, F, ps)
      BY <1>1, <2>2, ReadersRead
    <3>2. Asks(input, F) = SpecBelow(input, F.spec) /\ SpecBelow(input, F.spec) # "none"
      BY <2>2 DEF Asks, SpecBelow
    <3>3. val.octs = x
      BY <1>6, <3>2 DEF Means
    <3>4. OctsOf(Append(ps, val)) = Append(OctsOf(ps), x)
      <4>1. PICK S : ps \in Seq(S)
        BY <1>2 DEF Known, NoSentinel
      <4> HIDE DEF ps, val
      <4> QED
        BY <3>3, <4>1, OctsOfMore
    <3> HIDE DEF p, ps, val
    <3>5. F.pos < F.stop /\ Progress(input, SpecBelow(input, F.spec), F, F.pos, OctsOf(ps))
      BY <1>2, <3>1 DEF ReadsFragments
    <3>6. Progress(input, SpecBelow(input, F.spec), F, result.pos, Append(OctsOf(ps), x))
      BY <1>2, <1>6, <3>2, <3>5, SpecsBelow, ProgressGoesOn
    <3>7. Progress(input, SpecBelow(input, F.spec), f, f.pos, OctsOf(Append(ps, val)))
      BY <1>4, <3>4, <3>6, SameWindows
    <3>8. ReadsFragments(input, p, f, Append(ps, val))
      BY <1>4, <2>2, <3>1, <3>7 DEF ReadsFragments
    <3> QED
      BY <3>8 DEF Reads
  <2> QED
    BY <1>1, <2>1, <2>2
<1>8. \A i \in Levels : parts'[i] = IF i = depth THEN Append(ps, val) ELSE parts[i]
  BY <1>1, <1>2 DEF Known
<1> QED
  BY <1>1, <1>3, <1>7, <1>8, StageContinues DEF f, p

-----------------------------------------------------------------------------
(* The guess of an explicit tag.                                           *)

\* The first item is not followed by the end of the contents: read it again.
LEMMA RereadKnows ==
    ASSUME IInv, GInv, Running("wait"), F.spec = "none", IsTagged(input.octets[Up(depth).pos]),
           NEW m, NEW x, Only(input, "none", F.start, F.stop, m, x), ~IsEnd(input, F, m),
           RereadAsConstructed
    PROVE  GInv'
<1> DEFINE f == AtStage("loop", "Constructed", F.start)
           p == Up(depth).pos
<1>1. /\ Known /\ IsInput(input) /\ HeaderRead(input, p, F)
  BY RunningContents
<1>2. /\ f.st = "loop" /\ f.decoder = "Constructed" /\ f.pos = f.start /\ f.len = F.len
      /\ f.start = F.start /\ f.stop = F.stop /\ f.spec = F.spec /\ SameWindow(F, f)
  BY <1>1, StagesMove DEF Moved
<1>3. InWindow(input, f, f.start) /\ F.start \in Positions(input) /\ F.stop \in Positions(input)
      /\ F.start \in Int /\ F.stop \in Int
  BY <1>1, <1>2, HeaderReadFacts DEF InWindow, Positions
<1> HIDE DEF f
<1>4. Progress(input, "none", f, f.pos, <<>>)
  BY <1>1, <1>2, <1>3, ProgressBegins
<1>5. Refuted(input, f, <<>>)
  <2>1. m \in F.start + 2..F.stop /\ x \in Item(input, "none", F.start, m, F.stop)
    BY DEF Only
  <2>2. m \in F.start..F.stop /\ F.start < F.stop
    BY <1>3, <2>1
  <2>3. ~IsEnd(input, f, m)
    BY <1>2, SameWindows
  <2> QED
    BY <1>2, <2>1, <2>2, <2>3 DEF Refuted
<1>6. ReadsComponents(input, p, f, <<>>)
  BY <1>2, <1>4, <1>5 DEF ReadsComponents
<1>7. \A i \in Levels : parts'[i] = IF i = depth THEN <<>> ELSE parts[i]
  BY <1>1 DEF Known, RereadAsConstructed
<1>8. Continue(f)
  BY DEF RereadAsConstructed, AtStage, f
<1> QED
  BY <1>6, <1>7, <1>8, StageContinues DEF Reads, f, p

\* The one item is all there is under the tag.
LEMMA TaggedIsFound ==
    ASSUME IInv, GInv, Running("wait"), F.spec = "none", IsTagged(input.octets[Up(depth).pos]),
           NEW m \in F.start..F.stop, NEW x, IsValue(x),
           Only(input, "none", F.start, F.stop, m, x), m = F.stop \/ Zeros(input, m, F.stop),
           NEW z, Closes(input, F, m, z),
           NEW val, val # EndOfOctets, val = Under(x, F.tags)
    PROVE  Answers(input, Up(depth), val, z)
<1> DEFINE p == Up(depth).pos
           t == input.octets[p]
           given == Given(Up(depth))
<1>1. IsInput(input) /\ HeaderRead(input, p, F)
  BY RunningContents
<1>2. t \in Octet /\ given \in Seq(Octet) /\ F.tags = <<t>> \o given
  BY RunningReads DEF Located, TagRead
<1>3. Progress(input, "none", F, m, <<x>>) /\ InWindow(input, F, m)
  BY <1>1, FirstItem
<1>4. Complete(input, "none", F, m, <<x>>)
  BY <1>1, <1>3, ProgressEnds
<1>5. Only(input, "none", p, F.end, z, Retagged(x, t))
  BY <1>1, <1>4, CompleteTagged
<1>6. IsValue(Retagged(x, t)) /\ val = Under(Retagged(x, t), given)
  BY <1>2, TaggedUnderTags
<1> DEFINE y == Retagged(x, t)
<1> HIDE DEF y, given
<1>7. Means(F.spec, val, given, y)
  BY <1>6 DEF Means, y
<1>8. Only(input, F.spec, Up(depth).pos, F.end, z, y)
  BY <1>5 DEF y
<1> QED
  BY <1>7, <1>8, RunningFinds DEF given

LEMMA ExplicitDecodedKnows ==
    ASSUME IInv, GInv, ExplicitDecoded
    PROVE  GInv'
<1> DEFINE p == Up(depth).pos
<1>1. Running("wait") /\ F.decoder = "ExplicitTag"
  BY DEF ExplicitDecoded
<1>2. /\ Known /\ IsInput(input) /\ HeaderRead(input, p, F) /\ status = "decoding" /\ depth > 0
      /\ result.pos \in F.start..F.stop /\ result.val # EndOfOctets
  BY <1>1, RunningContents, ReturnedIsInWindow
<1>3. ReadsValue(input, p, F, parts[depth])
  BY <1>1, ReadersRead
<1>4. F.pos = F.start /\ IsTagged(input.octets[p]) /\ F.spec = "none"
  BY <1>3 DEF ReadsValue
<1>5. Asks(input, F) = "none" /\ Given(F) = F.tags
  BY <1>1 DEF Asks, Given
<1>6. PICK x : /\ IsValue(x) /\ result.val = Under(x, F.tags)
               /\ Only(input, "none", F.start, F.stop, result.pos, x)
  <2>1. PICK x : /\ Means("none", result.val, F.tags, x)
                 /\ Only(input, "none", F.start, F.stop, result.pos, x)
    BY <1>1, <1>2, <1>4, <1>5, ComponentFound
  <2> QED
    BY <2>1 DEF Means
<1>7. CASE F.len # Indefinite /\ result.pos >= F.stop
  <2>1. result.pos = F.stop
    BY <1>2, <1>7 DEF Known
  <2>2. Return(result.val, F.stop)
    BY <1>7, <2>1, <1>2 DEF ExplicitDecoded, IsIndefinite, Known
  <2>3. Closes(input, F, result.pos, F.stop)
    BY <1>7, <2>1 DEF Closes
  <2>4. Answers(input, Up(depth), result.val, F.stop)
    BY <1>1, <1>2, <1>4, <1>6, <2>1, <2>3, TaggedIsFound
  <2> QED
    BY <1>2, <2>2, <2>4, ReturnAnswers
<1>8. CASE F.len # Indefinite /\ ~(result.pos >= F.stop)
  <2>1. RereadAsConstructed
    BY <1>8 DEF ExplicitDecoded, IsIndefinite
  <2>2. ~IsEnd(input, F, result.pos)
    BY <1>2, <1>8 DEF IsEnd, Known
  <2> QED
    BY <1>1, <1>4, <1>6, <2>1, <2>2, RereadKnows
<1>9. CASE F.len = Indefinite
  <2> DEFINE f == AtStage("closing", "ExplicitTag", result.pos)
  <2>1. /\ parts' = [parts EXCEPT ![depth] = <<result.val>>]
        /\ Continue([F EXCEPT !.st = "closing", !.pos = result.pos])
    BY <1>9 DEF ExplicitDecoded, IsIndefinite
  <2>2. [F EXCEPT !.st = "closing", !.pos = result.pos] = f
    BY <1>1, <1>2 DEF Known, Frame, AtStage
  <2>3. /\ f.st = "closing" /\ f.decoder = "ExplicitTag" /\ f.pos = result.pos /\ f.len = F.len
        /\ f.start = F.start /\ f.stop = F.stop /\ f.spec = F.spec /\ f.tags = F.tags
    BY <1>2, StagesMove
  <2> HIDE DEF f
  <2>4. x \in Item(input, "none", f.start, f.pos, f.stop)
    BY <1>6, <2>3 DEF Only
  <2>5. ReadsEnd(input, p, f, <<result.val>>)
    BY <1>4, <1>6, <1>9, <2>3, <2>4 DEF ReadsEnd
  <2>6. \A i \in Levels : parts'[i] = IF i = depth THEN <<result.val>> ELSE parts[i]
    BY <1>2, <2>1 DEF Known
  <2> QED
    BY <1>1, <2>1, <2>2, <2>5, <2>6, StageContinues DEF Reads, f
<1> QED
  BY <1>7, <1>8, <1>9

LEMMA ExplicitClosedKnows ==
    ASSUME IInv, GInv, ExplicitClosed
    PROVE  GInv'
<1> DEFINE p == Up(depth).pos
<1>1. Running("wait") /\ F.decoder = "ExplicitEnd"
  BY DEF ExplicitClosed
<1>2. /\ Known /\ IsInput(input) /\ HeaderRead(input, p, F) /\ status = "decoding" /\ depth > 0
      /\ F.pos \in F.start..F.stop
  BY <1>1, RunningContents
<1>3. ReadsEnd(input, p, F, parts[depth])
  BY <1>1, ReadersRead
<1>4. IsTagged(input.octets[p]) /\ F.spec = "none" /\ F.len = Indefinite
  BY <1>3 DEF ReadsEnd
<1>5. PICK x : /\ IsValue(x) /\ parts[depth] = <<Under(x, F.tags)>>
               /\ Only(input, "none", F.start, F.stop, F.pos, x)
  BY <1>3 DEF ReadsEnd
<1>6. CASE result.val = EndOfOctets
  <2>1. Return(parts[depth][1], result.pos)
    BY <1>6 DEF ExplicitClosed
  <2>2. parts[depth][1] = Under(x, F.tags) /\ parts[depth][1] # EndOfOctets
    <3>1. parts[depth][1] = Under(x, F.tags) /\ 1 \in DOMAIN parts[depth]
      BY <1>5
    <3>2. NoSentinel(parts[depth])
      BY <1>2 DEF Known
    <3> QED
      BY <3>1, <3>2, SentinelNotIn
  <2>3. Zeros(input, F.pos, F.stop) /\ result.pos = F.pos + 2
    BY <1>1, <1>6 DEF GInv, CallsAreAnswered, Answers
  <2>4. Closes(input, F, F.pos, result.pos)
    BY <1>4, <2>3 DEF Closes
  <2>5. Answers(input, Up(depth), parts[depth][1], result.pos)
    BY <1>1, <1>2, <1>4, <1>5, <2>2, <2>3, <2>4, TaggedIsFound
  <2> QED
    BY <1>2, <2>1, <2>5, ReturnAnswers
<1>7. CASE result.val # EndOfOctets
  <2>1. RereadAsConstructed
    BY <1>7 DEF ExplicitClosed
  <2>2. Asks(input, F) = "none"
    BY <1>1 DEF Asks
  <2>3. PICK y : Only(input, "none", F.pos, F.stop, result.pos, y)
    BY <1>1, <1>7, <2>2, ComponentFound
  <2>4. /\ F.pos \in Positions(input) /\ F.stop \in Positions(input)
        /\ F.pos \in Int /\ F.stop \in Int
    BY <1>1, <1>2, RunningContents, WindowPositions DEF InWindow, Positions
  <2>5. result.pos \in F.pos + 2..F.stop /\ input.octets[F.pos] # 0
    BY <1>2, <2>3, <2>4, OnlyIsSomething
  <2>6. F.pos # F.stop
    BY <2>4, <2>5
  <2>7. ~IsEnd(input, F, F.pos)
    BY <2>5, <2>6 DEF IsEnd, Zeros, ZerosAt
  <2> QED
    BY <1>1, <1>4, <1>5, <2>1, <2>7, RereadKnows
<1> QED
  BY <1>6, <1>7

-----------------------------------------------------------------------------
LEMMA NestingExceededKnows ==
    ASSUME IInv, GInv, NestingExceeded
    PROVE  GInv'
<1>1. depth > 0 /\ Raise("nesting")
  BY DEF NestingExceeded, Running
<1> QED
  BY <1>1, RaiseMeansNothing

LEMMA StutteringKnows ==
    ASSUME GInv, UNCHANGED vars
    PROVE  GInv'
<1>1. /\ input' = input /\ frames' = frames /\ parts' = parts /\ depth' = depth
      /\ result' = result /\ status' = status
  BY DEF vars
<1>2. \A i : Up(i)' = Up(i)
  BY <1>1 DEF Up
<1>3. FramesKnow'
  BY <1>1, <1>2 DEF GInv, FramesKnow
<1>4. UnusedAreEmpty' /\ CallsAreAnswered' /\ ValuesAreItems' /\ ErrorsMeanNothing'
  BY <1>1 DEF GInv, UnusedAreEmpty, CallsAreAnswered, ValuesAreItems, ErrorsMeanNothing,
              Running, F, Levels
<1> QED
  BY <1>3, <1>4 DEF GInv

LEMMA StepKnows ==
    ASSUME IInv, GInv, [Next]_vars
    PROVE  GInv'
<1>1. CASE UNCHANGED vars
  BY <1>1, StutteringKnows
<1>2. CASE Next
  BY <1>2, NestingExceededKnows, EndOfOctetsSeenKnows, DecodeTagKnows, DecodeLengthKnows,
     NoCodecKnows, DecodeSimpleKnows, CollectFragmentKnows, DecodePrimitiveStringKnows,
     OpenContentsKnows, NextComponentKnows, NextFragmentKnows, ExplicitValueKnows,
     ContentsExhaustedKnows, ComponentDecodedKnows, ContentsClosedKnows,
     ExplicitDecodedKnows, ExplicitClosingKnows, ExplicitClosedKnows, StutteringKnows
     DEF Next, Step, Finished
<1> QED
  BY <1>1, <1>2

(***************************************************************************)
(* What every call in progress has read of its contents is how each        *)
(* reading of them by the grammar begins, in every state.                  *)
(***************************************************************************)
THEOREM CallsKnowTheGrammar == Spec => []GInv
<1>1. Init => GInv
  BY InitKnows
<1>2. IInv /\ GInv /\ [Next]_vars => GInv'
  BY StepKnows
<1> QED
  BY <1>1, <1>2, Invariant, PTL DEF Spec

\* What decode() returns is the only item at the start of its octets.
LEMMA DecodedIsTheItem ==
    ASSUME IInv, GInv, status = "value"
    PROVE  Only(input, "none", 1, End(input), result.pos, result.val)
<1>1. result.val # EndOfOctets
  BY DEF IInv, EooOnlyWhenAsked
<1>2. Answers(input, Root(input), result.val, result.pos)
  BY DEF GInv, ValuesAreItems
<1>3. /\ Asks(input, Root(input)) = "none" /\ Given(Root(input)) = <<>> /\ Root(input).pos = 1
      /\ Root(input).stop = End(input)
  BY RootFields
<1>4. Yields(input, "none", <<>>, 1, End(input), result.val, result.pos)
  BY <1>1, <1>2, <1>3 DEF Answers
<1>5. PICK x : /\ IsValue(x) /\ result.val = Under(x, <<>>)
               /\ Only(input, "none", 1, End(input), result.pos, x)
  BY <1>4 DEF Yields, Means
<1>6. result.val = x
  BY <1>5, UnderNoTags
<1> QED
  BY <1>5, <1>6

LEMMA KnowingIsDecoding ==
    ASSUME IInv, GInv
    PROVE  DecodesTheGrammar
<1> DEFINE end == End(input)
<1>1. IsInput(input) /\ end \in Positions(input) /\ 1 \in Positions(input)
  BY InputsAreInputs
<1>2. \A q \in 1..end : q \in Positions(input) /\ q <= end
  BY <1>1 DEF End, Positions
<1>3. \A q : Values(input, 1, q, end) = Item(input, "none", 1, q, end)
  BY DEF Values, Item
<1>4. ASSUME status = "value", NEW q \in 1..end
      PROVE  Values(input, 1, q, end) = IF q = result.pos THEN {result.val} ELSE {}
  <2>1. Only(input, "none", 1, end, result.pos, result.val)
    BY <1>4, DecodedIsTheItem
  <2>2. Item(input, "none", 1, q, end) = IF q = result.pos THEN {result.val} ELSE {}
    <3> HIDE DEF end
    <3> QED
      BY <1>2, <2>1 DEF Only
  <2> QED
    BY <1>3, <2>2
<1> HIDE DEF end
<1>5. ASSUME status \in {"underrun", "malformed"}, NEW q \in 1..end
      PROVE  Values(input, 1, q, end) = {}
  <2>1. Nothing(input, "none", 1, end)
    BY <1>5 DEF GInv, ErrorsMeanNothing, end
  <2> QED
    BY <1>2, <1>3, <2>1 DEF Nothing
<1> QED
  BY <1>4, <1>5 DEF DecodesTheGrammar, end

(***************************************************************************)
(* decode() returns the one value that a prefix of its octets encodes, and *)
(* how much it consumed; if it refuses them (for another reason than their *)
(* nesting) then no prefix of them encodes a value.  For any octets, BER,  *)
(* CER and DER, and any nesting limit.                                     *)
(***************************************************************************)
THEOREM DecoderIsTheGrammar == Spec => []DecodesTheGrammar
<1>1. IInv /\ GInv => DecodesTheGrammar
  BY KnowingIsDecoding
<1> QED
  BY <1>1, Invariant, CallsKnowTheGrammar, PTL

-----------------------------------------------------------------------------
(* Canonical rules.                                                        *)

\* The canonical encoding of what decode() returns spells the octets consumed.
LEMMA ResultsAreSpelled ==
    ASSUME IInv, GInv, status = "value", IsCanonical(input)
    PROVE  /\ result.pos \in Positions(input)
           /\ Spelled(input, 1, result.pos, End(input), ResultEncoded(input.rules = CER))
<1>1. /\ IsInput(input) /\ End(input) \in Positions(input) /\ 1 \in Positions(input)
  BY InputsAreInputs
<1>2. Only(input, "none", 1, End(input), result.pos, result.val)
  BY DecodedIsTheItem
<1>3. /\ result.pos \in Positions(input) /\ result.pos <= End(input)
      /\ result.val \in Item(input, "none", 1, result.pos, End(input))
  <2>1. result.pos \in Positions(input) /\ result.pos \in 1 + 2..End(input)
    BY <1>1, <1>2, OnlyIsSomething
  <2>2. Item(input, "none", 1, result.pos, End(input)) = {result.val}
    BY <1>2 DEF Only
  <2>3. End(input) \in Nat
    BY <1>1 DEF Positions
  <2> QED
    BY <2>1, <2>2, <2>3
<1>4. Len(substrate) \in Nat /\ result.pos - 1 <= Len(substrate)
  <2>1. PICK n \in Nat : n = Len(input.octets)
    BY <1>1 DEF IsInput
  <2>2. result.pos <= n + 1 /\ substrate = input.octets
    BY <1>3, <2>1 DEF Positions, substrate
  <2> QED
    BY <1>3, <2>1, <2>2 DEF Positions
<1>5. Spelled(input, 1, result.pos, End(input), Encoding(result.val, Len(substrate), input.rules = CER))
  BY <1>1, <1>3, <1>4, EncodingsSpell
<1> QED
  BY <1>3, <1>5 DEF ResultEncoded

LEMMA OneSpellingInDer ==
    ASSUME IInv, GInv
    PROVE  DerIsCanonical
<1>1. SUFFICES ASSUME status = "value", input.rules = DER, HasNoConstructedBoolean(input)
               PROVE  Octets(1, result.pos) = ResultEncoded(FALSE)
  BY DEF DerIsCanonical
<1>2. IsCanonical(input) /\ (input.rules = CER) = FALSE
  <2>1. input.rules # CER
    <3>1. DER.supportIndefLength = FALSE /\ CER.supportIndefLength = TRUE
      BY DEF DER, CER, BER
    <3> QED
      BY <1>1, <3>1
  <2> QED
    BY <1>1, <2>1 DEF IsCanonical
<1>3. /\ result.pos \in Positions(input)
      /\ Spelled(input, 1, result.pos, End(input), ResultEncoded(input.rules = CER))
  BY <1>1, <1>2, ResultsAreSpelled
<1>4. Spelled(input, 1, result.pos, End(input), ResultEncoded(FALSE))
  BY <1>2, <1>3
<1>5. PICK z \in Seq({0}) : /\ ResultEncoded(FALSE) = Part(input, 1, result.pos) \o z
                            /\ z # <<>> => input.rules = CER
  BY <1>4 DEF Spelled
<1>6. z = <<>>
  BY <1>2, <1>5
<1>7. Part(input, 1, result.pos) \in Seq(Nat)
  <2>1. 1 <= result.pos
    BY <1>3 DEF Positions
  <2> QED
    BY <1>3, <2>1, InputsAreInputs, PartFacts
<1>8. ResultEncoded(FALSE) = Part(input, 1, result.pos)
  BY <1>5, <1>6, <1>7, ConcatEmptySeq
<1> QED
  BY <1>8 DEF Octets, Part, substrate

LEMMA OneSpellingInCer ==
    ASSUME IInv, GInv
    PROVE  CerIsCanonical
<1>1. SUFFICES ASSUME status = "value", input.rules = CER, HasNoConstructedString(input)
               PROVE  LET e == ResultEncoded(TRUE)
                      IN  /\ result.pos - 1 <= Len(e)
                          /\ Octets(1, result.pos) = SubSeq(e, 1, result.pos - 1)
                          /\ result.pos <= Len(e) =>
                                 /\ result.pos = End(input)
                                 /\ \A i \in result.pos..Len(e) : e[i] = 0
  BY DEF CerIsCanonical
<1>2. IsCanonical(input) /\ (input.rules = CER) = TRUE
  BY <1>1 DEF IsCanonical
<1>3. /\ result.pos \in Positions(input)
      /\ Spelled(input, 1, result.pos, End(input), ResultEncoded(input.rules = CER))
  BY <1>1, <1>2, ResultsAreSpelled
<1>4. Spelled(input, 1, result.pos, End(input), ResultEncoded(TRUE))
  BY <1>2, <1>3
<1>5. PICK z \in Seq({0}) : /\ ResultEncoded(TRUE) = Part(input, 1, result.pos) \o z
                            /\ z # <<>> => result.pos = End(input)
  BY <1>4 DEF Spelled
<1> DEFINE e == ResultEncoded(TRUE)
           s == Part(input, 1, result.pos)
<1>6. s \in Seq(Nat) /\ Len(s) = result.pos - 1
  <2>1. 1 <= result.pos
    BY <1>3 DEF Positions
  <2> QED
    BY <1>3, <2>1, InputsAreInputs, PartFacts
<1>7. PICK m \in Nat, k \in Nat : m = Len(s) /\ k = Len(z)
  BY <1>5, <1>6
<1>8. result.pos = m + 1
  BY <1>3, <1>6, <1>7 DEF Positions
<1>9. e = s \o z
  BY <1>5
<1> HIDE DEF e, s
<1>10. /\ Len(e) = m + k
       /\ \A i \in 1..m : e[i] = s[i]
       /\ \A i \in m + 1..m + k : e[i] = z[i - m]
  <2>1. PICK a \in Seq(Nat), b \in Seq({0}) : a = s /\ b = z
    BY <1>5, <1>6
  <2>2. /\ Len(a \o b) = Len(a) + Len(b)
        /\ \A i \in 1..Len(a) : (a \o b)[i] = a[i]
        /\ \A i \in Len(a) + 1..Len(a) + Len(b) : (a \o b)[i] = b[i - Len(a)]
    OBVIOUS
  <2>3. e = a \o b
    BY <1>9, <2>1
  <2> QED
    BY <1>7, <2>1, <2>2, <2>3
<1>11. SubSeq(e, 1, m) = s
  <2>1. SubSeq(e, 1, m) = [i \in 1..m |-> e[i]] /\ s = [i \in 1..m |-> s[i]]
    BY <1>6, <1>7, <1>10
  <2> QED
    BY <1>10, <2>1
<1>12. Octets(1, result.pos) = SubSeq(e, 1, result.pos - 1)
  <2>1. Octets(1, result.pos) = s
    BY DEF Octets, Part, substrate, s
  <2> QED
    BY <1>8, <1>11, <2>1
<1>13. ASSUME result.pos <= Len(e)
       PROVE  result.pos = End(input) /\ \A i \in result.pos..Len(e) : e[i] = 0
  <2>1. k # 0
    BY <1>8, <1>10, <1>13
  <2>2. z # <<>>
    BY <1>7, <2>1
  <2>3. ASSUME NEW i \in result.pos..Len(e)
        PROVE  e[i] = 0
    <3>1. i \in m + 1..m + k /\ i - m \in 1..k
      BY <1>8, <1>10
    <3>2. z[i - m] = 0
      BY <1>5, <1>7, <3>1
    <3> QED
      BY <1>10, <3>1, <3>2
  <2> QED
    BY <1>5, <2>2, <2>3
<1>14. result.pos - 1 <= Len(e)
  BY <1>8, <1>10
<1> QED
  BY <1>12, <1>13, <1>14 DEF e

(***************************************************************************)
(* DER has one spelling of a value: the octets that the DER decoder takes  *)
(* for a value are its definite-length encoding, with lengths in as few    *)
(* octets as possible, whatever the octets and the nesting limit.          *)
(***************************************************************************)
THEOREM DerIsOneSpelling == Spec => []DerIsCanonical
<1>1. IInv /\ GInv => DerIsCanonical
  BY OneSpellingInDer
<1> QED
  BY <1>1, Invariant, CallsKnowTheGrammar, PTL

(***************************************************************************)
(* CER likewise, with every constructed encoding of indefinite length, but *)
(* for end-of-octets that the substrate's end stands for, where no string  *)
(* is split into fragments.                                                *)
(***************************************************************************)
THEOREM CerIsOneSpelling == Spec => []CerIsCanonical
<1>1. IInv /\ GInv => CerIsCanonical
  BY OneSpellingInCer
<1> QED
  BY <1>1, Invariant, CallsKnowTheGrammar, PTL

-----------------------------------------------------------------------------
(* What is read a number of calls inside of a value.                       *)

Deepens(v, n, f) == f = [k \in 0..n |-> IF k = 0 THEN {v} ELSE InsideAll(f[k - 1])]

LEMMA InsideIsDefined ==
    ASSUME NEW v, NEW n \in Nat
    PROVE  \E f : Deepens(v, n, f)
<1> DEFINE D(f, m) == [k \in 0..m |-> IF k = 0 THEN {v} ELSE InsideAll(f[k - 1])]
           T == {m \in Nat : ~ \E f : f = D(f, m)}
<1>1. SUFFICES ASSUME T # {}
               PROVE  FALSE
  BY DEF Deepens
<1>2. PICK m \in T : \A k \in T : m <= k
  <2>1. T \subseteq Nat
    OBVIOUS
  <2> HIDE DEF T
  <2> QED
    BY <1>1, <2>1, LeastElement
<1>3. m \in Nat /\ ~ \E f : f = D(f, m)
  OBVIOUS
<1>4. m # 0
  <2> DEFINE f == [k \in 0..0 |-> {v}]
  <2>1. f = D(f, 0)
    OBVIOUS
  <2> HIDE DEF f, D
  <2> QED
    BY <1>3, <2>1
<1>5. m - 1 \in Nat /\ m - 1 \notin T
  <2> HIDE DEF T
  <2> QED
    BY <1>2, <1>3, <1>4
<1>6. PICK f : f = D(f, m - 1)
  <2> HIDE DEF D
  <2> QED
    BY <1>5
<1>7. \A k \in 0..m - 1 : f[k] = (IF k = 0 THEN {v} ELSE InsideAll(f[k - 1]))
  <2>1. \A k \in 0..m - 1 : D(f, m - 1)[k] = (IF k = 0 THEN {v} ELSE InsideAll(f[k - 1]))
    OBVIOUS
  <2> HIDE DEF D
  <2> QED
    BY <1>6, <2>1
<1> DEFINE g == [k \in 0..m |-> IF k = m THEN InsideAll(f[m - 1]) ELSE f[k]]
<1>8. ASSUME NEW k \in 0..m
      PROVE  g[k] = (IF k = 0 THEN {v} ELSE InsideAll(g[k - 1]))
  <2>1. CASE k = m
    <3>1. m - 1 \in 0..m /\ m - 1 # m /\ g[m - 1] = f[m - 1]
      BY <1>3, <1>5
    <3>2. g[k] = InsideAll(f[m - 1])
      BY <2>1
    <3> HIDE DEF g
    <3> QED
      BY <1>4, <2>1, <3>1, <3>2
  <2>2. CASE k # m
    <3>1. k \in 0..m - 1 /\ g[k] = f[k]
      BY <1>3, <2>2
    <3>2. k # 0 => k - 1 \in 0..m /\ k - 1 # m
      BY <1>3
    <3>3. k # 0 => g[k - 1] = f[k - 1]
      BY <3>2
    <3> HIDE DEF g
    <3> QED
      BY <1>7, <3>1, <3>3
  <2> QED
    BY <2>1, <2>2
<1>9. g = D(g, m)
  <2>1. g = [k \in 0..m |-> g[k]]
    OBVIOUS
  <2> HIDE DEF g
  <2> QED
    BY <1>8, <2>1
<1> HIDE DEF g, D
<1> QED
  BY <1>3, <1>9

LEMMA InsideUnfolds ==
    ASSUME NEW v, NEW n \in Nat
    PROVE  InsideAt(v, 0) = {v} /\ InsideAt(v, n + 1) = InsideAll(InsideAt(v, n))
<1> DEFINE D(f, m) == [k \in 0..m |-> IF k = 0 THEN {v} ELSE InsideAll(f[k - 1])]
           At(m) == CHOOSE f : f = D(f, m)
<1>1. ASSUME NEW m \in Nat
      PROVE  At(m) = D(At(m), m) /\ InsideAt(v, m) = At(m)[m]
  <2>1. \E f : f = D(f, m)
    <3>1. PICK f : Deepens(v, m, f)
      BY InsideIsDefined
    <3>2. f = D(f, m)
      BY <3>1 DEF Deepens
    <3> HIDE DEF D
    <3> QED
      BY <3>2
  <2>2. InsideAt(v, m) = At(m)[m]
    BY DEF InsideAt
  <2> HIDE DEF D
  <2> QED
    BY <2>1, <2>2
<1>2. ASSUME NEW m \in Nat, NEW k \in 0..m
      PROVE  At(m)[k] = IF k = 0 THEN {v} ELSE InsideAll(At(m)[k - 1])
  <2>1. PICK f : f = At(m)
    OBVIOUS
  <2>2. f = D(f, m)
    <3> HIDE DEF D, At
    <3> QED
      BY <1>1, <2>1
  <2>3. D(f, m)[k] = IF k = 0 THEN {v} ELSE InsideAll(f[k - 1])
    OBVIOUS
  <2> HIDE DEF D, At
  <2> QED
    BY <2>1, <2>2, <2>3
<1> HIDE DEF D, At
<1>3. InsideAt(v, 0) = {v}
  BY <1>1, <1>2
<1>4. At(n + 1)[n] = At(n)[n]
  <2>1. At(n + 1)[0] = At(n)[0]
    BY <1>2
  <2>2. ASSUME NEW i \in 1..n, At(n + 1)[i - 1] = At(n)[i - 1]
        PROVE  At(n + 1)[i] = At(n)[i]
    <3>1. i \in 0..n /\ i \in 0..n + 1 /\ i # 0 /\ n + 1 \in Nat
      OBVIOUS
    <3>2. At(n + 1)[i] = InsideAll(At(n + 1)[i - 1]) /\ At(n)[i] = InsideAll(At(n)[i - 1])
      BY <1>2, <3>1
    <3> QED
      BY <2>2, <3>2
  <2>3. GoAlike(n, At(n + 1), At(n))
    BY <2>1, <2>2 DEF GoAlike
  <2>4. \A i \in 0..n : At(n + 1)[i] = At(n)[i]
    BY <2>3, Coincidence
  <2> QED
    BY <2>4
<1>5. At(n + 1)[n + 1] = InsideAll(At(n + 1)[n])
  <2>1. n + 1 \in Nat /\ n + 1 \in 0..n + 1 /\ n + 1 # 0 /\ (n + 1) - 1 = n
    OBVIOUS
  <2> QED
    BY <1>2, <2>1
<1> QED
  BY <1>1, <1>3, <1>4, <1>5

\* From the outside: what is further inside is inside of something inside.
LEMMA InsideOfInside ==
    ASSUME NEW v, NEW n \in Nat, NEW w \in InsideAt(v, n + 1)
    PROVE  \E u \in Inside(v) : w \in InsideAt(u, n)
<1> DEFINE Bad(m) == \E t \in InsideAt(v, m + 1) : \A u \in Inside(v) : t \notin InsideAt(u, m)
           T == {m \in Nat : Bad(m)}
<1>1. SUFFICES ASSUME T # {}
               PROVE  FALSE
  OBVIOUS
<1>2. PICK m \in T : \A k \in T : m <= k
  <2>1. T \subseteq Nat
    OBVIOUS
  <2> HIDE DEF T
  <2> QED
    BY <1>1, <2>1, LeastElement
<1>3. m \in Nat
  OBVIOUS
<1>4. PICK t \in InsideAt(v, m + 1) : \A u \in Inside(v) : t \notin InsideAt(u, m)
  OBVIOUS
<1>5. PICK s \in InsideAt(v, m) : t \in Inside(s)
  <2>1. InsideAt(v, m + 1) = InsideAll(InsideAt(v, m))
    BY <1>3, InsideUnfolds
  <2> QED
    BY <1>4, <2>1 DEF InsideAll
<1>6. CASE m = 0
  <2>1. s = v
    BY <1>5, <1>6, InsideUnfolds
  <2>2. t \in InsideAt(t, 0)
    BY InsideUnfolds
  <2> QED
    BY <1>4, <1>5, <1>6, <2>1, <2>2
<1>7. CASE m # 0
  <2>1. PICK k \in Nat : m = k + 1
    BY <1>3, <1>7
  <2>2. k \notin T
    <3> HIDE DEF T
    <3> QED
      BY <1>2, <2>1
  <2>3. PICK u \in Inside(v) : s \in InsideAt(u, k)
    BY <1>5, <2>1, <2>2
  <2>4. InsideAt(u, k + 1) = InsideAll(InsideAt(u, k))
    BY InsideUnfolds
  <2>5. t \in InsideAt(u, m)
    BY <1>5, <2>1, <2>3, <2>4 DEF InsideAll
  <2> QED
    BY <1>4, <2>3, <2>5
<1> QED
  BY <1>6, <1>7

Entries(k) == {k[i] : i \in DOMAIN k}

LEMMA InsideOneTag ==
    ASSUME NEW a, NEW s, NEW o, NEW k, Len(s) = 1
    PROVE  Inside(Value(a, s, o, k)) = Entries(k)
<1>1. Value(a, s, o, k).tags = s /\ Value(a, s, o, k).kids = k
  BY DEF Value
<1>2. ~(Len(s) > 1)
  OBVIOUS
<1> QED
  BY <1>1, <1>2 DEF Inside, Entries

LEMMA InsideMoreTags ==
    ASSUME NEW a, NEW s, NEW o, NEW k, NEW S, s \in Seq(S), Len(s) > 0
    PROVE  \A t : Inside(Retagged(Value(a, s, o, k), t)) = {Value(a, s, o, k)}
<1>1. ASSUME NEW t
      PROVE  Inside(Retagged(Value(a, s, o, k), t)) = {Value(a, s, o, k)}
  <2>1. PICK b : b = Bare(t)
    OBVIOUS
  <2>2. PICK n \in Nat : n = Len(s)
    OBVIOUS
  <2>3. PICK g : g = Append(s, b)
    OBVIOUS
  <2>4. Len(g) = n + 1 /\ SubSeq(g, 1, n) = s
    <3>1. s \in Seq(S \cup {b}) /\ b \in S \cup {b}
      <4>1. S \subseteq S \cup {b}
        OBVIOUS
      <4> QED
        BY <4>1
    <3>2. g \in Seq(S \cup {b}) /\ Len(g) = n + 1 /\ \A i \in 1..n : g[i] = s[i]
      BY <2>2, <2>3, <3>1, AppendProperties
    <3>3. SubSeq(g, 1, n) \in Seq(S \cup {b}) /\ Len(SubSeq(g, 1, n)) = n
          /\ \A i \in 1..n : SubSeq(g, 1, n)[i] = g[i]
      BY <2>2, <3>2
    <3>4. \A i \in 1..n : SubSeq(g, 1, n)[i] = s[i]
      BY <3>2, <3>3
    <3> QED
      BY <2>2, <3>1, <3>2, <3>3, <3>4, SeqEqual
  <2>5. Retagged(Value(a, s, o, k), t) = Value(a, g, o, k)
    BY <2>1, <2>3, RetaggedFields
  <2>6. Inside(Value(a, g, o, k)) = {Value(a, SubSeq(g, 1, n), o, k)}
    <3>1. Len(g) > 1 /\ Len(g) - 1 = n
      BY <2>2, <2>4
    <3>2. Value(a, g, o, k).tags = g
      BY DEF Value
    <3>3. PICK h : h = SubSeq(g, 1, n)
      OBVIOUS
    <3>4. Inside(Value(a, g, o, k)) = {[Value(a, g, o, k) EXCEPT !.tags = h]}
      BY <3>1, <3>2, <3>3 DEF Inside
    <3>5. [Value(a, g, o, k) EXCEPT !.tags = h] = Value(a, h, o, k)
      BY DEF Value
    <3> QED
      BY <3>3, <3>4, <3>5
  <2> QED
    BY <2>4, <2>5, <2>6
<1> QED
  BY <1>1

\* Contents that begin with items and do not end at pos go on there.
LEMMA RunGoesOn ==
    ASSUME NEW in, IsInput(in), NEW f, NEW pos, InWindow(in, f, pos),
           NEW items, Progress(in, "none", f, pos, items),
           NEW to \in f.start..f.stop, IsEnd(in, f, to), to # pos,
           NEW r \in Run(in, "none", f.start, to, f.stop)
    PROVE  /\ Len(items) + 1 \in DOMAIN r
           /\ \E m \in Positions(in) : /\ m <= f.stop
                                       /\ r[Len(items) + 1] \in Item(in, "none", pos, m, f.stop)
<1>1. /\ f.start \in Positions(in) /\ f.stop \in Positions(in) /\ pos \in Positions(in)
      /\ to \in Positions(in) /\ to <= f.stop
  BY WindowPositions DEF InWindow
<1>2. PICK rest \in Run(in, "none", pos, to, f.stop) : r = items \o rest
  BY DEF Progress, After
<1>3. PICK m \in pos + 2..to : \E x \in Item(in, "none", pos, m, f.stop) :
          \E more \in Run(in, "none", m, to, f.stop) : rest = <<x>> \o more
  <2>1. Begins(in, "none", pos, to, f.stop, rest)
    BY <1>1, <1>2, RunBegins
  <2> QED
    BY <2>1, Zenon DEF Begins
<1>4. PICK x \in Item(in, "none", pos, m, f.stop), more \in Run(in, "none", m, to, f.stop) :
          rest = <<x>> \o more
  BY <1>3
<1>5. m \in Positions(in) /\ m <= f.stop
  BY <1>1 DEF Positions, IsInput
<1>6. /\ more \in Seq(Elements(in, "none")) /\ rest \in Seq(Elements(in, "none"))
      /\ items \in Seq(Elements(in, "none"))
  BY <1>1, <1>2, <1>5, RunsAreSequences DEF Progress
<1>7. PICK n \in Nat, l \in Nat : n = Len(items) /\ l = Len(more)
  BY <1>6
<1>8. Len(rest) = 1 + l /\ rest[1] = x
  BY <1>4, <1>6, <1>7
<1>9. Len(r) = n + (1 + l) /\ DOMAIN r = 1..Len(r)
  <2>1. r \in Seq(Elements(in, "none")) /\ Len(r) = Len(items) + Len(rest)
    BY <1>2, <1>6, ConcatProperties
  <2> QED
    BY <1>7, <1>8, <2>1
<1>10. n + 1 \in 1..n + (1 + l) /\ r[n + 1] = rest[1]
  BY <1>2, <1>6, <1>7, <1>8
<1> QED
  BY <1>4, <1>5, <1>7, <1>8, <1>9, <1>10

\* The contents of what starts at p end where frame f, which read the header,
\* lets them.
LEMMA HeldContents ==
    ASSUME NEW in, IsInput(in), NEW p, NEW f, HeaderRead(in, p, f),
           NEW q \in Positions(in), q <= f.end, NEW unclosed, NEW r,
           Holds(in, p, q, f.end, unclosed, r)
    PROVE  \E to \in f.start..f.stop : IsEnd(in, f, to) /\ r \in Run(in, "none", f.start, to, f.stop)
<1>1. /\ p \in Int /\ f.end \in Int /\ f.start \in Int /\ f.stop \in Int /\ q \in Int
      /\ f.stop \in f.start..f.end
  BY HeaderReadFacts DEF Positions
<1>2. PICK to \in Positions(in), within \in Positions(in) :
          /\ IsInside(in, p, q, f.end, unclosed, to, within)
          /\ r \in Run(in, "none", ContentsAt(in, p), to, within)
  BY DEF Holds
<1>3. f.start = ContentsAt(in, p) /\ f.start <= to /\ to <= q
  BY <1>2 DEF IsInside, HeaderRead
<1>4. CASE ~IsIndefiniteAt(in, p)
  <2>1. EndsAt(in, p, q) /\ to = q /\ within = q
    BY <1>2, <1>4 DEF IsInside
  <2>2. f.stop = q
    BY <1>4, <2>1 DEF EndsAt, HeaderRead
  <2> QED
    BY <1>1, <1>2, <1>3, <2>1, <2>2 DEF IsEnd
<1>5. CASE IsIndefiniteAt(in, p)
  <2>1. f.len = Indefinite /\ f.stop = f.end /\ within = f.end
    BY <1>2, <1>5 DEF IsInside, HeaderRead
  <2>2. CASE to = q - 2 /\ ZerosAt(in, q - 2)
    <3>1. Zeros(in, to, f.stop)
      BY <1>1, <2>1, <2>2 DEF Zeros
    <3> QED
      BY <1>1, <1>2, <1>3, <2>1, <3>1 DEF IsEnd
  <2>3. CASE to = q /\ q = f.end
    BY <1>1, <1>2, <1>3, <2>1, <2>3 DEF IsEnd
  <2> QED
    BY <1>2, <1>5, <2>2, <2>3 DEF IsInside
<1> QED
  BY <1>4, <1>5

\* What is read where a call waits is inside of what is read where the call began.
Goes(in, f, v) ==
    \E m \in Positions(in) : \E u \in Inside(v) :
        m <= f.stop /\ u \in Item(in, "none", f.pos, m, f.stop)

\* The run r of contents goes on at f.pos, behind the first n items.
GoesOn(in, f, n, r) ==
    /\ n + 1 \in DOMAIN r
    /\ \E m \in Positions(in) : m <= f.stop /\ r[n + 1] \in Item(in, "none", f.pos, m, f.stop)

Held(in, p, q, w, r) == \E unclosed : Holds(in, p, q, w, unclosed, r)

LEMMA ItemsAreInside ==
    ASSUME NEW in, IsInput(in), StringsArePlain(in), NEW p \in Positions(in), NEW f,
           HeaderRead(in, p, f), NEW q \in Positions(in), q <= f.end,
           NEW v \in Item(in, "none", p, q, f.end),
           IsContainer(in.octets[p]) \/ IsTagged(in.octets[p]),
           NEW n \in Nat,
           \A r : Held(in, p, q, f.end, r) /\ (IsContainer(in.octets[p]) \/ Len(r) > 0)
                      => GoesOn(in, f, n, r)
    PROVE  Goes(in, f, v)
<1>1. PICK t \in Octet : t = in.octets[p]
  BY HeaderReadFacts
<1>2. PICK s \in Seq(Octet) : s = <<Bare(t)>> /\ Len(s) = 1 /\ Len(s) > 0
  <2>1. PICK b \in Octet : b = Bare(t)
    BY BareIsAnOctet
  <2>2. <<b>> \in Seq(Octet) /\ Len(<<b>>) = 1 /\ Len(<<b>>) > 0
    OBVIOUS
  <2> QED
    BY <2>1, <2>2
<1>3. f.end \in Positions(in)
  BY DEF HeaderRead
<1>4. CASE IsBuilt(in, p, q, f.end, v)
  <2>1. PICK r : /\ Holds(in, p, q, f.end, TRUE, r) /\ v = Container(<<Bare(t)>>, r)
                 /\ IsContainer(t) \/ Len(r) > 1
    BY <1>1, <1>4 DEF IsBuilt
  <2>2. r \in Seq(Elements(in, "none"))
    BY <2>1, RunsOfContents
  <2>3. Len(r) > 1 => Len(r) > 0
    BY <2>2
  <2>4. GoesOn(in, f, n, r)
    <3>1. Held(in, p, q, f.end, r)
      BY <2>1, Zenon DEF Held
    <3> QED
      BY <1>1, <2>1, <2>3, <3>1
  <2>5. PICK a : v = Value(a, s, <<>>, r)
    BY <1>2, <2>1 DEF Container, Value
  <2>6. Inside(v) = Entries(r)
    <3>1. Len(s) = 1 => Inside(Value(a, s, <<>>, r)) = Entries(r)
      BY InsideOneTag
    <3> QED
      BY <1>2, <2>5, <3>1
  <2> QED
    BY <2>4, <2>6 DEF Goes, GoesOn, Entries
<1>5. CASE IsRetagged(in, p, q, f.end, v)
  <2>1. PICK r : /\ Holds(in, p, q, f.end, FALSE, r) /\ Len(r) = 1 /\ v = Retagged(r[1], t)
    BY <1>1, <1>5 DEF IsRetagged
  <2>2. r \in Seq(Elements(in, "none")) /\ DOMAIN r = {1}
    <3>1. r \in Seq(Elements(in, "none"))
      BY <2>1, RunsOfContents
    <3>2. DOMAIN r = 1..1
      BY <2>1, <3>1
    <3> QED
      BY <3>1, <3>2
  <2>3. GoesOn(in, f, n, r)
    <3>1. Held(in, p, q, f.end, r)
      BY <2>1, Zenon DEF Held
    <3>2. Len(r) > 0
      BY <2>1
    <3> QED
      BY <3>1, <3>2
  <2>4. n + 1 = 1
    BY <2>2, <2>3 DEF GoesOn
  <2>5. PICK y \in Elements(in, "none") : y = r[1]
    <3>1. 1 \in 1..Len(r)
      BY <2>1
    <3> QED
      BY <2>2, <3>1, ElementOfSeq
  <2>6. IsShaped(in, y)
    BY ValuesAreShaped
  <2>7. PICK a, g, o, k : y = Value(a, g, o, k) /\ g \in Seq(Nat) /\ Len(g) > 0
    BY <2>6, Zenon DEF IsShaped
  <2>8. Inside(Retagged(y, t)) = {y}
    BY <2>7, InsideMoreTags
  <2> QED
    BY <2>1, <2>3, <2>4, <2>5, <2>8 DEF Goes, GoesOn
<1>6. CASE IsPlain(in, p, q, v)
  BY <1>6 DEF IsPlain, IsContainer, IsTagged, Universal, Constructed, TagId
<1> QED
  BY <1>3, <1>4, <1>5, <1>6, ValuesAreRead

LEMMA WaitingIsInside ==
    ASSUME NEW in, IsInput(in), StringsArePlain(in), NEW up, NEW f, NEW ps,
           Knows(in, up, f, ps), f.st = "wait", f.spec = "none",
           f.pos \in f.start..f.stop,
           NEW c, CalledBy(in, f, c), TagRead(in, f, c),
           NEW q \in Positions(in), q <= f.end, NEW v \in Item(in, "none", up.pos, q, f.end)
    PROVE  f.decoder # "OctetString" /\ Goes(in, f, v)
<1> DEFINE p == up.pos
<1>1. /\ HeaderRead(in, p, f) /\ p \in Positions(in) /\ HeaderFits(in, p, f.end)
      /\ f.end \in Positions(in)
  BY DEF Knows, HeaderRead
<1>2. InWindow(in, f, f.pos) /\ InWindow(in, f, f.start)
  BY <1>1, HeaderReadFacts DEF InWindow
<1>3. f.pos < f.stop /\ (Probes(f) => ~Zeros(in, f.pos, f.stop))
  BY DEF CalledBy, TagRead
<1>4. f.pos \in Int /\ f.stop \in Int /\ f.start \in Int
  BY <1>1, HeaderReadFacts DEF Positions
<1>5. ~ReadsFragments(in, p, f, ps)
  BY <1>1 DEF ReadsFragments, StringsArePlain
<1>6. ~IsEnd(in, f, f.pos) \/ f.decoder = "ExplicitTag"
  BY <1>3, <1>4 DEF IsEnd, Probes
<1> HIDE DEF p
<1>7. ASSUME NEW items, Progress(in, "none", f, f.pos, items), NEW r, Held(in, p, q, f.end, r),
             ~IsEnd(in, f, f.pos) \/ (f.pos = f.start /\ Len(r) > 0)
      PROVE  GoesOn(in, f, Len(items), r)
  <2>1. PICK to \in f.start..f.stop :
            IsEnd(in, f, to) /\ r \in Run(in, "none", f.start, to, f.stop)
    <3>1. PICK unclosed : Holds(in, p, q, f.end, unclosed, r)
      BY <1>7, Zenon DEF Held
    <3> QED
      BY <1>1, <3>1, HeldContents
  <2>2. to # f.pos
    <3>1. CASE ~IsEnd(in, f, f.pos)
      BY <2>1, <3>1
    <3>2. CASE f.pos = f.start /\ Len(r) > 0
      <4>1. SUFFICES ASSUME to = f.start
                     PROVE  FALSE
        BY <3>2
      <4>2. f.start \in Positions(in) /\ f.stop \in Positions(in)
        BY <1>2 DEF InWindow
      <4>3. Run(in, "none", f.start, to, f.stop) = {<<>>}
        BY <4>1, <4>2, RunsUnfold
      <4> QED
        BY <2>1, <3>2, <4>3
    <3> QED
      BY <1>7, <3>1, <3>2
  <2> QED
    BY <1>2, <1>7, <2>1, <2>2, RunGoesOn DEF GoesOn
<1>8. CASE ReadsComponents(in, p, f, ps)
  <2>1. /\ IsContainer(in.octets[p]) \/ IsTagged(in.octets[p])
        /\ Progress(in, "none", f, f.pos, ps) /\ f.decoder = "Constructed"
    BY <1>8 DEF ReadsComponents
  <2>2. Len(ps) \in Nat
    BY <2>1 DEF Progress
  <2>3. ASSUME NEW r, Held(in, p, q, f.end, r)
        PROVE  GoesOn(in, f, Len(ps), r)
    <3>1. ~IsEnd(in, f, f.pos)
      BY <1>6, <2>1
    <3> QED
      BY <1>7, <2>1, <2>3, <3>1, Zenon
  <2> QED
    BY <1>1, <2>1, <2>2, <2>3, ItemsAreInside DEF p
<1>9. CASE ReadsValue(in, p, f, ps)
  <2>1. /\ IsTagged(in.octets[p]) /\ ~IsContainer(in.octets[p]) /\ f.pos = f.start
        /\ f.decoder = "ExplicitTag"
    BY <1>9 DEF ReadsValue, IsContainer, IsTagged
  <2>2. Progress(in, "none", f, f.pos, <<>>) /\ Len(<<>>) = 0
    BY <1>2, <2>1, ProgressBegins
  <2>3. \A r : Held(in, p, q, f.end, r) /\ Len(r) > 0 => GoesOn(in, f, 0, r)
    BY <1>7, <2>1, <2>2
  <2> QED
    BY <1>1, <2>1, <2>3, ItemsAreInside DEF p
<1>10. CASE ReadsEnd(in, p, f, ps)
  <2>1. /\ IsTagged(in.octets[p]) /\ f.decoder = "ExplicitEnd"
    BY <1>10 DEF ReadsEnd
  <2>2. PICK x : Only(in, "none", f.start, f.stop, f.pos, x)
    BY <1>10 DEF ReadsEnd
  <2>3. Progress(in, "none", f, f.pos, <<x>>) /\ Len(<<x>>) = 1
    BY <1>1, <2>2, FirstItem
  <2>4. ASSUME NEW r, Held(in, p, q, f.end, r)
        PROVE  GoesOn(in, f, 1, r)
    <3>1. ~IsEnd(in, f, f.pos)
      BY <1>6, <2>1
    <3>2. GoesOn(in, f, Len(<<x>>), r)
      BY <1>7, <2>3, <2>4, <3>1, Zenon
    <3> QED
      BY <2>3, <3>2
  <2> QED
    BY <1>1, <2>1, <2>4, ItemsAreInside DEF p
<1> QED
  BY <1>5, <1>8, <1>9, <1>10 DEF Knows, p

\* Where the call at level i began there is a value i - 1 calls inside of v.
Reaches(v, i) ==
    /\ frames[i].spec = "none"
    /\ \E u \in InsideAt(v, i - 1) : \E m \in Positions(input) :
          m <= frames[i].end /\ u \in Item(input, "none", Up(i).pos, m, frames[i].end)

LEMMA ReachesFurther ==
    ASSUME IInv, GInv, HasNoConstructedString(input),
           NEW i \in 1..depth, i < depth - 1, NEW v, Reaches(v, i)
    PROVE  Reaches(v, i + 1)
<1>1. depth \in Nat /\ i \in Nat /\ i + 1 \in 1..depth /\ i + 1 # 1 /\ (i + 1) - 1 = i /\ i \in Levels
  BY MaxNestingAssumption DEF IInv, TypeOK, Levels
<1>2. PICK f : f = frames[i]
  OBVIOUS
<1>3. PICK c : c = frames[i + 1]
  OBVIOUS
<1>4. Up(i + 1) = f
  BY <1>1, <1>2 DEF Up
<1>5. Knows(input, Up(i), f, parts[i]) /\ Knows(input, f, c, parts[i + 1])
  BY <1>1, <1>2, <1>3, <1>4 DEF GInv, FramesKnow
<1>6. f.st = "wait" /\ c.st = "wait"
  BY <1>1, <1>2, <1>3 DEF IInv, WindowsNested
<1>7. f.pos \in f.start..f.stop
  <2>1. f \in Frame
    BY <1>1, <1>2 DEF IInv, TypeOK
  <2>2. f.start <= f.pos /\ f.pos <= f.stop
    BY <1>2 DEF IInv, WindowsNested
  <2> QED
    BY <2>1, <2>2 DEF Frame
<1>8. CalledBy(input, f, c) /\ TagRead(input, f, c)
  BY <1>5, <1>6 DEF Knows
<1>9. PICK u \in InsideAt(v, i - 1), m \in Positions(input) :
          m <= f.end /\ u \in Item(input, "none", Up(i).pos, m, f.end)
  BY <1>2 DEF Reaches
<1>10. f.spec = "none"
  BY <1>2 DEF Reaches
<1>11. f.decoder # "OctetString" /\ Goes(input, f, u)
  BY <1>5, <1>6, <1>7, <1>8, <1>9, <1>10, InputsAreInputs, PlainStrings, WaitingIsInside
<1>12. PICK k \in Positions(input), w \in Inside(u) :
           k <= f.stop /\ w \in Item(input, "none", f.pos, k, f.stop)
  BY <1>11 DEF Goes
<1>13. w \in InsideAt(v, i)
  <2>1. PICK j \in Nat : i = j + 1 /\ j = i - 1
    BY <1>1
  <2>2. InsideAt(v, j + 1) = InsideAll(InsideAt(v, j))
    BY InsideUnfolds
  <2>3. w \in InsideAll(InsideAt(v, j))
    BY <1>9, <1>12, <2>1 DEF InsideAll
  <2> QED
    BY <2>1, <2>2, <2>3
<1>14. c.end = f.stop /\ c.spec = "none"
  BY <1>8, <1>11 DEF CalledBy, Asks
<1> QED
  BY <1>1, <1>3, <1>4, <1>12, <1>13, <1>14 DEF Reaches

LEMMA CallsReachInside ==
    ASSUME IInv, GInv, HasNoConstructedString(input), depth > 1,
           NEW q \in Positions(input), NEW v \in Values(input, 1, q, End(input)), q <= End(input)
    PROVE  InsideAt(v, depth - 2) # {}
<1>1. depth \in Nat /\ 1 \in 1..depth /\ depth - 1 \in 1..depth
  BY DEF IInv, TypeOK
<1>2. Reaches(v, 1)
  <2>1. Knows(input, Root(input), frames[1], parts[1]) /\ Up(1) = Root(input)
    BY <1>1 DEF GInv, FramesKnow, Up
  <2>2. frames[1].spec = "none" /\ frames[1].end = End(input) /\ Up(1).pos = 1
    BY <2>1, RootFields DEF Knows, CalledBy
  <2>3. v \in InsideAt(v, 1 - 1)
    BY InsideUnfolds
  <2>4. v \in Item(input, "none", 1, q, End(input))
    BY DEF Values, Item
  <2> QED
    BY <2>2, <2>3, <2>4 DEF Reaches
<1> DEFINE T == {n \in Nat : n \in 1..depth - 1 /\ ~Reaches(v, n)}
<1>3. T = {}
  <2>1. SUFFICES ASSUME T # {}
                 PROVE  FALSE
    OBVIOUS
  <2>2. PICK n \in T : \A k \in T : n <= k
    <3>1. T \subseteq Nat
      OBVIOUS
    <3> HIDE DEF T
    <3> QED
      BY <2>1, <3>1, LeastElement
  <2>3. n \in Nat /\ n \in 1..depth - 1 /\ ~Reaches(v, n)
    OBVIOUS
  <2>4. n # 1
    BY <1>2, <2>3
  <2>5. PICK i \in Nat : n = i + 1
    BY <2>3, <2>4
  <2>6. i \in 1..depth - 1 /\ i \in 1..depth /\ i < depth - 1 /\ i \notin T
    <3>1. i \in 1..depth - 1 /\ i \in 1..depth /\ i < depth - 1 /\ ~(n <= i)
      BY <1>1, <2>3, <2>4, <2>5
    <3> HIDE DEF T
    <3> QED
      BY <2>2, <3>1
  <2>7. Reaches(v, i)
    BY <2>6
  <2>8. Reaches(v, i + 1)
    BY <2>6, <2>7, ReachesFurther
  <2> QED
    BY <2>3, <2>5, <2>8
<1>4. Reaches(v, depth - 1)
  <2>1. depth - 1 \in Nat /\ depth - 1 \in 1..depth - 1
    BY <1>1
  <2>2. depth - 1 \notin T
    <3> HIDE DEF T
    <3> QED
      BY <1>3
  <2> QED
    BY <2>1, <2>2
<1>5. (depth - 1) - 1 = depth - 2
  BY <1>1
<1> QED
  BY <1>4, <1>5 DEF Reaches

-----------------------------------------------------------------------------
(* How many calls the values decoded so far take.                          *)

\* val, decoded under the tags given, has nothing n calls inside of it.
Fits(val, given, n) ==
    \E x : IsValue(x) /\ Len(x.tags) > 0 /\ val = Under(x, given) /\ InsideAt(x, n) = {}

\* The tags that what frame f keeps was found under.
Carried(f) == IF f.decoder \in {"ExplicitTag", "ExplicitEnd"} THEN f.tags ELSE <<>>

\* The calls left for what is called at level i.
Left(i) == MaxNesting + 1 - i

PartsFit(f, ps, i) == \A j \in DOMAIN ps : Fits(ps[j], Carried(f), Left(i))

AnswerFits(f, val, i) == Fits(val, Given(f), Left(i))

NInv ==
    /\ \A i \in 1..depth : PartsFit(frames[i], parts[i], i)
    /\ Running("wait") => AnswerFits(F, result.val, depth)
    /\ status = "value" => Fits(result.val, <<>>, MaxNesting + 1)
    /\ status = "nesting" /\ HasNoConstructedString(input) =>
           \A q \in 1..End(input) : \A v \in Values(input, 1, q, End(input)) :
               InsideAt(v, MaxNesting) # {}

LEMMA NothingFurtherInside ==
    ASSUME NEW v, NEW n \in Nat, \A u \in Inside(v) : InsideAt(u, n) = {}
    PROVE  InsideAt(v, n + 1) = {}
  BY InsideOfInside

LEMMA LeavesFit ==
    ASSUME NEW t \in Octet, NEW given \in Seq(Octet), NEW type, NEW octs, NEW n \in Nat
    PROVE  Fits(Leaf(type, Bares(<<t>> \o given), octs), given, n + 1)
<1> DEFINE x == Leaf(type, <<Bare(t)>>, octs)
<1>1. IsValue(x) /\ Leaf(type, Bares(<<t>> \o given), octs) = Under(x, given)
  BY LeavesUnderTags
<1>2. PICK s : s = <<Bare(t)>> /\ Len(s) = 1
  <2>1. PICK b \in Octet : b = Bare(t)
    BY BareIsAnOctet
  <2>2. Len(<<b>>) = 1
    OBVIOUS
  <2> QED
    BY <2>1, <2>2
<1>3. x = Value(type, s, octs, <<>>)
  BY <1>2 DEF Leaf, Value
<1>4. x.tags = s
  BY <1>3 DEF Value
<1>5. Inside(Value(type, s, octs, <<>>)) = Entries(<<>>)
  BY <1>2, InsideOneTag
<1>6. Entries(<<>>) = {}
  BY DEF Entries
<1> HIDE DEF x
<1>7. InsideAt(x, n + 1) = {}
  <2>1. Inside(x) = {}
    BY <1>3, <1>5, <1>6
  <2> QED
    BY <2>1, NothingFurtherInside
<1>8. Len(x.tags) > 0
  BY <1>2, <1>4
<1> QED
  BY <1>1, <1>7, <1>8 DEF Fits

LEMMA ContainersFit ==
    ASSUME NEW t \in Octet, NEW given \in Seq(Octet), NEW kids, NEW n \in Nat,
           \A j \in DOMAIN kids : Fits(kids[j], <<>>, n)
    PROVE  Fits(Container(Bares(<<t>> \o given), kids), given, n + 1)
<1> DEFINE x == Container(<<Bare(t)>>, kids)
<1>1. IsValue(x) /\ Container(Bares(<<t>> \o given), kids) = Under(x, given)
  BY ContainersUnderTags
<1>2. PICK s : s = <<Bare(t)>> /\ Len(s) = 1
  <2>1. PICK b \in Octet : b = Bare(t)
    BY BareIsAnOctet
  <2>2. Len(<<b>>) = 1
    OBVIOUS
  <2> QED
    BY <2>1, <2>2
<1>3. PICK a : x = Value(a, s, <<>>, kids)
  BY <1>2 DEF Container, Value
<1>4. x.tags = s
  BY <1>3 DEF Value
<1>5. Inside(Value(a, s, <<>>, kids)) = Entries(kids)
  BY <1>2, InsideOneTag
<1> HIDE DEF x
<1>6. ASSUME NEW u \in Inside(x)
      PROVE  InsideAt(u, n) = {}
  <2>1. PICK j \in DOMAIN kids : u = kids[j]
    BY <1>3, <1>5 DEF Entries
  <2>2. Fits(u, <<>>, n)
    BY <2>1
  <2>3. PICK y : IsValue(y) /\ u = Under(y, <<>>) /\ InsideAt(y, n) = {}
    BY <2>2 DEF Fits
  <2>4. u = y
    BY <2>3, UnderNoTags
  <2> QED
    BY <2>3, <2>4
<1>7. InsideAt(x, n + 1) = {}
  BY <1>6, NothingFurtherInside
<1>8. Len(x.tags) > 0
  BY <1>2, <1>4
<1> QED
  BY <1>1, <1>7, <1>8 DEF Fits

LEMMA TaggedFit ==
    ASSUME NEW t \in Octet, NEW given \in Seq(Octet), NEW n \in Nat,
           NEW val, Fits(val, <<t>> \o given, n)
    PROVE  Fits(val, given, n + 1)
<1>1. PICK y : IsValue(y) /\ Len(y.tags) > 0 /\ val = Under(y, <<t>> \o given) /\ InsideAt(y, n) = {}
  BY Zenon DEF Fits
<1>2. IsValue(Retagged(y, t)) /\ Under(y, <<t>> \o given) = Under(Retagged(y, t), given)
  BY <1>1, TaggedUnderTags
<1>3. PICK a, s, o, k : s \in Seq(Octet) /\ y = Value(a, s, o, k)
  BY <1>1, FieldsOfValues
<1>4. y.tags = s
  BY <1>3 DEF Value
<1>5. Len(s) > 0
  BY <1>1, <1>4
<1>6. Inside(Retagged(y, t)) = {y}
  BY <1>3, <1>5, InsideMoreTags
<1>7. InsideAt(Retagged(y, t), n + 1) = {}
  BY <1>1, <1>6, NothingFurtherInside
<1>8. Len(Retagged(y, t).tags) > 0
  <2>1. PICK b : b = Bare(t)
    OBVIOUS
  <2>2. Retagged(y, t).tags = Append(s, b)
    <3>1. Retagged(y, t) = Value(a, Append(s, b), o, k)
      BY <1>3, <2>1, RetaggedFields
    <3> QED
      BY <3>1 DEF Value
  <2>3. PICK m \in Nat : m = Len(s)
    BY <1>3
  <2>4. Len(Append(s, b)) = m + 1
    BY <1>3, <2>3
  <2> QED
    BY <2>2, <2>3, <2>4
<1> QED
  BY <1>1, <1>2, <1>7, <1>8 DEF Fits

LEMMA SentinelFits ==
    ASSUME NEW n \in Nat
    PROVE  Fits(EndOfOctets, <<>>, n + 1)
<1>1. 0 \in Octet /\ Bare(0) = 0
  BY DEF Octet, Bare, Constructed
<1>2. <<0>> \o <<>> = <<0>> /\ <<>> \in Seq(Octet)
  BY <1>1
<1>3. Bares(<<0>>) = <<0>>
  BY <1>1 DEF Bares
<1>4. Fits(Leaf("EndOfOctets", Bares(<<0>> \o <<>>), <<>>), <<>>, n + 1)
  BY <1>1, <1>2, LeavesFit
<1> QED
  BY <1>2, <1>3, <1>4 DEF EndOfOctets

-----------------------------------------------------------------------------
(* How a step ends, for NInv.                                              *)

\* A call that has read its identifier may call again; it takes one call more
\* than what it calls for.
LEMMA CallsAreLeft ==
    ASSUME Known, depth <= MaxNesting + 1
    PROVE  Left(depth) \in Nat /\ Left(depth - 1) = Left(depth) + 1
  BY DEF Known, Left

LEMMA RaiseFits ==
    ASSUME NEW kind \in {"underrun", "malformed", "unmodelled"}, Raise(kind)
    PROVE  NInv'
  BY DEF Raise, NInv, Running

LEMMA ReturnFits ==
    ASSUME IInv, NInv, status = "decoding", depth > 0, NEW value, NEW pos,
           Return(value, pos), AnswerFits(Up(depth), value, depth - 1)
    PROVE  NInv'
<1>1. depth \in 1..MaxNesting + 2 /\ depth \in Levels /\ depth \in Nat /\ MaxNesting \in Nat
  BY MaxNestingAssumption DEF IInv, TypeOK, Levels
<1>2. /\ depth' = depth - 1 /\ result' = [val |-> value, pos |-> pos]
      /\ status' = IF depth = 1 THEN "value" ELSE "decoding"
      /\ \A i \in 1..depth - 1 : frames'[i] = frames[i] /\ parts'[i] = parts[i]
  BY <1>1 DEF IInv, Return, TypeOK, Levels
<1>3. result'.val = value
  BY <1>2
<1>4. \A i \in 1..depth' : PartsFit(frames'[i], parts'[i], i)
  <2>1. \A i \in 1..depth - 1 : PartsFit(frames[i], parts[i], i)
    BY <1>1 DEF NInv
  <2> QED
    BY <1>2, <2>1
<1>5. Running("wait")' => AnswerFits(F', result'.val, depth')
  <2>1. SUFFICES ASSUME depth' > 0
                 PROVE  AnswerFits(F', value, depth - 1)
    BY <1>2, <1>3 DEF Running
  <2>2. depth - 1 \in 1..depth - 1 /\ depth # 1
    BY <1>1, <1>2, <2>1
  <2>3. F' = frames[depth - 1]
    BY <1>2, <2>2 DEF F
  <2>4. Up(depth) = frames[depth - 1]
    BY <2>2 DEF Up
  <2> QED
    BY <2>3, <2>4
<1>6. status' = "value" => Fits(result'.val, <<>>, MaxNesting + 1)
  <2>1. depth = 1 => Given(Up(depth)) = <<>> /\ Left(depth - 1) = MaxNesting + 1
    BY <1>1, RootFields DEF Up, Left
  <2> QED
    BY <1>2, <1>3, <2>1 DEF AnswerFits
<1>7. status' # "nesting"
  BY <1>2
<1> QED
  BY <1>4, <1>5, <1>6, <1>7 DEF NInv

LEMMA ContinueFits ==
    ASSUME IInv, NInv, status = "decoding", depth > 0, NEW f, NEW p,
           PartsFit(f, p, depth), f.st # "wait",
           Continue(f), \A i \in Levels : parts'[i] = IF i = depth THEN p ELSE parts[i]
    PROVE  NInv'
<1>1. depth \in 1..MaxNesting + 2 /\ depth \in Levels /\ depth \in Nat /\ MaxNesting \in Nat
  BY MaxNestingAssumption DEF IInv, TypeOK, Levels
<1>2. /\ depth' = depth /\ status' = status
      /\ frames'[depth] = f
      /\ \A i \in 1..depth - 1 : frames'[i] = frames[i] /\ i \in Levels
  BY <1>1 DEF IInv, Continue, TypeOK, Levels
<1>3. \A i \in 1..depth' : PartsFit(frames'[i], parts'[i], i)
  <2>1. SUFFICES ASSUME NEW i \in 1..depth
                 PROVE  PartsFit(frames'[i], parts'[i], i)
    BY <1>2
  <2>2. CASE i = depth
    BY <1>1, <1>2, <2>2
  <2>3. CASE i # depth
    <3>1. i \in 1..depth - 1
      BY <1>1, <2>3
    <3> QED
      BY <1>2, <2>3, <3>1 DEF NInv
  <2> QED
    BY <2>2, <2>3
<1>4. ~Running("wait")'
  BY <1>2 DEF Running, F
<1> QED
  BY <1>2, <1>3, <1>4 DEF NInv

LEMMA CallFits ==
    ASSUME IInv, GInv, NInv, status = "decoding", depth > 0, depth <= MaxNesting + 1,
           NEW f, NEW new, PartsFit(f, parts[depth], depth), new.st = "enter",
           frames' = [frames EXCEPT ![depth] = f, ![depth + 1] = new],
           depth' = depth + 1, UNCHANGED <<input, parts, result, status>>
    PROVE  NInv'
<1>1. /\ depth \in 1..MaxNesting + 1 /\ depth \in Levels /\ depth \in Nat /\ MaxNesting \in Nat
      /\ depth + 1 \in Levels
  BY MaxNestingAssumption DEF IInv, TypeOK, Levels
<1>2. /\ frames'[depth] = f /\ frames'[depth + 1] = new
      /\ \A i \in 1..depth - 1 : frames'[i] = frames[i]
  <2>1. frames \in [Levels -> Frame] /\ depth # depth + 1
    BY <1>1 DEF IInv, TypeOK
  <2>2. \A i \in 1..depth - 1 : i # depth /\ i # depth + 1 /\ i \in Levels
    BY <1>1 DEF Levels
  <2>3. \A i \in Levels : frames'[i] = IF i = depth + 1 THEN new ELSE IF i = depth THEN f ELSE frames[i]
    BY <2>1, <1>1
  <2> QED
    BY <2>1, <2>2, <2>3, <1>1
<1>3. \A i \in 1..depth' : PartsFit(frames'[i], parts'[i], i)
  <2>1. SUFFICES ASSUME NEW i \in 1..depth + 1
                 PROVE  PartsFit(frames'[i], parts[i], i)
    OBVIOUS
  <2>2. CASE i = depth
    BY <1>1, <1>2, <2>2
  <2>3. CASE i = depth + 1
    <3>1. parts[i] = <<>>
      <4>1. i \in Levels /\ i > depth
        BY <1>1, <2>3
      <4> QED
        BY <4>1 DEF GInv, UnusedAreEmpty
    <3> QED
      BY <3>1 DEF PartsFit
  <2>4. CASE i # depth /\ i # depth + 1
    <3>1. i \in 1..depth - 1 /\ i \in 1..depth
      BY <1>1, <2>4
    <3> QED
      BY <1>2, <2>4, <3>1 DEF NInv
  <2> QED
    BY <2>2, <2>3, <2>4
<1>4. ~Running("wait")'
  BY <1>2 DEF Running, F
<1>5. status' = "decoding"
  OBVIOUS
<1> QED
  BY <1>3, <1>4, <1>5 DEF NInv

-----------------------------------------------------------------------------
(* The actions, for NInv.                                                  *)

LEMMA InitFits == Init => NInv
<1> SUFFICES ASSUME Init
             PROVE  NInv
  OBVIOUS
<1>1. depth = 1 /\ status = "decoding" /\ 1 \in Levels /\ parts[1] = <<>> /\ ~Running("wait")
  BY MaxNestingAssumption DEF Init, Called, Levels, Running, F, NewFrame
<1> QED
  BY <1>1 DEF NInv, PartsFit

LEMMA NestingExceededFits ==
    ASSUME IInv, GInv, NestingExceeded
    PROVE  NInv'
<1>1. /\ status' = "nesting" /\ depth' = 0 /\ input' = input
  BY DEF NestingExceeded, Raise
<1>2. Known /\ depth - 1 > MaxNesting
  BY RunningKnows DEF NestingExceeded, TooDeep
<1>3. depth - 2 = MaxNesting /\ depth > 1
  BY <1>2 DEF Known
<1>4. ASSUME HasNoConstructedString(input), NEW q \in 1..End(input),
             NEW v \in Values(input, 1, q, End(input))
      PROVE  InsideAt(v, MaxNesting) # {}
  <2>1. q \in Positions(input) /\ q <= End(input)
    BY InputsAreInputs DEF End, Positions
  <2>2. InsideAt(v, depth - 2) # {}
    BY <1>3, <1>4, <2>1, CallsReachInside
  <2> QED
    BY <1>3, <2>2
<1>5. ~Running("wait")'
  BY <1>1 DEF Running
<1>6. \A i \in 1..depth' : PartsFit(frames'[i], parts'[i], i)
  BY <1>1
<1> QED
  BY <1>1, <1>4, <1>5, <1>6 DEF NInv

LEMMA EndOfOctetsSeenFits ==
    ASSUME IInv, GInv, NInv, EndOfOctetsSeen
    PROVE  NInv'
<1>1. Known /\ status = "decoding" /\ depth > 0 /\ F.allowEoo /\ depth <= MaxNesting + 1
  BY RunningKnows DEF EndOfOctetsSeen, AtEndOfOctets, TooDeep, Known
<1>2. Given(Up(depth)) = <<>>
  <2>1. depth > 1 /\ depth \in 1..depth /\ depth # 1
    BY <1>1 DEF Known
  <2>2. frames[depth - 1].decoder # "ExplicitTag"
    BY <1>1, <2>1 DEF IInv, EooOnlyWhenAsked, F
  <2> QED
    BY <2>1, <2>2 DEF Given, Up
<1>3. PICK n \in Nat : n = Left(depth) /\ n + 1 = Left(depth - 1)
  BY <1>1, CallsAreLeft
<1>4. AnswerFits(Up(depth), EndOfOctets, depth - 1)
  BY <1>2, <1>3, SentinelFits DEF AnswerFits
<1> QED
  BY <1>1, <1>4, ReturnFits DEF EndOfOctetsSeen

\* A call that goes on to read its header has nothing yet.
LEMMA StartingFits ==
    ASSUME IInv, GInv, NInv, NEW st \in {"enter", "length", "codec"}, Running(st),
           NEW f, f.st # "wait", Continue(f), UNCHANGED parts
    PROVE  NInv'
<1>1. Known /\ status = "decoding" /\ depth > 0 /\ parts[depth] = <<>>
  BY RunningKnows DEF Known, Knows
<1>2. PartsFit(f, <<>>, depth)
  BY DEF PartsFit
<1>3. \A i \in Levels : parts'[i] = IF i = depth THEN <<>> ELSE parts[i]
  BY <1>1
<1> QED
  BY <1>1, <1>2, <1>3, ContinueFits

LEMMA HeadersFit ==
    ASSUME IInv, GInv, NInv, DecodeTag \/ DecodeLength \/ NoCodec \/ OpenContents
    PROVE  NInv'
<1>1. CASE \E kind \in {"underrun", "malformed", "unmodelled"} : Raise(kind)
  BY <1>1, RaiseFits
<1>2. CASE ~ \E kind \in {"underrun", "malformed", "unmodelled"} : Raise(kind)
  <2>1. PICK st \in {"enter", "length", "codec"} : Running(st) /\ F \in Frame
    BY RunningKnows DEF DecodeTag, DecodeLength, NoCodec, OpenContents, Known
  <2>2. \E f : f.st # "wait" /\ Continue(f) /\ UNCHANGED parts
    <3>1. CASE DecodeTag
      <4> DEFINE f == [F EXCEPT !.st = "length", !.pos = @ + 1, !.tags = <<substrate[F.pos]>> \o @]
      <4>1. Continue(f) /\ UNCHANGED parts
        BY <1>2, <3>1 DEF DecodeTag
      <4>2. f.st = "length"
        BY <2>1 DEF Frame
      <4> HIDE DEF f
      <4> QED
        BY <4>1, <4>2
    <3>2. CASE DecodeLength
      <4> DEFINE from == F.pos + LengthSize
                 f == [F EXCEPT
                           !.st = "codec", !.len = DecodedLength,
                           !.pos = from, !.start = from,
                           !.stop = IF DecodedLength = Indefinite THEN F.end
                                    ELSE from + DecodedLength]
      <4>1. Continue(f) /\ UNCHANGED parts
        BY <1>2, <3>2 DEF DecodeLength
      <4>2. f.st = "codec"
        BY <2>1 DEF Frame
      <4> HIDE DEF f
      <4> QED
        BY <4>1, <4>2
    <3>3. CASE NoCodec
      BY <1>2, <3>3 DEF NoCodec
    <3>4. CASE OpenContents
      <4> DEFINE f == [F EXCEPT !.st = "loop", !.decoder = Codec]
      <4>1. Continue(f) /\ UNCHANGED parts
        BY <1>2, <3>4 DEF OpenContents
      <4>2. f.st = "loop"
        BY <2>1 DEF Frame
      <4> HIDE DEF f
      <4> QED
        BY <4>1, <4>2
    <3> QED
      BY <3>1, <3>2, <3>3, <3>4
  <2> QED
    BY <2>1, <2>2, StartingFits
<1> QED
  BY <1>1, <1>2

\* What the running call returns for its own octets.
LEMMA LeafIsReturned ==
    ASSUME IInv, GInv, NInv, NEW st \in {"codec", "loop", "wait", "closing"}, Running(st),
           NEW type, NEW octs, NEW pos, Return(Leaf(type, TagSet(F), octs), pos)
    PROVE  NInv'
<1> DEFINE t == input.octets[Up(depth).pos]
           given == Given(Up(depth))
           leaf == Leaf(type, TagSet(F), octs)
<1>1. Known /\ F.st = st /\ depth > 0 /\ status = "decoding"
  BY RunningKnows DEF Known
<1>2. given \in Seq(Octet) /\ t \in Octet /\ TagSet(F) = Bares(<<t>> \o given)
  BY RunningReads
<1>3. PICK n \in Nat : n = Left(depth) /\ n + 1 = Left(depth - 1)
  BY <1>1, CallsAreLeft DEF Known
<1>4. Fits(leaf, given, n + 1)
  <2> HIDE DEF t, given
  <2> QED
    BY <1>2, LeavesFit
<1> HIDE DEF leaf
<1>5. AnswerFits(Up(depth), leaf, depth - 1)
  BY <1>3, <1>4 DEF AnswerFits
<1> QED
  BY <1>1, <1>5, ReturnFits DEF leaf

LEMMA LeavesReturnedFit ==
    ASSUME IInv, GInv, NInv, DecodeSimple \/ CollectFragment \/ DecodePrimitiveString
    PROVE  NInv'
<1>1. Running("codec")
  BY DEF DecodeSimple, CollectFragment, DecodePrimitiveString
<1>2. CASE Raise("malformed")
  BY <1>2, RaiseFits
<1>3. CASE ~Raise("malformed")
  <2>1. \E type, octs, pos : Return(Leaf(type, TagSet(F), octs), pos)
    BY <1>3, Zenon DEF DecodeSimple, CollectFragment, DecodePrimitiveString
  <2> QED
    BY <1>1, <2>1, LeafIsReturned
<1> QED
  BY <1>2, <1>3

LEMMA AssembledFits ==
    ASSUME IInv, GInv, NInv, NEW st \in {"loop", "wait"}, Running(st),
           F.decoder \in {"Constructed", "OctetString"}, NEW pos, Return(Assembled, pos)
    PROVE  NInv'
<1> DEFINE t == input.octets[Up(depth).pos]
           given == Given(Up(depth))
<1>1. CASE F.decoder = "OctetString"
  <2>1. PICK octs : Assembled = Leaf("OctetString", TagSet(F), octs)
    BY <1>1 DEF Assembled
  <2> QED
    BY <2>1, LeafIsReturned
<1>2. CASE F.decoder = "Constructed"
  <2>1. Known /\ F.st = st /\ depth > 0 /\ status = "decoding"
    BY RunningKnows DEF Known
  <2>2. given \in Seq(Octet) /\ t \in Octet /\ TagSet(F) = Bares(<<t>> \o given)
    BY RunningReads
  <2>3. PICK n \in Nat : n = Left(depth) /\ n + 1 = Left(depth - 1)
    BY <2>1, CallsAreLeft DEF Known
  <2> DEFINE kids == parts[depth]
  <2>4. \A j \in DOMAIN kids : Fits(kids[j], <<>>, n)
    <3>1. PartsFit(F, kids, depth)
      BY <2>1 DEF NInv, F, Known
    <3>2. Carried(F) = <<>>
      BY <1>2 DEF Carried
    <3> QED
      BY <2>3, <3>1, <3>2 DEF PartsFit
  <2>5. Assembled = Container(Bares(<<t>> \o given), kids)
    BY <1>2, <2>2 DEF Assembled
  <2> HIDE DEF t, given, kids
  <2>6. Fits(Assembled, given, n + 1)
    BY <2>2, <2>4, <2>5, ContainersFit
  <2>7. AnswerFits(Up(depth), Assembled, depth - 1)
    BY <2>3, <2>6 DEF AnswerFits, given
  <2> QED
    BY <2>1, <2>7, ReturnFits
<1> QED
  BY <1>1, <1>2

LEMMA ContentsFitInside ==
    ASSUME IInv, GInv, NInv, ContentsExhausted \/ ContentsClosed
    PROVE  NInv'
<1>1. CASE Raise("underrun") \/ Raise("malformed")
  BY <1>1, RaiseFits
<1>2. CASE ~(Raise("underrun") \/ Raise("malformed"))
  <2>1. PICK st \in {"loop", "wait"} : Running(st)
    BY DEF ContentsExhausted, ContentsClosed
  <2>2. F.decoder \in {"Constructed", "OctetString"} /\ \E pos : Return(Assembled, pos)
    BY <1>2, Zenon DEF ContentsExhausted, ContentsClosed
  <2> QED
    BY <2>1, <2>2, AssembledFits
<1> QED
  BY <1>1, <1>2

\* The running frame may call: what it keeps is still found under its tags.
LEMMA CallingFits ==
    ASSUME IInv, GInv, NInv, NEW st \in {"loop", "closing"}, Running(st),
           NEW dec, dec = F.decoder \/ (dec = "ExplicitEnd" /\ F.decoder = "ExplicitTag"),
           NEW new, new.st = "enter",
           frames' = [frames EXCEPT ![depth] = [@ EXCEPT !.st = "wait", !.decoder = dec],
                                    ![depth + 1] = new],
           depth' = depth + 1, UNCHANGED <<input, parts, result, status>>
    PROVE  NInv'
<1> DEFINE f == [F EXCEPT !.st = "wait", !.decoder = dec]
<1>1. Known /\ F.st = st /\ depth > 0 /\ status = "decoding" /\ F \in Frame
      /\ depth <= MaxNesting + 1
  BY RunningKnows DEF Known
<1>2. f.tags = F.tags /\ f.decoder = dec
  BY <1>1 DEF Frame
<1>3. frames' = [frames EXCEPT ![depth] = f, ![depth + 1] = new]
  BY <1>1 DEF F, Known, IInv, TypeOK
<1> HIDE DEF f
<1>4. Carried(f) = Carried(F)
  BY <1>2 DEF Carried
<1>5. PartsFit(F, parts[depth], depth)
  BY <1>1 DEF NInv, F, Known
<1>6. PartsFit(f, parts[depth], depth)
  BY <1>4, <1>5 DEF PartsFit
<1> QED
  BY <1>1, <1>3, <1>6, CallFits

LEMMA CallsFit ==
    ASSUME IInv, GInv, NInv,
           NextComponent \/ NextFragment \/ ExplicitValue \/ ExplicitClosing
    PROVE  NInv'
<1>1. PICK st \in {"loop", "closing"} : Running(st)
  BY DEF NextComponent, NextFragment, ExplicitValue, ExplicitClosing
<1>2. Known /\ F \in Frame /\ F.st = st /\ frames \in [Levels -> Frame] /\ depth \in Levels
  BY <1>1, RunningKnows DEF Known, IInv, TypeOK
<1>5. CASE Raise("malformed")
  BY <1>5, RaiseFits
<1>3. CASE ~Raise("malformed") /\ (NextComponent \/ NextFragment \/ ExplicitValue)
  <2>1. PICK spec, tags, allowEoo : Call(spec, tags, allowEoo)
    BY <1>3 DEF NextComponent, NextFragment, ExplicitValue
  <2> DEFINE new == NewFrame(F.pos, F.stop, spec, tags, allowEoo)
  <2>2. /\ frames' = [frames EXCEPT ![depth] = [@ EXCEPT !.st = "wait"], ![depth + 1] = new]
        /\ depth' = depth + 1 /\ UNCHANGED <<input, parts, result, status>>
    BY <2>1 DEF Call
  <2>3. new.st = "enter"
    BY DEF NewFrame
  <2> HIDE DEF new
  <2>4. [F EXCEPT !.st = "wait"] = [F EXCEPT !.st = "wait", !.decoder = F.decoder]
    BY <1>2 DEF Frame
  <2>5. frames' = [frames EXCEPT ![depth] = [@ EXCEPT !.st = "wait", !.decoder = F.decoder],
                                 ![depth + 1] = new]
    BY <1>2, <2>2, <2>4 DEF F
  <2> QED
    BY <1>1, <2>2, <2>3, <2>5, CallingFits
<1>4. CASE ExplicitClosing
  <2> DEFINE new == NewFrame(F.pos, F.stop, "none", <<>>, TRUE)
  <2>1. /\ frames' = [frames EXCEPT ![depth] = [@ EXCEPT !.st = "wait", !.decoder = "ExplicitEnd"],
                                    ![depth + 1] = new]
        /\ depth' = depth + 1 /\ UNCHANGED <<input, parts, result, status>>
    BY <1>2, <1>4 DEF ExplicitClosing
  <2>2. new.st = "enter"
    BY DEF NewFrame
  <2>3. Running("closing") /\ F.st = "closing"
    BY <1>4 DEF ExplicitClosing, Running
  <2>4. F.decoder = "ExplicitTag"
    BY <2>3, ReadersRead DEF ReadsEnd
  <2> HIDE DEF new
  <2> QED
    BY <2>1, <2>2, <2>3, <2>4, CallingFits
<1> QED
  BY <1>3, <1>4, <1>5

\* What a waiting call was told.
LEMMA AnswerIsFit ==
    ASSUME IInv, GInv, NInv, Running("wait")
    PROVE  /\ Known /\ status = "decoding" /\ depth > 0 /\ F \in Frame
           /\ Fits(result.val, Given(F), Left(depth))
           /\ PartsFit(F, parts[depth], depth)
  BY RunningKnows DEF NInv, AnswerFits, Known, F

LEMMA ComponentDecodedFits ==
    ASSUME IInv, GInv, NInv, ComponentDecoded
    PROVE  NInv'
<1> DEFINE ps == parts[depth]
           val == result.val
           f == [F EXCEPT !.st = "loop", !.pos = result.pos]
<1>1. /\ Running("wait") /\ F.decoder \in {"Constructed", "OctetString"}
      /\ parts' = [parts EXCEPT ![depth] = Append(@, result.val)]
      /\ Continue(f)
  BY DEF ComponentDecoded
<1>2. /\ Known /\ status = "decoding" /\ depth > 0 /\ F \in Frame
      /\ Fits(val, Given(F), Left(depth)) /\ PartsFit(F, ps, depth)
  BY <1>1, AnswerIsFit
<1>3. f.st = "loop" /\ f.decoder = F.decoder
  BY <1>2 DEF Frame
<1>4. Given(F) = <<>> /\ Carried(F) = <<>> /\ Carried(f) = <<>>
  <2> HIDE DEF f
  <2> QED
    BY <1>1, <1>3 DEF Given, Carried
<1>5. \A i \in Levels : parts'[i] = IF i = depth THEN Append(ps, val) ELSE parts[i]
  BY <1>1, <1>2 DEF Known
<1>6. PartsFit(f, Append(ps, val), depth)
  <2>1. PICK S : ps \in Seq(S)
    BY <1>2 DEF Known, NoSentinel
  <2>2. \A j \in DOMAIN ps : Fits(ps[j], <<>>, Left(depth))
    BY <1>2, <1>4 DEF PartsFit
  <2>3. Fits(val, <<>>, Left(depth))
    BY <1>2, <1>4
  <2> HIDE DEF ps, val, f
  <2>4. ASSUME NEW j \in DOMAIN Append(ps, val)
        PROVE  Append(ps, val)[j] = val \/ \E k \in DOMAIN ps : Append(ps, val)[j] = ps[k]
    <3>1. ps \in Seq(S \cup {val})
      BY <2>1
    <3>2. PICK n \in Nat : n = Len(ps)
      BY <2>1
    <3>3. /\ DOMAIN Append(ps, val) = 1..n + 1 /\ DOMAIN ps = 1..n
          /\ \A k \in 1..n : Append(ps, val)[k] = ps[k]
          /\ Append(ps, val)[n + 1] = val
      BY <3>1, <3>2, AppendProperties
    <3> QED
      BY <3>2, <3>3, <2>4
  <2> QED
    BY <1>4, <2>2, <2>3, <2>4 DEF PartsFit
<1> HIDE DEF f, ps, val
<1> QED
  BY <1>1, <1>2, <1>3, <1>5, <1>6, ContinueFits

LEMMA RereadFits ==
    ASSUME IInv, GInv, NInv, Running("wait"), RereadAsConstructed
    PROVE  NInv'
<1> DEFINE f == [F EXCEPT !.st = "loop", !.decoder = "Constructed", !.pos = F.start]
<1>1. Known /\ status = "decoding" /\ depth > 0 /\ F \in Frame
  BY AnswerIsFit
<1>2. f.st = "loop"
  BY <1>1 DEF Frame
<1>3. Continue(f) /\ \A i \in Levels : parts'[i] = IF i = depth THEN <<>> ELSE parts[i]
  BY <1>1 DEF RereadAsConstructed, Known
<1>4. PartsFit(f, <<>>, depth)
  BY DEF PartsFit
<1> HIDE DEF f
<1> QED
  BY <1>1, <1>2, <1>3, <1>4, ContinueFits

\* A value that is found under the tags of the running frame is found under one
\* tag more than its caller's.
LEMMA TaggedReturned ==
    ASSUME IInv, GInv, NInv, Running("wait"), NEW val, Fits(val, F.tags, Left(depth)),
           NEW pos, Return(val, pos)
    PROVE  NInv'
<1> DEFINE t == input.octets[Up(depth).pos]
           given == Given(Up(depth))
<1>1. Known /\ F.st = "wait" /\ status = "decoding" /\ depth > 0
  BY RunningKnows DEF Known
<1>2. given \in Seq(Octet) /\ t \in Octet /\ F.tags = <<t>> \o given
  BY RunningReads DEF Located, TagRead
<1>3. PICK n \in Nat : n = Left(depth) /\ n + 1 = Left(depth - 1)
  BY <1>1, CallsAreLeft DEF Known
<1>4. Fits(val, <<t>> \o given, n)
  BY <1>2, <1>3
<1> HIDE DEF t, given
<1>5. Fits(val, given, n + 1)
  BY <1>2, <1>4, TaggedFit
<1>6. AnswerFits(Up(depth), val, depth - 1)
  BY <1>3, <1>5 DEF AnswerFits, given
<1> QED
  BY <1>1, <1>6, ReturnFits

LEMMA ExplicitDecodedFits ==
    ASSUME IInv, GInv, NInv, ExplicitDecoded
    PROVE  NInv'
<1>1. Running("wait") /\ F.decoder = "ExplicitTag"
  BY DEF ExplicitDecoded
<1>2. /\ Known /\ status = "decoding" /\ depth > 0 /\ F \in Frame
      /\ Fits(result.val, F.tags, Left(depth))
  BY <1>1, AnswerIsFit DEF Given
<1>3. CASE Return(result.val, F.stop)
  BY <1>1, <1>2, <1>3, TaggedReturned
<1>4. CASE RereadAsConstructed
  BY <1>1, <1>4, RereadFits
<1>5. CASE ~Return(result.val, F.stop) /\ ~RereadAsConstructed
  <2> DEFINE f == [F EXCEPT !.st = "closing", !.pos = result.pos]
             val == result.val
  <2>1. parts' = [parts EXCEPT ![depth] = <<result.val>>] /\ Continue(f)
    BY <1>5 DEF ExplicitDecoded
  <2>2. f.st = "closing" /\ f.decoder = "ExplicitTag" /\ f.tags = F.tags
    BY <1>1, <1>2 DEF Frame
  <2>3. \A i \in Levels : parts'[i] = IF i = depth THEN <<val>> ELSE parts[i]
    BY <1>2, <2>1 DEF Known
  <2>4. Fits(val, F.tags, Left(depth))
    BY <1>2
  <2> HIDE DEF f, val
  <2>5. Carried(f) = F.tags
    BY <2>2 DEF Carried
  <2>6. PartsFit(f, <<val>>, depth)
    <3>1. \A j \in DOMAIN <<val>> : <<val>>[j] = val
      OBVIOUS
    <3> QED
      BY <2>4, <2>5, <3>1 DEF PartsFit
  <2> QED
    BY <1>2, <2>1, <2>2, <2>3, <2>6, ContinueFits
<1> QED
  BY <1>3, <1>4, <1>5

LEMMA ExplicitClosedFits ==
    ASSUME IInv, GInv, NInv, ExplicitClosed
    PROVE  NInv'
<1>1. Running("wait") /\ F.decoder = "ExplicitEnd"
  BY DEF ExplicitClosed
<1>2. CASE RereadAsConstructed
  BY <1>1, <1>2, RereadFits
<1>3. CASE ~RereadAsConstructed
  <2> DEFINE val == parts[depth][1]
  <2>1. Return(val, result.pos)
    BY <1>3 DEF ExplicitClosed
  <2>2. PICK x : parts[depth] = <<x>>
    BY <1>1, ReadersRead DEF ReadsEnd
  <2>3. 1 \in DOMAIN parts[depth]
    BY <2>2
  <2>4. PartsFit(F, parts[depth], depth) /\ Carried(F) = F.tags
    BY <1>1, AnswerIsFit DEF Carried
  <2>5. Fits(val, F.tags, Left(depth))
    BY <2>3, <2>4 DEF PartsFit
  <2> HIDE DEF val
  <2> QED
    BY <1>1, <2>1, <2>5, TaggedReturned
<1> QED
  BY <1>2, <1>3

LEMMA StutteringFits ==
    ASSUME NInv, UNCHANGED vars
    PROVE  NInv'
<1>1. /\ input' = input /\ frames' = frames /\ parts' = parts /\ depth' = depth
      /\ result' = result /\ status' = status
  BY DEF vars
<1> QED
  BY <1>1 DEF NInv, Running, F

LEMMA StepFits ==
    ASSUME IInv, GInv, NInv, [Next]_vars
    PROVE  NInv'
<1>1. CASE UNCHANGED vars
  BY <1>1, StutteringFits
<1>2. CASE Next
  BY <1>2, NestingExceededFits, EndOfOctetsSeenFits, HeadersFit, LeavesReturnedFit,
     CallsFit, ContentsFitInside, ComponentDecodedFits, ExplicitDecodedFits,
     ExplicitClosedFits, StutteringFits
     DEF Next, Step, Finished
<1> QED
  BY <1>1, <1>2

(***************************************************************************)
(* The nesting limit bounds the calls that a decoded value takes, explicit *)
(* tags included, and only refuses what nests as deep as the limit.  For   *)
(* any octets, BER, CER and DER, and any nesting limit.                    *)
(***************************************************************************)
THEOREM NestingIsRight == Spec => []NestingIsBounded
<1>1. Init => NInv
  BY InitFits
<1>2. IInv /\ GInv /\ NInv /\ [Next]_vars => NInv'
  BY StepFits
<1>3. NInv => NestingIsBounded
  <2>1. SUFFICES ASSUME NInv
                 PROVE  status = "value" => InsideAt(result.val, MaxNesting + 1) = {}
    BY DEF NInv, NestingIsBounded
  <2>2. SUFFICES ASSUME status = "value"
                 PROVE  InsideAt(result.val, MaxNesting + 1) = {}
    OBVIOUS
  <2>3. PICK x : IsValue(x) /\ result.val = Under(x, <<>>) /\ InsideAt(x, MaxNesting + 1) = {}
    BY <2>1, <2>2 DEF NInv, Fits
  <2>4. result.val = x
    BY <2>3, UnderNoTags
  <2> QED
    BY <2>3, <2>4
<1> QED
  BY <1>1, <1>2, <1>3, Invariant, CallsKnowTheGrammar, PTL DEF Spec
=============================================================================
