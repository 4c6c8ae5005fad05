------------------------ MODULE ConstructedValueProofs ------------------------
(***************************************************************************)
(* Proofs about ConstructedValue, for any schemas and any bounds.          *)
(*                                                                         *)
(* TypeOK and the two properties about references are proved together: a   *)
(* clone() in progress refers to prototypes, and an unfinished clone may   *)
(* be dropped, so what nobody refers to has to be known (Calls).           *)
(*                                                                         *)
(* What an object stands for is a recursion through the objects it holds,  *)
(* which ends because no type contains itself (Rank).  Objects that both   *)
(* heaps have, with all that they need, stand for the same in both         *)
(* (Locality); so a clone in progress is what its original is, as far as   *)
(* it has got (Tracked), and reading changes what only one object holds    *)
(* (ReadKeeps).                                                            *)
(***************************************************************************)
EXTENDS ConstructedValue, FiniteSetTheorems, SequenceTheorems, WellFoundedInduction, TLAPS

USE DEF Types

-----------------------------------------------------------------------------
(* Operators.                                                              *)

LEMMA ElementsOf ==
  ASSUME NEW S, NEW s \in Seq(S), NEW i \in DOMAIN s
  PROVE  s[i] \in S /\ i \in 1..Len(s)
OBVIOUS

\* What a field of a schema is.
LEMMA Fields ==
  ASSUME NEW t \in Types, NEW i \in Positions(t)
  PROVE  /\ Field(t, i).schema \in Described
         /\ i \in Nat
<1>1. /\ Schemas[t].fields \in
            Seq([schema : Described, omission : {"required", "optional", "default"}])
      /\ Schemas[t].kind = "of" => Len(Schemas[t].fields) = 1
  BY SchemasAssumption
<1>2. MaxLength \in Nat
  BY BoundsAssumption
<1> DEFINE fields == Schemas[t].fields
           k == IF Schemas[t].kind = "of" THEN 1 ELSE i
<1>3. k \in DOMAIN fields /\ i \in Nat
  BY <1>1, <1>2 DEF Positions
<1>4. fields[k] \in [schema : Described, omission : {"required", "optional", "default"}]
  BY <1>1, <1>3, ElementsOf
<1> QED
  BY <1>3, <1>4 DEF Field

\* Components keep their meaning as the heap grows: objects keep their types.
LEMMA StillObject ==
  ASSUME NEW h, NEW g, NEW x, IsObject(h, x),
         DOMAIN h \subseteq DOMAIN g,
         \A o \in DOMAIN h : g[o].type = h[o].type
  PROVE  IsObject(g, x)
<1> SUFFICES ASSUME NEW i \in DOMAIN x.comps
             PROVE  /\ x.comps[i] \in Component(g)
                    /\ x.comps[i] = Absent \/ Fits(g, x.comps[i], Field(x.type, i))
  BY DEF IsObject
<1>1. /\ x.comps[i] \in Component(h)
      /\ x.comps[i] = Absent \/ Fits(h, x.comps[i], Field(x.type, i))
  BY DEF IsObject
<1>2. CASE x.comps[i].kind = "ref"
  <2>1. PICK o \in DOMAIN h : x.comps[i] = Ref(o)
    BY <1>1, <1>2 DEF Component, Absent, Scalar, Ref
  <2>2. x.comps[i].ref = o
    BY <2>1 DEF Ref
  <2> QED
    BY <1>1, <2>1, <2>2 DEF Component, Fits
<1>3. CASE x.comps[i].kind # "ref"
  <2>1. x.comps[i] \in Component(g)
    BY <1>1, <1>3 DEF Component, Ref
  <2> QED
    BY <1>1, <1>3, <2>1 DEF Fits
<1> QED
  BY <1>2, <1>3

\* The components of an object after Put: the new one, no one, or an old one.
LEMMA PutComponents ==
  ASSUME NEW x, NEW i \in Positions(x.type), NEW e, NEW supplied,
         x = [type |-> x.type, isSchema |-> x.isSchema,
              comps |-> x.comps, chosen |-> x.chosen],
         DOMAIN x.comps \subseteq Positions(x.type),
         x.chosen \in {0} \cup Positions(x.type),
         NEW y, y = Put(x, i, e, supplied)
  PROVE  /\ y = [type |-> x.type, isSchema |-> FALSE,
                 comps |-> y.comps, chosen |-> y.chosen]
         /\ y.chosen \in {0} \cup Positions(x.type)
         /\ DOMAIN y.comps \subseteq Positions(x.type)
         /\ \A j \in DOMAIN y.comps :
               \/ j = i /\ y.comps[j] = e
               \/ y.comps[j] = Absent
               \/ j \in DOMAIN x.comps /\ y.comps[j] = x.comps[j]
<1> DEFINE put == With(x, i, e)
           chosen == ChosenAfter(x, i, supplied)
           comps == IF x.chosen \notin {0, chosen}
                    THEN [put EXCEPT ![x.chosen] = Absent] ELSE put
<1>1. chosen \in {0} \cup Positions(x.type)
  BY DEF ChosenAfter
<1>2. /\ DOMAIN put \subseteq Positions(x.type)
      /\ put = [j \in DOMAIN put |-> put[j]]
      /\ \A j \in DOMAIN put :
            \/ j = i /\ put[j] = e
            \/ put[j] = Absent
            \/ j \in DOMAIN x.comps /\ put[j] = x.comps[j]
  BY DEF With
<1> HIDE DEF put
<1>3. /\ DOMAIN comps \subseteq Positions(x.type)
      /\ \A j \in DOMAIN comps : comps[j] = put[j] \/ comps[j] = Absent
      /\ DOMAIN comps = DOMAIN put
  BY <1>2
<1>4. Put(x, i, e, supplied)
        = [x EXCEPT !.isSchema = FALSE, !.chosen = chosen, !.comps = comps]
  BY DEF Put, put
<1> HIDE DEF chosen, comps
<1>5. Put(x, i, e, supplied) = [type |-> x.type, isSchema |-> FALSE,
                                comps |-> comps, chosen |-> chosen]
  BY <1>4
<1>6. \A j \in DOMAIN comps :
         \/ j = i /\ comps[j] = e
         \/ comps[j] = Absent
         \/ j \in DOMAIN x.comps /\ comps[j] = x.comps[j]
  BY <1>2, <1>3
<1>7. /\ Put(x, i, e, supplied).comps = comps
      /\ Put(x, i, e, supplied).chosen = chosen
  BY <1>5
<1> QED
  BY <1>1, <1>3, <1>5, <1>6, <1>7

\* x is a SEQUENCE OF and y has e at position i besides.
PutsInOf(x, i, e, y) ==
    /\ Schemas[x.type].kind = "of" /\ x.chosen = 0
    /\ x = [type |-> x.type, isSchema |-> x.isSchema,
            comps |-> x.comps, chosen |-> x.chosen]
    /\ \E supplied : y = Put(x, i, e, supplied)

LEMMA PutInOf ==
  ASSUME NEW x, NEW i, NEW e, NEW y, PutsInOf(x, i, e, y)
  PROVE  /\ DOMAIN y.comps = DOMAIN x.comps \cup {i}
         /\ y.comps[i] = e
         /\ \A j \in DOMAIN y.comps \ {i} : y.comps[j] = x.comps[j]
<1>0. /\ Schemas[x.type].kind = "of" /\ x.chosen = 0
      /\ x = [type |-> x.type, isSchema |-> x.isSchema,
              comps |-> x.comps, chosen |-> x.chosen]
  BY DEF PutsInOf
<1>5. PICK supplied : y = Put(x, i, e, supplied)
  BY DEF PutsInOf
<1>1. PICK put : put = With(x, i, e)
  OBVIOUS
<1>2. put = [j \in DOMAIN x.comps \cup {i} |-> IF j = i THEN e ELSE x.comps[j]]
  BY <1>0, <1>1 DEF With
<1>3. y = [x EXCEPT !.isSchema = FALSE, !.chosen = 0, !.comps = put]
  BY <1>0, <1>1, <1>5 DEF Put, ChosenAfter
<1>4. y.comps = put
  BY <1>0, <1>3
<1> QED
  BY <1>2, <1>4

LEMMA PutUnchosen ==
  ASSUME NEW x, NEW i, NEW e, NEW supplied, Schemas[x.type].kind # "choice",
         x = [type |-> x.type, isSchema |-> x.isSchema,
              comps |-> x.comps, chosen |-> x.chosen],
         NEW y, y = Put(x, i, e, supplied)
  PROVE  y.chosen = 0
<1>1. PICK comps : y = [x EXCEPT !.isSchema = FALSE, !.chosen = 0, !.comps = comps]
  BY DEF Put, ChosenAfter
<1> QED
  BY <1>1

LEMMA Records ==
  ASSUME NEW n
  PROVE  /\ Scalar(n).kind = "scalar" /\ Absent.kind = "absent"
         /\ Ref(n).kind = "ref" /\ Ref(n).ref = n
BY DEF Scalar, Absent, Ref

\* What Put makes of an object is an object.
LEMMA PutObject ==
  ASSUME NEW h, NEW x, IsObject(h, x), NEW i \in Positions(x.type), NEW supplied,
         NEW e \in Component(h), Fits(h, e, Field(x.type, i))
  PROVE  IsObject(h, Put(x, i, e, supplied)) /\ Put(x, i, e, supplied).type = x.type
<1>0. PICK y : y = Put(x, i, e, supplied)
  OBVIOUS
<1>1. /\ y = [type |-> x.type, isSchema |-> FALSE, comps |-> y.comps, chosen |-> y.chosen]
      /\ y.chosen \in {0} \cup Positions(x.type)
      /\ DOMAIN y.comps \subseteq Positions(x.type)
      /\ \A j \in DOMAIN y.comps :
            \/ j = i /\ y.comps[j] = e
            \/ y.comps[j] = Absent
            \/ j \in DOMAIN x.comps /\ y.comps[j] = x.comps[j]
  <2>1. /\ x = [type |-> x.type, isSchema |-> x.isSchema,
                comps |-> x.comps, chosen |-> x.chosen]
        /\ DOMAIN x.comps \subseteq Positions(x.type)
        /\ x.chosen \in {0} \cup Positions(x.type)
    BY DEF IsObject
  <2> QED
    BY <1>0, <2>1, PutComponents
<1>2. y.type = x.type /\ y.isSchema = FALSE
  BY <1>1
<1>3. ASSUME NEW j \in DOMAIN y.comps
      PROVE  /\ y.comps[j] \in Component(h)
             /\ y.comps[j] = Absent \/ Fits(h, y.comps[j], Field(x.type, j))
  BY <1>1 DEF IsObject, Component
<1>4. x.type \in Types
  BY DEF IsObject
<1>5. e # Absent
  BY Records DEF Fits
<1>6. ASSUME Schemas[x.type].kind = "of", NEW j \in DOMAIN y.comps
      PROVE  y.comps[j] # Absent
  <2>1. x.chosen = 0 /\ \A k \in DOMAIN x.comps : x.comps[k] # Absent
    BY <1>6 DEF IsObject
  <2>2. x = [type |-> x.type, isSchema |-> x.isSchema,
             comps |-> x.comps, chosen |-> x.chosen]
    BY DEF IsObject
  <2>4. x.chosen = 0
    BY <2>1
  <2>5. Schemas[x.type].kind = "of"
    BY <1>6
  <2>3. /\ DOMAIN y.comps = DOMAIN x.comps \cup {i}
        /\ y.comps[i] = e
        /\ \A k \in DOMAIN y.comps \ {i} : y.comps[k] = x.comps[k]
    <3>1. PutsInOf(x, i, e, y)
      BY <1>0, <2>2, <2>4, <2>5 DEF PutsInOf
    <3> QED
      BY <3>1, PutInOf
  <2> QED
    BY <1>5, <2>1, <2>3
<1>7. Schemas[x.type].kind # "choice" => y.chosen = 0
  <2>1. x = [type |-> x.type, isSchema |-> x.isSchema,
             comps |-> x.comps, chosen |-> x.chosen]
    BY DEF IsObject
  <2> QED
    BY <1>0, <2>1, PutUnchosen
<1> QED
  BY <1>0, <1>1, <1>2, <1>3, <1>4, <1>6, <1>7 DEF IsObject

\* A fresh object is an object of any heap.
LEMMA FreshObject ==
  ASSUME NEW t \in Types, NEW h
  PROVE  IsObject(h, Fresh(t)) /\ Fresh(t).type = t /\ Fresh(t).comps = <<>>
BY DEF IsObject, Fresh

-----------------------------------------------------------------------------
(* Heaps.                                                                  *)

LEMMA SequenceShape ==
  ASSUME NEW g, IsSequence(g)
  PROVE  /\ Len(g) \in Nat /\ DOMAIN g = 1..Len(g)
         /\ \E S : g \in Seq(S)
<1>1. PICK n \in Nat : n = Len(g) /\ g = [i \in 1..n |-> g[i]]
  BY DEF IsSequence
<1>2. PICK S : S = {g[o] : o \in 1..n}
  OBVIOUS
<1>3. g \in [1..n -> S]
  BY <1>1, <1>2
<1>4. g \in Seq(S)
  BY <1>3
<1> QED
  BY <1>1, <1>3, <1>4

LEMMA FunctionOnInterval ==
  ASSUME NEW S, NEW n, NEW g \in [1..n -> S]
  PROVE  g = [i \in 1..n |-> g[i]]
OBVIOUS

LEMMA FunctionIsSeq ==
  ASSUME NEW S, NEW n \in Nat, NEW g \in [1..n -> S]
  PROVE  g \in Seq(S) /\ Len(g) = n
OBVIOUS

LEMMA IsSequenceIfSeq ==
  ASSUME NEW S, NEW g \in Seq(S)
  PROVE  IsSequence(g)
<1>1. PICK n : n = Len(g)
  OBVIOUS
<1>2. n \in Nat /\ g \in [1..n -> S]
  BY <1>1, LenProperties
<1>3. g = [i \in 1..n |-> g[i]]
  BY <1>2, FunctionOnInterval
<1> QED
  BY <1>1, <1>2, <1>3 DEF IsSequence

LEMMA HeapDomain ==
  ASSUME NEW h, IsHeap(h)
  PROVE  /\ Len(h) \in Nat /\ DOMAIN h = 1..Len(h)
         /\ \E S : h \in Seq(S)
BY SequenceShape DEF IsHeap

\* Where a component refers to.
LEMMA RefShape ==
  ASSUME NEW h, IsHeap(h), NEW o \in DOMAIN h, NEW i \in DOMAIN h[o].comps,
         h[o].comps[i].kind = "ref"
  PROVE  h[o].comps[i] = Ref(h[o].comps[i].ref) /\ h[o].comps[i].ref \in DOMAIN h
<1>1. h[o].comps[i] \in Component(h)
  BY DEF IsHeap, IsObject
<1> QED
  BY <1>1 DEF Component, Ref, Absent, Scalar

LEMMA AppendedShape ==
  ASSUME NEW h, IsSequence(h), NEW x
  PROVE  /\ IsSequence(Append(h, x)) /\ Len(Append(h, x)) = Len(h) + 1
         /\ Append(h, x)[Len(h) + 1] = x
         /\ \A o \in 1..Len(h) : Append(h, x)[o] = h[o]
<1>1. PICK S : h \in Seq(S)
  BY SequenceShape
<1>2. PICK T : T = S \cup {x}
  OBVIOUS
<1>3. h \in Seq(T) /\ x \in T
  BY <1>1, <1>2
<1>4. Append(h, x) \in Seq(T) /\ Len(Append(h, x)) = Len(h) + 1
  BY <1>3, AppendProperties
<1>5. \A o \in 1..Len(h) : Append(h, x)[o] = h[o]
  BY <1>3, AppendProperties
<1>6. Append(h, x)[Len(h) + 1] = x
  BY <1>3, AppendProperties
<1>7. IsSequence(Append(h, x))
  BY <1>4, IsSequenceIfSeq, Zenon
<1> QED
  BY <1>4, <1>5, <1>6, <1>7, Zenon

LEMMA Appended ==
  ASSUME NEW h, IsHeap(h), NEW x, IsObject(h, x)
  PROVE  /\ IsHeap(Append(h, x))
         /\ Len(Append(h, x)) = Len(h) + 1
         /\ DOMAIN Append(h, x) = DOMAIN h \cup {Len(h) + 1}
         /\ Append(h, x)[Len(h) + 1] = x
         /\ \A o \in DOMAIN h : Append(h, x)[o] = h[o]
<1>1. /\ Len(h) \in Nat /\ DOMAIN h = 1..Len(h) /\ IsSequence(h)
  BY HeapDomain DEF IsHeap
<1>2. PICK g : g = Append(h, x)
  OBVIOUS
<1>8. /\ IsSequence(g) /\ Len(g) = Len(h) + 1
      /\ g[Len(h) + 1] = x
      /\ \A o \in 1..Len(h) : g[o] = h[o]
  BY <1>1, <1>2, AppendedShape, Zenon
<1>9. DOMAIN g = 1..Len(h) + 1
  BY <1>8, SequenceShape
<1>3. PICK n \in Nat : n = Len(h)
  BY <1>1
<1>4. /\ DOMAIN h = 1..n /\ DOMAIN g = 1..n + 1
      /\ g[n + 1] = x
      /\ \A o \in 1..n : g[o] = h[o]
  BY <1>1, <1>3, <1>8, <1>9
<1>5. ASSUME NEW o \in DOMAIN g
      PROVE  IsObject(g, g[o])
  <2>1. IsObject(h, g[o])
    BY <1>4 DEF IsHeap
  <2>2. DOMAIN h \subseteq DOMAIN g /\ \A p \in DOMAIN h : g[p].type = h[p].type
    BY <1>4
  <2> QED
    BY <2>1, <2>2, StillObject
<1>6. IsHeap(Append(h, x))
  BY <1>2, <1>5, <1>8, Zenon DEF IsHeap
<1>7. 1..n + 1 = 1..n \cup {n + 1}
  OBVIOUS
<1> QED
  BY <1>1, <1>2, <1>3, <1>6, <1>7, <1>8, <1>9, Zenon

LEMMA ReplacedShape ==
  ASSUME NEW h, IsSequence(h), NEW o, NEW x, NEW g, g = [h EXCEPT ![o] = x]
  PROVE  IsSequence(g) /\ Len(g) = Len(h) /\ DOMAIN g = DOMAIN h
<1>1. PICK n \in Nat : n = Len(h) /\ DOMAIN h = 1..n
  BY SequenceShape
<1>2. g = [i \in 1..n |-> IF i = o THEN x ELSE h[i]]
  BY <1>1
<1>3. PICK S : S = {IF i = o THEN x ELSE h[i] : i \in 1..n}
  OBVIOUS
<1>4. g \in [1..n -> S]
  BY <1>2, <1>3
<1>5. g \in Seq(S) /\ Len(g) = n
  BY <1>1, <1>4, FunctionIsSeq
<1>6. DOMAIN g = 1..n
  BY <1>4
<1> QED
  BY <1>1, <1>5, <1>6, IsSequenceIfSeq

\* Heap g is heap h with x, an object of the same type, for object o.
Edited(h, g, o, x) ==
    /\ IsHeap(h) /\ o \in DOMAIN h
    /\ IsObject(h, x) /\ x.type = h[o].type
    /\ g = [h EXCEPT ![o] = x]

LEMMA Replaced ==
  ASSUME NEW h, NEW g, NEW o, NEW x, Edited(h, g, o, x)
  PROVE  /\ IsHeap(g)
         /\ Len(g) = Len(h) /\ DOMAIN g = DOMAIN h
         /\ g[o] = x
         /\ \A p \in DOMAIN h \ {o} : g[p] = h[p]
         /\ \A p \in DOMAIN h : g[p].type = h[p].type
<1>1. IsSequence(g) /\ Len(g) = Len(h) /\ DOMAIN g = DOMAIN h
  BY ReplacedShape DEF IsHeap, Edited
<1>2. g[o] = x /\ \A p \in DOMAIN h \ {o} : g[p] = h[p]
  BY DEF Edited
<1>3. \A q \in DOMAIN h : g[q].type = h[q].type
  BY <1>2 DEF Edited
<1>4. ASSUME NEW p \in DOMAIN g
      PROVE  IsObject(g, g[p])
  <2>1. IsObject(h, g[p])
    BY <1>1, <1>2 DEF IsHeap, Edited
  <2> QED
    BY <1>1, <1>3, <2>1, StillObject
<1> QED
  BY <1>1, <1>2, <1>3, <1>4 DEF IsHeap
-----------------------------------------------------------------------------
(* The inductive invariant.                                                *)

Refers(h, o, i, r) ==
    /\ o \in DOMAIN h /\ i \in DOMAIN h[o].comps
    /\ h[o].comps[i].kind = "ref" /\ h[o].comps[i].ref = r

MadeIn(h) == Len(Prototypes) + 1..Len(h)

\* The references of heap h when the application has given the objects G.
References(h, G) ==
    /\ \A o \in MadeIn(h) : \A i, r : Refers(h, o, i, r) => r \in MadeIn(h)
    /\ \A o, p \in MadeIn(h) : \A i, j, r :
          Refers(h, o, i, r) /\ Refers(h, p, j, r) /\ r \notin G => o = p /\ i = j

Safe(h, G) ==
    /\ IsHeap(h) /\ Len(Prototypes) <= Len(h)
    /\ \A p \in DOMAIN Prototypes : h[p] = Prototypes[p]
    /\ References(h, G)

\* Nobody has object r.
Unseen(h, G, r) ==
    r \notin G /\ \A o \in MadeIn(h) : \A i : ~Refers(h, o, i, r)

\* The first n objects could do without the others.
Closed(h, G, n) ==
    /\ G \subseteq 1..n
    /\ \A o \in MadeIn(h) : \A i, r : Refers(h, o, i, r) /\ o <= n => r <= n

\* What call c is for.
Serves(h, c) ==
    /\ c.at \in Positions(h[c.into].type)
    /\ Fits(h, Ref(c.to), Field(h[c.into].type, c.at))

CallOK(h, G, stack, k) ==
    /\ h[stack[k].to].type = h[stack[k].from].type
    /\ Unseen(h, G, stack[k].to)
    /\ k > 1 => stack[k].into = stack[k - 1].to
    /\ stack[k].into # 0 => Serves(h, stack[k])

CallsOK(h, G, stack) ==
    /\ \A k \in DOMAIN stack : CallOK(h, G, stack, k)
    /\ \A k, l \in DOMAIN stack : k < l => stack[k].to < stack[l].to
    /\ stack # <<>> => Closed(h, G, stack[1].to - 1)

IInv == TypeOK /\ Safe(heap, given) /\ CallsOK(heap, given, copying)

\* From h to g the heap grows, and if r is not zero position i of o refers to r.
Grown(h, g, o, i, r) ==
    /\ Len(h) <= Len(g)
    /\ \A p \in DOMAIN h : g[p].type = h[p].type
    /\ \A p \in DOMAIN Prototypes : g[p] = h[p]
    /\ \A p, j, s : Refers(g, p, j, s) =>
          Refers(h, p, j, s) \/ (r # 0 /\ p = o /\ j = i /\ s = r)

LEMMA RefersTo ==
  ASSUME NEW h, IsHeap(h), NEW o, NEW i, NEW r, Refers(h, o, i, r)
  PROVE  /\ o \in 1..Len(h) /\ r \in 1..Len(h) /\ Len(h) \in Nat
         /\ h[o].comps[i] = Ref(r)
BY HeapDomain, RefShape DEF Refers

LEMMA PrototypesShape ==
  /\ Len(Prototypes) \in Nat /\ DOMAIN Prototypes = 1..Len(Prototypes)
  /\ IsHeap(Prototypes)
BY PrototypesAssumption, HeapDomain

\* New references that nobody else can have, or that the application made, leave
\* the heap as it should be.
LEMMA StaysSafe ==
  ASSUME NEW h, NEW G, Safe(h, G), NEW g, IsHeap(g), NEW H, G \subseteq H,
         NEW o, NEW i, NEW r, Grown(h, g, o, i, r),
         r # 0 => r \in MadeIn(g) /\ (r \in H \/ Unseen(h, G, r))
  PROVE  Safe(g, H)
<1>1. PICK m \in Nat, n \in Nat, k \in Nat :
         m = Len(h) /\ n = Len(g) /\ k = Len(Prototypes)
  BY HeapDomain, PrototypesShape DEF Safe
<1>2. k <= m /\ m <= n /\ DOMAIN h = 1..m /\ DOMAIN g = 1..n /\ DOMAIN Prototypes = 1..k
  BY <1>1, HeapDomain, PrototypesShape DEF Safe, Grown
<1>3. MadeIn(h) = k + 1..m /\ MadeIn(g) = k + 1..n
  BY <1>1 DEF MadeIn
<1>4. ASSUME NEW p \in MadeIn(g), NEW j, NEW s, Refers(g, p, j, s)
      PROVE  /\ s \in MadeIn(g)
             /\ \/ p \in MadeIn(h) /\ Refers(h, p, j, s)
                \/ r # 0 /\ p = o /\ j = i /\ s = r
  <2>1. CASE Refers(h, p, j, s)
    <3>1. p \in 1..m
      BY <1>1, <2>1, RefersTo DEF Safe
    <3>2. p \in MadeIn(h)
      BY <1>2, <1>3, <3>1
    <3>3. s \in MadeIn(h)
      BY <2>1, <3>2 DEF Safe, References
    <3> QED
      BY <1>2, <1>3, <2>1, <3>2, <3>3
  <2>2. CASE r # 0 /\ p = o /\ j = i /\ s = r
    BY <2>2
  <2> QED
    BY <1>4, <2>1, <2>2 DEF Grown
<1>5. ASSUME NEW p \in MadeIn(g), NEW q \in MadeIn(g), NEW j, NEW l, NEW s,
             Refers(g, p, j, s), Refers(g, q, l, s), s \notin H
      PROVE  p = q /\ j = l
  <2>1. s \notin G
    BY <1>5
  <2>2. CASE r # 0 /\ s = r
    <3>1. Unseen(h, G, r)
      BY <1>5, <2>2
    <3>2. ~ (p \in MadeIn(h) /\ Refers(h, p, j, s))
      BY <2>2, <3>1, Zenon DEF Unseen
    <3>3. ~ (q \in MadeIn(h) /\ Refers(h, q, l, s))
      BY <2>2, <3>1, Zenon DEF Unseen
    <3>4. p = o /\ j = i
      BY <1>4, <1>5, <3>2
    <3>5. q = o /\ l = i
      BY <1>4, <1>5, <3>3
    <3> QED
      BY <3>4, <3>5
  <2>3. CASE ~ (r # 0 /\ s = r)
    <3>1. p \in MadeIn(h) /\ Refers(h, p, j, s)
      BY <1>4, <1>5, <2>3
    <3>2. q \in MadeIn(h) /\ Refers(h, q, l, s)
      BY <1>4, <1>5, <2>3
    <3> QED
      BY <2>1, <3>1, <3>2, Zenon DEF Safe, References
  <2> QED
    BY <2>2, <2>3
<1>6. References(g, H)
  BY <1>4, <1>5, Zenon DEF References
<1>7. \A p \in DOMAIN Prototypes : g[p] = Prototypes[p]
  BY DEF Safe, Grown
<1> QED
  BY <1>1, <1>2, <1>6, <1>7 DEF Safe

\* What nobody has, nobody has later, unless it is handed out.
LEMMA StaysUnseen ==
  ASSUME NEW h, NEW G, Safe(h, G), NEW g, IsHeap(g), NEW H, NEW o, NEW i, NEW r,
         Grown(h, g, o, i, r), NEW t, Unseen(h, G, t), t \notin H, t # r
  PROVE  Unseen(g, H, t)
<1> SUFFICES ASSUME NEW p \in MadeIn(g), NEW j, Refers(g, p, j, t)
             PROVE  FALSE
  BY DEF Unseen
<1>1. Refers(h, p, j, t)
  BY DEF Grown
<1>2. p \in 1..Len(h) /\ Len(h) \in Nat
  BY <1>1, RefersTo DEF Safe
<1>3. p \in MadeIn(h)
  BY <1>2, PrototypesShape, HeapDomain DEF MadeIn, Safe
<1> QED
  BY <1>1, <1>3, Zenon DEF Unseen

\* The first n objects can do without the others as long as they get none.
LEMMA StaysClosed ==
  ASSUME NEW h, NEW G, Safe(h, G), NEW g, IsHeap(g), NEW o, NEW i, NEW r,
         Grown(h, g, o, i, r), NEW n \in Nat, Closed(h, G, n),
         r # 0 => o \in Nat /\ o > n
  PROVE  Closed(g, G, n)
<1> SUFFICES ASSUME NEW p \in MadeIn(g), NEW j, NEW s, Refers(g, p, j, s), p <= n
             PROVE  s <= n
  BY DEF Closed
<1>1. p \in 1..Len(g) /\ Len(g) \in Nat
  BY RefersTo
<1>2. Refers(h, p, j, s)
  BY <1>1 DEF Grown
<1>3. p \in 1..Len(h) /\ Len(h) \in Nat
  BY <1>2, RefersTo DEF Safe
<1>4. p \in MadeIn(h)
  BY <1>3, PrototypesShape, HeapDomain DEF MadeIn, Safe
<1> QED
  BY <1>2, <1>4, Zenon DEF Closed

\* Heap g is heap h with a new object.
Extended(h, g, t) == t \in Types /\ g = Append(h, Fresh(t))

\* A new object refers to nothing.
LEMMA NewGrows ==
  ASSUME NEW h, NEW G, Safe(h, G), NEW t, NEW g, Extended(h, g, t)
  PROVE  /\ IsHeap(g) /\ Len(g) = Len(h) + 1 /\ MadeIn(h) \subseteq MadeIn(g)
         /\ Len(g) \in MadeIn(g) /\ Len(g) \notin DOMAIN h
         /\ \A o \in DOMAIN h : g[o] = h[o]
         /\ g[Len(g)] = Fresh(t)
         /\ \A o, i : Grown(h, g, o, i, 0)
<1>1. IsObject(h, Fresh(t)) /\ Fresh(t).comps = <<>> /\ IsHeap(h)
  BY FreshObject DEF Safe, Extended
<1>0. PICK x : x = Fresh(t)
  OBVIOUS
<1>11. g = Append(h, x) /\ IsObject(h, x)
  BY <1>0, <1>1 DEF Extended
<1>12. /\ IsHeap(Append(h, x)) /\ Len(Append(h, x)) = Len(h) + 1
       /\ DOMAIN Append(h, x) = DOMAIN h \cup {Len(h) + 1}
       /\ Append(h, x)[Len(h) + 1] = x
       /\ \A o \in DOMAIN h : Append(h, x)[o] = h[o]
  BY <1>1, <1>11, Appended, Zenon
<1>2. /\ IsHeap(g) /\ Len(g) = Len(h) + 1
      /\ DOMAIN g = DOMAIN h \cup {Len(h) + 1}
      /\ g[Len(h) + 1] = Fresh(t)
      /\ \A o \in DOMAIN h : g[o] = h[o]
  BY <1>0, <1>11, <1>12, Zenon
<1>3. PICK m \in Nat, k \in Nat : m = Len(h) /\ k = Len(Prototypes)
  BY HeapDomain, PrototypesShape DEF Safe
<1>4. k <= m /\ DOMAIN h = 1..m /\ DOMAIN Prototypes = 1..k
  BY <1>3, HeapDomain, PrototypesShape DEF Safe
<1>5. MadeIn(h) = k + 1..m /\ MadeIn(g) = k + 1..m + 1
  BY <1>2, <1>3 DEF MadeIn
<1>6. ASSUME NEW p, NEW j, NEW s, Refers(g, p, j, s)
      PROVE  Refers(h, p, j, s)
  <2>1. g[m + 1].comps = <<>>
    BY <1>1, <1>2, <1>3
  <2>2. p # m + 1
    BY <1>6, <2>1 DEF Refers
  <2>3. p \in DOMAIN h
    BY <1>2, <1>3, <1>6, <2>2 DEF Refers
  <2> QED
    BY <1>2, <1>6, <2>3 DEF Refers
<1>7. \A p \in DOMAIN h : g[p].type = h[p].type
  BY <1>2
<1>8. \A p \in DOMAIN Prototypes : g[p] = h[p]
  BY <1>2, <1>4
<1>9. Len(h) <= Len(g)
  BY <1>2, <1>3
<1>10. \A o, i : Grown(h, g, o, i, 0)
  BY <1>6, <1>7, <1>8, <1>9, Zenon DEF Grown
<1> QED
  BY <1>2, <1>3, <1>4, <1>5, <1>10

\* Object x has the references that o has, and if r is not zero one to r.
Gains(h, o, x, i, r) ==
    \A j \in DOMAIN x.comps : x.comps[j].kind = "ref" =>
        \/ j \in DOMAIN h[o].comps /\ x.comps[j] = h[o].comps[j]
        \/ r # 0 /\ j = i /\ x.comps[j].ref = r

\* What becomes of the heap if an object gets at most one new reference.
LEMMA EditGrows ==
  ASSUME NEW h, NEW G, Safe(h, G), NEW o \in MadeIn(h), NEW x, NEW i, NEW r,
         NEW g, Edited(h, g, o, x), Gains(h, o, x, i, r)
  PROVE  /\ IsHeap(g) /\ Len(g) = Len(h) /\ MadeIn(g) = MadeIn(h)
         /\ g[o] = x
         /\ Grown(h, g, o, i, r)
<1>1. PICK m \in Nat, k \in Nat : m = Len(h) /\ k = Len(Prototypes)
  BY HeapDomain, PrototypesShape DEF Safe
<1>2. k <= m /\ DOMAIN h = 1..m /\ DOMAIN Prototypes = 1..k /\ o \in k + 1..m
  BY <1>1, HeapDomain, PrototypesShape DEF Safe, MadeIn
<1>3. o \in DOMAIN h /\ IsHeap(h) /\ o \notin DOMAIN Prototypes
  BY <1>2 DEF Safe
<1>11. IsHeap(g) 
  BY Replaced
<1>12. Len(g) = Len(h) /\ DOMAIN g = DOMAIN h
  BY Replaced
<1>13. g[o] = x
  BY Replaced
<1>14. \A p \in DOMAIN h \ {o} : g[p] = h[p]
  BY Replaced
<1>15. \A p \in DOMAIN h : g[p].type = h[p].type
  BY Replaced
<1>4. /\ IsHeap(g)
      /\ Len(g) = Len(h) /\ DOMAIN g = DOMAIN h
      /\ g[o] = x
      /\ \A p \in DOMAIN h \ {o} : g[p] = h[p]
      /\ \A p \in DOMAIN h : g[p].type = h[p].type
  BY <1>11, <1>12, <1>13, <1>14, <1>15
<1>5. \A p \in DOMAIN Prototypes : g[p] = h[p]
  BY <1>2, <1>3, <1>4
<1>6. ASSUME NEW p, NEW j, NEW s, Refers(g, p, j, s)
      PROVE  Refers(h, p, j, s) \/ (r # 0 /\ p = o /\ j = i /\ s = r)
  BY <1>3, <1>4, <1>6 DEF Refers, Gains
<1>8. Len(h) <= Len(g)
  BY <1>1, <1>4
<1>7. Grown(h, g, o, i, r)
  BY <1>4, <1>5, <1>6, <1>8, Zenon DEF Grown
<1> QED
  BY <1>4, <1>7 DEF MadeIn

\* From heap h to g, e is put at position i of o.
Puts(h, g, o, i, e) ==
    \E supplied : g = [h EXCEPT ![o] = Put(@, i, e, supplied)]

LEMMA PutGrows ==
  ASSUME NEW h, NEW G, Safe(h, G), NEW o \in MadeIn(h), NEW i \in Positions(h[o].type),
         NEW e \in Component(h), Fits(h, e, Field(h[o].type, i)),
         NEW g, Puts(h, g, o, i, e)
  PROVE  /\ IsHeap(g) /\ Len(g) = Len(h) /\ MadeIn(g) = MadeIn(h)
         /\ Grown(h, g, o, i, e.ref)
<1>1. PICK x : x = h[o]
  OBVIOUS
<1>9. PICK supplied : g = [h EXCEPT ![o] = Put(@, i, e, supplied)]
  BY DEF Puts
<1>2. PICK y : y = Put(x, i, e, supplied)
  OBVIOUS
<1>3. o \in DOMAIN h /\ IsObject(h, x)
  BY <1>1, HeapDomain, PrototypesShape DEF Safe, MadeIn, IsHeap
<1>4. IsObject(h, y) /\ y.type = x.type
  BY <1>1, <1>2, <1>3, PutObject
<1>5. \A j \in DOMAIN y.comps :
            \/ j = i /\ y.comps[j] = e
            \/ y.comps[j] = Absent
            \/ j \in DOMAIN x.comps /\ y.comps[j] = x.comps[j]
  <2>1. /\ x = [type |-> x.type, isSchema |-> x.isSchema,
                comps |-> x.comps, chosen |-> x.chosen]
        /\ DOMAIN x.comps \subseteq Positions(x.type)
        /\ x.chosen \in {0} \cup Positions(x.type)
    BY <1>3 DEF IsObject
  <2>2. i \in Positions(x.type)
    BY <1>1
  <2> QED
    BY <1>2, <2>1, <2>2, PutComponents
<1>6. e.kind = "ref" => e.ref # 0
  BY HeapDomain DEF Component, Absent, Scalar, Ref, Safe
<1>7. Gains(h, o, y, i, e.ref)
  BY <1>1, <1>5, <1>6, Records DEF Gains
<1>8. Edited(h, g, o, y)
  BY <1>1, <1>2, <1>3, <1>4, <1>9 DEF Edited, Safe
<1> QED
  BY <1>7, <1>8, EditGrows

LEMMA TruncatedShape ==
  ASSUME NEW h, IsSequence(h), NEW n \in 0..Len(h)
  PROVE  /\ IsSequence(SubSeq(h, 1, n)) /\ Len(SubSeq(h, 1, n)) = n
         /\ \A o \in 1..n : SubSeq(h, 1, n)[o] = h[o]
<1>1. PICK S : h \in Seq(S)
  BY SequenceShape
<1>2. Len(h) \in Nat /\ n \in Nat /\ \A o \in 1..n : h[o] \in S
  BY <1>1
<1>3. /\ SubSeq(h, 1, n) \in Seq(S) /\ Len(SubSeq(h, 1, n)) = IF 1 <= n THEN n - 1 + 1 ELSE 0
      /\ \A o \in 1..n - 1 + 1 : SubSeq(h, 1, n)[o] = h[1 + o - 1]
  BY <1>2, SubSeqProperties
<1>4. IsSequence(SubSeq(h, 1, n))
  BY <1>3, IsSequenceIfSeq, Zenon
<1>5. Len(SubSeq(h, 1, n)) = n
  BY <1>2, <1>3
<1>6. ASSUME NEW o \in 1..n
      PROVE  SubSeq(h, 1, n)[o] = h[o]
  BY <1>2, <1>3
<1> QED
  BY <1>4, <1>5, <1>6

\* What nobody can reach may be dropped.
LEMMA Truncated ==
  ASSUME NEW h, NEW G, Safe(h, G), NEW n \in Nat, Len(Prototypes) <= n, n <= Len(h),
         Closed(h, G, n), G \subseteq MadeIn(h), NEW g, g = SubSeq(h, 1, n)
  PROVE  Safe(g, G) /\ Len(g) = n /\ G \subseteq MadeIn(g)
<1>1. PICK m \in Nat, k \in Nat : m = Len(h) /\ k = Len(Prototypes)
  BY HeapDomain, PrototypesShape DEF Safe
<1>2. k <= n /\ n <= m /\ DOMAIN h = 1..m /\ DOMAIN Prototypes = 1..k /\ IsSequence(h)
  BY <1>1, HeapDomain, PrototypesShape DEF Safe, IsHeap
<1>3. n \in 0..Len(h)
  BY <1>1, <1>2
<1>4. /\ IsSequence(g) /\ Len(g) = n
      /\ \A o \in 1..n : g[o] = h[o]
  BY <1>2, <1>3, TruncatedShape, Zenon
<1>5. DOMAIN g = 1..n
  BY <1>4, SequenceShape
<1>6. \A p \in DOMAIN Prototypes : g[p] = Prototypes[p]
  BY <1>2, <1>4 DEF Safe
<1>7. ASSUME NEW o \in DOMAIN g
      PROVE  IsObject(g, g[o])
  <2>1. CASE o \in 1..k
    <3>1. IsObject(Prototypes, g[o])
      BY <1>2, <1>6, <2>1, PrototypesShape DEF IsHeap
    <3>2. /\ DOMAIN Prototypes \subseteq DOMAIN g
          /\ \A p \in DOMAIN Prototypes : g[p].type = Prototypes[p].type
      BY <1>2, <1>5, <1>6
    <3> QED
      BY <3>1, <3>2, StillObject
  <2>2. CASE o \notin 1..k
    <3>1. o \in MadeIn(h) /\ g[o] = h[o] /\ o \in DOMAIN h /\ o <= n
      BY <1>1, <1>2, <1>4, <1>5, <2>2 DEF MadeIn
    <3>2. IsObject(h, g[o])
      BY <3>1 DEF Safe, IsHeap
    <3>3. ASSUME NEW i \in DOMAIN g[o].comps
          PROVE  /\ g[o].comps[i] \in Component(g)
                 /\ \/ g[o].comps[i] = Absent
                    \/ Fits(g, g[o].comps[i], Field(g[o].type, i))
      <4>1. /\ g[o].comps[i] \in Component(h)
            /\ \/ g[o].comps[i] = Absent
               \/ Fits(h, g[o].comps[i], Field(g[o].type, i))
        BY <3>2 DEF IsObject
      <4>2. CASE g[o].comps[i].kind = "ref"
        <5>1. PICK r : r = g[o].comps[i].ref
          OBVIOUS
        <5>2. Refers(h, o, i, r)
          BY <3>1, <4>2, <5>1 DEF Refers
        <5>3. r <= n /\ r \in 1..Len(h) /\ g[o].comps[i] = Ref(r)
          BY <3>1, <5>2, RefersTo DEF Closed, Safe
        <5>4. r \in DOMAIN g
          BY <1>1, <1>5, <5>3
        <5>5. g[r].type = h[r].type
          BY <1>4, <1>5, <5>4
        <5>6. g[o].comps[i] \in Component(g)
          BY <5>3, <5>4 DEF Component
        <5>7. PICK e, f : e = g[o].comps[i] /\ f = Field(g[o].type, i)
          OBVIOUS
        <5>8. e # Absent /\ e.kind = "ref" /\ e.ref = r
          BY <4>2, <5>3, <5>7, Records
        <5>9. Fits(h, e, f)
          BY <4>1, <5>7, <5>8
        <5>10. Fits(g, e, f)
          BY <5>5, <5>8, <5>9 DEF Fits
        <5> QED
          BY <5>6, <5>7, <5>10, Zenon
      <4>3. CASE g[o].comps[i].kind # "ref"
        <5>1. PICK e, f : e = g[o].comps[i] /\ f = Field(g[o].type, i)
          OBVIOUS
        <5>2. e \in Component(h) /\ e.kind # "ref"
          BY <4>1, <4>3, <5>1
        <5>3. e \in Component(g)
          BY <5>2, Records DEF Component
        <5>4. ASSUME e # Absent
              PROVE  Fits(g, e, f)
          BY <4>1, <5>1, <5>2, <5>4 DEF Fits
        <5> QED
          BY <5>1, <5>3, <5>4
      <4> QED
        BY <4>2, <4>3
    <3> QED
      BY <3>2, <3>3 DEF IsObject
  <2> QED
    BY <2>1, <2>2
<1>8. IsHeap(g)
  BY <1>4, <1>7 DEF IsHeap
<1>9. ASSUME NEW o \in MadeIn(g), NEW i, NEW r, Refers(g, o, i, r)
      PROVE  o \in MadeIn(h) /\ Refers(h, o, i, r) /\ r \in MadeIn(g)
  <2>1. o \in 1..n /\ r \in 1..n
    BY <1>4, <1>8, <1>9, RefersTo
  <2>2. o \in MadeIn(h) /\ Refers(h, o, i, r)
    BY <1>1, <1>2, <1>4, <1>9, <2>1 DEF MadeIn, Refers
  <2>3. r \in MadeIn(h)
    BY <2>2 DEF Safe, References
  <2> QED
    BY <1>1, <1>2, <1>4, <2>1, <2>2, <2>3 DEF MadeIn
<1>12. References(h, G)
  BY DEF Safe
<1>13. ASSUME NEW o \in MadeIn(g), NEW p \in MadeIn(g), NEW i, NEW j, NEW r,
              Refers(g, o, i, r), Refers(g, p, j, r), r \notin G
       PROVE  o = p /\ i = j
  <2>1. /\ o \in MadeIn(h) /\ Refers(h, o, i, r)
        /\ p \in MadeIn(h) /\ Refers(h, p, j, r)
    BY <1>9, <1>13
  <2> QED
    BY <1>12, <1>13, <2>1 DEF References
<1>10. References(g, G)
  BY <1>9, <1>13 DEF References
<1>11. G \subseteq MadeIn(g)
  BY <1>1, <1>2, <1>4 DEF Closed, MadeIn
<1> QED
  BY <1>1, <1>2, <1>4, <1>6, <1>8, <1>10, <1>11 DEF Safe

\* The calls that may be in progress while the heap is h.
CallIn(h) == [from : DOMAIN h, to : MadeIn(h), done : Nat,
              into : {0} \cup MadeIn(h), at : Nat]

\* Calls go on as the heap grows, as long as no clone in progress and nothing
\* older than the first of them is involved.
LEMMA CallsStay ==
  ASSUME NEW h, NEW G, Safe(h, G), NEW g, IsHeap(g),
         NEW o, NEW i, NEW r, Grown(h, g, o, i, r),
         NEW stack \in Seq(CallIn(h)), CallsOK(h, G, stack),
         \A k \in DOMAIN stack : stack[k].to # r,
         r # 0 /\ stack # <<>> => o \in Nat /\ o >= stack[1].to
  PROVE  stack \in Seq(CallIn(g)) /\ CallsOK(g, G, stack)
<1>1. PICK m \in Nat, n \in Nat, p \in Nat :
         m = Len(h) /\ n = Len(g) /\ p = Len(Prototypes)
  BY HeapDomain, PrototypesShape DEF Safe
<1>2. m <= n /\ DOMAIN h = 1..m /\ DOMAIN g = 1..n /\ p <= m
  BY <1>1, HeapDomain DEF Safe, Grown
<1>3. /\ MadeIn(h) \subseteq MadeIn(g) /\ DOMAIN h \subseteq DOMAIN g
      /\ MadeIn(h) \subseteq DOMAIN h
  BY <1>1, <1>2 DEF MadeIn
<1>4. CallIn(h) \subseteq CallIn(g)
  BY <1>3 DEF CallIn
<1>5. stack \in Seq(CallIn(g))
  BY <1>4
<1>6. ASSUME NEW k \in DOMAIN stack
      PROVE  CallOK(g, G, stack, k)
  <2>1. PICK c : c = stack[k]
    OBVIOUS
  <2>2. c \in CallIn(h)
    BY <2>1, ElementsOf
  <2>3. /\ h[c.to].type = h[c.from].type /\ Unseen(h, G, c.to)
        /\ k > 1 => c.into = stack[k - 1].to
        /\ c.into # 0 => Serves(h, c)
    BY <2>1 DEF CallsOK, CallOK
  <2>4. c.to \in MadeIn(h) /\ c.from \in DOMAIN h /\ c.into \in {0} \cup MadeIn(h)
    BY <2>2 DEF CallIn
  <2>5. \A q \in DOMAIN h : g[q].type = h[q].type
    BY DEF Grown
  <2>6. g[c.to].type = g[c.from].type
    BY <1>3, <2>3, <2>4, <2>5
  <2>7. c.to \notin G /\ c.to # r
    BY <2>1, <2>3 DEF Unseen
  <2>8. Unseen(g, G, c.to)
    BY <2>3, <2>7, StaysUnseen
  <2>9. ASSUME c.into # 0
        PROVE  Serves(g, c)
    <3>1. g[c.into].type = h[c.into].type /\ g[c.to].type = h[c.to].type
      BY <1>3, <2>4, <2>5, <2>9
    <3> QED
      BY <2>3, <2>9, <3>1, Records DEF Serves, Fits
  <2> QED
    BY <2>1, <2>3, <2>6, <2>8, <2>9 DEF CallOK
<1>7. ASSUME stack # <<>>
      PROVE  Closed(g, G, stack[1].to - 1)
  <2>1. 1 \in DOMAIN stack
    BY <1>7
  <2>2. stack[1].to \in MadeIn(h)
    <3>1. PICK c : c = stack[1]
      OBVIOUS
    <3>2. c \in CallIn(h)
      BY <2>1, <3>1, ElementsOf
    <3> QED
      BY <3>1, <3>2 DEF CallIn
  <2>3. PICK t : t = stack[1].to
    OBVIOUS
  <2>4. t \in Nat /\ t - 1 \in Nat
    BY <1>1, <2>2, <2>3 DEF MadeIn
  <2>5. Closed(h, G, t - 1)
    BY <1>7, <2>3 DEF CallsOK
  <2>6. r # 0 => o \in Nat /\ o > t - 1
    BY <1>7, <2>3, <2>4
  <2>7. Closed(g, G, t - 1)
    BY <2>4, <2>5, <2>6, StaysClosed
  <2> QED
    BY <2>3, <2>7
<1> QED
  BY <1>5, <1>6, <1>7 DEF CallsOK

-----------------------------------------------------------------------------
(* Calls.                                                                  *)

Advances(stack, next, i) == next = [stack EXCEPT ![Len(stack)].done = i]

Pops(stack, next) == next = SubSeq(stack, 1, Len(stack) - 1)

\* A call takes over one more component.
LEMMA CallsAdvance ==
  ASSUME NEW h, NEW G, NEW stack \in Seq(CallIn(h)), stack # <<>>, CallsOK(h, G, stack),
         NEW i \in Nat, NEW next, Advances(stack, next, i)
  PROVE  /\ next \in Seq(CallIn(h)) /\ CallsOK(h, G, next)
         /\ Len(next) = Len(stack) /\ next # <<>>
         /\ \A k \in DOMAIN stack : next[k].to = stack[k].to
<1>1. PICK n \in Nat : n = Len(stack) /\ n # 0 /\ DOMAIN stack = 1..n
  OBVIOUS
<1>2. PICK c : c = stack[n]
  OBVIOUS
<1>3. c \in CallIn(h)
  BY <1>1, <1>2, ElementsOf
<1>4. PICK d : d = [c EXCEPT !.done = i]
  OBVIOUS
<1>5. /\ d \in CallIn(h)
      /\ d.from = c.from /\ d.to = c.to /\ d.into = c.into /\ d.at = c.at
  BY <1>3, <1>4 DEF CallIn
<1>6. next = [stack EXCEPT ![n] = d]
  BY <1>1, <1>2, <1>4 DEF Advances
<1>7. /\ next \in Seq(CallIn(h)) /\ Len(next) = n /\ DOMAIN next = 1..n
      /\ next[n] = d /\ \A k \in 1..n : k # n => next[k] = stack[k]
  BY <1>1, <1>5, <1>6
<1>8. \A k \in 1..n : /\ next[k].from = stack[k].from /\ next[k].to = stack[k].to
                      /\ next[k].into = stack[k].into /\ next[k].at = stack[k].at
  BY <1>2, <1>5, <1>7
<1>9. ASSUME NEW k \in 1..n
      PROVE  CallOK(h, G, next, k)
  <2>1. CallOK(h, G, stack, k)
    BY <1>1 DEF CallsOK
  <2>2. k > 1 => k - 1 \in 1..n
    BY <1>1
  <2> QED
    BY <1>8, <2>1, <2>2 DEF CallOK, Serves
<1>10. \A k, l \in 1..n : k < l => next[k].to < next[l].to
  BY <1>1, <1>8 DEF CallsOK
<1>11. Closed(h, G, next[1].to - 1)
  BY <1>1, <1>8 DEF CallsOK
<1>12. next # <<>>
  BY <1>1, <1>7
<1>14. DOMAIN next = 1..n
  BY <1>7
<1>13. CallsOK(h, G, next)
  BY <1>9, <1>10, <1>11, <1>14, Zenon DEF CallsOK
<1> QED
  BY <1>1, <1>7, <1>8, <1>12, <1>13

\* A call is added.
LEMMA CallsPush ==
  ASSUME NEW h, NEW G, NEW stack \in Seq(CallIn(h)), CallsOK(h, G, stack),
         NEW c \in CallIn(h),
         h[c.to].type = h[c.from].type, Unseen(h, G, c.to),
         c.into # 0 => Serves(h, c),
         \A k \in DOMAIN stack : stack[k].to < c.to,
         stack # <<>> => c.into = stack[Len(stack)].to,
         stack = <<>> => Closed(h, G, c.to - 1),
         NEW next, next = Append(stack, c)
  PROVE  next \in Seq(CallIn(h)) /\ CallsOK(h, G, next)
<1>1. PICK n \in Nat : n = Len(stack) /\ DOMAIN stack = 1..n /\ (n = 0 <=> stack = <<>>)
  OBVIOUS
<1>2. /\ next \in Seq(CallIn(h)) /\ Len(next) = n + 1 /\ DOMAIN next = 1..n + 1
      /\ next[n + 1] = c /\ \A k \in 1..n : next[k] = stack[k]
  BY <1>1, AppendProperties
<1>3. ASSUME NEW k \in 1..n + 1
      PROVE  CallOK(h, G, next, k)
  <2>1. CASE k = n + 1
    <3>1. k > 1 => c.into = next[k - 1].to
      BY <1>1, <1>2, <2>1
    <3> QED
      BY <1>2, <2>1, <3>1 DEF CallOK
  <2>2. CASE k # n + 1
    <3>1. k \in 1..n /\ CallOK(h, G, stack, k)
      BY <1>1, <2>2 DEF CallsOK
    <3>2. next[k] = stack[k] /\ (k > 1 => next[k - 1] = stack[k - 1])
      BY <1>1, <1>2, <3>1
    <3> QED
      BY <3>1, <3>2 DEF CallOK
  <2> QED
    BY <2>1, <2>2
<1>4. ASSUME NEW k \in 1..n + 1, NEW l \in 1..n + 1, k < l
      PROVE  next[k].to < next[l].to
  <2>1. k \in 1..n
    BY <1>4
  <2>2. CASE l = n + 1
    BY <1>1, <1>2, <2>1, <2>2
  <2>3. CASE l # n + 1
    <3>1. l \in 1..n
      BY <2>3
    <3> QED
      BY <1>1, <1>2, <1>4, <2>1, <3>1 DEF CallsOK
  <2> QED
    BY <2>2, <2>3
<1>5. Closed(h, G, next[1].to - 1)
  BY <1>1, <1>2 DEF CallsOK
<1> QED
  BY <1>2, <1>3, <1>4, <1>5 DEF CallsOK

\* The last call is over.
LEMMA CallsPop ==
  ASSUME NEW h, NEW G, NEW stack \in Seq(CallIn(h)), stack # <<>>, CallsOK(h, G, stack),
         NEW next, Pops(stack, next)
  PROVE  /\ next \in Seq(CallIn(h)) /\ CallsOK(h, G, next)
         /\ Len(next) = Len(stack) - 1
         /\ \A k \in DOMAIN next : next[k] = stack[k] /\ k \in DOMAIN stack
<1>1. PICK n \in Nat : n = Len(stack) /\ n # 0 /\ DOMAIN stack = 1..n
  OBVIOUS
<1>2. /\ next \in Seq(CallIn(h)) /\ Len(next) = n - 1 /\ DOMAIN next = 1..n - 1
      /\ \A k \in 1..n - 1 : next[k] = stack[k]
  BY <1>1 DEF Pops
<1>3. ASSUME NEW k \in 1..n - 1
      PROVE  CallOK(h, G, next, k)
  <2>1. k \in 1..n /\ CallOK(h, G, stack, k)
    BY <1>1 DEF CallsOK
  <2>2. next[k] = stack[k] /\ (k > 1 => next[k - 1] = stack[k - 1])
    BY <1>1, <1>2
  <2> QED
    BY <2>1, <2>2 DEF CallOK
<1>4. ASSUME NEW k \in 1..n - 1, NEW l \in 1..n - 1, k < l
      PROVE  next[k].to < next[l].to
  <2>1. k \in DOMAIN stack /\ l \in DOMAIN stack
    BY <1>1
  <2>2. stack[k].to < stack[l].to
    BY <1>4, <2>1 DEF CallsOK
  <2> QED
    BY <1>2, <2>2
<1>5. next # <<>> => Closed(h, G, next[1].to - 1)
  BY <1>1, <1>2 DEF CallsOK
<1>6. CallsOK(h, G, next)
  BY <1>2, <1>3, <1>4, <1>5 DEF CallsOK
<1> QED
  BY <1>1, <1>2, <1>6

\* A clone of p may be put where it is for.
Wanted(h, p, into, at) ==
    into # 0 => /\ at \in Positions(h[into].type)
                /\ Fits(h, Ref(p), Field(h[into].type, at))

\* CallClone, of heaps and calls.
Calls(h, g, stack, next, p, into, at) ==
    /\ g = Append(h, Fresh(h[p].type))
    /\ next = Append(stack, [from |-> p, to |-> Len(h) + 1, done |-> 0,
                             into |-> into, at |-> at])

\* clone() is called, by the last of the calls in progress if there are any.
LEMMA CallsClone ==
  ASSUME NEW h, NEW G, Safe(h, G), G \subseteq MadeIn(h),
         NEW stack \in Seq(CallIn(h)), CallsOK(h, G, stack),
         NEW p \in DOMAIN h, NEW into \in {0} \cup MadeIn(h), NEW at \in Nat,
         Wanted(h, p, into, at), stack # <<>> => into = stack[Len(stack)].to,
         NEW g, NEW next, Calls(h, g, stack, next, p, into, at)
  PROVE  /\ Safe(g, G) /\ G \subseteq MadeIn(g)
         /\ next \in Seq(CallIn(g)) /\ CallsOK(g, G, next)
<1>1. PICK m \in Nat, k \in Nat : m = Len(h) /\ k = Len(Prototypes)
  BY HeapDomain, PrototypesShape DEF Safe
<1>2. k <= m /\ DOMAIN h = 1..m /\ MadeIn(h) = k + 1..m /\ IsHeap(h)
  BY <1>1, HeapDomain DEF Safe, MadeIn
<1>3. PICK t : t = h[p].type
  OBVIOUS
<1>4. t \in Types
  BY <1>2, <1>3 DEF IsHeap, IsObject
<1>23. PICK c : c = [from |-> p, to |-> Len(h) + 1, done |-> 0, into |-> into, at |-> at]
  OBVIOUS
<1>5. Extended(h, g, t) /\ next = Append(stack, c)
  BY <1>3, <1>4, <1>23 DEF Calls, Extended
<1>6. /\ IsHeap(g) /\ Len(g) = Len(h) + 1 /\ MadeIn(h) \subseteq MadeIn(g)
      /\ Len(g) \in MadeIn(g) /\ Len(g) \notin DOMAIN h
      /\ \A o \in DOMAIN h : g[o] = h[o]
      /\ g[Len(g)] = Fresh(t)
      /\ \A o, i : Grown(h, g, o, i, 0)
  BY <1>5, NewGrows, Zenon
<1>7. Grown(h, g, 0, 0, 0)
  BY <1>6
<1>8. Safe(g, G)
  BY <1>6, <1>7, StaysSafe
<1>9. \A j \in DOMAIN stack : stack[j] \in CallIn(h)
  BY ElementsOf
<1>10. \A j \in DOMAIN stack : stack[j].to \in k + 1..m
  BY <1>2, <1>9 DEF CallIn
<1>11. \A j \in DOMAIN stack : stack[j].to # 0
  BY <1>10
<1>12. stack \in Seq(CallIn(g)) /\ CallsOK(g, G, stack)
  BY <1>6, <1>7, <1>11, CallsStay
<1>13. DOMAIN h \subseteq DOMAIN g /\ m + 1 \in MadeIn(g)
  BY <1>1, <1>2, <1>6, HeapDomain
<1>14. c \in CallIn(g)
  BY <1>1, <1>6, <1>13, <1>23 DEF CallIn
<1>24. c.to = m + 1 /\ c.from = p /\ c.into = into /\ c.at = at
  BY <1>1, <1>23
<1>15. g[c.to].type = g[c.from].type
  <2>1. g[m + 1].type = t
    BY <1>1, <1>6 DEF Fresh
  <2>2. g[p].type = t
    BY <1>3, <1>6
  <2> QED
    BY <1>24, <2>1, <2>2
<1>16. ASSUME NEW o, NEW i, NEW r, Refers(g, o, i, r)
       PROVE  r \in 1..m
  BY <1>1, <1>7, <1>16, RefersTo DEF Grown, Safe
<1>17. Unseen(g, G, c.to)
  BY <1>2, <1>16, <1>24 DEF Unseen
<1>18. Closed(g, G, c.to - 1)
  <2>1. c.to - 1 = m /\ G \subseteq 1..m
    BY <1>1, <1>2, <1>24
  <2> QED
    BY <1>16, <2>1 DEF Closed
<1>19. ASSUME c.into # 0
       PROVE  Serves(g, c)
  <2>1. into # 0 /\ into \in DOMAIN h
    BY <1>2, <1>19, <1>24
  <2>2. g[into].type = h[into].type /\ g[p].type = h[p].type
    BY <1>6, <2>1
  <2>3. Fits(h, Ref(p), Field(h[into].type, at)) /\ at \in Positions(h[into].type)
    BY <2>1 DEF Wanted
  <2>4. Fits(g, Ref(m + 1), Field(g[into].type, at))
    BY <1>15, <1>24, <2>2, <2>3, Records DEF Fits
  <2> QED
    BY <1>24, <2>2, <2>3, <2>4 DEF Serves
<1>20. \A j \in DOMAIN stack : stack[j].to < c.to
  BY <1>10, <1>24
<1>21. stack # <<>> => c.into = stack[Len(stack)].to
  BY <1>24
<1>22. next \in Seq(CallIn(g)) /\ CallsOK(g, G, next)
  BY <1>5, <1>12, <1>14, <1>15, <1>17, <1>18, <1>19, <1>20, <1>21, CallsPush
<1> QED
  BY <1>6, <1>8, <1>22

-----------------------------------------------------------------------------
(* Steps.                                                                  *)

LEMMA Known ==
  ASSUME IInv
  PROVE  /\ IsHeap(heap) /\ Safe(heap, given) /\ given \subseteq MadeIn(heap)
         /\ copying \in Seq(CallIn(heap)) /\ CallsOK(heap, given, copying)
         /\ Len(heap) \in Nat /\ DOMAIN heap = 1..Len(heap)
         /\ MadeIn(heap) \subseteq DOMAIN heap /\ 0 \notin MadeIn(heap)
         /\ Made = MadeIn(heap) /\ Made \subseteq Nat
         /\ \A o \in DOMAIN heap : IsObject(heap, heap[o])
<1>1. /\ IsHeap(heap) /\ Safe(heap, given) /\ given \subseteq MadeIn(heap)
      /\ copying \in Seq(CallIn(heap)) /\ CallsOK(heap, given, copying)
      /\ Made = MadeIn(heap)
  BY DEF IInv, TypeOK, Made, MadeIn, Call, CallIn
<1>2. /\ Len(heap) \in Nat /\ DOMAIN heap = 1..Len(heap)
      /\ MadeIn(heap) \subseteq DOMAIN heap /\ 0 \notin MadeIn(heap)
      /\ MadeIn(heap) \subseteq Nat
  BY <1>1, HeapDomain, PrototypesShape DEF MadeIn
<1> QED
  BY <1>1, <1>2 DEF IsHeap

LEMMA Concluded ==
  ASSUME Safe(heap', given'), given' \subseteq MadeIn(heap'),
         copying' \in Seq(CallIn(heap')), CallsOK(heap', given', copying')
  PROVE  IInv'
BY DEF IInv, TypeOK, Made, MadeIn, Call, CallIn, Safe

\* An operation of the application: no clone() is in progress.
LEMMA IdleStep ==
  ASSUME IInv, Idle, copying' = copying, IsHeap(heap'),
         NEW o, NEW i, NEW r, Grown(heap, heap', o, i, r),
         given \subseteq given', given' \subseteq MadeIn(heap'),
         r # 0 => r \in MadeIn(heap') /\ (r \in given' \/ Unseen(heap, given, r))
  PROVE  IInv'
<1>1. PICK g, H : g = heap' /\ H = given'
  OBVIOUS
<1>2. Safe(g, H)
  BY <1>1, Known, StaysSafe
<1>3. copying' \in Seq(CallIn(heap')) /\ CallsOK(heap', given', copying')
  BY DEF Idle, CallsOK
<1> QED
  BY <1>1, <1>2, <1>3, Concluded

LEMMA StartStep ==
  ASSUME IInv, NEW p \in DOMAIN heap,
         NEW stack \in Seq(CallIn(heap)), CallsOK(heap, given, stack),
         NEW into \in {0} \cup MadeIn(heap), NEW at \in Nat,
         Wanted(heap, p, into, at), stack # <<>> => into = stack[Len(stack)].to,
         CallClone(p, stack, into, at)
  PROVE  IInv'
<1>1. PICK g, next : g = heap' /\ next = copying'
  OBVIOUS
<1>2. Calls(heap, g, stack, next, p, into, at) /\ given' = given
  BY <1>1 DEF Calls, CallClone
<1>3. /\ Safe(g, given) /\ given \subseteq MadeIn(g)
      /\ next \in Seq(CallIn(g)) /\ CallsOK(g, given, next)
  BY <1>1, <1>2, Known, CallsClone
<1> QED
  BY <1>1, <1>2, <1>3, Concluded

LEMMA TopCall ==
  ASSUME IInv, ~ Idle
  PROVE  /\ copying # <<>> /\ Len(copying) \in Nat /\ Len(copying) > 0
         /\ Len(copying) \in DOMAIN copying /\ Top \in CallIn(heap)
         /\ CallOK(heap, given, copying, Len(copying))
         /\ \A k \in DOMAIN copying : copying[k].to \in MadeIn(heap)
<1>1. PICK n \in Nat : n = Len(copying) /\ n # 0 /\ DOMAIN copying = 1..n
  BY Known DEF Idle
<1>2. \A k \in DOMAIN copying : copying[k] \in CallIn(heap)
  BY Known, ElementsOf
<1>3. \A k \in DOMAIN copying : copying[k].to \in MadeIn(heap)
  BY <1>2 DEF CallIn
<1> QED
  BY <1>1, <1>2, <1>3, Known DEF Idle, Top, CallsOK

\* What a clone has still to take over.
LEMMA LeftComponent ==
  ASSUME IInv, ~ Idle, NEW i \in Left
  PROVE  /\ i \in Positions(heap[Top.to].type) /\ i \in Nat
         /\ Top.to \in MadeIn(heap)
         /\ heap[Top.from].comps[i] \in Component(heap)
         /\ Fits(heap, heap[Top.from].comps[i], Field(heap[Top.to].type, i))
         /\ heap[Top.from].comps[i].kind = "ref" =>
               heap[Top.from].comps[i] = Ref(heap[Top.from].comps[i].ref)
               /\ heap[Top.from].comps[i].ref \in DOMAIN heap
<1>1. /\ Top.from \in DOMAIN heap /\ Top.to \in MadeIn(heap)
      /\ heap[Top.to].type = heap[Top.from].type
  BY TopCall DEF CallIn, CallOK, Top
<1>2. PICK x : x = heap[Top.from]
  OBVIOUS
<1>3. IsObject(heap, x)
  BY <1>1, <1>2, Known
<1>4. i \in DOMAIN x.comps /\ x.comps[i] # Absent
  BY <1>2 DEF Left, Cloned, Holds
<1>5. /\ x.type \in Types /\ i \in Positions(x.type) /\ x.comps[i] \in Component(heap)
      /\ Fits(heap, x.comps[i], Field(x.type, i))
  BY <1>3, <1>4 DEF IsObject
<1>6. i \in Nat
  BY <1>5, Fields
<1>7. x.comps[i].kind = "ref" => x.comps[i] = Ref(x.comps[i].ref)
                                 /\ x.comps[i].ref \in DOMAIN heap
  BY <1>5, Records DEF Component
<1> QED
  BY <1>1, <1>2, <1>5, <1>6, <1>7

LEMMA TakeScalarStep ==
  ASSUME IInv, ~ Idle, NEW i \in Left, TakeScalar(i)
  PROVE  IInv'
<1>1. PICK g, next, e, o :
         /\ g = heap' /\ next = copying' /\ e = heap[Top.from].comps[i] /\ o = Top.to
  OBVIOUS
<1>2. /\ o \in MadeIn(heap) /\ i \in Positions(heap[o].type) /\ i \in Nat
      /\ e \in Component(heap) /\ Fits(heap, e, Field(heap[o].type, i))
      /\ e.kind = "scalar"
  BY <1>1, LeftComponent DEF TakeScalar
<1>3. Puts(heap, g, o, i, e)
  BY <1>1 DEF TakeScalar, Puts
<1>4. Advances(copying, next, i) /\ given' = given
  BY <1>1 DEF TakeScalar, Advanced, Advances
<1>5. e.ref = 0
  BY <1>2 DEF Component, Absent, Scalar, Ref
<1>6. /\ IsHeap(g) /\ MadeIn(g) = MadeIn(heap)
      /\ Grown(heap, g, o, i, 0)
  BY <1>2, <1>3, <1>5, Known, PutGrows
<1>7. Safe(g, given)
  BY <1>6, Known, StaysSafe
<1>8. /\ next \in Seq(CallIn(heap)) /\ CallsOK(heap, given, next)
      /\ \A k \in DOMAIN next : k \in DOMAIN copying /\ next[k].to = copying[k].to
  <2>1. DOMAIN next = DOMAIN copying
    BY <1>4 DEF Advances
  <2> QED
    BY <1>2, <1>4, <2>1, Known, TopCall, CallsAdvance
<1>9. \A k \in DOMAIN next : next[k].to # 0
  BY <1>8, TopCall, Known
<1>10. next \in Seq(CallIn(g)) /\ CallsOK(g, given, next)
  BY <1>6, <1>8, <1>9, Known, CallsStay
<1> QED
  BY <1>1, <1>4, <1>6, <1>7, <1>10, Known, Concluded

LEMMA CloneComponentStep ==
  ASSUME IInv, ~ Idle, NEW i \in Left, CloneComponent(i)
  PROVE  IInv'
<1>1. PICK next, e, o, p :
         /\ next = Advanced(i) /\ e = heap[Top.from].comps[i] /\ o = Top.to /\ p = e.ref
  OBVIOUS
<1>2. /\ o \in MadeIn(heap) /\ i \in Positions(heap[o].type) /\ i \in Nat
      /\ e \in Component(heap) /\ Fits(heap, e, Field(heap[o].type, i))
      /\ e = Ref(p) /\ p \in DOMAIN heap
  BY <1>1, LeftComponent DEF CloneComponent
<1>3. CallClone(p, next, o, i)
  BY <1>1 DEF CloneComponent
<1>4. Advances(copying, next, i)
  BY <1>1 DEF Advanced, Advances
<1>5. /\ next \in Seq(CallIn(heap)) /\ CallsOK(heap, given, next)
      /\ Len(next) = Len(copying) /\ \A k \in DOMAIN copying : next[k].to = copying[k].to
  BY <1>2, <1>4, Known, TopCall, CallsAdvance
<1>6. o = next[Len(next)].to
  BY <1>1, <1>5, TopCall DEF Top
<1>7. Wanted(heap, p, o, i)
  BY <1>2 DEF Wanted
<1> QED
  BY <1>2, <1>3, <1>5, <1>6, <1>7, StartStep

LEMMA CloneReturnsStep ==
  ASSUME IInv, ~ Idle, CloneReturns
  PROVE  IInv'
<1>1. PICK g, next, t, o, i :
         g = heap' /\ next = copying' /\ t = Top.to /\ o = Top.into /\ i = Top.at
  OBVIOUS
<1>2. Pops(copying, next) /\ given' = given
  BY <1>1 DEF CloneReturns, Pops
<1>3. /\ next \in Seq(CallIn(heap)) /\ CallsOK(heap, given, next)
      /\ Len(next) = Len(copying) - 1
      /\ \A k \in DOMAIN next : next[k] = copying[k] /\ k \in DOMAIN copying
  BY <1>2, Known, TopCall, CallsPop
<1>4. CASE o = 0
  <2>1. heap' = heap
    BY <1>1, <1>4 DEF CloneReturns
  <2> QED
    BY <1>1, <1>2, <1>3, <2>1, Known, Concluded
<1>5. CASE o # 0
  <2>1. Puts(heap, g, o, i, Ref(t))
    BY <1>1, <1>5 DEF CloneReturns, Puts
  <2>2. /\ o \in MadeIn(heap) /\ t \in MadeIn(heap) /\ t # 0
        /\ i \in Positions(heap[o].type)
        /\ Fits(heap, Ref(t), Field(heap[o].type, i)) /\ Unseen(heap, given, t)
    BY <1>1, <1>5, TopCall, Known DEF CallIn, CallOK, Serves, Top
  <2>3. Ref(t) \in Component(heap) /\ Ref(t).ref = t
    BY <2>2, Known, Records DEF Component
  <2>4. PICK e : e = Ref(t)
    OBVIOUS
  <2>5. IsHeap(g) /\ MadeIn(g) = MadeIn(heap) /\ Grown(heap, g, o, i, t)
    BY <2>1, <2>2, <2>3, <2>4, Known, PutGrows
  <2>6. Safe(g, given)
    BY <2>2, <2>5, Known, StaysSafe
  <2>7. PICK n \in Nat : n = Len(copying) /\ n # 0 /\ DOMAIN copying = 1..n
    BY TopCall, Known
  <2>8. DOMAIN next = 1..n - 1
    BY <1>3, <2>7
  <2>9. ASSUME NEW k \in DOMAIN next
        PROVE  next[k].to # t
    <3>1. k \in 1..n /\ k < n /\ next[k] = copying[k] /\ n \in DOMAIN copying
      BY <1>3, <2>7, <2>8
    <3>2. copying[k].to < copying[n].to
      BY <2>7, <3>1, Known DEF CallsOK
    <3>3. copying[k].to \in Nat
      BY <2>7, <3>1, TopCall, Known
    <3> QED
      BY <1>1, <2>7, <3>1, <3>2, <3>3 DEF Top
  <2>10. ASSUME next # <<>>
         PROVE  o \in Nat /\ o >= next[1].to
    <3>1. n > 1 /\ n - 1 \in DOMAIN copying /\ 1 \in DOMAIN copying /\ 1 \in DOMAIN next
      BY <1>3, <2>7, <2>8, <2>10
    <3>2. o = copying[n - 1].to
      BY <1>1, <2>7, <3>1, TopCall DEF CallOK, Top
    <3>3. copying[n - 1].to >= copying[1].to
      <4>1. CASE n - 1 = 1
        <5>1. copying[1].to \in Nat
          BY <3>1, TopCall, Known
        <5> QED
          BY <4>1, <5>1
      <4>2. CASE n - 1 # 1
        <5>1. copying[1].to < copying[n - 1].to
          BY <2>7, <3>1, <4>2, Known DEF CallsOK
        <5>2. copying[1].to \in Nat /\ copying[n - 1].to \in Nat
          BY <3>1, TopCall, Known
        <5> QED
          BY <5>1, <5>2
      <4> QED
        BY <4>1, <4>2
    <3>4. next[1] = copying[1] /\ o \in Nat
      BY <1>3, <2>2, <3>1, Known
    <3> QED
      BY <3>2, <3>3, <3>4
  <2>11. next \in Seq(CallIn(g)) /\ CallsOK(g, given, next)
    BY <1>3, <2>5, <2>9, <2>10, Known, CallsStay
  <2> QED
    BY <1>1, <1>2, <2>5, <2>6, <2>11, Known, Concluded
<1> QED
  BY <1>4, <1>5

LEMMA CloneRaisesStep ==
  ASSUME IInv, ~ Idle, CloneRaises
  PROVE  IInv'
<1>1. PICK g, n : g = heap' /\ n = copying[1].to - 1
  OBVIOUS
<1>2. copying[1].to \in MadeIn(heap) /\ Closed(heap, given, n)
  BY <1>1, TopCall, Known DEF CallsOK
<1>3. /\ n \in Nat /\ Len(Prototypes) <= n /\ n <= Len(heap)
  BY <1>1, <1>2, PrototypesShape, Known DEF MadeIn
<1>4. g = SubSeq(heap, 1, n) /\ given' = given /\ copying' = <<>>
  BY <1>1 DEF CloneRaises
<1>5. Safe(g, given) /\ given \subseteq MadeIn(g)
  BY <1>2, <1>3, <1>4, Known, Truncated
<1>6. copying' \in Seq(CallIn(heap')) /\ CallsOK(heap', given', copying')
  BY <1>4 DEF CallsOK
<1> QED
  BY <1>1, <1>4, <1>5, <1>6, Concluded

LEMMA NewStep ==
  ASSUME IInv, NEW t \in Types, New(t)
  PROVE  IInv'
<1>1. PICK g : g = heap'
  OBVIOUS
<1>2. Extended(heap, g, t) /\ Idle /\ given' = given /\ copying' = copying
  BY <1>1 DEF New, Extended
<1>3. IsHeap(g) /\ MadeIn(heap) \subseteq MadeIn(g) /\ Grown(heap, g, 0, 0, 0)
  BY <1>2, Known, NewGrows
<1>4. given' \subseteq MadeIn(heap')
  BY <1>1, <1>2, <1>3, Known
<1> QED
  BY <1>1, <1>2, <1>3, <1>4, IdleStep

LEMMA CloneValueStep ==
  ASSUME IInv, NEW o \in Made, CloneValue(o)
  PROVE  IInv'
<1>1. CallClone(o, <<>>, 0, 0) /\ o \in DOMAIN heap
  BY Known DEF CloneValue
<1>2. <<>> \in Seq(CallIn(heap)) /\ CallsOK(heap, given, <<>>)
  BY DEF CallsOK
<1>3. Wanted(heap, o, 0, 0)
  BY DEF Wanted
<1> QED
  BY <1>1, <1>2, <1>3, StartStep

\* An object is replaced by one without references.
LEMMA EmptiedStep ==
  ASSUME IInv, Idle, NEW o \in Made, NEW x, IsObject(heap, x), x.type = heap[o].type,
         \A j \in DOMAIN x.comps : x.comps[j].kind # "ref",
         heap' = [heap EXCEPT ![o] = x], given' = given, copying' = copying
  PROVE  IInv'
<1>1. PICK g : g = heap'
  OBVIOUS
<1>2. Edited(heap, g, o, x) /\ o \in MadeIn(heap)
  BY <1>1, Known DEF Edited
<1>3. Gains(heap, o, x, 0, 0)
  BY DEF Gains
<1>4. IsHeap(g) /\ MadeIn(g) = MadeIn(heap) /\ Grown(heap, g, o, 0, 0)
  BY <1>2, <1>3, Known, EditGrows
<1>5. given' \subseteq MadeIn(heap')
  BY <1>1, <1>4, Known
<1> QED
  BY <1>1, <1>4, <1>5, IdleStep

LEMMA ClearStep ==
  ASSUME IInv, NEW o \in Made, Clear(o)
  PROVE  IInv'
<1>1. PICK y, x :
         y = heap[o] /\ x = [y EXCEPT !.isSchema = FALSE, !.comps = <<>>, !.chosen = 0]
  OBVIOUS
<1>2. IsObject(heap, y)
  BY <1>1, Known
<1>3. x = [type |-> y.type, isSchema |-> FALSE, comps |-> <<>>, chosen |-> 0]
  BY <1>1, <1>2 DEF IsObject
<1>4. y.type \in Types
  BY <1>2 DEF IsObject
<1>5. IsObject(heap, x) /\ x.type = y.type /\ DOMAIN x.comps = {}
  BY <1>3, <1>4 DEF IsObject
<1>6. heap' = [heap EXCEPT ![o] = x] /\ Idle /\ given' = given /\ copying' = copying
  BY <1>1 DEF Clear
<1> QED
  BY <1>1, <1>5, <1>6, EmptiedStep

LEMMA ResetStep ==
  ASSUME IInv, NEW o \in Made, Reset(o)
  PROVE  IInv'
<1>1. PICK y, x : y = heap[o] /\ x = [y EXCEPT !.isSchema = TRUE, !.comps = <<>>]
  OBVIOUS
<1>2. IsObject(heap, y)
  BY <1>1, Known
<1>3. x = [type |-> y.type, isSchema |-> TRUE, comps |-> <<>>, chosen |-> y.chosen]
  BY <1>1, <1>2 DEF IsObject
<1>4. /\ y.type \in Types /\ y.chosen \in {0} \cup Positions(y.type)
      /\ Schemas[y.type].kind # "choice" => y.chosen = 0
  BY <1>2 DEF IsObject
<1>5. IsObject(heap, x) /\ x.type = y.type /\ DOMAIN x.comps = {}
  BY <1>3, <1>4 DEF IsObject
<1>6. heap' = [heap EXCEPT ![o] = x] /\ Idle /\ given' = given /\ copying' = copying
  BY <1>1 DEF Reset
<1> QED
  BY <1>1, <1>5, <1>6, EmptiedStep

\* As many positions as a SEQUENCE OF has components are positions of it.
LEMMA Counted ==
  ASSUME NEW h, NEW x, IsObject(h, x), Schemas[x.type].kind = "of"
  PROVE  /\ Cardinality(DOMAIN x.comps) \in Nat
         /\ Cardinality(DOMAIN x.comps) <= MaxLength
<1>1. MaxLength \in Nat /\ DOMAIN x.comps \subseteq 1..MaxLength
  BY BoundsAssumption DEF IsObject, Positions
<1>2. IsFiniteSet(1..MaxLength) /\ Cardinality(1..MaxLength) = MaxLength
  BY <1>1, FS_Interval
<1> QED
  BY <1>1, <1>2, FS_Subset, FS_CardinalityType

LEMMA SortUpStep ==
  ASSUME IInv, NEW o \in Made, SortUp(o)
  PROVE  IInv'
<1> DEFINE y == heap[o]
           held == y.comps
           n == Cardinality(DOMAIN held)
<1>2. /\ IsObject(heap, y) /\ Schemas[y.type].kind = "of" /\ ~y.isSchema
      /\ \A i \in DOMAIN held : held[i].kind = "scalar"
  BY Known DEF SortUp, Kind
<1>3. PICK order \in [1..n -> DOMAIN held] :
         heap' = [heap EXCEPT ![o].comps = [k \in 1..n |-> held[order[k]]]]
  BY Zenon DEF SortUp
<1>4. PICK sorted : sorted = [k \in 1..n |-> held[order[k]]]
  OBVIOUS
<1>5. n \in Nat /\ n <= MaxLength /\ MaxLength \in Nat
  BY <1>2, Counted, BoundsAssumption
<1>6. PICK x : x = [y EXCEPT !.comps = sorted]
  OBVIOUS
<1>7. /\ x = [type |-> y.type, isSchema |-> FALSE, comps |-> sorted, chosen |-> y.chosen]
      /\ y.type \in Types /\ y.chosen \in {0} \cup Positions(y.type)
  BY <1>2, <1>6 DEF IsObject
<1>8. ASSUME NEW k \in DOMAIN sorted
      PROVE  /\ sorted[k] \in Component(heap) /\ sorted[k].kind = "scalar"
             /\ Fits(heap, sorted[k], Field(y.type, k))
  <2>1. k \in 1..n /\ order[k] \in DOMAIN held /\ sorted[k] = held[order[k]]
    BY <1>4
  <2>2. PICK e : e = held[order[k]]
    OBVIOUS
  <2>3. /\ e \in Component(heap) /\ e.kind = "scalar"
        /\ e = Absent \/ Fits(heap, e, Field(y.type, order[k]))
    BY <1>2, <2>1, <2>2 DEF IsObject
  <2>4. Field(y.type, order[k]) = Field(y.type, k)
    BY <1>2 DEF Field
  <2> QED
    BY <2>1, <2>2, <2>3, <2>4, Records
<1>9. DOMAIN sorted \subseteq Positions(y.type)
  BY <1>2, <1>4, <1>5 DEF Positions
<1>10. x.type = y.type /\ x.comps = sorted /\ x.isSchema = FALSE /\ x.chosen = y.chosen
  BY <1>7
<1>15. y.chosen = 0 /\ \A k \in DOMAIN sorted : sorted[k] # Absent
  BY <1>2, <1>8, Records DEF IsObject
<1>11. IsObject(heap, x)
  BY <1>2, <1>7, <1>8, <1>9, <1>10, <1>15 DEF IsObject
<1>12. heap' = [heap EXCEPT ![o] = x]
  BY <1>3, <1>4, <1>6
<1>13. \A j \in DOMAIN x.comps : x.comps[j].kind # "ref"
  BY <1>8, <1>10
<1>14. Idle /\ given' = given /\ copying' = copying
  BY DEF SortUp
<1> QED
  BY <1>10, <1>11, <1>12, <1>13, <1>14, EmptiedStep

\* Something is put into object o: a scalar, or an object that nobody has or that
\* is from now on one the application has given.
LEMMA PutStep ==
  ASSUME IInv, Idle, NEW o \in Made, NEW i \in Positions(heap[o].type),
         NEW e \in Component(heap), Fits(heap, e, Field(heap[o].type, i)),
         e.ref # 0 => e.ref \in Made /\ e.ref \in given',
         Puts(heap, heap', o, i, e),
         given \subseteq given', given' \subseteq Made, copying' = copying
  PROVE  IInv'
<1>1. PICK g : g = heap'
  OBVIOUS
<1>2. o \in MadeIn(heap) /\ Puts(heap, g, o, i, e)
  BY <1>1, Known
<1>3. IsHeap(g) /\ MadeIn(g) = MadeIn(heap) /\ Grown(heap, g, o, i, e.ref)
  BY <1>2, Known, PutGrows
<1>4. PICK r : r = e.ref
  OBVIOUS
<1>5. r # 0 => r \in MadeIn(heap') /\ r \in given'
  BY <1>1, <1>3, <1>4, Known
<1>6. given' \subseteq MadeIn(heap')
  BY <1>1, <1>3, Known
<1> QED
  BY <1>1, <1>3, <1>4, <1>5, <1>6, IdleStep

LEMMA SetStep ==
  ASSUME IInv, NEW o \in Made, NEW i \in Positions(heap[o].type), NEW e \in Entries,
         Set(o, i, e)
  PROVE  IInv'
<1>1. \/ \E n \in Numbers : e = Scalar(n)
      \/ \E p \in Made : e = Ref(p)
  BY DEF Entries
<1>2. e \in Component(heap)
  BY <1>1, Known DEF Component
<1>3. /\ e.kind = "ref" => e.ref \in Made
      /\ e.kind # "ref" => e.ref = 0
  BY <1>1, Known DEF Scalar, Ref
<1>4. given' = IF e.kind = "ref" THEN given \cup {e.ref} ELSE given
  BY DEF Set
<1>5. /\ given \subseteq given' /\ given' \subseteq Made
      /\ e.ref # 0 => e.ref \in Made /\ e.ref \in given'
  BY <1>3, <1>4, Known
<1>6. Puts(heap, heap', o, i, e)
  BY DEF Set, Puts
<1>7. Idle /\ Fits(heap, e, Field(heap[o].type, i)) /\ copying' = copying
  BY DEF Set
<1> QED
  BY <1>2, <1>5, <1>6, <1>7, PutStep

LEMMA AddStep ==
  ASSUME IInv, NEW o \in Made, NEW e \in Entries, Add(o, e)
  PROVE  IInv'
<1>1. PICK i : i = Cardinality(DOMAIN heap[o].comps) + 1
  OBVIOUS
<1>2. i <= MaxLength /\ Set(o, i, e) /\ Schemas[heap[o].type].kind = "of"
  BY <1>1 DEF Add, Kind
<1>3. IsObject(heap, heap[o])
  BY Known
<1>4. i \in Positions(heap[o].type)
  <2>1. PICK n \in Nat : n = Cardinality(DOMAIN heap[o].comps)
    BY <1>2, <1>3, Counted
  <2>2. i = n + 1 /\ MaxLength \in Nat
    BY <1>1, <2>1, BoundsAssumption
  <2> QED
    BY <1>2, <2>2 DEF Positions
<1> QED
  BY <1>2, <1>4, SetStep

LEMMA InstantiateStep ==
  ASSUME IInv, NEW o \in Made, NEW i \in Positions(heap[o].type), Instantiate(o, i)
  PROVE  IInv'
<1>1. PICK f : f = Field(heap[o].type, i)
  OBVIOUS
<1>2. IsObject(heap, heap[o]) /\ heap[o].type \in Types /\ o \in DOMAIN heap
  BY Known DEF IsObject
<1>3. f.schema \in Described /\ i \in Nat
  BY <1>1, <1>2, Fields
<1>4. Idle
  BY DEF Instantiate
<1>5. CASE /\ f.schema.kind = "scalar"
           /\ heap' = [heap EXCEPT ![o] = Put(@, i, f.schema, FALSE)]
           /\ UNCHANGED <<given, copying>>
  <2>1. /\ f.schema \in Component(heap) /\ f.schema.ref = 0
        /\ Fits(heap, f.schema, f)
    BY <1>3, <1>5 DEF Described, Component, Fits, Scalar, Ref
  <2>2. Puts(heap, heap', o, i, f.schema)
    BY <1>5 DEF Puts
  <2> QED
    BY <1>1, <1>4, <1>5, <2>1, <2>2, Known, PutStep
<1>6. ASSUME f.schema.kind = "ref"
      PROVE  /\ f.schema.ref \in DOMAIN heap
             /\ \A h : \A q : /\ q \in DOMAIN h
                              /\ h[q].type = heap[f.schema.ref].type
                              => Fits(h, Ref(q), f)
  <2>1. PICK p \in DOMAIN Prototypes : f.schema = Ref(p)
    BY <1>3, <1>6 DEF Described, Scalar
  <2>2. f.schema.ref = p /\ p \in DOMAIN heap /\ heap[p] = Prototypes[p]
    BY <2>1, Known, PrototypesShape, Records DEF Safe
  <2> QED
    BY <1>6, <2>2, Records DEF Fits
<1>7. CASE /\ f.schema.kind = "ref" /\ f.omission # "default"
           /\ Len(heap) < MaxObjects
           /\ heap' = [Append(heap, Fresh(heap[f.schema.ref].type)) EXCEPT ![o] =
                           Put(@, i, Ref(Len(heap) + 1), FALSE)]
           /\ UNCHANGED <<given, copying>>
  <2>1. PICK g, h, t, n :
           /\ g = heap' /\ t = heap[f.schema.ref].type /\ n = Len(heap) + 1
           /\ h = Append(heap, Fresh(t))
    OBVIOUS
  <2>2. t \in Types
    BY <1>6, <1>7, <2>1, Known DEF IsObject
  <2>3. Extended(heap, h, t)
    BY <2>1, <2>2 DEF Extended
  <2>4. /\ IsHeap(h) /\ Len(h) = n /\ MadeIn(heap) \subseteq MadeIn(h)
        /\ n \in MadeIn(h) /\ n \notin DOMAIN heap
        /\ \A q \in DOMAIN heap : h[q] = heap[q]
        /\ h[n] = Fresh(t)
        /\ Grown(heap, h, 0, 0, 0)
    BY <2>1, <2>3, Known, NewGrows
  <2>5. Safe(h, given)
    BY <2>4, Known, StaysSafe
  <2>6. Unseen(h, given, n)
    <3>1. ASSUME NEW q, NEW j, Refers(h, q, j, n)
          PROVE  FALSE
      <4>1. Refers(heap, q, j, n)
        BY <2>4, <3>1 DEF Grown
      <4> QED
        BY <2>4, <4>1, Known, RefersTo
    <3>2. n \notin given
      BY <2>4, Known
    <3> QED
      BY <3>1, <3>2 DEF Unseen
  <2>7. Puts(h, g, o, i, Ref(n))
    BY <1>7, <2>1 DEF Puts
  <2>8. n \in DOMAIN h /\ h[o] = heap[o] /\ o \in MadeIn(h)
    BY <2>4, <1>2, Known, HeapDomain, PrototypesShape DEF MadeIn
  <2>9. /\ Ref(n) \in Component(h) /\ Ref(n).ref = n
        /\ Fits(h, Ref(n), Field(h[o].type, i)) /\ i \in Positions(h[o].type)
    <3>0. h[n] = Fresh(t) /\ Fresh(t).type = t
      BY <2>2, <2>4, FreshObject
    <3>1. h[n].type = heap[f.schema.ref].type
      BY <2>1, <3>0, Zenon
    <3>2. Fits(h, Ref(n), f)
      BY <1>6, <1>7, <2>8, <3>1
    <3> QED
      BY <1>1, <2>8, <3>2, Records DEF Component
  <2>10. PICK e : e = Ref(n)
    OBVIOUS
  <2>11. IsHeap(g) /\ MadeIn(g) = MadeIn(h) /\ Grown(h, g, o, i, n)
    BY <2>5, <2>7, <2>8, <2>9, <2>10, PutGrows
  <2>12. Safe(g, given)
    BY <2>4, <2>5, <2>6, <2>11, StaysSafe
  <2>13. given' = given /\ copying' = <<>> /\ given \subseteq MadeIn(g)
    BY <1>4, <1>7, <2>4, <2>11, Known DEF Idle
  <2>14. copying' \in Seq(CallIn(heap')) /\ CallsOK(heap', given', copying')
    BY <2>13 DEF CallsOK
  <2> QED
    BY <2>1, <2>12, <2>13, <2>14, Concluded
<1>8. CASE /\ f.schema.kind = "ref" /\ f.omission = "default"
           /\ CallClone(f.schema.ref, <<>>, o, i)
  <2>1. f.schema.ref \in DOMAIN heap /\ Fits(heap, Ref(f.schema.ref), f)
    BY <1>6, <1>8
  <2>2. Wanted(heap, f.schema.ref, o, i)
    BY <1>1, <2>1 DEF Wanted
  <2>3. <<>> \in Seq(CallIn(heap)) /\ CallsOK(heap, given, <<>>)
    BY DEF CallsOK
  <2>4. o \in MadeIn(heap)
    BY Known
  <2> QED
    BY <1>3, <1>8, <2>1, <2>2, <2>3, <2>4, StartStep
<1> QED
  BY <1>1, <1>5, <1>7, <1>8 DEF Instantiate

-----------------------------------------------------------------------------
(* The invariant, and what it says.                                        *)

LEMMA Starting ==
  Init => IInv
<1> SUFFICES ASSUME Init
             PROVE  IInv
  OBVIOUS
<1>1. heap = Prototypes /\ given = {} /\ copying = <<>>
  BY DEF Init
<1>2. MadeIn(heap) = {} /\ Made = {} /\ IsHeap(heap)
  BY <1>1, PrototypesShape DEF MadeIn, Made
<1>3. Safe(heap, given)
  BY <1>1, <1>2, PrototypesShape DEF Safe, References
<1>4. TypeOK /\ CallsOK(heap, given, copying)
  BY <1>1, <1>2 DEF TypeOK, CallsOK
<1> QED
  BY <1>3, <1>4 DEF IInv

LEMMA Stepping ==
  IInv /\ [Next]_vars => IInv'
<1> SUFFICES ASSUME IInv, [Next]_vars
             PROVE  IInv'
  OBVIOUS
<1>1. CASE CloneStep
  BY <1>1, TakeScalarStep, CloneComponentStep, CloneReturnsStep, CloneRaisesStep
     DEF CloneStep
<1>2. CASE \E t \in Types : New(t)
  BY <1>2, NewStep
<1>3. ASSUME NEW o \in Made,
             \/ CloneValue(o) \/ Clear(o) \/ Reset(o) \/ SortUp(o)
             \/ \E i \in Positions(heap[o].type) :
                   Get(o, i) \/ Instantiate(o, i) \/ \E e \in Entries : Set(o, i, e)
             \/ \E e \in Entries : Add(o, e)
      PROVE  IInv'
  <2>1. CASE CloneValue(o) \/ Clear(o) \/ Reset(o) \/ SortUp(o)
    BY <2>1, CloneValueStep, ClearStep, ResetStep, SortUpStep
  <2>2. CASE \E i \in Positions(heap[o].type) :
                Get(o, i) \/ Instantiate(o, i) \/ \E e \in Entries : Set(o, i, e)
    <3>1. PICK i \in Positions(heap[o].type) :
             Instantiate(o, i) \/ \E e \in Entries : Set(o, i, e)
      BY <2>2 DEF Get
    <3> QED
      BY <3>1, InstantiateStep, SetStep
  <2>3. CASE \E e \in Entries : Add(o, e)
    BY <2>3, AddStep
  <2> QED
    BY <1>3, <2>1, <2>2, <2>3
<1>4. CASE UNCHANGED vars
  BY <1>4 DEF vars, IInv, TypeOK, Made, Call
<1> QED
  BY <1>1, <1>2, <1>3, <1>4 DEF Next

LEMMA Holding ==
  Spec => []IInv
BY Starting, Stepping, PTL DEF Spec

\* Every object has the form its class gives it: a schema holds nothing, every
\* position holds nothing or what its field is of, and the calls of clone() in
\* progress are about objects that are there (setComponentByPosition, reset,
\* sort and _cloneComponentValues).
THEOREM Typed ==
  Spec => []TypeOK
BY Holding, PTL DEF IInv

LEMMA UntouchedBy ==
  IInv => PrototypesUntouched
<1> SUFFICES ASSUME IInv
             PROVE  PrototypesUntouched
  OBVIOUS
<1>1. PICK k \in Nat : k = Len(Prototypes)
  BY PrototypesShape
<1>2. k \in 0..Len(heap) /\ IsSequence(heap) /\ IsSequence(Prototypes)
  BY <1>1, Known, PrototypesShape DEF Safe, IsHeap
<1>3. PICK s : s = SubSeq(heap, 1, k)
  OBVIOUS
<1>4. IsSequence(s) /\ Len(s) = k /\ \A o \in 1..k : s[o] = heap[o]
  BY <1>2, <1>3, TruncatedShape
<1>5. \A o \in 1..k : heap[o] = Prototypes[o]
  BY <1>1, Known, PrototypesShape DEF Safe
<1>6. s = [o \in 1..k |-> s[o]] /\ Prototypes = [o \in 1..k |-> Prototypes[o]]
  BY <1>1, <1>2, <1>4 DEF IsSequence
<1>7. s = Prototypes
  BY <1>4, <1>5, <1>6
<1>8. ASSUME NEW o \in Made, NEW i \in DOMAIN heap[o].comps, heap[o].comps[i].kind = "ref"
      PROVE  heap[o].comps[i].ref \in Made
  <2>1. Refers(heap, o, i, heap[o].comps[i].ref)
    BY <1>8, Known DEF Refers
  <2> QED
    BY <2>1, Known DEF Safe, References
<1> QED
  BY <1>1, <1>3, <1>7, <1>8 DEF PrototypesUntouched

LEMMA UnsharedBy ==
  IInv => NoHiddenSharing
<1> SUFFICES ASSUME IInv,
                    NEW o \in Made, NEW i \in DOMAIN heap[o].comps,
                    heap[o].comps[i].kind = "ref", heap[o].comps[i].ref \notin given,
                    NEW p \in Made, NEW j \in DOMAIN heap[p].comps,
                    heap[p].comps[j] = heap[o].comps[i]
             PROVE  <<p, j>> = <<o, i>>
  BY DEF NoHiddenSharing
<1>1. PICK r : r = heap[o].comps[i].ref
  OBVIOUS
<1>2. Refers(heap, o, i, r) /\ Refers(heap, p, j, r)
  BY <1>1, Known DEF Refers
<1>3. o = p /\ i = j
  BY <1>1, <1>2, Known DEF Safe, References
<1> QED
  BY <1>3

\* Whatever is made from schemas, read, filled, cloned or emptied, the objects that
\* classes hold as componentType stay what they are and are part of no value: a
\* DEFAULT is cloned where it is read (getComponentByPosition).
THEOREM PrototypesAreUntouched ==
  Spec => []PrototypesUntouched
BY Holding, UntouchedBy, PTL

\* Reading and cloning never make an alias: a component that two objects share, or
\* two positions of one, is one the application has put there.
THEOREM SharingIsGiven ==
  Spec => []NoHiddenSharing
BY Holding, UnsharedBy, PTL

-----------------------------------------------------------------------------
(* Ranks.                                                                  *)

Rank == CHOOSE rank \in [Types -> 0..Cardinality(Types)] : Ranks(rank)

Highest == Cardinality(Types)

LEMMA RankExists ==
  Rank \in [Types -> 0..Highest] /\ Ranks(Rank) /\ Highest \in Nat
<1>1. \E rank \in [Types -> 0..Cardinality(Types)] : Ranks(rank)
  BY TypesAssumption
<1>2. Rank \in [Types -> 0..Cardinality(Types)] /\ Ranks(Rank)
  BY <1>1 DEF Rank
<1>3. Highest \in Nat
  BY TypesAssumption, FS_CardinalityType DEF Highest
<1> QED
  BY <1>2, <1>3 DEF Highest

\* A heap with the prototypes in it.
Loaded(h) ==
    /\ IsHeap(h) /\ DOMAIN Prototypes \subseteq DOMAIN h
    /\ \A p \in DOMAIN Prototypes : h[p].type = Prototypes[p].type

Level(h, o) == Rank[h[o].type]

\* Whether x is a value, and its meaning, depends on object r.
NeedsPart(x, r) ==
    \E i \in DOMAIN x.comps : x.comps[i].kind = "ref" /\ x.comps[i].ref = r

NeedsSchema(x, r) ==
    \E i \in Positions(x.type) :
        Field(x.type, i).schema.kind = "ref" /\ Field(x.type, i).schema.ref = r

Needs(x, r) == NeedsPart(x, r) \/ NeedsSchema(x, r)

LEMMA FieldRank ==
  ASSUME NEW t \in Types, NEW i \in Positions(t), NEW s, s = Field(t, i).schema,
         s.kind = "ref"
  PROVE  /\ s.ref \in DOMAIN Prototypes
         /\ Rank[Prototypes[s.ref].type] < Rank[t]
<1>1. s \in Described
  BY Fields
<1>2. s.ref \in DOMAIN Prototypes
  BY <1>1, Records DEF Described
<1>3. PICK k : k = IF Schemas[t].kind = "of" THEN 1 ELSE i
  OBVIOUS
<1>4. s = Schemas[t].fields[k].schema
  BY <1>3 DEF Field
<1>5. k \in DOMAIN Schemas[t].fields
  <2>1. /\ Schemas[t].fields \in
              Seq([schema : Described, omission : {"required", "optional", "default"}])
        /\ Schemas[t].kind = "of" => Len(Schemas[t].fields) = 1
    BY SchemasAssumption
  <2> QED
    BY <1>3, <2>1 DEF Positions
<1>6. Ranks(Rank)
  BY RankExists
<1>7. Rank[Prototypes[s.ref].type] < Rank[t]
  BY <1>4, <1>5, <1>6 DEF Ranks
<1> QED
  BY <1>2, <1>7

LEMMA LevelType ==
  ASSUME NEW h, Loaded(h), NEW o \in DOMAIN h
  PROVE  Level(h, o) \in 0..Highest /\ h[o].type \in Types /\ IsObject(h, h[o])
<1>1. IsObject(h, h[o]) /\ h[o].type \in Types
  BY DEF Loaded, IsHeap, IsObject
<1> QED
  BY <1>1, RankExists DEF Level

LEMMA NeedsLess ==
  ASSUME NEW h, Loaded(h), NEW o \in DOMAIN h, NEW r, Needs(h[o], r)
  PROVE  r \in DOMAIN h /\ Level(h, r) < Level(h, o)
<1>1. PICK x : x = h[o]
  OBVIOUS
<1>2. IsObject(h, x) /\ x.type \in Types
  BY <1>1, LevelType
<1>3. CASE NeedsPart(x, r)
  <2>1. PICK i \in DOMAIN x.comps : x.comps[i].kind = "ref" /\ x.comps[i].ref = r
    BY <1>3 DEF NeedsPart
  <2>2. PICK e : e = x.comps[i]
    OBVIOUS
  <2>3. /\ e \in Component(h) /\ e.kind = "ref" /\ e.ref = r
        /\ e = Absent \/ Fits(h, e, Field(x.type, i))
        /\ i \in Positions(x.type)
    BY <1>2, <2>1, <2>2 DEF IsObject
  <2>4. r \in DOMAIN h /\ e # Absent
    BY <2>3, Records DEF Component
  <2>5. PICK s : s = Field(x.type, i).schema
    OBVIOUS
  <2>6. s.kind # "scalar" /\ h[r].type = Prototypes[s.ref].type
    BY <2>3, <2>4, <2>5 DEF Fits
  <2>7. s \in Described
    BY <1>2, <2>3, <2>5, Fields
  <2>8. s.kind = "ref"
    BY <2>6, <2>7, Records DEF Described
  <2>9. Rank[Prototypes[s.ref].type] < Rank[x.type]
    BY <1>2, <2>3, <2>5, <2>8, FieldRank
  <2> QED
    BY <1>1, <2>4, <2>6, <2>9 DEF Level
<1>4. CASE NeedsSchema(x, r)
  <2>1. PICK i \in Positions(x.type) :
          Field(x.type, i).schema.kind = "ref" /\ Field(x.type, i).schema.ref = r
    BY <1>4 DEF NeedsSchema
  <2>2. PICK s : s = Field(x.type, i).schema
    OBVIOUS
  <2>3. s.kind = "ref" /\ s.ref = r
    BY <2>1, <2>2
  <2>4. r \in DOMAIN Prototypes /\ Rank[Prototypes[r].type] < Rank[x.type]
    BY <1>2, <2>2, <2>3, FieldRank
  <2>5. r \in DOMAIN h /\ h[r].type = Prototypes[r].type
    BY <2>4 DEF Loaded
  <2> QED
    BY <1>1, <2>4, <2>5 DEF Level
<1> QED
  BY <1>1, <1>3, <1>4 DEF Needs

-----------------------------------------------------------------------------
(* Objects that are alike.                                                 *)

\* Component a, seen with v and m, is what b is, seen with w and n.
Same(a, v, m, b, w, n) ==
    /\ a.kind = b.kind /\ a.num = b.num
    /\ a.kind = "ref" => (v[a.ref] <=> w[b.ref]) /\ m[a.ref] = n[b.ref]

SameAt(x, v, m, y, w, n, i) ==
    /\ Holds(x, i) <=> Holds(y, i)
    /\ Holds(x, i) => Same(x.comps[i], v, m, y.comps[i], w, n)

\* So is object x, of which only some positions matter, what y is.
Matches(x, v, m, y, w, n) ==
    /\ x.type = y.type /\ (x.isSchema <=> y.isSchema) /\ x.chosen = y.chosen
    /\ Schemas[x.type].kind \in {"of", "record", "choice"}
    /\ Schemas[x.type].kind = "of" => DOMAIN x.comps = DOMAIN y.comps
    /\ \A i : (Schemas[x.type].kind = "choice" => i = x.chosen) => SameAt(x, v, m, y, w, n, i)
    /\ \A r : NeedsSchema(x, r) => m[r] = n[r]

LEMMA MatchSym ==
  ASSUME NEW x, NEW v, NEW m, NEW y, NEW w, NEW n, Matches(x, v, m, y, w, n)
  PROVE  Matches(y, w, n, x, v, m)
<1>1. ASSUME NEW i, Schemas[y.type].kind = "choice" => i = y.chosen
      PROVE  SameAt(y, w, n, x, v, m, i)
  <2>1. SameAt(x, v, m, y, w, n, i)
    BY <1>1 DEF Matches
  <2> QED
    BY <2>1 DEF SameAt, Same
<1>2. ASSUME NEW r, NeedsSchema(y, r)
      PROVE  n[r] = m[r]
  BY <1>2 DEF Matches, NeedsSchema
<1> QED
  BY <1>1, <1>2 DEF Matches

LEMMA SetAlike ==
  ASSUME NEW x, NEW v, NEW m, NEW y, NEW w, NEW n, NEW i, SameAt(x, v, m, y, w, n, i)
  PROVE  IsSet(x, v, i) => IsSet(y, w, i)
BY DEF SameAt, Same, IsSet

LEMMA ValueMeans ==
  ASSUME NEW x, NEW v
  PROVE  /\ Schemas[x.type].kind = "of" =>
              (IsValue(x, v) <=> /\ ~x.isSchema
                                 /\ Cardinality(DOMAIN x.comps) = Length(x)
                                 /\ \A i \in DOMAIN x.comps : IsSet(x, v, i))
         /\ Schemas[x.type].kind = "record" =>
              (IsValue(x, v) <=> /\ ~x.isSchema
                                 /\ \A i \in Positions(x.type) :
                                       Field(x.type, i).omission = "required" => IsSet(x, v, i))
         /\ Schemas[x.type].kind = "choice" =>
              (IsValue(x, v) <=> ~x.isSchema /\ x.chosen # 0 /\ IsSet(x, v, x.chosen))
<1>1. CASE Schemas[x.type].kind = "of"
  BY <1>1 DEF IsValue, IsSet
<1>2. CASE Schemas[x.type].kind = "record"
  BY <1>2 DEF IsValue, IsSet
<1>3. CASE Schemas[x.type].kind = "choice"
  BY <1>3 DEF IsValue, IsSet
<1> QED
  BY <1>1, <1>2, <1>3

LEMMA ValueCarries ==
  ASSUME NEW x, NEW v, NEW m, NEW y, NEW w, NEW n, Matches(x, v, m, y, w, n), IsValue(x, v)
  PROVE  IsValue(y, w)
<1>1. ASSUME NEW i, Schemas[x.type].kind = "choice" => i = x.chosen
      PROVE  IsSet(x, v, i) => IsSet(y, w, i)
  BY <1>1, SetAlike DEF Matches
<1>2. CASE Schemas[x.type].kind = "of"
  <2>1. Length(x) = Length(y) /\ DOMAIN x.comps = DOMAIN y.comps
    <3>1. DOMAIN x.comps = DOMAIN y.comps
      BY <1>2 DEF Matches
    <3>2. PICK a, b : a = DOMAIN x.comps /\ b = DOMAIN y.comps
      OBVIOUS
    <3>3. Length(x) = IF a = {} THEN 0 ELSE CHOOSE i \in a : \A j \in a : j <= i
      BY <3>2 DEF Length
    <3>4. Length(y) = IF b = {} THEN 0 ELSE CHOOSE i \in b : \A j \in b : j <= i
      BY <3>2 DEF Length
    <3>5. a = b
      BY <3>1, <3>2
    <3> QED
      BY <3>1, <3>3, <3>4, <3>5
  <2>2. \A i \in DOMAIN x.comps : IsSet(x, v, i)
    BY <1>2, ValueMeans
  <2>3. \A i \in DOMAIN y.comps : IsSet(y, w, i)
    BY <1>1, <1>2, <2>1, <2>2
  <2>4. Cardinality(DOMAIN x.comps) = Length(x) /\ ~x.isSchema
    BY <1>2, ValueMeans
  <2>5. ~y.isSchema /\ Schemas[y.type].kind = "of"
    BY <1>2, <2>4 DEF Matches
  <2> QED
    BY <2>1, <2>3, <2>4, <2>5, ValueMeans
<1>3. CASE Schemas[x.type].kind = "record"
  <2>1. ~x.isSchema /\ x.type = y.type
    BY <1>3, ValueMeans DEF Matches
  <2>2. \A i \in Positions(x.type) :
           Field(x.type, i).omission = "required" => IsSet(x, v, i)
    BY <1>3, ValueMeans
  <2>3. \A i \in Positions(y.type) :
           Field(y.type, i).omission = "required" => IsSet(y, w, i)
    BY <1>1, <1>3, <2>1, <2>2
  <2>4. ~y.isSchema /\ Schemas[y.type].kind = "record"
    BY <1>3, <2>1 DEF Matches
  <2> QED
    BY <2>3, <2>4, ValueMeans
<1>4. CASE Schemas[x.type].kind = "choice"
  <2>1. ~x.isSchema /\ x.chosen # 0 /\ IsSet(x, v, x.chosen)
    BY <1>4, ValueMeans
  <2>2. IsSet(y, w, x.chosen) /\ x.chosen = y.chosen
    BY <1>1, <2>1 DEF Matches
  <2>3. ~y.isSchema /\ Schemas[y.type].kind = "choice"
    BY <1>4, <2>1 DEF Matches
  <2> QED
    BY <2>1, <2>2, <2>3, ValueMeans
<1> QED
  BY <1>2, <1>3, <1>4 DEF Matches

\* Objects that are alike are values alike.
LEMMA ValuesAlike ==
  ASSUME NEW x, NEW v, NEW m, NEW y, NEW w, NEW n, Matches(x, v, m, y, w, n)
  PROVE  IsValue(x, v) <=> IsValue(y, w)
<1>1. Matches(y, w, n, x, v, m)
  BY MatchSym
<1> QED
  BY <1>1, ValueCarries

\* Whether the encoder finds a component to be a value.
EncodedOf(e, v) == IF e.kind = "ref" THEN v[e.ref] ELSE e.num # 0

Omitted(x, v, m, i) ==
    \/ ~Holds(x, i)
    \/ Field(x.type, i).omission # "required" /\ ~EncodedOf(x.comps[i], v)
    \/ /\ Field(x.type, i).omission = "default"
       /\ MeaningOf(x.comps[i], m) = MeaningOf(Field(x.type, i).schema, m)

PartMeaning(x, v, m, i) ==
    IF Omitted(x, v, m, i) THEN NoMeaning ELSE MeaningOf(x.comps[i], m)

LEMMA MeaningOfNone ==
  ASSUME NEW x, NEW v, NEW m, ~IsValue(x, v)
  PROVE  Meaning(x, v, m) = IF Raises(x, v, m) THEN Broken ELSE NoMeaning
BY DEF Meaning

LEMMA MeaningOfValue ==
  ASSUME NEW x, NEW v, NEW m, IsValue(x, v)
  PROVE  Meaning(x, v, m) = IF Breaks(x, m) THEN Broken ELSE Encoding(x, v, m)
BY DEF Meaning

LEMMA EncodingOfList ==
  ASSUME NEW x, NEW v, NEW m, Schemas[x.type].kind = "of"
  PROVE  Encoding(x, v, m)
           = Meant(x.type, 0, [i \in DOMAIN x.comps |-> MeaningOf(x.comps[i], m)])
BY DEF Encoding

LEMMA EncodingOfRecord ==
  ASSUME NEW x, NEW v, NEW m, Schemas[x.type].kind = "record"
  PROVE  Encoding(x, v, m)
           = Meant(x.type, 0, [i \in Positions(x.type) |-> PartMeaning(x, v, m, i)])
BY DEF Encoding, PartMeaning, Omitted, EncodedOf

LEMMA EncodingOfChoice ==
  ASSUME NEW x, NEW v, NEW m, Schemas[x.type].kind = "choice"
  PROVE  Encoding(x, v, m) = Meant(x.type, x.chosen, <<MeaningOf(x.comps[x.chosen], m)>>)
BY DEF Encoding

LEMMA RaisesMeans ==
  ASSUME NEW x, NEW v, NEW m
  PROVE  /\ Schemas[x.type].kind = "of" =>
              (Raises(x, v, m) <=> /\ ~x.isSchema
                                   /\ Cardinality(DOMAIN x.comps) = Length(x)
                                   /\ \E i \in DOMAIN x.comps : Refuses(x, v, m, i))
         /\ Schemas[x.type].kind = "record" =>
              (Raises(x, v, m) <=>
                 \E i \in Positions(x.type) :
                    /\ Field(x.type, i).omission = "required" /\ Refuses(x, v, m, i)
                    /\ \A j \in Positions(x.type) :
                          j < i /\ Field(x.type, j).omission = "required" => IsSet(x, v, j))
         /\ Schemas[x.type].kind = "choice" =>
              (Raises(x, v, m) <=>
                 x.chosen # 0 /\ (x.isSchema \/ Refuses(x, v, m, x.chosen)))
<1>1. CASE Schemas[x.type].kind = "of"
  BY <1>1 DEF Raises
<1>2. CASE Schemas[x.type].kind = "record"
  BY <1>2 DEF Raises
<1>3. CASE Schemas[x.type].kind = "choice"
  BY <1>3 DEF Raises
<1> QED
  BY <1>1, <1>2, <1>3

LEMMA RefusesAlike ==
  ASSUME NEW x, NEW v, NEW m, NEW y, NEW w, NEW n, NEW i, SameAt(x, v, m, y, w, n, i),
         Refuses(x, v, m, i)
  PROVE  Refuses(y, w, n, i)
BY DEF SameAt, Same, Refuses

LEMMA SameLength ==
  ASSUME NEW x, NEW y, DOMAIN x.comps = DOMAIN y.comps
  PROVE  Length(x) = Length(y)
<1>1. PICK a, b : a = DOMAIN x.comps /\ b = DOMAIN y.comps
  OBVIOUS
<1>2. Length(x) = IF a = {} THEN 0 ELSE CHOOSE i \in a : \A j \in a : j <= i
  BY <1>1 DEF Length
<1>3. Length(y) = IF b = {} THEN 0 ELSE CHOOSE i \in b : \A j \in b : j <= i
  BY <1>1 DEF Length
<1>4. a = b
  BY <1>1
<1> QED
  BY <1>2, <1>3, <1>4

\* Records whose positions are asked with the same answers raise alike.
LEMMA RecordRaises ==
  ASSUME NEW x, NEW v, NEW m, NEW y, NEW w, NEW n, x.type = y.type,
         Schemas[x.type].kind = "record",
         \A j \in Positions(x.type) : Field(x.type, j).omission = "required" =>
            /\ Refuses(x, v, m, j) <=> Refuses(y, w, n, j)
            /\ IsSet(x, v, j) <=> IsSet(y, w, j)
  PROVE  Raises(x, v, m) <=> Raises(y, w, n)
<1>1. Raises(x, v, m) <=>
         \E i \in Positions(x.type) :
            /\ Field(x.type, i).omission = "required" /\ Refuses(x, v, m, i)
            /\ \A j \in Positions(x.type) :
                  j < i /\ Field(x.type, j).omission = "required" => IsSet(x, v, j)
  BY RaisesMeans
<1>2. Raises(y, w, n) <=>
         \E i \in Positions(x.type) :
            /\ Field(x.type, i).omission = "required" /\ Refuses(y, w, n, i)
            /\ \A j \in Positions(x.type) :
                  j < i /\ Field(x.type, j).omission = "required" => IsSet(y, w, j)
  BY RaisesMeans
<1> QED
  BY <1>1, <1>2

LEMMA RaisesCarries ==
  ASSUME NEW x, NEW v, NEW m, NEW y, NEW w, NEW n, Matches(x, v, m, y, w, n), Raises(x, v, m)
  PROVE  Raises(y, w, n)
<1>1. x.type = y.type /\ (x.isSchema <=> y.isSchema) /\ x.chosen = y.chosen
      /\ Schemas[x.type].kind \in {"of", "record", "choice"}
  BY DEF Matches
<1>2. ASSUME NEW i, Schemas[x.type].kind = "choice" => i = x.chosen
      PROVE  SameAt(x, v, m, y, w, n, i) /\ SameAt(y, w, n, x, v, m, i)
  <2>1. Matches(y, w, n, x, v, m)
    BY MatchSym
  <2>2. SameAt(x, v, m, y, w, n, i)
    BY <1>2 DEF Matches
  <2>3. Schemas[y.type].kind = "choice" => i = y.chosen
    BY <1>1, <1>2
  <2>4. SameAt(y, w, n, x, v, m, i)
    BY <2>1, <2>3 DEF Matches
  <2> QED
    BY <2>2, <2>4
<1>3. CASE Schemas[x.type].kind = "of"
  <2>1. DOMAIN x.comps = DOMAIN y.comps
    BY <1>3 DEF Matches
  <2>2. PICK i \in DOMAIN x.comps : Refuses(x, v, m, i)
    BY <1>3, RaisesMeans
  <2>3. Refuses(y, w, n, i)
    BY <1>2, <1>3, <2>2, RefusesAlike
  <2>4. ~ x.isSchema /\ Cardinality(DOMAIN x.comps) = Length(x)
    BY <1>3, RaisesMeans
  <2>5. Cardinality(DOMAIN y.comps) = Length(y)
    BY <2>1, <2>4, SameLength
  <2> QED
    BY <1>1, <1>3, <2>1, <2>3, <2>4, <2>5, RaisesMeans
<1>4. CASE Schemas[x.type].kind = "record"
  <2>1. ASSUME NEW j \in Positions(x.type)
        PROVE  /\ Refuses(x, v, m, j) <=> Refuses(y, w, n, j)
               /\ IsSet(x, v, j) <=> IsSet(y, w, j)
    <3>1. SameAt(x, v, m, y, w, n, j) /\ SameAt(y, w, n, x, v, m, j)
      BY <1>2, <1>4
    <3> QED
      BY <3>1, RefusesAlike, SetAlike
  <2> QED
    BY <1>1, <1>4, <2>1, RecordRaises
<1>5. CASE Schemas[x.type].kind = "choice"
  <2>1. x.chosen # 0 /\ (x.isSchema \/ Refuses(x, v, m, x.chosen))
    BY <1>5, RaisesMeans
  <2>2. Refuses(x, v, m, x.chosen) => Refuses(y, w, n, x.chosen)
    BY <1>2, RefusesAlike
  <2> QED
    BY <1>1, <1>5, <2>1, <2>2, RaisesMeans
<1> QED
  BY <1>1, <1>3, <1>4, <1>5

LEMMA MeantAlike ==
  ASSUME NEW x, NEW v, NEW m, NEW y, NEW w, NEW n, NEW i, SameAt(x, v, m, y, w, n, i), Holds(x, i)
  PROVE  /\ MeaningOf(x.comps[i], m) = MeaningOf(y.comps[i], n)
         /\ EncodedOf(x.comps[i], v) <=> EncodedOf(y.comps[i], w)
BY DEF SameAt, Same, MeaningOf, EncodedOf

LEMMA PartAlike ==
  ASSUME NEW x, NEW v, NEW m, NEW y, NEW w, NEW n, x.type = y.type,
         \A r : NeedsSchema(x, r) => m[r] = n[r],
         NEW i \in Positions(x.type), SameAt(x, v, m, y, w, n, i)
  PROVE  PartMeaning(x, v, m, i) = PartMeaning(y, w, n, i)
<1>1. SameAt(x, v, m, y, w, n, i) /\ x.type = y.type
  OBVIOUS
<1>2. CASE ~Holds(x, i)
  <2>1. ~Holds(y, i)
    BY <1>1, <1>2 DEF SameAt
  <2> QED
    BY <1>2, <2>1 DEF PartMeaning, Omitted
<1>3. CASE Holds(x, i)
  <2>1. Holds(y, i)
    BY <1>1, <1>3 DEF SameAt
  <2>2. /\ MeaningOf(x.comps[i], m) = MeaningOf(y.comps[i], n)
        /\ EncodedOf(x.comps[i], v) <=> EncodedOf(y.comps[i], w)
    BY <1>1, <1>3, MeantAlike
  <2>3. PICK s : s = Field(x.type, i).schema
    OBVIOUS
  <2>4. MeaningOf(s, m) = MeaningOf(s, n)
    <3>1. CASE s.kind = "ref"
      <4>1. NeedsSchema(x, s.ref)
        BY <2>3, <3>1 DEF NeedsSchema
      <4> QED
        BY <3>1, <4>1 DEF MeaningOf
    <3>2. CASE s.kind # "ref"
      BY <3>2 DEF MeaningOf
    <3> QED
      BY <3>1, <3>2
  <2>5. Omitted(x, v, m, i) <=> Omitted(y, w, n, i)
    BY <1>1, <1>3, <2>1, <2>2, <2>3, <2>4 DEF Omitted
  <2> QED
    BY <2>2, <2>5 DEF PartMeaning
<1> QED
  BY <1>2, <1>3

LEMMA BreaksCarries ==
  ASSUME NEW x, NEW v, NEW m, NEW y, NEW w, NEW n, Matches(x, v, m, y, w, n), Breaks(x, m)
  PROVE  Breaks(y, n)
<1>1. PICK i \in DOMAIN x.comps :
         /\ Holds(x, i) /\ (Schemas[x.type].kind = "choice" => i = x.chosen)
         /\ MeaningOf(x.comps[i], m) = Broken
  BY DEF Breaks
<1>2. x.type = y.type /\ x.chosen = y.chosen /\ SameAt(x, v, m, y, w, n, i)
  BY <1>1 DEF Matches
<1>3. Holds(y, i) /\ i \in DOMAIN y.comps
  BY <1>1, <1>2 DEF SameAt, Holds
<1>4. MeaningOf(x.comps[i], m) = MeaningOf(y.comps[i], n)
  BY <1>1, <1>2, MeantAlike
<1> QED
  BY <1>1, <1>2, <1>3, <1>4 DEF Breaks

\* A value that is like another is encoded like it.
LEMMA EncodingsAlike ==
  ASSUME NEW x, NEW v, NEW m, NEW y, NEW w, NEW n, Matches(x, v, m, y, w, n), IsValue(x, v)
  PROVE  Encoding(x, v, m) = Encoding(y, w, n)
<1>2. x.type = y.type /\ x.chosen = y.chosen
      /\ Schemas[x.type].kind \in {"of", "record", "choice"}
  BY DEF Matches
<1>4. CASE Schemas[x.type].kind = "of"
  <2>1. DOMAIN x.comps = DOMAIN y.comps
    BY <1>4 DEF Matches
  <2>2. ASSUME NEW i \in DOMAIN x.comps
        PROVE  MeaningOf(x.comps[i], m) = MeaningOf(y.comps[i], n)
    <3>1. IsSet(x, v, i)
      BY <1>4, ValueMeans
    <3>2. Holds(x, i)
      BY <3>1 DEF IsSet
    <3>3. SameAt(x, v, m, y, w, n, i)
      BY <1>4 DEF Matches
    <3> QED
      BY <3>2, <3>3, MeantAlike
  <2>3. [i \in DOMAIN x.comps |-> MeaningOf(x.comps[i], m)]
          = [i \in DOMAIN y.comps |-> MeaningOf(y.comps[i], n)]
    BY <2>1, <2>2
  <2>4. Encoding(x, v, m)
          = Meant(x.type, 0, [i \in DOMAIN x.comps |-> MeaningOf(x.comps[i], m)])
    BY <1>4, EncodingOfList
  <2>5. Encoding(y, w, n)
          = Meant(y.type, 0, [i \in DOMAIN y.comps |-> MeaningOf(y.comps[i], n)])
    BY <1>2, <1>4, EncodingOfList
  <2> QED
    BY <1>2, <2>3, <2>4, <2>5
<1>5. CASE Schemas[x.type].kind = "record"
  <2>1. ASSUME NEW i \in Positions(x.type)
        PROVE  PartMeaning(x, v, m, i) = PartMeaning(y, w, n, i)
    BY <1>5, PartAlike DEF Matches
  <2>3. [i \in Positions(x.type) |-> PartMeaning(x, v, m, i)]
          = [i \in Positions(y.type) |-> PartMeaning(y, w, n, i)]
    BY <1>2, <2>1
  <2>4. Encoding(x, v, m)
          = Meant(x.type, 0, [i \in Positions(x.type) |-> PartMeaning(x, v, m, i)])
    BY <1>5, EncodingOfRecord
  <2>5. Encoding(y, w, n)
          = Meant(y.type, 0, [i \in Positions(y.type) |-> PartMeaning(y, w, n, i)])
    BY <1>2, <1>5, EncodingOfRecord
  <2> QED
    BY <1>2, <2>3, <2>4, <2>5
<1>6. CASE Schemas[x.type].kind = "choice"
  <2>1. IsSet(x, v, x.chosen)
    BY <1>6, ValueMeans
  <2>2. Holds(x, x.chosen)
    BY <2>1 DEF IsSet
  <2>3. SameAt(x, v, m, y, w, n, x.chosen)
    BY <1>6 DEF Matches
  <2>4. MeaningOf(x.comps[x.chosen], m) = MeaningOf(y.comps[x.chosen], n)
    BY <2>2, <2>3, MeantAlike
  <2>5. Encoding(x, v, m) = Meant(x.type, x.chosen, <<MeaningOf(x.comps[x.chosen], m)>>)
    BY <1>6, EncodingOfChoice
  <2>6. Encoding(y, w, n) = Meant(y.type, y.chosen, <<MeaningOf(y.comps[y.chosen], n)>>)
    BY <1>2, <1>6, EncodingOfChoice
  <2> QED
    BY <1>2, <2>4, <2>5, <2>6
<1> QED
  BY <1>2, <1>4, <1>5, <1>6

\* Objects that are alike mean the same.
LEMMA MeaningsAlike ==
  ASSUME NEW x, NEW v, NEW m, NEW y, NEW w, NEW n, Matches(x, v, m, y, w, n)
  PROVE  Meaning(x, v, m) = Meaning(y, w, n)
<1>1. IsValue(x, v) <=> IsValue(y, w)
  BY ValuesAlike
<1>2. Matches(y, w, n, x, v, m)
  BY MatchSym
<1>3. CASE ~IsValue(x, v)
  <2>1. Raises(x, v, m) <=> Raises(y, w, n)
    BY <1>2, RaisesCarries
  <2> QED
    BY <1>1, <1>3, <2>1, MeaningOfNone
<1>4. CASE IsValue(x, v)
  <2>1. Breaks(x, m) <=> Breaks(y, n)
    BY <1>2, BreaksCarries
  <2>2. Encoding(x, v, m) = Encoding(y, w, n)
    BY <1>4, EncodingsAlike
  <2> QED
    BY <1>1, <1>4, <2>1, <2>2, MeaningOfValue
<1> QED
  BY <1>3, <1>4

LEMMA MatchesItself ==
  ASSUME NEW h, NEW x, IsObject(h, x), NEW v, NEW m, NEW w, NEW n,
         \A r : NeedsPart(x, r) => (v[r] <=> w[r]),
         \A r : Needs(x, r) => m[r] = n[r]
  PROVE  Matches(x, v, m, x, w, n)
<1>1. ASSUME NEW i
      PROVE  SameAt(x, v, m, x, w, n, i)
  <2>1. SUFFICES ASSUME Holds(x, i), x.comps[i].kind = "ref"
                 PROVE  (v[x.comps[i].ref] <=> w[x.comps[i].ref]) /\ m[x.comps[i].ref] = n[x.comps[i].ref]
    BY DEF SameAt, Same
  <2>2. NeedsPart(x, x.comps[i].ref)
    BY <2>1 DEF NeedsPart, Holds
  <2> QED
    BY <2>2 DEF Needs
<1>2. Schemas[x.type].kind \in {"of", "record", "choice"}
  BY SchemasAssumption DEF IsObject
<1>3. \A r : NeedsSchema(x, r) => m[r] = n[r]
  BY DEF Needs
<1> QED
  BY <1>1, <1>2, <1>3 DEF Matches

LEMMA ClonableAlike ==
  ASSUME NEW x, NEW c, NEW d, \A r : NeedsPart(x, r) => (c[r] <=> d[r])
  PROVE  Clonable(x, c) <=> Clonable(x, d)
BY DEF Clonable, NeedsPart

-----------------------------------------------------------------------------
(* Values, Clonables and Meanings unfold: no type contains itself.         *)

\* Every non-empty set of naturals has a least element.
LEMMA LeastElement ==
  ASSUME NEW T, T \subseteq Nat, T # {}
  PROVE  \E x \in T : \A y \in T : x <= y
<1>1. \E x \in T : \A y \in T : ~ (<<y, x>> \in OpToRel(<, Nat))
  BY NatLessThanWellFounded, WFMin
<1>2. ASSUME NEW x \in T, NEW y \in T, ~ (<<y, x>> \in OpToRel(<, Nat))
      PROVE  x <= y
  BY <1>2 DEF OpToRel
<1> QED
  BY <1>1, <1>2

LEMMA Truths ==
  ASSUME NEW x, NEW v
  PROVE  IsValue(x, v) \in BOOLEAN /\ Clonable(x, v) \in BOOLEAN
<1>1. IsValue(x, v) \in BOOLEAN
  BY DEF IsValue
<1>2. Clonable(x, v) \in BOOLEAN
  BY DEF Clonable
<1> QED
  BY <1>1, <1>2

\* The objects of h that are below level n.
Below(h, n) == {o \in DOMAIN h : Level(h, o) < n}

\* Where what objects are is given by u, and they mean m, c says which are values, d
\* which are clonable: as far as level n.
Settles(h, u, n, v, d, m) ==
    /\ v = [o \in Below(h, n) |-> IsValue(h[o], v)]
    /\ d = [o \in Below(h, n) |-> Clonable(h[o], d)]
    /\ m = [o \in Below(h, n) |-> Meaning(h[o], u, m)]

LEMMA SettlesNext ==
  ASSUME NEW h, Loaded(h), NEW u, NEW n \in Nat, n # 0, NEW v, NEW d, NEW m, NEW w, NEW e, NEW q,
         Settles(h, u, n - 1, v, d, m),
         w = [o \in Below(h, n) |-> IsValue(h[o], v)],
         e = [o \in Below(h, n) |-> Clonable(h[o], d)],
         q = [o \in Below(h, n) |-> Meaning(h[o], u, m)]
  PROVE  Settles(h, u, n, w, e, q)
<1>1. ASSUME NEW o \in Below(h, n - 1)
      PROVE  o \in Below(h, n) /\ w[o] = v[o] /\ e[o] = d[o] /\ q[o] = m[o]
  <2>1. o \in Below(h, n)
    BY LevelType DEF Below
  <2>2. v[o] = IsValue(h[o], v) /\ d[o] = Clonable(h[o], d) /\ m[o] = Meaning(h[o], u, m)
    BY DEF Settles
  <2> QED
    BY <2>1, <2>2
<1>2. ASSUME NEW o \in Below(h, n)
      PROVE  w[o] = IsValue(h[o], w) /\ e[o] = Clonable(h[o], e) /\ q[o] = Meaning(h[o], u, q)
  <2>1. o \in DOMAIN h /\ Level(h, o) < n /\ IsObject(h, h[o]) /\ Level(h, o) \in Nat
    BY LevelType DEF Below
  <2>2. ASSUME NEW r, Needs(h[o], r)
        PROVE  (v[r] <=> w[r]) /\ (d[r] <=> e[r]) /\ m[r] = q[r]
    <3>1. r \in DOMAIN h /\ Level(h, r) < Level(h, o) /\ Level(h, r) \in Nat
      BY <2>1, <2>2, NeedsLess, LevelType
    <3>2. r \in Below(h, n - 1)
      BY <2>1, <3>1 DEF Below
    <3> QED
      BY <1>1, <3>2
  <2>3. \A r : NeedsPart(h[o], r) => (v[r] <=> w[r]) /\ (d[r] <=> e[r])
    BY <2>2 DEF Needs
  <2>4. Matches(h[o], v, m, h[o], w, q) /\ Matches(h[o], u, m, h[o], u, q)
    BY <2>1, <2>2, <2>3, MatchesItself
  <2>5. IsValue(h[o], v) <=> IsValue(h[o], w)
    BY <2>4, ValuesAlike
  <2>6. Clonable(h[o], d) <=> Clonable(h[o], e)
    BY <2>3, ClonableAlike
  <2>7. Meaning(h[o], u, m) = Meaning(h[o], u, q)
    BY <2>4, MeaningsAlike
  <2>8. IsValue(h[o], v) = IsValue(h[o], w)
    BY <2>5, Truths
  <2>9. Clonable(h[o], d) = Clonable(h[o], e)
    BY <2>6, Truths
  <2> QED
    BY <2>7, <2>8, <2>9
<1> QED
  BY <1>2 DEF Settles

LEMMA Settled ==
  ASSUME NEW h, Loaded(h), NEW u, NEW n \in Nat
  PROVE  \E v, d, m : Settles(h, u, n, v, d, m)
<1> DEFINE T == {k \in Nat : ~ \E v, d, m : Settles(h, u, k, v, d, m)}
<1>1. SUFFICES ASSUME T # {}
               PROVE  FALSE
  OBVIOUS
<1>2. T \subseteq Nat
  OBVIOUS
<1>3. PICK k \in T : \A j \in T : k <= j
  <2> HIDE DEF T
  <2> QED
    BY <1>1, <1>2, LeastElement
<1>4. k # 0
  <2>1. Below(h, 0) = {}
    BY LevelType DEF Below
  <2>2. Settles(h, u, 0, [o \in {} |-> 0], [o \in {} |-> 0], [o \in {} |-> 0])
    BY <2>1 DEF Settles
  <2> QED
    BY <2>2
<1>5. k \in Nat /\ k - 1 \in Nat /\ k - 1 \notin T
  <2> HIDE DEF T
  <2> QED
    BY <1>2, <1>3, <1>4
<1>6. PICK v, d, m : Settles(h, u, k - 1, v, d, m)
  BY <1>5
<1>7. PICK w, e, q : /\ w = [o \in Below(h, k) |-> IsValue(h[o], v)]
                     /\ e = [o \in Below(h, k) |-> Clonable(h[o], d)]
                     /\ q = [o \in Below(h, k) |-> Meaning(h[o], u, m)]
  OBVIOUS
<1>8. Settles(h, u, k, w, e, q)
  BY <1>4, <1>5, <1>6, <1>7, SettlesNext
<1> QED
  BY <1>8

LEMMA AllSettled ==
  ASSUME NEW h, Loaded(h), NEW u
  PROVE  \E v, d, m : /\ v = [o \in DOMAIN h |-> IsValue(h[o], v)]
                      /\ d = [o \in DOMAIN h |-> Clonable(h[o], d)]
                      /\ m = [o \in DOMAIN h |-> Meaning(h[o], u, m)]
<1>1. PICK n \in Nat : n = Highest + 1
  BY RankExists
<1>2. Below(h, n) = DOMAIN h
  <2>1. \A o \in DOMAIN h : Level(h, o) < n
    BY <1>1, LevelType, RankExists
  <2> QED
    BY <2>1 DEF Below
<1>3. PICK v, d, m : Settles(h, u, n, v, d, m)
  BY Settled
<1> QED
  BY <1>2, <1>3 DEF Settles

\* Values, Meanings and Clonables are what their definitions say.
LEMMA Unfolding ==
  ASSUME NEW h, Loaded(h)
  PROVE  /\ Values(h) = [o \in DOMAIN h |-> IsValue(h[o], Values(h))]
         /\ Clonables(h) = [o \in DOMAIN h |-> Clonable(h[o], Clonables(h))]
         /\ Meanings(h) = [o \in DOMAIN h |-> Meaning(h[o], Values(h), Meanings(h))]
<1>1. \E v : v = [o \in DOMAIN h |-> IsValue(h[o], v)]
  BY AllSettled
<1>2. \E d : d = [o \in DOMAIN h |-> Clonable(h[o], d)]
  BY AllSettled
<1>3. \E m : m = [o \in DOMAIN h |-> Meaning(h[o], Values(h), m)]
  BY AllSettled
<1>4. Values(h) = CHOOSE v : v = [o \in DOMAIN h |-> IsValue(h[o], v)]
  BY DEF Values
<1>5. Clonables(h) = CHOOSE d : d = [o \in DOMAIN h |-> Clonable(h[o], d)]
  BY DEF Clonables
<1>6. Meanings(h) = CHOOSE m : m = [o \in DOMAIN h |-> Meaning(h[o], Values(h), m)]
  BY DEF Meanings
<1> QED
  BY <1>1, <1>2, <1>3, <1>4, <1>5, <1>6

LEMMA Unfolded ==
  ASSUME NEW h, Loaded(h), NEW o \in DOMAIN h
  PROVE  /\ Values(h)[o] = IsValue(h[o], Values(h))
         /\ Clonables(h)[o] = Clonable(h[o], Clonables(h))
         /\ Meanings(h)[o] = Meaning(h[o], Values(h), Meanings(h))
<1>1. PICK v, d, m : v = Values(h) /\ d = Clonables(h) /\ m = Meanings(h)
  OBVIOUS
<1>2. /\ v = [a \in DOMAIN h |-> IsValue(h[a], v)]
      /\ d = [a \in DOMAIN h |-> Clonable(h[a], d)]
      /\ m = [a \in DOMAIN h |-> Meaning(h[a], v, m)]
  BY <1>1, Unfolding
<1> QED
  BY <1>1, <1>2

-----------------------------------------------------------------------------
(* Heaps that have objects in common.                                      *)

\* S has the objects that its objects need, and they are the same in h and in g.
Shared(h, g, S) ==
    /\ Loaded(h) /\ Loaded(g)
    /\ \A o \in S : o \in DOMAIN h /\ o \in DOMAIN g /\ g[o] = h[o]
    /\ \A o \in S : \A r : Needs(h[o], r) => r \in S

SameIn(h, g, o) ==
    /\ Values(g)[o] = Values(h)[o]
    /\ Clonables(g)[o] = Clonables(h)[o]
    /\ Meanings(g)[o] = Meanings(h)[o]

LEMMA SharedNeeds ==
  ASSUME NEW h, NEW g, NEW S, Shared(h, g, S), NEW o \in S,
         \A r \in S : Needs(h[o], r) => SameIn(h, g, r)
  PROVE  SameIn(h, g, o)
<1>1. o \in DOMAIN h /\ o \in DOMAIN g /\ g[o] = h[o] /\ Loaded(h) /\ Loaded(g)
  BY DEF Shared
<1>2. PICK x : x = h[o]
  OBVIOUS
<1>3. IsObject(h, x)
  BY <1>1, <1>2, LevelType
<1>4. \A r : Needs(x, r) => SameIn(h, g, r)
  BY <1>2 DEF Shared
<1>5. PICK v, d, m, w, e, q :
         /\ v = Values(h) /\ d = Clonables(h) /\ m = Meanings(h)
         /\ w = Values(g) /\ e = Clonables(g) /\ q = Meanings(g)
  OBVIOUS
<1>6. \A r : Needs(x, r) => m[r] = q[r]
  BY <1>4, <1>5 DEF SameIn
<1>7. \A r : NeedsPart(x, r) => (v[r] <=> w[r]) /\ (d[r] <=> e[r])
  BY <1>4, <1>5 DEF SameIn, Needs
<1>8. Matches(x, v, m, x, w, q)
  <2>1. \A r : NeedsPart(x, r) => (v[r] <=> w[r])
    BY <1>7
  <2> QED
    BY <1>3, <1>6, <2>1, MatchesItself
<1>9. IsValue(x, v) <=> IsValue(x, w)
  BY <1>8, ValuesAlike
<1>10. IsValue(x, v) = IsValue(x, w)
  BY <1>9, Truths
<1>11. Meaning(x, v, m) = Meaning(x, w, q)
  BY <1>8, MeaningsAlike
<1>12. Clonable(x, d) <=> Clonable(x, e)
  <2>1. \A r : NeedsPart(x, r) => (d[r] <=> e[r])
    BY <1>7
  <2> QED
    BY <2>1, ClonableAlike
<1>13. Clonable(x, d) = Clonable(x, e)
  BY <1>12, Truths
<1>14. v[o] = IsValue(x, v) /\ d[o] = Clonable(x, d) /\ m[o] = Meaning(x, v, m)
  BY <1>1, <1>2, <1>5, Unfolded
<1>15. w[o] = IsValue(x, w) /\ e[o] = Clonable(x, e) /\ q[o] = Meaning(x, w, q)
  BY <1>1, <1>2, <1>5, Unfolded
<1> QED
  BY <1>5, <1>10, <1>11, <1>13, <1>14, <1>15 DEF SameIn

\* What such objects are and mean is the same in both heaps.
LEMMA Locality ==
  ASSUME NEW h, NEW g, NEW S, Shared(h, g, S)
  PROVE  \A o \in S : SameIn(h, g, o)
<1> DEFINE T == {n \in Nat : \E o \in S : Level(h, o) = n /\ ~ SameIn(h, g, o)}
<1>1. SUFFICES ASSUME NEW o \in S, ~ SameIn(h, g, o)
               PROVE  FALSE
  OBVIOUS
<1>2. \A p \in S : Level(h, p) \in Nat /\ p \in DOMAIN h /\ Loaded(h)
  BY LevelType DEF Shared
<1>3. T \subseteq Nat /\ Level(h, o) \in T
  BY <1>1, <1>2
<1>4. PICK n \in T : \A k \in T : n <= k
  <2> HIDE DEF T
  <2> QED
    BY <1>3, LeastElement
<1>5. PICK p \in S : Level(h, p) = n /\ ~ SameIn(h, g, p)
  OBVIOUS
<1>6. ASSUME NEW r \in S, Needs(h[p], r)
      PROVE  SameIn(h, g, r)
  <2>1. Level(h, r) < n /\ Level(h, r) \in Nat /\ n \in Nat
    BY <1>2, <1>5, <1>6, NeedsLess
  <2>2. Level(h, r) \notin T
    <3> HIDE DEF T
    <3> QED
      BY <1>4, <2>1
  <2> QED
    BY <2>1, <2>2
<1>7. SameIn(h, g, p)
  BY <1>6, SharedNeeds
<1> QED
  BY <1>5, <1>7

-----------------------------------------------------------------------------
(* What a clone is while it is made.                                       *)

\* Component b is what component a is, if clones can be.
Alike(h, a, b) ==
    /\ a.kind = b.kind /\ a.num = b.num
    /\ a.kind = "ref" /\ Clonables(h)[a.ref] =>
          /\ Values(h)[b.ref] = Values(h)[a.ref]
          /\ Meanings(h)[b.ref] = Meanings(h)[a.ref]

\* The components that call c has taken over; the last one not yet if it is waiting
\* for its clone.
Taken(h, c, waiting) ==
    {i \in Cloned(h[c.from]) : i <= c.done /\ (waiting => i # c.done)}

\* y is like x as far as the components in T.
Copies(h, x, y, T) ==
    /\ y.type = x.type
    /\ \A i : Holds(y, i) <=> i \in T
    /\ \A i \in T : Alike(h, x.comps[i], y.comps[i])
    /\ y.isSchema <=> Schemas[x.type].kind = "of" /\ T = {}
    /\ y.chosen = IF Schemas[x.type].kind = "choice" /\ T # {} THEN x.chosen ELSE 0

Follows(h, c, waiting) == Copies(h, h[c.from], h[c.to], Taken(h, c, waiting))

\* Call d is for the component that call c is at.
Awaits(h, c, d) ==
    /\ c.done \in Cloned(h[c.from])
    /\ h[c.from].comps[c.done].kind = "ref"
    /\ d.from = h[c.from].comps[c.done].ref
    /\ d.at = c.done

Tracked(h, stack) ==
    /\ \A k \in DOMAIN stack : stack[k].from < stack[1].to
    /\ \A k \in DOMAIN stack : k < Len(stack) =>
          Follows(h, stack[k], TRUE) /\ Awaits(h, stack[k], stack[k + 1])
    /\ stack # <<>> => Follows(h, stack[Len(stack)], FALSE)

TInv == IInv /\ Tracked(heap, copying)

\* Component e is put at position i of x, chosen or not yet.
PutsIn(h, x, i, e, y) ==
    /\ IsObject(h, x) /\ i \in Positions(x.type) /\ e # Absent /\ x.chosen \in {0, i}
    /\ y = Put(x, i, e, TRUE)

LEMMA PutAll ==
  ASSUME NEW h, NEW x, NEW i, NEW e, NEW y, PutsIn(h, x, i, e, y)
  PROVE  \E put, chosen :
            /\ put = With(x, i, e)
            /\ chosen = IF Schemas[x.type].kind = "choice" THEN i ELSE 0
            /\ y = [type |-> x.type, isSchema |-> FALSE, comps |-> put, chosen |-> chosen]
<1>1. PICK put, chosen : put = With(x, i, e) /\ chosen = ChosenAfter(x, i, TRUE)
  OBVIOUS
<1>2. /\ x = [type |-> x.type, isSchema |-> x.isSchema,
              comps |-> x.comps, chosen |-> x.chosen]
      /\ x.chosen \in {0, i}
      /\ Schemas[x.type].kind # "choice" => x.chosen = 0
  BY DEF PutsIn, IsObject
<1>3. chosen = IF Schemas[x.type].kind = "choice" THEN i ELSE 0
  BY <1>1 DEF ChosenAfter
<1>4. x.chosen \in {0, chosen}
  BY <1>2, <1>3
<1>5. y = [x EXCEPT !.isSchema = FALSE, !.chosen = chosen, !.comps = put]
  BY <1>1, <1>4 DEF PutsIn, Put
<1>6. y = [type |-> x.type, isSchema |-> FALSE, comps |-> put, chosen |-> chosen]
  BY <1>2, <1>5
<1> QED
  BY <1>1, <1>3, <1>6

\* y is x with e besides.
Filled(x, i, e, y) ==
    /\ y.type = x.type /\ y.isSchema = FALSE
    /\ y.chosen = IF Schemas[x.type].kind = "choice" THEN i ELSE 0
    /\ y.comps[i] = e
    /\ \A j : Holds(y, j) <=> (j = i \/ Holds(x, j))
    /\ \A j : Holds(x, j) /\ j # i => y.comps[j] = x.comps[j]

LEMMA PutHolds ==
  ASSUME NEW h, NEW x, NEW i, NEW e, NEW y, PutsIn(h, x, i, e, y)
  PROVE  Filled(x, i, e, y)
<1>1. PICK put, chosen :
         /\ put = With(x, i, e)
         /\ chosen = IF Schemas[x.type].kind = "choice" THEN i ELSE 0
         /\ y = [type |-> x.type, isSchema |-> FALSE, comps |-> put, chosen |-> chosen]
  BY PutAll
<1>2. /\ DOMAIN x.comps \subseteq Positions(x.type) /\ i \in Positions(x.type) /\ e # Absent
  BY DEF PutsIn, IsObject
<1>3. /\ put[i] = e /\ i \in DOMAIN put
      /\ DOMAIN x.comps \subseteq DOMAIN put
      /\ \A j \in DOMAIN put :
            j # i => put[j] = IF j \in DOMAIN x.comps THEN x.comps[j] ELSE Absent
  BY <1>1, <1>2 DEF With
<1>4. y.comps = put
  BY <1>1
<1>5. \A j : Holds(y, j) <=> (j = i \/ Holds(x, j))
  BY <1>2, <1>3, <1>4 DEF Holds
<1>6. \A j : Holds(x, j) /\ j # i => y.comps[j] = x.comps[j]
  BY <1>3, <1>4 DEF Holds
<1> QED
  BY <1>1, <1>3, <1>4, <1>5, <1>6 DEF Filled

\* One more component is taken over.
LEMMA CopiesMore ==
  ASSUME NEW h, NEW x, NEW y, NEW T, Copies(h, x, y, T), NEW i, NEW e, NEW z,
         T \subseteq Cloned(x), i \in Cloned(x),
         PutsIn(h, y, i, e, z),
         NEW g, \A j \in T : Alike(h, x.comps[j], y.comps[j]) => Alike(g, x.comps[j], y.comps[j]),
         Alike(g, x.comps[i], e)
  PROVE  Copies(g, x, z, T \cup {i})
<1>1. /\ z.type = y.type /\ z.isSchema = FALSE
      /\ z.chosen = IF Schemas[y.type].kind = "choice" THEN i ELSE 0
      /\ z.comps[i] = e
      /\ \A j : Holds(z, j) <=> (j = i \/ Holds(y, j))
      /\ \A j : Holds(y, j) /\ j # i => z.comps[j] = y.comps[j]
  <2>1. Filled(y, i, e, z)
    BY PutHolds
  <2> QED
    BY <2>1, Zenon DEF Filled
<1>2. y.type = x.type /\ \A j : Holds(y, j) <=> j \in T
  BY DEF Copies
<1>3. \A j : Holds(z, j) <=> j \in T \cup {i}
  BY <1>1, <1>2
<1>4. ASSUME NEW j \in T \cup {i}
      PROVE  Alike(g, x.comps[j], z.comps[j])
  <2>1. CASE j = i
    BY <1>1, <2>1
  <2>2. CASE j # i
    <3>1. j \in T /\ z.comps[j] = y.comps[j]
      BY <1>1, <1>2, <2>2
    <3> QED
      BY <3>1 DEF Copies
  <2> QED
    BY <2>1, <2>2
<1>5. z.isSchema <=> Schemas[x.type].kind = "of" /\ T \cup {i} = {}
  BY <1>1
<1>6. z.chosen = IF Schemas[x.type].kind = "choice" /\ T \cup {i} # {} THEN x.chosen ELSE 0
  <2>1. Schemas[x.type].kind = "choice" => i = x.chosen
    BY DEF Cloned
  <2> QED
    BY <1>1, <1>2, <2>1
<1> QED
  BY <1>1, <1>2, <1>3, <1>4, <1>5, <1>6 DEF Copies

\* It makes no difference in another heap if the components do not.
LEMMA CopiesStay ==
  ASSUME NEW h, NEW x, NEW y, NEW T, Copies(h, x, y, T), NEW g,
         \A j \in T : Alike(h, x.comps[j], y.comps[j]) => Alike(g, x.comps[j], y.comps[j])
  PROVE  Copies(g, x, y, T)
BY DEF Copies

\* A clone begins as an object that holds nothing.
LEMMA FreshCopies ==
  ASSUME NEW h, NEW x, NEW y, y = Fresh(x.type)
  PROVE  Copies(h, x, y, {})
<1>1. y = [type |-> x.type, isSchema |-> Schemas[x.type].kind = "of",
           comps |-> <<>>, chosen |-> 0]
  BY DEF Fresh
<1>2. \A i : ~ Holds(y, i)
  BY <1>1 DEF Holds
<1>3. y.isSchema <=> Schemas[x.type].kind = "of"
  <2>1. PICK b : b = (Schemas[x.type].kind = "of")
    OBVIOUS
  <2>2. Fresh(x.type) = [type |-> x.type, isSchema |-> b, comps |-> <<>>, chosen |-> 0]
    BY <2>1, Zenon DEF Fresh
  <2>3. y.isSchema = b
    BY <2>2
  <2>4. y.isSchema = (Schemas[x.type].kind = "of")
    BY <2>1, <2>3
  <2> QED
    BY <2>4
<1>4. y.chosen = 0 /\ y.type = x.type
  BY <1>1
<1> QED
  BY <1>2, <1>3, <1>4 DEF Copies

LEMMA Loads ==
  ASSUME NEW h, NEW G, Safe(h, G)
  PROVE  Loaded(h)
<1>1. IsHeap(h) /\ \A p \in DOMAIN Prototypes : h[p] = Prototypes[p]
  BY DEF Safe
<1>2. DOMAIN Prototypes \subseteq DOMAIN h
  BY <1>1, HeapDomain, PrototypesShape DEF Safe
<1> QED
  BY <1>1, <1>2 DEF Loaded

LEMMA ClonedPositions ==
  ASSUME NEW h, NEW x, IsObject(h, x), NEW i \in Cloned(x)
  PROVE  /\ i \in Positions(x.type) /\ i \in Nat \ {0}
         /\ i \in DOMAIN x.comps /\ Holds(x, i)
         /\ x.comps[i] \in Component(h) /\ x.comps[i] # Absent
<1>1. i \in DOMAIN x.comps /\ Holds(x, i)
  BY DEF Cloned
<1>2. i \in Positions(x.type) /\ x.comps[i] \in Component(h) /\ x.type \in Types
  BY <1>1 DEF IsObject
<1>3. x.comps[i] # Absent
  BY <1>1 DEF Holds
<1>4. i \in Nat \ {0}
  <2>1. Schemas[x.type].fields \in
              Seq([schema : Described, omission : {"required", "optional", "default"}])
    BY <1>2, SchemasAssumption
  <2>2. MaxLength \in Nat
    BY BoundsAssumption
  <2> QED
    BY <1>2, <2>1, <2>2 DEF Positions
<1> QED
  BY <1>1, <1>2, <1>3, <1>4

\* All that objects need is finished.
LEMMA NeedsFinished ==
  ASSUME IInv, NEW o \in DOMAIN heap, NEW r, Needs(heap[o], r)
  PROVE  r \in DOMAIN heap \ Unfinished
<1>1. r \in DOMAIN heap
  BY Known, Loads, NeedsLess
<1>2. SUFFICES ASSUME NEW k \in DOMAIN copying, r = copying[k].to
               PROVE  FALSE
  BY <1>1 DEF Unfinished
<1>3. copying # <<>> /\ ~ Idle
  BY <1>2 DEF Idle
<1>4. r \in MadeIn(heap) /\ Unseen(heap, given, r)
  BY <1>2, <1>3, TopCall, Known DEF CallsOK, CallOK
<1>5. r \notin DOMAIN Prototypes
  BY <1>4, PrototypesShape, Known DEF MadeIn
<1>6. CASE NeedsSchema(heap[o], r)
  <2>1. PICK i \in Positions(heap[o].type) :
          Field(heap[o].type, i).schema.kind = "ref" /\ Field(heap[o].type, i).schema.ref = r
    BY <1>6 DEF NeedsSchema
  <2>2. PICK t, s : t = heap[o].type /\ s = Field(t, i).schema
    OBVIOUS
  <2>3. t \in Types
    BY <2>2, Known DEF IsObject
  <2> QED
    BY <1>5, <2>1, <2>2, <2>3, FieldRank
<1>7. CASE NeedsPart(heap[o], r)
  <2>1. PICK i \in DOMAIN heap[o].comps : heap[o].comps[i].kind = "ref" /\ heap[o].comps[i].ref = r
    BY <1>7 DEF NeedsPart
  <2>2. CASE o \in MadeIn(heap)
    BY <1>4, <2>1, <2>2 DEF Unseen, Refers
  <2>3. CASE o \notin MadeIn(heap)
    <3>1. o \in DOMAIN Prototypes /\ heap[o] = Prototypes[o]
      BY <2>3, Known, PrototypesShape DEF MadeIn, Safe
    <3>2. Refers(Prototypes, o, i, r)
      BY <2>1, <3>1 DEF Refers
    <3>3. r \in 1..Len(Prototypes)
      BY <3>2, RefersTo, PrototypesShape
    <3> QED
      BY <1>5, <3>3, PrototypesShape
  <2> QED
    BY <2>2, <2>3
<1> QED
  BY <1>6, <1>7 DEF Needs

LEMMA NothingLeft ==
  ASSUME IInv, ~ Idle, Left = {}
  PROVE  Taken(heap, Top, FALSE) = Cloned(heap[Top.from])
<1>1. Top.from \in DOMAIN heap /\ Top.done \in Nat
  BY TopCall DEF CallIn
<1>2. IsObject(heap, heap[Top.from])
  BY <1>1, Known
<1>3. ASSUME NEW i \in Cloned(heap[Top.from])
      PROVE  i <= Top.done
  <2>1. i \in Nat
    BY <1>2, ClonedPositions
  <2>2. ~ (i > Top.done)
    BY DEF Left
  <2> QED
    BY <1>1, <2>1, <2>2
<1> QED
  BY <1>3 DEF Taken

\* A clone that is finished is what its original is, if clones can be.
LEMMA CopyIsAlike ==
  ASSUME NEW h, Loaded(h), NEW a \in DOMAIN h, NEW b \in DOMAIN h,
         Clonables(h)[a], Copies(h, h[a], h[b], Cloned(h[a])),
         Schemas[h[a].type].kind = "of" => ~ h[a].isSchema,
         Schemas[h[a].type].kind = "choice" /\ h[a].chosen # 0 /\ ~ h[a].isSchema =>
            Holds(h[a], h[a].chosen)
  PROVE  Values(h)[b] = Values(h)[a] /\ Meanings(h)[b] = Meanings(h)[a]
<1>1. PICK x, y : x = h[a] /\ y = h[b]
  OBVIOUS
<1>2. PICK v, d, m : v = Values(h) /\ d = Clonables(h) /\ m = Meanings(h)
  OBVIOUS
<1>3. v[a] = IsValue(x, v) /\ d[a] = Clonable(x, d) /\ m[a] = Meaning(x, v, m)
  BY <1>1, <1>2, Unfolded
<1>4. v[b] = IsValue(y, v) /\ m[b] = Meaning(y, v, m)
  BY <1>1, <1>2, Unfolded
<1>5. SUFFICES (IsValue(y, v) <=> IsValue(x, v)) /\ Meaning(y, v, m) = Meaning(x, v, m)
  BY <1>2, <1>3, <1>4, Truths
<1>6. Clonable(x, d)
  BY <1>2, <1>3
<1>7. IsObject(h, x) /\ IsObject(h, y) /\ x.type \in Types
  BY <1>1, LevelType
<1>8. Copies(h, x, y, Cloned(x))
  BY <1>1
<1>9. Schemas[x.type].kind \in {"of", "record", "choice"}
  BY <1>7, SchemasAssumption
<1>10. CASE Schemas[x.type].kind = "choice" /\ (x.isSchema \/ x.chosen = 0)
  <2>1. Cloned(x) = {}
    <3>1. SUFFICES ASSUME NEW i \in Cloned(x)
                   PROVE  FALSE
      OBVIOUS
    <3>2. i \in DOMAIN x.comps /\ i # 0 /\ i = x.chosen
      BY <1>7, <1>10, ClonedPositions DEF Cloned
    <3>3. x.isSchema => x.comps = <<>>
      BY <1>7 DEF IsObject
    <3> QED
      BY <1>10, <3>2, <3>3
  <2>2. y.chosen = 0 /\ y.type = x.type
    BY <1>8, <2>1 DEF Copies
  <2>3. ~ IsValue(x, v) /\ ~ IsValue(y, v)
    BY <1>10, <2>2, ValueMeans
  <2>4. x.chosen = 0
    BY <1>6, <1>10 DEF Clonable
  <2>5. ~ Raises(x, v, m) /\ ~ Raises(y, v, m)
    BY <1>10, <2>2, <2>4, RaisesMeans
  <2> QED
    BY <2>3, <2>5, MeaningOfNone
<1>11. CASE ~ (Schemas[x.type].kind = "choice" /\ (x.isSchema \/ x.chosen = 0))
  <2>1. \A i : (Schemas[x.type].kind = "choice" => i = x.chosen) =>
           (Holds(x, i) <=> i \in Cloned(x))
    BY DEF Cloned, Holds
  <2>2. ~ x.isSchema
    BY <1>1, <1>6, <1>9, <1>11 DEF Clonable
  <2>3. ~ y.isSchema
    <3>1. CASE Schemas[x.type].kind = "of"
      <4>1. PICK i : i \in DOMAIN x.comps
        BY <1>6, <3>1 DEF Clonable
      <4>2. i \in Cloned(x)
        BY <1>7, <3>1, <4>1 DEF Cloned, Holds, IsObject
      <4> QED
        BY <1>8, <4>2 DEF Copies
    <3>2. CASE Schemas[x.type].kind # "of"
      BY <1>8, <3>2 DEF Copies
    <3> QED
      BY <3>1, <3>2
  <2>4. y.chosen = x.chosen
    <3>1. CASE Schemas[x.type].kind = "choice"
      <4>1. Holds(x, x.chosen)
        BY <1>1, <1>11, <3>1
      <4>2. x.chosen \in Cloned(x)
        BY <2>1, <4>1
      <4> QED
        BY <1>8, <3>1, <4>2 DEF Copies
    <3>2. CASE Schemas[x.type].kind # "choice"
      <4>1. x.chosen = 0
        BY <1>7, <3>2 DEF IsObject
      <4> QED
        BY <1>8, <3>2, <4>1 DEF Copies
    <3> QED
      BY <3>1, <3>2
  <2>5. ASSUME NEW i, Schemas[x.type].kind = "choice" => i = x.chosen
        PROVE  SameAt(x, v, m, y, v, m, i)
    <3>1. Holds(x, i) <=> Holds(y, i)
      BY <1>8, <2>1, <2>5 DEF Copies
    <3>2. ASSUME Holds(x, i)
          PROVE  Same(x.comps[i], v, m, y.comps[i], v, m)
      <4>1. i \in Cloned(x)
        BY <2>1, <2>5, <3>2
      <4>2. Alike(h, x.comps[i], y.comps[i])
        BY <1>8, <4>1 DEF Copies
      <4>3. x.comps[i].kind = "ref" => d[x.comps[i].ref]
        BY <1>6, <4>1 DEF Clonable, Cloned
      <4> QED
        BY <1>2, <4>2, <4>3 DEF Alike, Same
    <3> QED
      BY <3>1, <3>2 DEF SameAt
  <2>6. Schemas[x.type].kind = "of" => DOMAIN x.comps = DOMAIN y.comps
    <3>1. SUFFICES ASSUME Schemas[x.type].kind = "of"
                   PROVE  DOMAIN x.comps = DOMAIN y.comps
      OBVIOUS
    <3>2. y.type = x.type
      BY <1>8 DEF Copies
    <3>3. \A i : i \in DOMAIN x.comps <=> Holds(x, i)
      BY <1>7, <3>1 DEF IsObject, Holds
    <3>4. \A i : i \in DOMAIN y.comps <=> Holds(y, i)
      BY <1>7, <3>1, <3>2 DEF IsObject, Holds
    <3>5. \A i : Holds(x, i) <=> Holds(y, i)
      BY <1>8, <2>1, <3>1 DEF Copies
    <3> QED
      BY <3>3, <3>4, <3>5
  <2>7. Matches(x, v, m, y, v, m)
    <3>1. x.type = y.type
      BY <1>8 DEF Copies
    <3> QED
      BY <1>9, <2>2, <2>3, <2>4, <2>5, <2>6, <3>1 DEF Matches
  <2> QED
    BY <2>7, ValuesAlike, MeaningsAlike
<1> QED
  BY <1>10, <1>11

\* When the clone is finished it is what the original is.
LEMMA FaithfulBy ==
  TInv => ClonesMeanTheSame
<1> SUFFICES ASSUME TInv, ~ Idle, ~ CloneFails, Left = {}, Clonables(heap)[Top.from]
             PROVE  /\ Values(heap)[Top.to] <=> Values(heap)[Top.from]
                    /\ Meanings(heap)[Top.to] = Meanings(heap)[Top.from]
  BY DEF ClonesMeanTheSame
<1>1. IInv /\ Tracked(heap, copying)
  BY DEF TInv
<1>2. PICK a, b : a = Top.from /\ b = Top.to
  OBVIOUS
<1>3. a \in DOMAIN heap /\ b \in DOMAIN heap
  BY <1>1, <1>2, TopCall, Known DEF CallIn
<1>4. Loaded(heap)
  BY <1>1, Known, Loads
<1>5. Copies(heap, heap[a], heap[b], Cloned(heap[a]))
  <2>1. Follows(heap, Top, FALSE)
    BY <1>1, TopCall DEF Tracked, Top
  <2>2. Taken(heap, Top, FALSE) = Cloned(heap[Top.from])
    BY <1>1, NothingLeft
  <2> QED
    BY <1>2, <2>1, <2>2 DEF Follows
<1>6. Schemas[heap[a].type].kind = "of" => ~ heap[a].isSchema
  BY <1>2 DEF CloneFails, Kind
<1>7. Schemas[heap[a].type].kind = "choice" /\ heap[a].chosen # 0 /\ ~ heap[a].isSchema =>
         Holds(heap[a], heap[a].chosen)
  BY <1>2 DEF CloneFails, Kind
<1>8. Clonables(heap)[a]
  BY <1>2
<1>9. Values(heap)[b] = Values(heap)[a] /\ Meanings(heap)[b] = Meanings(heap)[a]
  BY <1>3, <1>4, <1>5, <1>6, <1>7, <1>8, CopyIsAlike
<1> QED
  BY <1>2, <1>9

-----------------------------------------------------------------------------
(* Steps of a clone, and what it is.                                       *)

\* From heap to g, object o may change, on which none depends.
Elsewhere(g, o) ==
    /\ \A p \in DOMAIN heap \ {o} : p \in DOMAIN g /\ g[p] = heap[p] /\ SameIn(heap, g, p)
    /\ \A p \in DOMAIN heap : \A r : Needs(heap[p], r) => r \in DOMAIN heap \ {o}

LEMMA Undisturbed ==
  ASSUME IInv, NEW g, NEW G, Safe(g, G), NEW o, o \in Unfinished \/ o \notin DOMAIN heap,
         \A p \in DOMAIN heap \ {o} : p \in DOMAIN g /\ g[p] = heap[p]
  PROVE  Elsewhere(g, o)
<1>1. PICK S : S = DOMAIN heap \ {o}
  OBVIOUS
<1>2. \A p \in DOMAIN heap : \A r : Needs(heap[p], r) => r \in S
  BY <1>1, NeedsFinished
<1>3. Loaded(heap) /\ Loaded(g)
  BY Known, Loads
<1>4. Shared(heap, g, S)
  BY <1>1, <1>2, <1>3 DEF Shared
<1>5. \A p \in S : SameIn(heap, g, p)
  BY <1>4, Locality
<1> QED
  BY <1>1, <1>2, <1>5 DEF Elsewhere

LEMMA AlikeStays ==
  ASSUME NEW g, NEW o, Elsewhere(g, o), NEW p \in DOMAIN heap, NEW q \in DOMAIN heap, NEW j,
         Holds(heap[p], j), Holds(heap[q], j),
         Alike(heap, heap[p].comps[j], heap[q].comps[j])
  PROVE  Alike(g, heap[p].comps[j], heap[q].comps[j])
<1>1. PICK a, b : a = heap[p].comps[j] /\ b = heap[q].comps[j]
  OBVIOUS
<1>2. a.kind = b.kind /\ a.num = b.num
  BY <1>1 DEF Alike
<1>3. CASE a.kind = "ref"
  <2>1. NeedsPart(heap[p], a.ref) /\ NeedsPart(heap[q], b.ref)
    BY <1>1, <1>2, <1>3 DEF NeedsPart, Holds
  <2>2. SameIn(heap, g, a.ref) /\ SameIn(heap, g, b.ref)
    BY <2>1 DEF Elsewhere, Needs
  <2> QED
    BY <1>1, <1>2, <1>3, <2>2 DEF Alike, SameIn
<1>4. CASE a.kind # "ref"
  BY <1>1, <1>2, <1>4 DEF Alike
<1> QED
  BY <1>3, <1>4

\* What a clone is, as far as T, is not disturbed.
LEMMA CopiesKeep ==
  ASSUME NEW g, NEW o, Elsewhere(g, o), NEW p \in DOMAIN heap, NEW q \in DOMAIN heap,
         NEW T, T \subseteq Cloned(heap[p]), Copies(heap, heap[p], heap[q], T)
  PROVE  /\ \A j \in T : Alike(heap, heap[p].comps[j], heap[q].comps[j]) =>
                            Alike(g, heap[p].comps[j], heap[q].comps[j])
         /\ Copies(g, heap[p], heap[q], T)
<1>1. ASSUME NEW j \in T, Alike(heap, heap[p].comps[j], heap[q].comps[j])
      PROVE  Alike(g, heap[p].comps[j], heap[q].comps[j])
  <2>1. Holds(heap[p], j)
    BY DEF Cloned
  <2>2. Holds(heap[q], j)
    BY DEF Copies
  <2> QED
    BY <1>1, <2>1, <2>2, AlikeStays
<1>2. Copies(g, heap[p], heap[q], T)
  BY <1>1, CopiesStay
<1> QED
  BY <1>1, <1>2

LEMMA FollowsKeep ==
  ASSUME NEW g, NEW o, Elsewhere(g, o), NEW c, NEW waiting, Follows(heap, c, waiting),
         c.from \in DOMAIN heap \ {o}, c.to \in DOMAIN heap \ {o}
  PROVE  Follows(g, c, waiting)
<1>1. PICK p, q, T : p = c.from /\ q = c.to /\ T = Taken(heap, c, waiting)
  OBVIOUS
<1>2. T \subseteq Cloned(heap[p])
  BY <1>1 DEF Taken
<1>3. Copies(heap, heap[p], heap[q], T)
  BY <1>1 DEF Follows
<1>4. Copies(g, heap[p], heap[q], T)
  BY <1>1, <1>2, <1>3, CopiesKeep
<1>5. g[p] = heap[p] /\ g[q] = heap[q]
  BY <1>1 DEF Elsewhere
<1>6. Taken(g, c, waiting) = T
  BY <1>1, <1>5 DEF Taken
<1> QED
  BY <1>1, <1>4, <1>5, <1>6 DEF Follows

\* The calls in progress, one by one.
LEMMA Frames ==
  ASSUME IInv, ~ Idle, NEW k \in DOMAIN copying
  PROVE  /\ copying[k].from \in DOMAIN heap /\ copying[k].to \in DOMAIN heap
         /\ copying[k].from \in Nat /\ copying[k].to \in Nat /\ copying[k].done \in Nat
         /\ copying[k].to \in Unfinished
         /\ 1 \in DOMAIN copying /\ copying[1].to <= copying[k].to
         /\ heap[copying[k].to].type = heap[copying[k].from].type
<1>1. copying[k] \in CallIn(heap)
  BY Known, ElementsOf
<1>2. PICK n \in Nat : n = Len(copying) /\ n # 0 /\ DOMAIN copying = 1..n
  BY TopCall, Known
<1>3. copying[1] \in CallIn(heap) /\ 1 \in DOMAIN copying /\ k \in 1..n
  BY <1>2, Known, ElementsOf
<1>4. copying[k].to \in Nat /\ copying[1].to \in Nat
  BY <1>1, <1>3, Known DEF CallIn
<1>5. copying[1].to <= copying[k].to
  <2>1. CASE k = 1
    BY <1>4, <2>1
  <2>2. CASE k # 1
    <3>1. 1 < k
      BY <1>3, <2>2
    <3>2. copying[1].to < copying[k].to
      BY <1>3, <3>1, Known DEF CallsOK
    <3> QED
      BY <1>4, <3>2
  <2> QED
    BY <2>1, <2>2
<1>6. heap[copying[k].to].type = heap[copying[k].from].type
  BY Known DEF CallsOK, CallOK
<1>7. copying[k].from \in DOMAIN heap /\ copying[k].to \in DOMAIN heap /\ copying[k].done \in Nat
      /\ copying[k].from \in Nat
  BY <1>1, Known DEF CallIn
<1> QED
  BY <1>3, <1>4, <1>5, <1>6, <1>7 DEF Unfinished

\* The first m - 1 calls are left alone, and the m-th keeps what it is for.
Older(next, m) ==
    /\ m \in DOMAIN copying
    /\ \A k \in 1..m - 1 : next[k] = copying[k]
    /\ next[m].from = copying[m].from /\ next[m].to = copying[m].to
    /\ next[m].into = copying[m].into /\ next[m].at = copying[m].at

\* What happens is elsewhere than the application's objects, for the same reason.
Works(g, next) ==
    \E o : /\ o \in Unfinished \/ o \notin DOMAIN heap
           /\ Elsewhere(g, o)
           /\ next[1].from = copying[1].from /\ next[1].to = copying[1].to
           /\ next[1].into = copying[1].into /\ next[1].at = copying[1].at

LEMMA WorksIfElsewhere ==
  ASSUME NEW g, NEW next, NEW m, Older(next, m), NEW o, Elsewhere(g, o),
         o \in Unfinished \/ o \notin DOMAIN heap, m \in Nat, m # 0
  PROVE  Works(g, next)
<1>1. /\ next[1].from = copying[1].from /\ next[1].to = copying[1].to
      /\ next[1].into = copying[1].into /\ next[1].at = copying[1].at
  <2>1. CASE m = 1
    BY <2>1 DEF Older
  <2>2. CASE m # 1
    <3>1. 1 \in 1..m - 1
      BY <2>2
    <3> QED
      BY <3>1 DEF Older
  <2> QED
    BY <2>1, <2>2
<1> QED
  BY <1>1 DEF Works

LEMMA OlderFollow ==
  ASSUME TInv, ~ Idle, NEW g, NEW o, Elsewhere(g, o),
         NEW next, NEW m, Older(next, m), o = copying[m].to \/ o \notin DOMAIN heap
  PROVE  /\ next[1].to = copying[1].to
         /\ \A k \in 1..m : next[k].from < next[1].to
         /\ \A k \in 1..m - 1 : Follows(g, next[k], TRUE) /\ Awaits(g, next[k], next[k + 1])
<1>1. IInv /\ Tracked(heap, copying)
  BY DEF TInv
<1>2. PICK n \in Nat : n = Len(copying) /\ n # 0 /\ DOMAIN copying = 1..n
  BY <1>1, TopCall, Known
<1>3. m \in 1..n /\ m \in Nat
  BY <1>2 DEF Older
<1>4. \A k \in 1..m : next[k].from = copying[k].from /\ next[k].to = copying[k].to
                      /\ next[k].at = copying[k].at
  BY <1>3 DEF Older
<1>5. next[1].to = copying[1].to
  BY <1>3, <1>4
<1>6. \A k \in 1..m : next[k].from < next[1].to
  BY <1>1, <1>2, <1>3, <1>4, <1>5 DEF Tracked
<1>7. ASSUME NEW k \in 1..m - 1
      PROVE  Follows(g, next[k], TRUE) /\ Awaits(g, next[k], next[k + 1])
  <2>1. k \in DOMAIN copying /\ k < n /\ k + 1 \in 1..m /\ k < m /\ next[k] = copying[k]
    BY <1>2, <1>3 DEF Older
  <2>2. PICK c : c = copying[k]
    OBVIOUS
  <2>3. Follows(heap, c, TRUE) /\ Awaits(heap, c, copying[k + 1])
    BY <1>1, <1>2, <2>1, <2>2 DEF Tracked
  <2>4. c.to < copying[m].to
    BY <1>1, <1>2, <1>3, <2>1, <2>2, Known DEF CallsOK
  <2>5. c.from < copying[m].to
    <3>1. c.from < copying[1].to
      BY <1>1, <2>1, <2>2 DEF Tracked
    <3>2. copying[1].to <= copying[m].to /\ copying[m].to \in Nat
      BY <1>1, <1>2, <1>3, Frames
    <3>3. c.from \in Nat /\ copying[1].to \in Nat
      BY <1>1, <1>2, <2>1, <2>2, Frames
    <3> QED
      BY <3>1, <3>2, <3>3
  <2>6. c.from \in DOMAIN heap /\ c.to \in DOMAIN heap /\ c.from \in Nat /\ c.to \in Nat
    BY <1>1, <2>1, <2>2, Frames
  <2>7. c.from # o /\ c.to # o
    <3>1. copying[m].to \in Nat
      BY <1>1, <1>2, <1>3, Frames
    <3> QED
      BY <2>4, <2>5, <2>6, <3>1
  <2>8. Follows(g, c, TRUE)
    BY <2>3, <2>6, <2>7, FollowsKeep
  <2>9. g[c.from] = heap[c.from]
    BY <2>6, <2>7 DEF Elsewhere
  <2>10. Awaits(g, c, next[k + 1])
    BY <1>4, <2>1, <2>3, <2>9 DEF Awaits
  <2> QED
    BY <2>1, <2>2, <2>8, <2>10
<1> QED
  BY <1>5, <1>6, <1>7

\* Something is put into the clone of call m, the last of those that go on.
Fills(g, m, i, e) ==
    /\ m \in DOMAIN copying
    /\ i \in Cloned(heap[copying[m].from])
    /\ i \in Positions(heap[copying[m].to].type) /\ e # Absent
    /\ g[copying[m].to] = Put(heap[copying[m].to], i, e, TRUE)
    /\ Alike(g, heap[copying[m].from].comps[i], e)

LEMMA FollowsMore ==
  ASSUME TInv, ~ Idle, NEW g, NEW m, NEW i, NEW e, Fills(g, m, i, e), Elsewhere(g, copying[m].to),
         NEW waiting, Follows(heap, copying[m], waiting),
         NEW d, d.from = copying[m].from, d.to = copying[m].to,
         Taken(heap, d, FALSE) = Taken(heap, copying[m], waiting) \cup {i}
  PROVE  Follows(g, d, FALSE)
<1>1. IInv /\ Tracked(heap, copying)
  BY DEF TInv
<1>2. PICK c : c = copying[m]
  OBVIOUS
<1>3. c.from \in DOMAIN heap /\ c.to \in DOMAIN heap /\ c.from \in Nat /\ c.to \in Nat
      /\ 1 \in DOMAIN copying /\ copying[1].to <= c.to
  BY <1>1, <1>2, Frames DEF Fills
<1>4. c.from # c.to
  <2>1. c.from < copying[1].to /\ copying[1].to \in Nat
    BY <1>1, <1>2, <1>3, Frames DEF Tracked, Fills
  <2> QED
    BY <1>3, <2>1
<1>5. PICK p, q, T : p = c.from /\ q = c.to /\ T = Taken(heap, c, waiting)
  OBVIOUS
<1>6. PICK x, y, z : x = heap[p] /\ y = heap[q] /\ z = g[q]
  OBVIOUS
<1>7. T \subseteq Cloned(x) /\ i \in Cloned(x)
  BY <1>2, <1>5, <1>6 DEF Taken, Fills
<1>8. Copies(heap, x, y, T)
  BY <1>2, <1>5, <1>6 DEF Follows
<1>9. PutsIn(heap, y, i, e, z)
  <2>1. IsObject(heap, y)
    BY <1>1, <1>3, <1>5, <1>6, Known
  <2>2. y.chosen \in {0, i}
    <3>1. Schemas[x.type].kind = "choice" => i = x.chosen
      BY <1>7 DEF Cloned
    <3> QED
      BY <1>8, <3>1 DEF Copies
  <2> QED
    BY <1>2, <1>5, <1>6, <2>1, <2>2 DEF PutsIn, Fills
<1>10. \A j \in T : Alike(heap, x.comps[j], y.comps[j]) => Alike(g, x.comps[j], y.comps[j])
  <2>1. T \subseteq Cloned(heap[p]) /\ Copies(heap, heap[p], heap[q], T)
    BY <1>6, <1>7, <1>8
  <2>2. p \in DOMAIN heap /\ q \in DOMAIN heap
    BY <1>3, <1>5
  <2>3. \A j \in T : Alike(heap, heap[p].comps[j], heap[q].comps[j]) =>
                       Alike(g, heap[p].comps[j], heap[q].comps[j])
    BY <2>1, <2>2, CopiesKeep
  <2> QED
    BY <1>6, <2>3
<1>11. Alike(g, x.comps[i], e)
  BY <1>2, <1>5, <1>6 DEF Fills
<1>12. Copies(g, x, z, T \cup {i})
  BY <1>7, <1>8, <1>9, <1>10, <1>11, CopiesMore
<1>13. g[p] = x
  BY <1>2, <1>3, <1>4, <1>5, <1>6 DEF Elsewhere
<1>14. Taken(g, d, FALSE) = T \cup {i}
  BY <1>2, <1>5, <1>6, <1>13 DEF Taken
<1> QED
  BY <1>2, <1>5, <1>6, <1>12, <1>13, <1>14 DEF Follows

\* What has been taken over, when i is the next position.
LEMMA TakenNext ==
  ASSUME IInv, ~ Idle, NEW i, Taking(i), i \in Left,
         NEW d, d.from = Top.from, d.done = i
  PROVE  /\ Taken(heap, d, FALSE) = Taken(heap, Top, FALSE) \cup {i}
         /\ Taken(heap, d, TRUE) = Taken(heap, Top, FALSE)
         /\ i \in Cloned(heap[Top.from])
<1>1. PICK x, n : x = heap[Top.from] /\ n = Top.done
  OBVIOUS
<1>2. IsObject(heap, x) /\ n \in Nat
  BY <1>1, TopCall, Known DEF CallIn
<1>3. Cloned(x) \subseteq Nat
  BY <1>2, ClonedPositions
<1>4. i \in Cloned(x) /\ i > n /\ \A j \in Cloned(x) : j > n => i <= j
  BY <1>1 DEF Left, Taking
<1>5. \A j \in Cloned(x) : (j <= i <=> j <= n \/ j = i) /\ (j <= i /\ j # i <=> j <= n)
  BY <1>2, <1>3, <1>4
<1>6. Taken(heap, Top, FALSE) = {j \in Cloned(x) : j <= n}
  BY <1>1 DEF Taken
<1>7. Taken(heap, d, FALSE) = {j \in Cloned(x) : j <= i}
  BY <1>1 DEF Taken
<1>8. Taken(heap, d, TRUE) = {j \in Cloned(x) : j <= i /\ j # i}
  BY <1>1 DEF Taken
<1> QED
  BY <1>1, <1>4, <1>5, <1>6, <1>7, <1>8

\* The call that a step advances.
LEMMA AdvancedCalls ==
  ASSUME IInv, ~ Idle, NEW i, NEW next, next = Advanced(i)
  PROVE  /\ Len(next) = Len(copying) /\ DOMAIN next = DOMAIN copying
         /\ Older(next, Len(copying))
         /\ next[Len(copying)].done = i
         /\ next[Len(copying)].from = Top.from /\ next[Len(copying)].to = Top.to
<1>1. PICK n \in Nat : n = Len(copying) /\ n # 0 /\ DOMAIN copying = 1..n
  BY TopCall, Known
<1>2. PICK c : c = copying[n]
  OBVIOUS
<1>3. c \in CallIn(heap)
  BY <1>1, <1>2, Known, ElementsOf
<1>4. PICK d : d = [c EXCEPT !.done = i]
  OBVIOUS
<1>5. d.done = i /\ d.from = c.from /\ d.to = c.to /\ d.into = c.into /\ d.at = c.at
  BY <1>3, <1>4 DEF CallIn
<1>6. next = [copying EXCEPT ![n] = d]
  BY <1>1, <1>2, <1>4 DEF Advanced
<1>7. /\ Len(next) = n /\ DOMAIN next = 1..n
      /\ next[n] = d /\ \A k \in 1..n : k # n => next[k] = copying[k]
  BY <1>1, <1>6
<1>8. n \in DOMAIN copying /\ Top = c
  BY <1>1, <1>2 DEF Top
<1>9. Older(next, n)
  BY <1>1, <1>2, <1>5, <1>7, <1>8 DEF Older
<1> QED
  BY <1>1, <1>5, <1>7, <1>8, <1>9

LEMMA TakeScalarTracks ==
  ASSUME TInv, ~ Idle, IInv', NEW i \in Left, TakeScalar(i)
  PROVE  Tracked(heap', copying') /\ Works(heap', copying')
<1>1. IInv /\ Tracked(heap, copying)
  BY DEF TInv
<1>2. PICK g, next, e, o :
         /\ g = heap' /\ next = copying' /\ e = heap[Top.from].comps[i] /\ o = Top.to
  OBVIOUS
<1>3. PICK n \in Nat : n = Len(copying) /\ n # 0 /\ DOMAIN copying = 1..n
  BY <1>1, TopCall, Known
<1>4. Top = copying[n] /\ n \in DOMAIN copying
  BY <1>3 DEF Top
<1>5. o \in DOMAIN heap /\ o \in Unfinished
  BY <1>1, <1>2, <1>4, Frames
<1>6. g = [heap EXCEPT ![o] = Put(heap[o], i, e, TRUE)] /\ e.kind = "scalar"
  BY <1>2 DEF TakeScalar
<1>7. g[o] = Put(heap[o], i, e, TRUE)
      /\ \A p \in DOMAIN heap \ {o} : p \in DOMAIN g /\ g[p] = heap[p]
  BY <1>5, <1>6
<1>8. Elsewhere(g, o)
  <2>1. Safe(g, given')
    BY <1>2 DEF IInv
  <2> QED
    BY <1>1, <1>5, <1>7, <2>1, Undisturbed
<1>9. Taking(i) /\ next = Advanced(i)
  BY <1>2 DEF TakeScalar
<1>10. /\ Len(next) = n /\ DOMAIN next = 1..n /\ Older(next, n)
       /\ next[n].done = i /\ next[n].from = Top.from /\ next[n].to = Top.to
  BY <1>1, <1>3, <1>9, AdvancedCalls
<1>11. PICK d : d = next[n]
  OBVIOUS
<1>12. /\ Taken(heap, d, FALSE) = Taken(heap, Top, FALSE) \cup {i}
       /\ i \in Cloned(heap[Top.from])
  BY <1>1, <1>9, <1>10, <1>11, TakenNext
<1>13. Fills(g, n, i, e)
  <2>1. i \in Positions(heap[o].type)
    BY <1>1, <1>2, LeftComponent
  <2>2. e # Absent
    BY <1>6, Records
  <2>3. Alike(g, e, e)
    BY <1>6 DEF Alike
  <2> QED
    BY <1>2, <1>4, <1>7, <1>12, <2>1, <2>2, <2>3 DEF Fills
<1>14. Follows(heap, copying[n], FALSE)
  BY <1>1, <1>3, TopCall DEF Tracked
<1>15. Follows(g, d, FALSE)
  <2>1. d.from = copying[n].from /\ d.to = copying[n].to
    BY <1>4, <1>10, <1>11
  <2>2. Taken(heap, d, FALSE) = Taken(heap, copying[n], FALSE) \cup {i}
    BY <1>4, <1>12
  <2>3. Elsewhere(g, copying[n].to)
    BY <1>2, <1>4, <1>8
  <2> QED
    BY <1>13, <1>14, <2>1, <2>2, <2>3, FollowsMore
<1>16. /\ \A k \in 1..n : next[k].from < next[1].to
       /\ \A k \in 1..n - 1 : Follows(g, next[k], TRUE) /\ Awaits(g, next[k], next[k + 1])
  <2>1. o = copying[n].to
    BY <1>2, <1>4
  <2> QED
    BY <1>8, <1>10, <2>1, OlderFollow
<1>17. Tracked(g, next)
  <2>1. \A k \in 1..n : k < n => k \in 1..n - 1
    BY <1>3
  <2> QED
    BY <1>10, <1>11, <1>15, <1>16, <2>1 DEF Tracked
<1>18. Works(g, next)
  BY <1>3, <1>5, <1>8, <1>10, WorksIfElsewhere
<1> QED
  BY <1>2, <1>17, <1>18

\* A clone begins.
LEMMA BeginsTracked ==
  ASSUME NEW h, NEW c, c.from \in DOMAIN h, IsObject(h, h[c.from]),
         h[c.to] = Fresh(h[c.from].type), c.done = 0
  PROVE  Follows(h, c, FALSE)
<1>1. Taken(h, c, FALSE) = {}
  <2>1. SUFFICES ASSUME NEW i \in Cloned(h[c.from]), i <= 0
                 PROVE  FALSE
    BY DEF Taken
  <2>2. i \in Nat \ {0}
    BY ClonedPositions
  <2> QED
    BY <2>1, <2>2
<1>2. Copies(h, h[c.from], h[c.to], {})
  BY FreshCopies
<1> QED
  BY <1>1, <1>2 DEF Follows

-----------------------------------------------------------------------------
(* Steps of a clone track it.                                              *)

\* What the objects before the first clone hold is before it, too.
LEMMA PartsOlder ==
  ASSUME IInv, ~ Idle, NEW o \in DOMAIN heap, o < copying[1].to, NEW r, NeedsPart(heap[o], r)
  PROVE  r < copying[1].to
<1>1. PICK i \in DOMAIN heap[o].comps : heap[o].comps[i].kind = "ref" /\ heap[o].comps[i].ref = r
  BY DEF NeedsPart
<1>2. 1 \in DOMAIN copying /\ copying # <<>>
  BY TopCall, Known
<1>3. copying[1].to \in MadeIn(heap) /\ copying[1].to \in Nat
  BY <1>2, TopCall, Known
<1>4. CASE o \in MadeIn(heap)
  <2>1. Refers(heap, o, i, r)
    BY <1>1 DEF Refers
  <2>2. o <= copying[1].to - 1 /\ o \in Nat /\ r \in Nat
    <3>1. o \in Nat /\ r \in Nat
      BY <2>1, Known, RefersTo
    <3> QED
      BY <1>3, <3>1
  <2>3. Closed(heap, given, copying[1].to - 1)
    BY <1>2, Known DEF CallsOK
  <2>4. r <= copying[1].to - 1
    BY <1>4, <2>1, <2>2, <2>3 DEF Closed
  <2> QED
    BY <1>3, <2>2, <2>4
<1>5. CASE o \notin MadeIn(heap)
  <2>1. o \in DOMAIN Prototypes /\ heap[o] = Prototypes[o]
    BY <1>5, Known, PrototypesShape DEF MadeIn, Safe
  <2>2. Refers(Prototypes, o, i, r)
    BY <1>1, <2>1 DEF Refers
  <2>3. r \in 1..Len(Prototypes)
    BY <2>2, RefersTo, PrototypesShape
  <2> QED
    BY <1>3, <2>3, PrototypesShape DEF MadeIn
<1> QED
  BY <1>4, <1>5

LEMMA CloneComponentTracks ==
  ASSUME TInv, ~ Idle, IInv', NEW i \in Left, CloneComponent(i)
  PROVE  Tracked(heap', copying') /\ Works(heap', copying')
<1>1. IInv /\ Tracked(heap, copying)
  BY DEF TInv
<1>2. PICK g, next, stack, e, p, t :
         /\ g = heap' /\ next = copying' /\ stack = Advanced(i)
         /\ e = heap[Top.from].comps[i] /\ p = e.ref /\ t = Len(heap) + 1
  OBVIOUS
<1>3. PICK n \in Nat : n = Len(copying) /\ n # 0 /\ DOMAIN copying = 1..n
  BY <1>1, TopCall, Known
<1>4. Top = copying[n] /\ n \in DOMAIN copying
  BY <1>3 DEF Top
<1>5. PICK c : c = [from |-> p, to |-> t, done |-> 0, into |-> Top.to, at |-> i]
  OBVIOUS
<1>6. /\ g = Append(heap, Fresh(heap[p].type)) /\ next = Append(stack, c)
      /\ Taking(i) /\ e.kind = "ref"
  BY <1>2, <1>5 DEF CloneComponent, CallClone
<1>7. c.from = p /\ c.to = t /\ c.done = 0 /\ c.at = i
  BY <1>5
<1>8. t \notin DOMAIN heap /\ g[t] = Fresh(heap[p].type)
      /\ \A q \in DOMAIN heap : q \in DOMAIN g /\ g[q] = heap[q]
  <2>1. e = Ref(p) /\ p \in DOMAIN heap
    BY <1>1, <1>2, <1>6, LeftComponent
  <2>2. heap[p].type \in Types
    BY <1>1, <2>1, Known DEF IsObject
  <2>3. Extended(heap, g, heap[p].type)
    BY <1>6, <2>2 DEF Extended
  <2>4. /\ Len(g) = Len(heap) + 1 /\ Len(g) \notin DOMAIN heap
        /\ \A q \in DOMAIN heap : g[q] = heap[q]
        /\ g[Len(g)] = Fresh(heap[p].type)
    BY <1>1, <2>3, Known, NewGrows
  <2>5. IsHeap(g)
    BY <1>1, <2>3, Known, NewGrows
  <2>6. DOMAIN g = 1..Len(heap) + 1
    BY <2>4, <2>5, HeapDomain
  <2>7. \A q \in DOMAIN heap : q \in DOMAIN g
    BY <1>1, <2>6, Known
  <2> QED
    BY <1>2, <2>4, <2>7
<1>9. Elsewhere(g, t)
  <2>1. Safe(g, given')
    BY <1>2 DEF IInv
  <2> QED
    BY <1>1, <1>8, <2>1, Undisturbed
<1>10. /\ Len(stack) = n /\ DOMAIN stack = 1..n /\ Older(stack, n)
       /\ stack[n].done = i /\ stack[n].from = Top.from /\ stack[n].to = Top.to
  BY <1>1, <1>2, <1>3, AdvancedCalls
<1>11. PICK d : d = stack[n]
  OBVIOUS
<1>12. /\ Taken(heap, d, TRUE) = Taken(heap, Top, FALSE)
       /\ i \in Cloned(heap[Top.from])
  BY <1>1, <1>6, <1>10, <1>11, TakenNext
<1>13. Follows(heap, d, TRUE)
  <2>1. Follows(heap, Top, FALSE)
    BY <1>1, <1>3, <1>4, TopCall DEF Tracked
  <2> QED
    BY <1>10, <1>11, <1>12, <2>1 DEF Follows
<1>14. d.from \in DOMAIN heap \ {t} /\ d.to \in DOMAIN heap \ {t}
  BY <1>1, <1>4, <1>8, <1>10, <1>11, Frames
<1>15. Follows(g, d, TRUE)
  BY <1>9, <1>13, <1>14, FollowsKeep
<1>16. g[d.from] = heap[Top.from]
  BY <1>8, <1>10, <1>11, <1>14
<1>17. Awaits(g, d, c)
  BY <1>2, <1>6, <1>7, <1>10, <1>11, <1>12, <1>16 DEF Awaits
<1>18. p \in DOMAIN heap /\ p < copying[1].to
  <2>1. NeedsPart(heap[Top.from], p)
    BY <1>2, <1>6, <1>12 DEF NeedsPart, Cloned
  <2>2. Top.from \in DOMAIN heap
    BY <1>1, <1>4, Frames
  <2>3. Top.from < copying[1].to
    BY <1>1, <1>4 DEF Tracked
  <2>4. p < copying[1].to
    BY <1>1, <2>1, <2>2, <2>3, PartsOlder
  <2>5. p \in DOMAIN heap
    BY <1>1, <2>1, <2>2, NeedsFinished DEF Needs
  <2> QED
    BY <2>4, <2>5
<1>19. Follows(g, c, FALSE)
  <2>1. IsObject(g, g[p]) /\ p \in DOMAIN g
    <3>1. IsHeap(g)
      BY <1>2 DEF IInv, Safe
    <3> QED
      BY <1>8, <1>18, <3>1 DEF IsHeap
  <2>2. g[c.to] = Fresh(g[p].type)
    BY <1>7, <1>8, <1>18
  <2> QED
    BY <1>7, <2>1, <2>2, BeginsTracked
<1>20. /\ stack[1].to = copying[1].to
       /\ \A k \in 1..n : stack[k].from < stack[1].to
       /\ \A k \in 1..n - 1 : Follows(g, stack[k], TRUE) /\ Awaits(g, stack[k], stack[k + 1])
  BY <1>8, <1>9, <1>10, OlderFollow
<1>21. /\ Len(next) = n + 1 /\ DOMAIN next = 1..n + 1
       /\ next[n + 1] = c /\ \A k \in 1..n : next[k] = stack[k]
  <2>1. stack \in Seq({stack[k] : k \in 1..n} \cup {c})
    <3>1. PICK S : S = {stack[k] : k \in 1..n} \cup {c}
      OBVIOUS
    <3>2. stack = [copying EXCEPT ![n] = stack[n]]
      BY <1>2, <1>3, <1>10 DEF Advanced
    <3>3. stack = [k \in 1..n |-> stack[k]]
      BY <1>3, <3>2
    <3>4. \A k \in 1..n : stack[k] \in S
      BY <3>1
    <3> QED
      BY <1>3, <3>1, <3>3, <3>4
  <2>2. c \in {stack[k] : k \in 1..n} \cup {c}
    OBVIOUS
  <2> QED
    BY <1>6, <1>10, <2>1, <2>2, AppendProperties
<1>22. Tracked(g, next)
  <2>1. \A k \in 1..n + 1 : next[k].from < next[1].to
    BY <1>3, <1>7, <1>18, <1>20, <1>21
  <2>2. ASSUME NEW k \in 1..n + 1, k < n + 1
        PROVE  Follows(g, next[k], TRUE) /\ Awaits(g, next[k], next[k + 1])
    <3>1. CASE k = n
      <4>1. next[k] = d /\ next[k + 1] = c
        BY <1>3, <1>11, <1>21, <3>1
      <4> QED
        BY <1>15, <1>17, <4>1
    <3>2. CASE k # n
      <4>1. k \in 1..n - 1 /\ k \in 1..n /\ k + 1 \in 1..n
        BY <1>3, <2>2, <3>2
      <4> QED
        BY <1>20, <1>21, <4>1
    <3> QED
      BY <3>1, <3>2
  <2>3. Follows(g, next[Len(next)], FALSE)
    BY <1>19, <1>21
  <2> QED
    BY <1>21, <2>1, <2>2, <2>3 DEF Tracked
<1>23. Works(g, next)
  <2>1. Works(g, stack)
    BY <1>3, <1>8, <1>9, <1>10, WorksIfElsewhere
  <2>2. next[1] = stack[1]
    BY <1>3, <1>21
  <2> QED
    BY <2>1, <2>2, Zenon DEF Works
<1> QED
  BY <1>2, <1>22, <1>23

\* The clone that is put in is what the component is.
LEMMA ReturnsAlike ==
  ASSUME TInv, ~ Idle, ~ CloneFails, Left = {}, NEW g, NEW o, Elsewhere(g, o),
         Top.from # o, Top.to # o,
         NEW a, a = Ref(Top.from), NEW b, b = Ref(Top.to)
  PROVE  Alike(g, a, b)
<1>1. IInv /\ ClonesMeanTheSame
  BY FaithfulBy DEF TInv
<1>2. PICK p, q : p = Top.from /\ q = Top.to
  OBVIOUS
<1>3. p \in DOMAIN heap \ {o} /\ q \in DOMAIN heap \ {o}
  BY <1>1, <1>2, TopCall, Known DEF CallIn
<1>4. SameIn(heap, g, p) /\ SameIn(heap, g, q)
  BY <1>3 DEF Elsewhere
<1>5. a.kind = b.kind /\ a.num = b.num /\ a.ref = p /\ b.ref = q
  BY <1>2 DEF Ref
<1>6. ASSUME Clonables(g)[p]
      PROVE  Values(g)[q] = Values(g)[p] /\ Meanings(g)[q] = Meanings(g)[p]
  <2>1. Clonables(heap)[Top.from]
    BY <1>2, <1>4, <1>6 DEF SameIn
  <2>2. /\ Values(heap)[q] <=> Values(heap)[p]
        /\ Meanings(heap)[q] = Meanings(heap)[p]
    BY <1>1, <1>2, <2>1 DEF ClonesMeanTheSame
  <2>3. Loaded(heap)
    BY <1>1, Known, Loads
  <2>4. Values(heap)[q] \in BOOLEAN /\ Values(heap)[p] \in BOOLEAN
    BY <1>3, <2>3, Unfolded, Truths
  <2>5. Values(heap)[q] = Values(heap)[p]
    BY <2>2, <2>4
  <2> QED
    BY <1>4, <2>2, <2>5 DEF SameIn
<1> QED
  BY <1>5, <1>6 DEF Alike

LEMMA CloneReturnsTracks ==
  ASSUME TInv, ~ Idle, IInv', CloneReturns
  PROVE  Tracked(heap', copying') /\ (Len(copying) # 1 => Works(heap', copying'))
<1>1. IInv /\ Tracked(heap, copying)
  BY DEF TInv
<1>2. PICK g, next : g = heap' /\ next = copying'
  OBVIOUS
<1>3. PICK n \in Nat : n = Len(copying) /\ n # 0 /\ DOMAIN copying = 1..n
  BY <1>1, TopCall, Known
<1>4. Top = copying[n] /\ n \in DOMAIN copying
  BY <1>3 DEF Top
<1>5. /\ next = SubSeq(copying, 1, n - 1)
      /\ g = IF Top.into = 0 THEN heap
             ELSE [heap EXCEPT ![Top.into] = Put(@, Top.at, Ref(Top.to), n > 1)]
      /\ ~ CloneFails /\ Left = {}
  BY <1>2, <1>3 DEF CloneReturns
<1>6. Len(next) = n - 1 /\ DOMAIN next = 1..n - 1 /\ \A k \in 1..n - 1 : next[k] = copying[k]
  BY <1>3, <1>5
<1>7. CASE n = 1
  <2>1. next = <<>> /\ DOMAIN next = {}
    BY <1>6, <1>7
  <2> QED
    BY <1>2, <1>3, <1>7, <2>1 DEF Tracked
<1>8. CASE n # 1
  <2>1. PICK m \in Nat : m = n - 1 /\ m # 0
    BY <1>3, <1>8
  <2>2. m \in DOMAIN copying /\ m < n /\ n = m + 1 /\ n > 1
    BY <1>3, <2>1
  <2>3. PICK c, i, o, e : c = copying[m] /\ i = Top.at /\ o = c.to /\ e = Ref(Top.to)
    OBVIOUS
  <2>4. Follows(heap, c, TRUE) /\ Awaits(heap, c, Top)
    BY <1>1, <1>3, <1>4, <2>2, <2>3 DEF Tracked
  <2>5. Top.into = o
    BY <1>1, <1>4, <2>1, <2>2, <2>3, TopCall, <1>3 DEF CallOK
  <2>6. o \in DOMAIN heap /\ o \in Unfinished /\ o # 0 /\ o < Top.to
        /\ c.from \in DOMAIN heap /\ c.done \in Nat
    <3>1. o < Top.to
      BY <1>1, <1>4, <2>2, <2>3, Known DEF CallsOK
    <3>2. o \in DOMAIN heap /\ o \in Unfinished /\ c.from \in DOMAIN heap /\ c.done \in Nat
      BY <1>1, <2>2, <2>3, Frames
    <3> QED
      BY <1>1, <3>1, <3>2, Known
  <2>7. g = [heap EXCEPT ![o] = Put(heap[o], i, e, TRUE)]
    <3>1. (n > 1) = TRUE
      BY <2>2
    <3> QED
      BY <1>5, <2>3, <2>5, <2>6, <3>1
  <2>8. g[o] = Put(heap[o], i, e, TRUE)
        /\ \A p \in DOMAIN heap \ {o} : p \in DOMAIN g /\ g[p] = heap[p]
    BY <2>6, <2>7
  <2>9. Elsewhere(g, o)
    <3>1. Safe(g, given')
      BY <1>2 DEF IInv
    <3> QED
      BY <1>1, <2>6, <2>8, <3>1, Undisturbed
  <2>10. Older(next, m)
    BY <1>3, <1>6, <2>1, <2>2 DEF Older
  <2>11. /\ i = c.done /\ i \in Cloned(heap[c.from])
         /\ heap[c.from].comps[i].kind = "ref"
         /\ Top.from = heap[c.from].comps[i].ref
    BY <2>3, <2>4 DEF Awaits
  <2>12. heap[c.from].comps[i] = Ref(Top.from)
    <3>1. heap[c.from].comps[i] \in Component(heap)
      BY <1>1, <2>6, <2>11, Known, ClonedPositions
    <3> QED
      BY <2>11, <3>1, Records DEF Component
  <2>13. Fills(g, m, i, e)
    <3>1. Top.from < copying[1].to /\ copying[1].to <= o /\ copying[1].to \in Nat /\ o \in Nat
          /\ Top.from \in Nat /\ Top.to \in Nat
      <4>1. Top.from < copying[1].to
        BY <1>1, <1>4 DEF Tracked
      <4>2. copying[1].to <= o /\ o \in Nat
        BY <1>1, <2>2, <2>3, Frames
      <4>3. 1 \in DOMAIN copying
        BY <1>3
      <4>4. copying[1].to \in Nat
        BY <1>1, <4>3, Frames
      <4>5. Top.from \in Nat /\ Top.to \in Nat
        BY <1>1, <1>4, Frames
      <4> QED
        BY <4>1, <4>2, <4>4, <4>5
    <3>2. Top.from # o /\ Top.to # o
      BY <2>6, <3>1
    <3>3. Alike(g, heap[c.from].comps[i], e)
      BY <1>5, <2>3, <2>9, <2>12, <3>2, ReturnsAlike
    <3>4. i \in Positions(heap[o].type)
      <4>1. Serves(heap, Top)
        BY <1>1, <2>5, <2>6, TopCall, <1>4, <1>3 DEF CallOK
      <4> QED
        BY <2>3, <2>5, <4>1 DEF Serves
    <3>5. e # Absent
      BY <2>3, Records
    <3> QED
      BY <2>2, <2>3, <2>8, <2>11, <3>3, <3>4, <3>5 DEF Fills
  <2>14. Taken(heap, c, FALSE) = Taken(heap, c, TRUE) \cup {i}
    <3>1. i <= c.done
      BY <2>6, <2>11
    <3> QED
      BY <2>11, <3>1 DEF Taken
  <2>15. Follows(g, c, FALSE)
    BY <2>3, <2>4, <2>9, <2>13, <2>14, FollowsMore
  <2>16. /\ \A k \in 1..m : next[k].from < next[1].to
         /\ \A k \in 1..m - 1 : Follows(g, next[k], TRUE) /\ Awaits(g, next[k], next[k + 1])
    <3>1. o = copying[m].to
      BY <2>3
    <3> QED
      BY <2>9, <2>10, <3>1, OlderFollow
  <2>17. Len(next) = m /\ DOMAIN next = 1..m /\ next[m] = c
    BY <1>6, <2>1, <2>2, <2>3
  <2>18. Tracked(g, next)
    <3>1. \A k \in 1..m : k < m => k \in 1..m - 1
      BY <2>1
    <3> QED
      BY <2>15, <2>16, <2>17, <3>1 DEF Tracked
  <2>19. Works(g, next)
    BY <2>1, <2>6, <2>9, <2>10, WorksIfElsewhere
  <2> QED
    BY <1>2, <2>18, <2>19
<1> QED
  BY <1>7, <1>8

LEMMA StartTracks ==
  ASSUME IInv, IInv', NEW p \in DOMAIN heap, NEW into, NEW at, CallClone(p, <<>>, into, at)
  PROVE  Tracked(heap', copying')
<1>1. PICK g, next, t, c :
         /\ g = heap' /\ next = copying' /\ t = Len(heap) + 1
         /\ c = [from |-> p, to |-> t, done |-> 0, into |-> into, at |-> at]
  OBVIOUS
<1>2. g = Append(heap, Fresh(heap[p].type)) /\ next = Append(<<>>, c)
  BY <1>1 DEF CallClone
<1>3. next = <<c>>
  BY <1>2
<1>4. c.from = p /\ c.to = t /\ c.done = 0
  BY <1>1
<1>5. heap[p].type \in Types
  BY Known DEF IsObject
<1>6. Extended(heap, g, heap[p].type)
  BY <1>2, <1>5 DEF Extended
<1>7. /\ Len(g) = Len(heap) + 1
      /\ \A q \in DOMAIN heap : g[q] = heap[q]
      /\ g[Len(g)] = Fresh(heap[p].type)
  BY <1>6, Known, NewGrows
<1>8. IsHeap(g)
  BY <1>6, Known, NewGrows
<1>9. p \in DOMAIN g /\ p < t
  <2>1. DOMAIN g = 1..Len(heap) + 1
    BY <1>7, <1>8, HeapDomain
  <2> QED
    BY <1>1, <2>1, Known
<1>10. Follows(g, c, FALSE)
  <2>1. IsObject(g, g[c.from]) /\ c.from \in DOMAIN g
    BY <1>4, <1>8, <1>9 DEF IsHeap
  <2>2. g[c.to] = Fresh(g[c.from].type)
    BY <1>1, <1>4, <1>7
  <2> QED
    BY <1>4, <2>1, <2>2, BeginsTracked
<1>11. Len(next) = 1 /\ DOMAIN next = {1} /\ next[1] = c
  BY <1>3
<1>12. Tracked(g, next)
  <2>1. \A k \in DOMAIN next : next[k].from < next[1].to
    BY <1>4, <1>9, <1>11
  <2>2. \A k \in DOMAIN next : ~ (k < Len(next))
    BY <1>11
  <2>3. Follows(g, next[Len(next)], FALSE)
    BY <1>10, <1>11
  <2> QED
    BY <2>1, <2>2, <2>3 DEF Tracked
<1> QED
  BY <1>1, <1>12

LEMMA TrackedWhenIdle ==
  ASSUME NEW h, NEW stack, stack = <<>>
  PROVE  Tracked(h, stack)
BY DEF Tracked

LEMMA TrackedFirst ==
  Init => TInv
<1> SUFFICES ASSUME Init
             PROVE  TInv
  OBVIOUS
<1>1. IInv
  BY Starting
<1>2. copying = <<>>
  BY DEF Init
<1> QED
  BY <1>1, <1>2, TrackedWhenIdle DEF TInv

LEMMA TrackedNext ==
  TInv /\ [Next]_vars => TInv'
<1> SUFFICES ASSUME TInv, [Next]_vars
             PROVE  TInv'
  OBVIOUS
<1>1. IInv
  BY DEF TInv
<1>2. IInv'
  BY <1>1, Stepping
<1>3. SUFFICES Tracked(heap', copying')
  <2>1. TInv' <=> IInv' /\ Tracked(heap', copying')
    BY DEF TInv, Tracked, Follows, Copies, Awaits, Taken, Alike
  <2> QED
    BY <1>2, <1>3, <2>1
<1>4. CASE CloneStep
  <2>1. CASE \E i \in Left : TakeScalar(i)
    BY <1>2, <1>4, <2>1, TakeScalarTracks DEF CloneStep
  <2>2. CASE \E i \in Left : CloneComponent(i)
    BY <1>2, <1>4, <2>2, CloneComponentTracks DEF CloneStep
  <2>3. CASE CloneReturns
    BY <1>2, <1>4, <2>3, CloneReturnsTracks DEF CloneStep
  <2>4. CASE CloneRaises
    BY <2>4, TrackedWhenIdle DEF CloneRaises
  <2> QED
    BY <1>4, <2>1, <2>2, <2>3, <2>4 DEF CloneStep
<1>5. ASSUME Idle, copying' = copying
      PROVE  Tracked(heap', copying')
  BY <1>5, TrackedWhenIdle DEF Idle
<1>6. CASE \E t \in Types : New(t)
  BY <1>5, <1>6 DEF New
<1>7. ASSUME NEW o \in Made,
             \/ CloneValue(o) \/ Clear(o) \/ Reset(o) \/ SortUp(o)
             \/ \E i \in Positions(heap[o].type) :
                   Get(o, i) \/ Instantiate(o, i) \/ \E e \in Entries : Set(o, i, e)
             \/ \E e \in Entries : Add(o, e)
      PROVE  Tracked(heap', copying')
  <2>1. CASE CloneValue(o)
    <3>1. o \in DOMAIN heap
      BY <1>1, Known
    <3> QED
      BY <1>1, <1>2, <2>1, <3>1, StartTracks DEF CloneValue
  <2>2. CASE Clear(o) \/ Reset(o) \/ SortUp(o)
    BY <1>5, <2>2 DEF Clear, Reset, SortUp
  <2>3. CASE \E i \in Positions(heap[o].type) : Get(o, i) \/ Instantiate(o, i)
    <3>1. PICK i \in Positions(heap[o].type) : Instantiate(o, i)
      BY <2>3 DEF Get
    <3>2. CASE UNCHANGED copying
      BY <1>5, <3>1, <3>2 DEF Instantiate
    <3>3. CASE ~ UNCHANGED copying
      <4>1. PICK f : f = Field(heap[o].type, i)
        OBVIOUS
      <4>2. f.schema.kind = "ref" /\ CallClone(f.schema.ref, <<>>, o, i)
        BY <3>1, <3>3, <4>1 DEF Instantiate
      <4>3. heap[o].type \in Types
        BY <1>1, Known DEF IsObject
      <4>4. f.schema.ref \in DOMAIN Prototypes
        BY <4>1, <4>2, <4>3, FieldRank
      <4>5. f.schema.ref \in DOMAIN heap
        BY <1>1, <4>4, Known, Loads DEF Loaded
      <4> QED
        BY <1>1, <1>2, <4>2, <4>5, StartTracks
    <3> QED
      BY <3>2, <3>3
  <2>4. CASE \E i \in Positions(heap[o].type) : \E e \in Entries : Set(o, i, e)
    BY <1>5, <2>4 DEF Set
  <2>5. CASE \E e \in Entries : Add(o, e)
    BY <1>5, <2>5 DEF Add, Set
  <2> QED
    BY <1>7, <2>1, <2>2, <2>3, <2>4, <2>5
<1>8. CASE UNCHANGED vars
  <2>1. heap' = heap /\ copying' = copying
    BY <1>8 DEF vars
  <2> QED
    BY <2>1 DEF TInv
<1> QED
  BY <1>4, <1>6, <1>7, <1>8 DEF Next

\* A clone made with cloneValueFlag is a value if and only if the original is one, and
\* an encoder makes the same of both, unless an object in it holds nothing and is one
\* that clone() does not take for what it is (_cloneComponentValues).
THEOREM ClonesAreFaithful ==
  Spec => []ClonesMeanTheSame
BY TrackedFirst, TrackedNext, FaithfulBy, PTL DEF Spec

-----------------------------------------------------------------------------
(* Reading.                                                                *)

\* Component e of field f stands for nothing, and does not raise.
Void(f, e, w, n) ==
    /\ \/ e.kind = "scalar" /\ e.num = 0
       \/ e.kind = "ref" /\ ~ w[e.ref]
       \/ f.omission = "default" /\ MeaningOf(e, n) = MeaningOf(f.schema, n)
    /\ MeaningOf(e, n) # Broken

\* y is x after its position i is read, where m says what objects mean.
IsRead(h, x, i, e, y, m) ==
    /\ IsObject(h, x) /\ i \in Positions(x.type) /\ e # Absent
    /\ ReadsNothing(x, i, m) /\ x.chosen # i
    /\ y = Put(x, i, e, FALSE)

\* What x depends on is the same.
Steady(x, v, m, w, n) ==
    /\ \A r : NeedsPart(x, r) => (v[r] <=> w[r])
    /\ \A r : Needs(x, r) => m[r] = n[r]

SameMeant(x, v, m, y, w, n) ==
    (IsValue(x, v) <=> IsValue(y, w)) /\ Meaning(x, v, m) = Meaning(y, w, n)

LEMMA NoneMeant ==
  ASSUME NEW x, NEW v, NEW m, NEW y, NEW w, NEW n, ~ IsValue(x, v), ~ IsValue(y, w),
         Raises(x, v, m) <=> Raises(y, w, n)
  PROVE  SameMeant(x, v, m, y, w, n)
BY MeaningOfNone DEF SameMeant

\* Unless another alternative is chosen, what is read is filled in.
LEMMA ReadFills ==
  ASSUME NEW h, NEW x, NEW i, NEW e, NEW y, NEW m, IsRead(h, x, i, e, y, m),
         x.chosen = 0
  PROVE  Filled(x, i, e, y)
<1>1. PICK z : z = Put(x, i, e, TRUE)
  OBVIOUS
<1>2. ChosenAfter(x, i, TRUE) = ChosenAfter(x, i, FALSE)
  BY DEF IsRead, ChosenAfter
<1>3. y = z
  BY <1>1, <1>2 DEF Put, IsRead
<1>4. PutsIn(h, x, i, e, y)
  BY <1>1, <1>3 DEF PutsIn, IsRead
<1> QED
  BY <1>4, PutHolds

LEMMA VoidUnset ==
  ASSUME NEW x, NEW i, NEW e, NEW y, Filled(x, i, e, y), NEW w, NEW n,
         Void(Field(x.type, i), e, w, n), Field(x.type, i).omission # "default"
  PROVE  ~ IsSet(y, w, i)
<1>1. y.comps[i] = e
  BY DEF Filled
<1> QED
  BY <1>1 DEF Void, IsSet

LEMMA VoidAccepts ==
  ASSUME NEW x, NEW i, NEW e, NEW y, y.comps[i] = e, NEW w, NEW n,
         Void(Field(x.type, i), e, w, n)
  PROVE  ~ Refuses(y, w, n, i)
BY DEF Void, Refuses, MeaningOf

LEMMA ReadRecord ==
  ASSUME NEW h, NEW x, NEW i, NEW e, NEW y, NEW m, IsRead(h, x, i, e, y, m),
         Schemas[x.type].kind = "record",
         NEW v, NEW w, NEW n, Steady(x, v, m, w, n), Void(Field(x.type, i), e, w, n)
  PROVE  SameMeant(x, v, m, y, w, n)
<1>1. /\ IsObject(h, x) /\ x.chosen = 0 /\ ~ x.isSchema /\ ~ Holds(x, i)
      /\ i \in Positions(x.type) /\ x.type \in Types
  BY DEF IsRead, IsObject, ReadsNothing
<1>2. Filled(x, i, e, y)
  BY <1>1, ReadFills
<1>3. y.type = x.type /\ ~ y.isSchema /\ y.comps[i] = e
      /\ (\A j : Holds(y, j) <=> (j = i \/ Holds(x, j)))
      /\ (\A j : Holds(x, j) /\ j # i => y.comps[j] = x.comps[j])
  BY <1>2, Zenon DEF Filled
<1>4. ASSUME NEW j, j # i
      PROVE  SameAt(x, v, m, y, w, n, j)
  <2>1. Holds(x, j) <=> Holds(y, j)
    BY <1>3, <1>4
  <2>2. ASSUME Holds(x, j)
        PROVE  Same(x.comps[j], v, m, y.comps[j], w, n)
    <3>1. y.comps[j] = x.comps[j]
      BY <1>3, <1>4, <2>2
    <3>2. x.comps[j].kind = "ref" => NeedsPart(x, x.comps[j].ref)
      BY <2>2 DEF NeedsPart, Holds
    <3> QED
      BY <3>1, <3>2 DEF Steady, Same, Needs
  <2> QED
    BY <2>1, <2>2 DEF SameAt
<1>5. ~ Holds(x, i) /\ ~ Refuses(x, v, m, i) /\ ~ Refuses(y, w, n, i)
  BY <1>1, <1>3, VoidAccepts DEF Refuses
<1>6. Field(x.type, i).omission = "required" => ~ IsSet(x, v, i) /\ ~ IsSet(y, w, i)
  BY <1>2, <1>5, VoidUnset DEF IsSet
<1>7. ASSUME NEW j \in Positions(x.type), Field(x.type, j).omission = "required"
      PROVE  IsSet(x, v, j) <=> IsSet(y, w, j)
  <2>1. CASE j = i
    BY <1>6, <1>7, <2>1
  <2>2. CASE j # i
    BY <1>4, <2>2 DEF SameAt, Same, IsSet
  <2> QED
    BY <2>1, <2>2
<1>8. IsValue(x, v) <=> IsValue(y, w)
  <2>1. IsValue(x, v) <=> \A j \in Positions(x.type) :
                             Field(x.type, j).omission = "required" => IsSet(x, v, j)
    BY <1>1, ValueMeans
  <2>2. IsValue(y, w) <=> \A j \in Positions(x.type) :
                             Field(x.type, j).omission = "required" => IsSet(y, w, j)
    BY <1>3, ValueMeans
  <2> QED
    BY <1>7, <2>1, <2>2
<1>9. Raises(x, v, m) <=> Raises(y, w, n)
  <2>1. ASSUME NEW j
        PROVE  Refuses(x, v, m, j) <=> Refuses(y, w, n, j)
    <3>1. CASE j = i
      BY <1>5, <3>1
    <3>2. CASE j # i
      BY <1>4, <3>2 DEF SameAt, Same, Refuses
    <3> QED
      BY <3>1, <3>2
  <2> QED
    BY <1>3, <1>7, <2>1, RecordRaises
<1>10. CASE ~ IsValue(x, v)
  BY <1>8, <1>9, <1>10, NoneMeant
<1>11. CASE IsValue(x, v)
  <2>1. Field(x.type, i).omission # "required"
    BY <1>1, <1>6, <1>11, ValueMeans
  <2>2. ASSUME NEW j, j # i, Holds(x, j)
        PROVE  MeaningOf(x.comps[j], m) = MeaningOf(y.comps[j], n)
    <3>1. SameAt(x, v, m, y, w, n, j)
      BY <1>4, <2>2
    <3> QED
      BY <2>2, <3>1, MeantAlike
  <2>3. Breaks(x, m) <=> Breaks(y, n)
    <3>1. Breaks(x, m) <=> \E j : Holds(x, j) /\ MeaningOf(x.comps[j], m) = Broken
      BY DEF Breaks, Holds
    <3>2. Breaks(y, n) <=> \E j : Holds(y, j) /\ MeaningOf(y.comps[j], n) = Broken
      BY <1>3 DEF Breaks, Holds
    <3>3. MeaningOf(y.comps[i], n) # Broken
      BY <1>3 DEF Void
    <3> QED
      BY <1>3, <1>5, <2>2, <3>1, <3>2, <3>3
  <2>4. PartMeaning(x, v, m, i) = PartMeaning(y, w, n, i)
    <3>1. Omitted(x, v, m, i)
      BY <1>5 DEF Omitted
    <3>2. Omitted(y, w, n, i)
      BY <1>3, <2>1 DEF Omitted, Void, EncodedOf
    <3> QED
      BY <3>1, <3>2 DEF PartMeaning
  <2>5. ASSUME NEW j \in Positions(x.type)
        PROVE  PartMeaning(x, v, m, j) = PartMeaning(y, w, n, j)
    <3>1. CASE j = i
      BY <2>4, <3>1
    <3>2. CASE j # i
      <4>1. SameAt(x, v, m, y, w, n, j)
        BY <1>4, <3>2
      <4>2. \A r : NeedsSchema(x, r) => m[r] = n[r]
        BY DEF Steady, Needs
      <4> QED
        BY <1>3, <4>1, <4>2, PartAlike
    <3> QED
      BY <3>1, <3>2
  <2>6. Encoding(x, v, m)
          = Meant(x.type, 0, [j \in Positions(x.type) |-> PartMeaning(x, v, m, j)])
    BY EncodingOfRecord
  <2>7. Encoding(y, w, n)
          = Meant(y.type, 0, [j \in Positions(y.type) |-> PartMeaning(y, w, n, j)])
    BY <1>3, EncodingOfRecord
  <2>8. [j \in Positions(x.type) |-> PartMeaning(x, v, m, j)]
          = [j \in Positions(y.type) |-> PartMeaning(y, w, n, j)]
    BY <1>3, <2>5
  <2>9. Encoding(x, v, m) = Encoding(y, w, n)
    BY <1>3, <2>6, <2>7, <2>8
  <2> QED
    BY <1>8, <1>11, <2>3, <2>9, MeaningOfValue DEF SameMeant
<1> QED
  BY <1>10, <1>11

\* The largest of some numbers.
LEMMA LargestOf ==
  ASSUME NEW m \in Nat, NEW D, D \subseteq 1..m, D # {}
  PROVE  \E n \in D : \A i \in D : i <= n
<1> DEFINE T == {m - i : i \in D}
<1>1. T \subseteq Nat /\ T # {}
  <2>1. \A i \in D : m - i \in Nat
    OBVIOUS
  <2> QED
    BY <2>1
<1>2. PICK k \in T : \A j \in T : k <= j
  <2> HIDE DEF T
  <2> QED
    BY <1>1, LeastElement
<1>3. PICK n \in D : k = m - n
  OBVIOUS
<1>4. \A i \in D : m - n <= m - i
  BY <1>2, <1>3
<1> QED
  BY <1>3, <1>4

\* A SEQUENCE OF with a gap is not a value.
LEMMA Gap ==
  ASSUME NEW h, NEW x, IsObject(h, x), Schemas[x.type].kind = "of",
         NEW i \in Positions(x.type), i <= Length(x), ~ Holds(x, i)
  PROVE  Cardinality(DOMAIN x.comps) # Length(x)
<1>1. PICK D, m : D = DOMAIN x.comps /\ m = MaxLength
  OBVIOUS
<1>2. m \in Nat /\ i \in 1..m /\ D \subseteq 1..m
  BY <1>1, BoundsAssumption DEF Positions, IsObject
<1>3. i \notin D
  BY <1>1 DEF Holds, IsObject
<1>4. D # {}
  BY <1>1, <1>2 DEF Length
<1>5. PICK n \in D : \A j \in D : j <= n
  BY <1>2, <1>4, LargestOf
<1>6. Length(x) = n
  <2>1. Length(x) = CHOOSE k \in D : \A j \in D : j <= k
    BY <1>1, <1>4 DEF Length
  <2>2. PICK l : l = CHOOSE k \in D : \A j \in D : j <= k
    OBVIOUS
  <2>3. l \in D /\ \A j \in D : j <= l
    BY <1>5, <2>2
  <2>4. l = n
    BY <1>2, <1>5, <2>3
  <2> QED
    BY <2>1, <2>2, <2>4
<1>7. n \in Nat /\ i \in 1..n /\ D \subseteq (1..n) \ {i}
  BY <1>2, <1>3, <1>5, <1>6
<1>8. /\ IsFiniteSet((1..n) \ {i})
      /\ Cardinality((1..n) \ {i}) = n - 1
  <2>1. IsFiniteSet(1..n) /\ Cardinality(1..n) = n
    BY <1>7, FS_Interval
  <2> QED
    BY <1>7, <2>1, FS_RemoveElement
<1>9. Cardinality(D) <= n - 1 /\ Cardinality(D) \in Nat
  <2>1. PICK E : E = (1..n) \ {i}
    OBVIOUS
  <2>2. IsFiniteSet(E) /\ D \in SUBSET E
    BY <1>7, <1>8, <2>1
  <2>3. IsFiniteSet(D) /\ Cardinality(D) <= Cardinality(E)
    BY <2>2, FS_Subset
  <2> QED
    BY <1>8, <2>1, <2>3, FS_CardinalityType
<1> QED
  BY <1>1, <1>6, <1>7, <1>9

LEMMA ReadList ==
  ASSUME NEW h, NEW x, NEW i, NEW e, NEW y, NEW m, IsRead(h, x, i, e, y, m),
         Schemas[x.type].kind = "of",
         NEW v, NEW w, NEW n, Steady(x, v, m, w, n), Void(Field(x.type, i), e, w, n)
  PROVE  SameMeant(x, v, m, y, w, n)
<1>1. /\ IsObject(h, x) /\ x.chosen = 0 /\ ~ Holds(x, i) /\ i <= Length(x)
      /\ i \in Positions(x.type) /\ x.type \in Types
      /\ \A j \in DOMAIN x.comps : MeaningOf(x.comps[j], m) # Broken
  BY DEF IsRead, IsObject, ReadsNothing
<1>2. Filled(x, i, e, y)
  BY <1>1, ReadFills
<1>3. ~ IsValue(x, v)
  BY <1>1, Gap, ValueMeans
<1>4. Field(x.type, i).omission = "required"
  BY <1>1, SchemasAssumption DEF Field
<1>5. ~ IsSet(y, w, i)
  BY <1>2, <1>4, VoidUnset
<1>6. y.type = x.type /\ Holds(y, i)
  BY <1>2 DEF Filled
<1>7. i \in DOMAIN y.comps
  BY <1>6 DEF Holds
<1>8. ~ IsValue(y, w)
  BY <1>5, <1>6, <1>7, ValueMeans
<1>9. ~ Raises(x, v, m)
  BY <1>1, Gap, RaisesMeans
<1>10. ASSUME NEW j \in DOMAIN y.comps
       PROVE  ~ Refuses(y, w, n, j)
  <2>1. CASE j = i
    <3>1. y.comps[i] = e
      BY <1>2 DEF Filled
    <3> QED
      BY <2>1, <3>1, VoidAccepts
  <2>2. SUFFICES ASSUME j # i, Refuses(y, w, n, j)
                 PROVE  FALSE
    BY <2>1
  <2>3. Holds(x, j) /\ y.comps[j] = x.comps[j]
    BY <1>2, <2>2, Zenon DEF Filled, Refuses
  <2>4. x.comps[j].kind = "ref" /\ NeedsPart(x, x.comps[j].ref) /\ n[x.comps[j].ref] = Broken
    BY <2>2, <2>3 DEF Refuses, NeedsPart, Holds
  <2>5. m[x.comps[j].ref] = Broken
    BY <2>4 DEF Steady, Needs
  <2>6. j \in DOMAIN x.comps /\ MeaningOf(x.comps[j], m) = Broken
    BY <2>3, <2>4, <2>5 DEF MeaningOf, Holds
  <2> QED
    BY <1>1, <2>6
<1>11. ~ Raises(y, w, n)
  BY <1>6, <1>10, RaisesMeans
<1> QED
  BY <1>3, <1>8, <1>9, <1>11, NoneMeant

LEMMA ReadChoice ==
  ASSUME NEW h, NEW x, NEW i, NEW e, NEW y, NEW m, IsRead(h, x, i, e, y, m),
         Schemas[x.type].kind = "choice",
         NEW v, NEW w, NEW n, Steady(x, v, m, w, n), Void(Field(x.type, i), e, w, n)
  PROVE  SameMeant(x, v, m, y, w, n)
<1>1. /\ IsObject(h, x) /\ ~ Holds(x, i) /\ x.chosen # i
      /\ i \in Positions(x.type) /\ x.type \in Types
      /\ x = [type |-> x.type, isSchema |-> x.isSchema, comps |-> x.comps, chosen |-> x.chosen]
      /\ y = Put(x, i, e, FALSE)
      /\ x.chosen # 0 => ~ x.isSchema
  BY DEF IsRead, IsObject, ReadsNothing
<1>2. CASE x.chosen = 0
  <2>1. Filled(x, i, e, y)
    BY <1>2, ReadFills
  <2>2. ~ IsValue(x, v)
    BY <1>2, ValueMeans
  <2>3. Field(x.type, i).omission = "required"
    BY <1>1, SchemasAssumption DEF Field, Positions
  <2>4. ~ IsSet(y, w, i)
    BY <2>1, <2>3, VoidUnset
  <2>5. y.type = x.type /\ y.chosen = i
    BY <2>1 DEF Filled
  <2>6. ~ IsValue(y, w)
    BY <2>4, <2>5, ValueMeans
  <2>7. ~ y.isSchema /\ y.comps[i] = e
    BY <2>1, Zenon DEF Filled
  <2>8. ~ Refuses(y, w, n, i)
    BY <2>7, VoidAccepts
  <2>9. ~ Raises(x, v, m) /\ ~ Raises(y, w, n)
    BY <1>2, <2>5, <2>7, <2>8, RaisesMeans
  <2> QED
    BY <2>2, <2>6, <2>9, NoneMeant
<1>3. CASE x.chosen # 0
  <2>1. PICK put, j : put = With(x, i, e) /\ j = x.chosen
    OBVIOUS
  <2>2. ChosenAfter(x, i, FALSE) = j
    BY <1>3, <2>1 DEF ChosenAfter
  <2>3. y = [x EXCEPT !.isSchema = FALSE, !.chosen = j, !.comps = put]
    BY <1>1, <2>1, <2>2 DEF Put
  <2>4. y = [type |-> x.type, isSchema |-> FALSE, comps |-> put, chosen |-> j]
    BY <1>1, <2>3
  <2>5. y.type = x.type /\ ~ y.isSchema /\ y.chosen = j /\ y.comps = put
    BY <2>4
  <2>6. DOMAIN x.comps \subseteq Positions(x.type) /\ j \in Positions(x.type) /\ j # i
    BY <1>1, <1>3, <2>1 DEF IsObject
  <2>7. /\ j \in DOMAIN put
        /\ put[j] = IF j \in DOMAIN x.comps THEN x.comps[j] ELSE Absent
    BY <2>1, <2>6 DEF With
  <2>8. Holds(x, j) <=> Holds(y, j)
    BY <2>5, <2>7 DEF Holds
  <2>9. Holds(x, j) => y.comps[j] = x.comps[j]
    BY <2>5, <2>7 DEF Holds
  <2>10. ~ x.isSchema
    BY <1>1, <1>3
  <2>11. SameAt(x, v, m, y, w, n, j)
    <3>1. ASSUME Holds(x, j)
          PROVE  Same(x.comps[j], v, m, y.comps[j], w, n)
      <4>1. y.comps[j] = x.comps[j]
        BY <2>9, <3>1
      <4>2. x.comps[j].kind = "ref" => NeedsPart(x, x.comps[j].ref)
        BY <3>1 DEF NeedsPart, Holds
      <4> QED
        BY <4>1, <4>2 DEF Steady, Same, Needs
    <3> QED
      BY <2>8, <3>1 DEF SameAt
  <2>12. \A r : NeedsSchema(x, r) => m[r] = n[r]
    BY DEF Steady, Needs
  <2>13. Matches(x, v, m, y, w, n)
    BY <2>1, <2>5, <2>10, <2>11, <2>12 DEF Matches
  <2> QED
    BY <2>13, ValuesAlike, MeaningsAlike DEF SameMeant
<1> QED
  BY <1>2, <1>3

\* What is read stands for nothing, and changes nothing.
LEMMA ReadAlike ==
  ASSUME NEW h, NEW x, NEW i, NEW e, NEW y, NEW m, IsRead(h, x, i, e, y, m),
         NEW v, NEW w, NEW n, Steady(x, v, m, w, n), Void(Field(x.type, i), e, w, n)
  PROVE  SameMeant(x, v, m, y, w, n)
<1>1. Schemas[x.type].kind \in {"of", "record", "choice"}
  BY SchemasAssumption DEF IsRead, IsObject
<1> QED
  BY <1>1, ReadList, ReadRecord, ReadChoice

\* From h to g, objects are added, and o may change.
ChangesOne(h, g, o) ==
    /\ Loaded(h) /\ Loaded(g) /\ o \in DOMAIN h /\ o \in DOMAIN g
    /\ \A p \in DOMAIN h \ {o} : p \in DOMAIN g /\ g[p] = h[p]

LEMMA BelowSame ==
  ASSUME NEW h, NEW g, NEW o, ChangesOne(h, g, o),
         NEW p \in DOMAIN h, Level(h, p) < Level(h, o)
  PROVE  SameIn(h, g, p)
<1>1. PICK S : S = {r \in DOMAIN h : Level(h, r) < Level(h, o)}
  OBVIOUS
<1>2. Loaded(h) /\ Loaded(g) /\ Level(h, o) \in Nat
  BY LevelType DEF ChangesOne
<1>3. ASSUME NEW r \in S
      PROVE  /\ r \in DOMAIN h /\ r \in DOMAIN g /\ g[r] = h[r]
             /\ \A q : Needs(h[r], q) => q \in S
  <2>1. r \in DOMAIN h /\ Level(h, r) < Level(h, o)
    BY <1>1
  <2>2. r # o
    BY <1>2, <2>1
  <2>3. ASSUME NEW q, Needs(h[r], q)
        PROVE  q \in S
    <3>1. q \in DOMAIN h /\ Level(h, q) < Level(h, r)
      BY <1>2, <2>1, <2>3, NeedsLess
    <3>2. Level(h, q) \in Nat /\ Level(h, r) \in Nat
      BY <1>2, <2>1, <3>1, LevelType
    <3>3. Level(h, q) < Level(h, o)
      BY <1>2, <2>1, <3>1, <3>2
    <3> QED
      BY <1>1, <3>1, <3>3
  <2> QED
    BY <2>1, <2>2, <2>3 DEF ChangesOne
<1>4. Shared(h, g, S)
  BY <1>2, <1>3 DEF Shared
<1>5. p \in S
  BY <1>1
<1> QED
  BY <1>4, <1>5, Locality

\* It is a value, and means, what it was.
Means(h, g, p) ==
    Values(g)[p] = Values(h)[p] /\ Meanings(g)[p] = Meanings(h)[p]

LEMMA MeansIfSame ==
  ASSUME NEW h, NEW g, Loaded(h), Loaded(g), NEW p \in DOMAIN h, p \in DOMAIN g,
         SameMeant(h[p], Values(h), Meanings(h), g[p], Values(g), Meanings(g))
  PROVE  Means(h, g, p)
<1>1. PICK v, m, w, n : v = Values(h) /\ m = Meanings(h) /\ w = Values(g) /\ n = Meanings(g)
  OBVIOUS
<1>2. v[p] = IsValue(h[p], v) /\ m[p] = Meaning(h[p], v, m)
  BY <1>1, Unfolded
<1>3. w[p] = IsValue(g[p], w) /\ n[p] = Meaning(g[p], w, n)
  BY <1>1, Unfolded
<1>4. SameMeant(h[p], v, m, g[p], w, n)
  BY <1>1
<1>5. IsValue(h[p], v) = IsValue(g[p], w) /\ Meaning(h[p], v, m) = Meaning(g[p], w, n)
  BY <1>4, Truths DEF SameMeant
<1> QED
  BY <1>1, <1>2, <1>3, <1>5 DEF Means

\* If the object that changes means what it did, so do those that have it.
LEMMA ChangeOfNoMeaning ==
  ASSUME NEW h, NEW g, NEW o, ChangesOne(h, g, o), Means(h, g, o)
  PROVE  \A p \in DOMAIN h : Means(h, g, p)
<1> DEFINE T == {n \in Nat : \E p \in DOMAIN h : Level(h, p) = n /\ ~ Means(h, g, p)}
<1>1. SUFFICES ASSUME NEW q \in DOMAIN h, ~ Means(h, g, q)
               PROVE  FALSE
  OBVIOUS
<1>2. Loaded(h) /\ Loaded(g) /\ \A p \in DOMAIN h : Level(h, p) \in Nat
  BY LevelType DEF ChangesOne
<1>3. T \subseteq Nat /\ Level(h, q) \in T
  BY <1>1, <1>2
<1>4. PICK n \in T : \A k \in T : n <= k
  <2> HIDE DEF T
  <2> QED
    BY <1>3, LeastElement
<1>5. PICK p \in DOMAIN h : Level(h, p) = n /\ ~ Means(h, g, p)
  OBVIOUS
<1>6. p # o /\ p \in DOMAIN g /\ g[p] = h[p]
  BY <1>5 DEF ChangesOne
<1>7. ASSUME NEW r, Needs(h[p], r)
      PROVE  Means(h, g, r)
  <2>1. r \in DOMAIN h /\ Level(h, r) < n /\ Level(h, r) \in Nat /\ n \in Nat
    BY <1>2, <1>5, <1>7, NeedsLess
  <2>2. Level(h, r) \notin T
    <3> HIDE DEF T
    <3> QED
      BY <1>4, <2>1
  <2> QED
    BY <2>1, <2>2
<1>8. PICK x, v, m, w, k :
         x = h[p] /\ v = Values(h) /\ m = Meanings(h) /\ w = Values(g) /\ k = Meanings(g)
  OBVIOUS
<1>9. IsObject(h, x)
  BY <1>2, <1>8, LevelType
<1>10. \A r : NeedsPart(x, r) => (v[r] <=> w[r])
  BY <1>7, <1>8 DEF Means, Needs
<1>11. \A r : Needs(x, r) => m[r] = k[r]
  BY <1>7, <1>8 DEF Means
<1>12. Matches(x, v, m, x, w, k)
  BY <1>9, <1>10, <1>11, MatchesItself
<1>13. SameMeant(x, v, m, x, w, k)
  BY <1>12, ValuesAlike, MeaningsAlike DEF SameMeant
<1>14. Means(h, g, p)
  BY <1>2, <1>6, <1>8, <1>13, MeansIfSame
<1> QED
  BY <1>5, <1>14

\* Reading an object changes what none means.
LEMMA ReadKeeps ==
  ASSUME NEW h, NEW g, NEW o, ChangesOne(h, g, o), NEW i, NEW e,
         IsRead(h, h[o], i, e, g[o], Meanings(h)), Void(Field(h[o].type, i), e, Values(g), Meanings(g))
  PROVE  \A p \in DOMAIN h : Means(h, g, p)
<1>1. Loaded(h) /\ Loaded(g) /\ o \in DOMAIN h /\ o \in DOMAIN g
  BY DEF ChangesOne
<1>2. PICK x, v, m, w, n :
         x = h[o] /\ v = Values(h) /\ m = Meanings(h) /\ w = Values(g) /\ n = Meanings(g)
  OBVIOUS
<1>3. \A r : Needs(x, r) => SameIn(h, g, r)
  BY <1>1, <1>2, NeedsLess, BelowSame
<1>4. Steady(x, v, m, w, n)
  BY <1>2, <1>3 DEF Steady, SameIn, Needs
<1>5. SameMeant(x, v, m, g[o], w, n)
  BY <1>2, <1>4, ReadAlike
<1>6. Means(h, g, o)
  BY <1>1, <1>2, <1>5, MeansIfSame
<1> QED
  BY <1>6, ChangeOfNoMeaning

\* A component of field f, made when it is read, is no value.
LEMMA FreshIsVoid ==
  ASSUME NEW h, Loaded(h), NEW q \in DOMAIN h, NEW t \in Types, h[q] = Fresh(t),
         NEW f, f.schema.kind = "ref", Prototypes[f.schema.ref].type = t,
         f.omission # "default", ~ ValueAtOnce(f)
  PROVE  ~ Values(h)[q] /\ Meanings(h)[q] # Broken
<1>1. PICK x, v, m : x = h[q] /\ v = Values(h) /\ m = Meanings(h)
  OBVIOUS
<1>2. v[q] = IsValue(x, v) /\ m[q] = Meaning(x, v, m)
  BY <1>1, Unfolded
<1>3. Copies(h, x, x, {})
  <2>1. IsObject(h, x) /\ x.type = t
    BY <1>1, FreshObject
  <2>2. x = Fresh(x.type)
    BY <1>1, <2>1
  <2> QED
    BY <2>2, FreshCopies
<1>4. /\ \A i : ~ Holds(x, i)
      /\ x.isSchema <=> Schemas[x.type].kind = "of"
      /\ x.chosen = 0
  BY <1>3 DEF Copies
<1>5. x.type = t /\ Schemas[t].kind \in {"of", "record", "choice"}
  BY <1>1, FreshObject, SchemasAssumption
<1>6. Schemas[t].kind = "of" \/ Schemas[t].kind = "choice" => ~ IsValue(x, v)
  BY <1>4, <1>5, ValueMeans
<1>7. ASSUME Schemas[t].kind = "record"
      PROVE  ~ IsValue(x, v)
  <2>1. PICK i \in Positions(t) : Field(t, i).omission = "required"
    BY <1>7 DEF ValueAtOnce
  <2>2. ~ IsSet(x, v, i)
    BY <1>4 DEF IsSet
  <2> QED
    BY <1>5, <1>7, <2>1, <2>2, ValueMeans
<1>8. ~ IsValue(x, v)
  BY <1>5, <1>6, <1>7
<1>9. ~ Raises(x, v, m)
  <2>1. \A i : ~ Refuses(x, v, m, i)
    BY <1>4 DEF Refuses
  <2> QED
    BY <1>4, <1>5, <2>1, RaisesMeans
<1>10. Meaning(x, v, m) = NoMeaning
  BY <1>8, <1>9, MeaningOfNone
<1>11. NoMeaning # Broken
  BY DEF NoMeaning, Broken, Meant
<1> QED
  BY <1>1, <1>2, <1>8, <1>10, <1>11

LEMMA GetKeeps ==
  ASSUME IInv, IInv', NEW o \in Made, NEW i \in Positions(heap[o].type),
         ReadsNothing(heap[o], i, Meanings(heap)), Get(o, i)
  PROVE  \A p \in DOMAIN heap : Meanings(heap')[p] = Meanings(heap)[p]
<1>1. PICK g, f, x : g = heap' /\ f = Field(heap[o].type, i) /\ x = heap[o]
  OBVIOUS
<1>2. /\ o \in DOMAIN heap /\ IsObject(heap, x) /\ x.type \in Types
      /\ Loaded(heap) /\ Loaded(g) /\ IsHeap(g)
  <2>1. o \in DOMAIN heap
    BY Known
  <2>2. IsObject(heap, x)
    BY <1>1, <2>1, Known
  <2>3. Loaded(heap)
    BY Known, Loads
  <2>4. Safe(g, given')
    BY <1>1 DEF IInv
  <2>5. Loaded(g) /\ IsHeap(g)
    BY <2>4, Loads DEF Safe
  <2> QED
    BY <2>1, <2>2, <2>3, <2>5 DEF IsObject
<1>3. f.schema \in Described /\ ReadsNothing(x, i, Meanings(heap)) /\ ~ ValueAtOnce(f)
  <2>1. f.schema \in Described
    BY <1>1, <1>2, Fields
  <2> QED
    BY <1>1, <2>1 DEF ReadsNothing
<1>4. Instantiate(o, i) /\ x.chosen # i
  BY <1>1 DEF Get
<1>5. CASE f.schema.kind = "scalar"
  <2>1. PICK e : e = f.schema
    OBVIOUS
  <2>2. heap' = [heap EXCEPT ![o] = Put(@, i, f.schema, FALSE)]
    BY <1>1, <1>4, <1>5 DEF Instantiate
  <2>3. g[o] = Put(x, i, e, FALSE) /\ o \in DOMAIN g
        /\ \A p \in DOMAIN heap \ {o} : p \in DOMAIN g /\ g[p] = heap[p]
    BY <1>1, <1>2, <2>1, <2>2
  <2>4. ChangesOne(heap, g, o)
    BY <1>2, <2>3 DEF ChangesOne
  <2>5. IsRead(heap, heap[o], i, e, g[o], Meanings(heap))
    BY <1>1, <1>2, <1>3, <1>4, <1>5, <2>1, <2>3, Records DEF IsRead
  <2>6. Void(Field(heap[o].type, i), e, Values(g), Meanings(g))
    <3>1. f.omission = "default" \/ f.schema.num = 0
      BY <1>3, <1>5 DEF ValueAtOnce
    <3> QED
      BY <1>1, <1>5, <2>1, <3>1 DEF Void, MeaningOf, Meant, Broken
  <2> QED
    BY <1>1, <2>4, <2>5, <2>6, ReadKeeps DEF Means
<1>6. CASE f.schema.kind = "ref" /\ f.omission # "default"
  <2>1. PICK r, t, q, s : /\ r = f.schema.ref /\ t = heap[r].type /\ q = Len(heap) + 1
                          /\ s = Append(heap, Fresh(t))
    OBVIOUS
  <2>2. r \in DOMAIN Prototypes
    BY <1>1, <1>2, <1>6, <2>1, FieldRank
  <2>3. r \in DOMAIN heap /\ t = Prototypes[r].type /\ t \in Types
    <3>1. r \in DOMAIN heap /\ t = Prototypes[r].type
      BY <1>2, <2>1, <2>2 DEF Loaded
    <3> QED
      BY <1>2, <2>1, <3>1, LevelType
  <2>4. PICK e : e = Ref(q)
    OBVIOUS
  <2>5. g = [s EXCEPT ![o] = Put(@, i, e, FALSE)]
    BY <1>1, <1>4, <1>6, <2>1, <2>4 DEF Instantiate
  <2>6. Extended(heap, s, t)
    BY <2>1, <2>3 DEF Extended
  <2>7. /\ Len(s) = Len(heap) + 1 /\ Len(s) \notin DOMAIN heap
        /\ \A p \in DOMAIN heap : s[p] = heap[p]
        /\ s[Len(s)] = Fresh(t)
    BY <2>6, Known, NewGrows
  <2>8. IsHeap(s)
    BY <2>6, Known, NewGrows
  <2>9. DOMAIN s = 1..Len(heap) + 1
    BY <2>7, <2>8, HeapDomain
  <2>10. (\A p \in DOMAIN heap : p \in DOMAIN s) /\ q \in DOMAIN s
    BY <2>1, <2>9, Known
  <2>11. DOMAIN g = DOMAIN s
    BY <2>5
  <2>12. g[o] = Put(x, i, e, FALSE)
    BY <1>1, <1>2, <2>5, <2>7, <2>10
  <2>13. \A p \in DOMAIN s \ {o} : g[p] = s[p]
    BY <2>5
  <2>14. q # o /\ g[q] = Fresh(t) /\ q \in DOMAIN g
    BY <1>2, <2>1, <2>7, <2>10, <2>11, <2>13
  <2>15. ChangesOne(heap, g, o)
    BY <1>2, <2>7, <2>10, <2>11, <2>13 DEF ChangesOne
  <2>16. IsRead(heap, heap[o], i, e, g[o], Meanings(heap))
    BY <1>1, <1>2, <1>3, <1>4, <2>4, <2>12, Records DEF IsRead
  <2>17. Void(Field(heap[o].type, i), e, Values(g), Meanings(g))
    <3>1. ~ Values(g)[q] /\ Meanings(g)[q] # Broken
      BY <1>2, <1>3, <1>6, <2>1, <2>3, <2>14, FreshIsVoid
    <3> QED
      BY <2>4, <3>1, Records DEF Void, MeaningOf
  <2> QED
    BY <1>1, <2>15, <2>16, <2>17, ReadKeeps DEF Means
<1>7. CASE f.schema.kind = "ref" /\ f.omission = "default"
  <2>1. PICK r, t, q : r = f.schema.ref /\ t = heap[r].type /\ q = Len(heap) + 1
    OBVIOUS
  <2>2. g = Append(heap, Fresh(t))
    BY <1>1, <1>4, <1>7, <2>1 DEF Instantiate, CallClone
  <2>3. r \in DOMAIN heap /\ t \in Types
    <3>1. r \in DOMAIN Prototypes
      BY <1>1, <1>2, <1>7, <2>1, FieldRank
    <3>2. r \in DOMAIN heap
      BY <1>2, <3>1 DEF Loaded
    <3> QED
      BY <1>2, <2>1, <3>2, LevelType
  <2>4. Extended(heap, g, t)
    BY <2>2, <2>3 DEF Extended
  <2>5. /\ Len(g) = Len(heap) + 1 /\ Len(g) \notin DOMAIN heap
        /\ \A p \in DOMAIN heap : g[p] = heap[p]
    BY <2>4, Known, NewGrows
  <2>6. DOMAIN g = 1..Len(heap) + 1
    BY <1>2, <2>5, HeapDomain
  <2>7. \A p \in DOMAIN heap : p \in DOMAIN g
    BY <2>6, Known
  <2>8. q \notin DOMAIN heap
    BY <2>1, <2>5
  <2>9. Elsewhere(g, q)
    <3>1. Safe(g, given')
      BY <1>1 DEF IInv
    <3> QED
      BY <2>5, <2>7, <2>8, <3>1, Undisturbed
  <2>10. \A p \in DOMAIN heap : SameIn(heap, g, p)
    BY <2>8, <2>9 DEF Elsewhere
  <2> QED
    BY <1>1, <2>10 DEF SameIn
<1>8. f.schema.kind = "scalar" \/ f.schema.kind = "ref"
  BY <1>3, Records DEF Described
<1> QED
  BY <1>5, <1>6, <1>7, <1>8

-----------------------------------------------------------------------------
(* What a clone is made for.                                               *)

\* A clone that an application's object waits for is of the DEFAULT of its field.
ForDefault(h, stack) ==
    stack # <<>> /\ stack[1].into # 0 =>
        LET f == Field(h[stack[1].into].type, stack[1].at)
        IN  /\ stack[1].into \in DOMAIN h /\ stack[1].into < stack[1].to
            /\ f.omission = "default" /\ f.schema.kind = "ref"
            /\ f.schema.ref = stack[1].from

RInv == TInv /\ ForDefault(heap, copying)

LEMMA StaysForDefault ==
  ASSUME RInv, ~ Idle, NEW g, NEW next, Works(g, next)
  PROVE  ForDefault(g, next)
<1>1. TInv /\ IInv /\ ForDefault(heap, copying) /\ copying # <<>>
  BY DEF RInv, TInv, Idle
<1>2. PICK o : /\ o \in Unfinished \/ o \notin DOMAIN heap
               /\ Elsewhere(g, o)
               /\ next[1].from = copying[1].from /\ next[1].to = copying[1].to
               /\ next[1].into = copying[1].into /\ next[1].at = copying[1].at
  BY DEF Works
<1>3. SUFFICES ASSUME copying[1].into # 0
               PROVE  ForDefault(g, next)
  BY <1>2 DEF ForDefault
<1>4. PICK p : p = copying[1].into
  OBVIOUS
<1>5. p \in DOMAIN heap /\ p < copying[1].to
  BY <1>1, <1>3, <1>4 DEF ForDefault
<1>6. p # o
  <2>1. CASE o \notin DOMAIN heap
    BY <1>5, <2>1
  <2>2. CASE o \in Unfinished
    <3>1. PICK k \in DOMAIN copying : o = copying[k].to
      BY <2>2 DEF Unfinished
    <3>2. copying[1].to <= o /\ o \in Nat /\ 1 \in DOMAIN copying
      BY <1>1, <3>1, Frames
    <3>3. copying[1].to \in Nat
      BY <1>1, <3>2, Frames
    <3>4. p \in Nat
      BY <1>1, <1>5, Known
    <3> QED
      BY <1>5, <3>2, <3>3, <3>4
  <2> QED
    BY <1>2, <2>1, <2>2
<1>7. p \in DOMAIN g /\ g[p] = heap[p]
  BY <1>2, <1>5, <1>6 DEF Elsewhere
<1> QED
  BY <1>1, <1>2, <1>3, <1>4, <1>5, <1>7 DEF ForDefault

LEMMA StartsForDefault ==
  ASSUME IInv, IInv', NEW p, NEW into, NEW at, CallClone(p, <<>>, into, at),
         into # 0 => /\ into \in DOMAIN heap
                     /\ Field(heap[into].type, at).omission = "default"
                     /\ Field(heap[into].type, at).schema.kind = "ref"
                     /\ Field(heap[into].type, at).schema.ref = p
  PROVE  ForDefault(heap', copying')
<1>1. PICK g, next, t, c :
         /\ g = heap' /\ next = copying' /\ t = Len(heap) + 1
         /\ c = [from |-> p, to |-> t, done |-> 0, into |-> into, at |-> at]
  OBVIOUS
<1>2. next = <<c>>
  BY <1>1 DEF CallClone
<1>3. next[1].from = p /\ next[1].to = t /\ next[1].into = into /\ next[1].at = at
  BY <1>1, <1>2
<1>4. SUFFICES ASSUME into # 0
               PROVE  ForDefault(g, next)
  BY <1>1, <1>3 DEF ForDefault
<1>5. IsHeap(g) /\ IsHeap(heap)
  BY <1>1, Known DEF IInv, Safe
<1>6. PICK n \in Nat : n = Len(heap) /\ DOMAIN heap = 1..n
  BY Known
<1>7. PICK y : g = Append(heap, y)
  BY <1>1 DEF CallClone
<1>8. into \in 1..n
  BY <1>4, <1>6
<1>9. into \in DOMAIN g /\ g[into] = heap[into] /\ into < t
  BY <1>1, <1>6, <1>7, <1>8, <1>5 DEF IsHeap, IsSequence
<1> QED
  BY <1>3, <1>4, <1>9 DEF ForDefault

LEMMA ForDefaultNext ==
  ASSUME RInv, TInv', [Next]_vars
  PROVE  ForDefault(heap', copying')
<1>1. TInv /\ IInv /\ ForDefault(heap, copying)
  BY DEF RInv, TInv
<1>2. IInv'
  BY DEF TInv
<1>3. ASSUME copying' = <<>>
      PROVE  ForDefault(heap', copying')
  BY <1>3 DEF ForDefault
<1>4. ASSUME Idle, copying' = copying
      PROVE  ForDefault(heap', copying')
  BY <1>3, <1>4 DEF Idle
<1>5. CASE CloneStep
  <2>1. CASE \E i \in Left : TakeScalar(i)
    BY <1>1, <1>2, <1>5, <2>1, TakeScalarTracks, StaysForDefault DEF CloneStep
  <2>2. CASE \E i \in Left : CloneComponent(i)
    BY <1>1, <1>2, <1>5, <2>2, CloneComponentTracks, StaysForDefault DEF CloneStep
  <2>3. CASE CloneReturns
    <3>1. CASE Len(copying) # 1
      BY <1>1, <1>2, <1>5, <2>3, <3>1, CloneReturnsTracks, StaysForDefault DEF CloneStep
    <3>2. CASE Len(copying) = 1
      <4>1. copying' = SubSeq(copying, 1, 0)
        BY <2>3, <3>2 DEF CloneReturns
      <4>2. copying' = <<>>
        BY <4>1, <1>1, Known
      <4> QED
        BY <1>3, <4>2
    <3> QED
      BY <3>1, <3>2
  <2>4. CASE CloneRaises
    BY <1>3, <2>4 DEF CloneRaises
  <2> QED
    BY <1>5, <2>1, <2>2, <2>3, <2>4 DEF CloneStep
<1>6. CASE \E t \in Types : New(t)
  BY <1>4, <1>6 DEF New
<1>7. ASSUME NEW o \in Made,
             \/ CloneValue(o) \/ Clear(o) \/ Reset(o) \/ SortUp(o)
             \/ \E i \in Positions(heap[o].type) :
                   Get(o, i) \/ Instantiate(o, i) \/ \E e \in Entries : Set(o, i, e)
             \/ \E e \in Entries : Add(o, e)
      PROVE  ForDefault(heap', copying')
  <2>1. CASE CloneValue(o)
    BY <1>1, <1>2, <2>1, StartsForDefault DEF CloneValue
  <2>2. CASE Clear(o) \/ Reset(o) \/ SortUp(o)
    BY <1>4, <2>2 DEF Clear, Reset, SortUp
  <2>3. CASE \E i \in Positions(heap[o].type) : Get(o, i) \/ Instantiate(o, i)
    <3>1. PICK i \in Positions(heap[o].type) : Instantiate(o, i)
      BY <2>3 DEF Get
    <3>2. CASE UNCHANGED copying
      BY <1>4, <3>1, <3>2 DEF Instantiate
    <3>3. CASE ~ UNCHANGED copying
      <4>1. PICK f : f = Field(heap[o].type, i)
        OBVIOUS
      <4>2. f.schema.kind = "ref" /\ f.omission = "default"
            /\ CallClone(f.schema.ref, <<>>, o, i)
        BY <3>1, <3>3, <4>1 DEF Instantiate
      <4>3. o \in DOMAIN heap
        BY <1>1, Known
      <4> QED
        BY <1>1, <1>2, <4>1, <4>2, <4>3, StartsForDefault
    <3> QED
      BY <3>2, <3>3
  <2>4. CASE \E i \in Positions(heap[o].type) : \E e \in Entries : Set(o, i, e)
    BY <1>4, <2>4 DEF Set
  <2>5. CASE \E e \in Entries : Add(o, e)
    BY <1>4, <2>5 DEF Add, Set
  <2> QED
    BY <1>7, <2>1, <2>2, <2>3, <2>4, <2>5
<1>8. CASE UNCHANGED vars
  BY <1>1, <1>8 DEF vars
<1> QED
  BY <1>5, <1>6, <1>7, <1>8 DEF Next

LEMMA RFirst ==
  Init => RInv
<1> SUFFICES ASSUME Init
             PROVE  RInv
  OBVIOUS
<1>1. TInv
  BY TrackedFirst
<1>2. copying = <<>>
  BY DEF Init
<1> QED
  BY <1>1, <1>2 DEF RInv, ForDefault

LEMMA RNext ==
  RInv /\ [Next]_vars => RInv'
<1> SUFFICES ASSUME RInv, [Next]_vars
             PROVE  RInv'
  OBVIOUS
<1>1. TInv'
  BY TrackedNext DEF RInv
<1>2. ForDefault(heap', copying')
  BY <1>1, ForDefaultNext
<1>3. RInv' <=> TInv' /\ ForDefault(heap', copying')
  BY DEF RInv, ForDefault
<1> QED
  BY <1>1, <1>2, <1>3

LEMMA WorksKeeps ==
  ASSUME IInv, NEW g, NEW next, Works(g, next),
         NEW p \in DOMAIN heap \ Unfinished
  PROVE  Meanings(g)[p] = Meanings(heap)[p]
<1>1. PICK o : (o \in Unfinished \/ o \notin DOMAIN heap) /\ Elsewhere(g, o)
  BY DEF Works
<1>2. p # o
  BY <1>1
<1>3. SameIn(heap, g, p)
  BY <1>1, <1>2 DEF Elsewhere
<1> QED
  BY <1>3 DEF SameIn

\* The objects before the first clone do not need the others.
LEMMA RaisesKeeps ==
  ASSUME IInv, IInv', ~ Idle, CloneRaises, NEW p \in DOMAIN heap'
  PROVE  Meanings(heap')[p] = Meanings(heap)[p]
<1>1. PICK g, n : g = heap' /\ n = copying[1].to - 1
  OBVIOUS
<1>2. copying[1].to \in MadeIn(heap) /\ copying[1].to \in Nat
  BY TopCall, Known
<1>3. PICK m \in Nat, k \in Nat : m = Len(heap) /\ k = Len(Prototypes)
  BY Known, PrototypesShape
<1>4. k <= n /\ n <= m /\ n \in Nat /\ DOMAIN heap = 1..m /\ DOMAIN Prototypes = 1..k
      /\ IsSequence(heap)
  BY <1>1, <1>2, <1>3, PrototypesShape, Known DEF MadeIn, IsHeap
<1>5. g = SubSeq(heap, 1, n)
  BY <1>1 DEF CloneRaises
<1>6. /\ IsSequence(g) /\ Len(g) = n
      /\ \A o \in 1..n : g[o] = heap[o]
  <2>1. n \in 0..Len(heap)
    BY <1>3, <1>4
  <2> QED
    BY <1>4, <1>5, <2>1, TruncatedShape, Zenon
<1>7. DOMAIN g = 1..n
  BY <1>6, SequenceShape
<1>8. Loaded(heap) /\ Loaded(g)
  <2>1. Safe(g, given')
    BY <1>1 DEF IInv
  <2> QED
    BY <2>1, Known, Loads
<1>9. ASSUME NEW o \in 1..n, NEW r, Needs(heap[o], r)
      PROVE  r \in 1..n
  <2>1. o \in DOMAIN heap /\ o < copying[1].to
    BY <1>1, <1>2, <1>4
  <2>2. r \in 1..m
    BY <1>4, <1>8, <1>9, <2>1, NeedsLess
  <2>3. CASE NeedsPart(heap[o], r)
    <3>1. r < copying[1].to
      BY <2>1, <2>3, PartsOlder
    <3> QED
      BY <1>1, <1>2, <2>2, <3>1
  <2>4. CASE NeedsSchema(heap[o], r)
    <3>1. PICK t, i : /\ t = heap[o].type /\ i \in Positions(t)
                      /\ Field(t, i).schema.kind = "ref" /\ Field(t, i).schema.ref = r
      BY <2>4 DEF NeedsSchema
    <3>2. t \in Types
      BY <1>8, <2>1, <3>1, LevelType
    <3>3. r \in DOMAIN Prototypes
      BY <3>1, <3>2, FieldRank
    <3> QED
      BY <1>4, <3>3
  <2> QED
    BY <1>9, <2>3, <2>4 DEF Needs
<1>10. Shared(heap, g, 1..n)
  <2>1. \A o \in 1..n : o \in DOMAIN heap /\ o \in DOMAIN g /\ g[o] = heap[o]
    BY <1>4, <1>6, <1>7
  <2> QED
    BY <1>8, <1>9, <2>1 DEF Shared
<1>11. SameIn(heap, g, p)
  <2>1. p \in 1..n
    BY <1>1, <1>7
  <2> QED
    BY <1>10, <2>1, Locality
<1> QED
  BY <1>1, <1>11 DEF SameIn

\* A DEFAULT does not raise.
LEMMA DefaultMeans ==
  ASSUME NEW h, NEW G, Safe(h, G), NEW t \in Types, NEW i \in Positions(t),
         Field(t, i).omission = "default", Field(t, i).schema.kind = "ref"
  PROVE  Meanings(h)[Field(t, i).schema.ref] # Broken
<1>1. PICK f, k : f = Field(t, i) /\ k = IF Schemas[t].kind = "of" THEN 1 ELSE i
  OBVIOUS
<1>2. f = Schemas[t].fields[k] /\ k \in DOMAIN Schemas[t].fields
  <2>1. /\ Schemas[t].fields \in
              Seq([schema : Described, omission : {"required", "optional", "default"}])
        /\ Schemas[t].kind = "of" => Len(Schemas[t].fields) = 1
    BY SchemasAssumption
  <2> QED
    BY <1>1, <2>1 DEF Field, Positions
<1>3. PICK r, x, v, m : r = f.schema.ref /\ x = Prototypes[r] /\ v = Values(h) /\ m = Meanings(h)
  OBVIOUS
<1>4. r \in DOMAIN Prototypes
  BY <1>1, <1>3, FieldRank
<1>5. Loaded(h) /\ r \in DOMAIN h /\ h[r] = x
  BY <1>3, <1>4, Loads DEF Safe, Loaded
<1>6. m[r] = Meaning(x, v, m) /\ x.type \in Types
  BY <1>3, <1>5, Unfolded, LevelType
<1>7. Schemas[x.type].kind = "of" /\ \A j \in DOMAIN x.comps : x.comps[j].kind = "scalar"
  <2>1. PICK a : a = Schemas[t].fields[k] /\ a.omission = "default" /\ a.schema.kind = "ref"
    BY <1>1, <1>2
  <2>2. LET default == Prototypes[a.schema.ref]
        IN  /\ Schemas[default.type].kind = "of"
            /\ \A j \in DOMAIN default.comps : default.comps[j].kind = "scalar"
    BY <1>2, <2>1, DefaultsAssumption
  <2>3. Prototypes[a.schema.ref] = x
    BY <1>2, <1>3, <2>1
  <2> QED
    BY <2>2, <2>3
<1>8. ~ Raises(x, v, m)
  <2>1. \A j \in DOMAIN x.comps : ~ Refuses(x, v, m, j)
    BY <1>7 DEF Refuses
  <2> QED
    BY <1>7, <2>1, RaisesMeans
<1>9. ~ Breaks(x, m)
  <2>1. \A j \in DOMAIN x.comps : MeaningOf(x.comps[j], m) # Broken
    BY <1>7 DEF MeaningOf, Meant, Broken
  <2> QED
    BY <2>1 DEF Breaks
<1>10. Encoding(x, v, m) # Broken
  <2>1. PICK parts : Encoding(x, v, m) = Meant(x.type, 0, parts)
    BY <1>7, EncodingOfList
  <2>2. x.type # "broken"
    BY <1>6, NamesAssumption
  <2> QED
    BY <2>1, <2>2 DEF Meant, Broken
<1>11. NoMeaning # Broken
  BY DEF NoMeaning, Broken, Meant
<1>12. m[r] # Broken
  BY <1>6, <1>8, <1>9, <1>10, <1>11, MeaningOfNone, MeaningOfValue
<1> QED
  BY <1>1, <1>3, <1>12

\* The DEFAULT is put into the object that is read.
LEMMA DefaultKeeps ==
  ASSUME RInv, IInv', ~ Idle, CloneReturns, Len(copying) = 1, copying[1].into # 0,
         ReadsNothing(heap[copying[1].into], copying[1].at, Meanings(heap)), Clonables(heap)[copying[1].from],
         NEW p \in DOMAIN heap
  PROVE  Meanings(heap')[p] = Meanings(heap)[p]
<1>1. TInv /\ IInv /\ ForDefault(heap, copying) /\ copying # <<>>
  BY DEF RInv, TInv, Idle
<1>2. PICK g, c, o, i, a, b, x, e, f :
         /\ g = heap' /\ c = copying[1] /\ o = c.into /\ i = c.at /\ a = c.from /\ b = c.to
         /\ x = heap[o] /\ e = Ref(b) /\ f = Field(x.type, i)
  OBVIOUS
<1>3. Top = c /\ 1 \in DOMAIN copying
  <2>1. Top = c
    BY <1>2 DEF Top
  <2> QED
    BY <1>1, <2>1, TopCall
<1>4. /\ o \in DOMAIN heap /\ o < b /\ o # 0
      /\ f.omission = "default" /\ f.schema.kind = "ref" /\ f.schema.ref = a
  BY <1>1, <1>2 DEF ForDefault
<1>5. /\ a \in DOMAIN heap /\ b \in DOMAIN heap /\ a \in Nat /\ b \in Nat /\ o \in Nat
      /\ heap[b].type = heap[a].type
  <2>1. o \in Nat
    BY <1>1, <1>4, Known
  <2> QED
    BY <1>1, <1>2, <1>3, <2>1, Frames
<1>6. Loaded(heap) /\ Loaded(g) /\ IsObject(heap, x) /\ x.type \in Types
  <2>1. Safe(g, given')
    BY <1>2 DEF IInv
  <2>2. IsObject(heap, x)
    BY <1>1, <1>2, <1>4, Known
  <2> QED
    BY <1>1, <2>1, <2>2, Known, Loads DEF IsObject
<1>7. i \in Positions(x.type)
  <2>1. CallOK(heap, given, copying, 1)
    BY <1>1, <1>3, Known DEF CallsOK
  <2>2. Serves(heap, c)
    BY <1>2, <1>4, <2>1 DEF CallOK
  <2> QED
    BY <1>2, <2>2 DEF Serves
<1>8. g = [heap EXCEPT ![o] = Put(x, i, e, FALSE)]
  <2>1. (Len(copying) > 1) = FALSE
    OBVIOUS
  <2>2. heap' = [heap EXCEPT ![Top.into] = Put(@, Top.at, Ref(Top.to), Len(copying) > 1)]
    BY <1>2, <1>3, <1>4 DEF CloneReturns
  <2> QED
    BY <1>2, <1>3, <2>1, <2>2
<1>9. g[o] = Put(x, i, e, FALSE) /\ o \in DOMAIN g
      /\ \A q \in DOMAIN heap \ {o} : q \in DOMAIN g /\ g[q] = heap[q]
  BY <1>4, <1>8
<1>10. ChangesOne(heap, g, o)
  BY <1>4, <1>6, <1>9 DEF ChangesOne
<1>11. x.chosen = 0 /\ i # 0
  <2>1. Schemas[x.type].kind = "record"
    <3>1. PICK k : k = IF Schemas[x.type].kind = "of" THEN 1 ELSE i
      OBVIOUS
    <3>2. f = Schemas[x.type].fields[k]
      BY <1>2, <3>1 DEF Field
    <3>3. k \in DOMAIN Schemas[x.type].fields
      <4>1. /\ Schemas[x.type].fields \in
                 Seq([schema : Described, omission : {"required", "optional", "default"}])
            /\ Schemas[x.type].kind = "of" => Len(Schemas[x.type].fields) = 1
        BY <1>6, SchemasAssumption
      <4> QED
        BY <1>7, <3>1, <4>1 DEF Positions
    <3> QED
      BY <1>4, <1>6, <3>2, <3>3, SchemasAssumption
  <2>2. x.chosen = 0
    BY <1>6, <2>1 DEF IsObject
  <2>3. i # 0
    <3>1. Schemas[x.type].fields \in
               Seq([schema : Described, omission : {"required", "optional", "default"}])
      BY <1>6, SchemasAssumption
    <3> QED
      BY <1>7, <2>1, <3>1 DEF Positions
  <2> QED
    BY <2>2, <2>3
<1>12. IsRead(heap, heap[o], i, e, g[o], Meanings(heap))
  <2>1. e # Absent
    BY <1>2, Records
  <2>2. ReadsNothing(x, i, Meanings(heap))
    BY <1>2
  <2> QED
    BY <1>2, <1>6, <1>7, <1>9, <1>11, <2>1, <2>2 DEF IsRead
<1>13. Meanings(heap)[b] = Meanings(heap)[a]
  <2>1. ClonesMeanTheSame
    BY <1>1, FaithfulBy
  <2>2. ~ CloneFails /\ Left = {}
    BY DEF CloneReturns
  <2>3. Clonables(heap)[Top.from]
    BY <1>2, <1>3
  <2> QED
    BY <1>2, <1>3, <2>1, <2>2, <2>3 DEF ClonesMeanTheSame
<1>14. Meanings(g)[b] = Meanings(g)[a]
  <2>1. Level(heap, a) < Level(heap, o) /\ Level(heap, b) = Level(heap, a)
    <3>1. Needs(x, a)
      BY <1>2, <1>4, <1>7 DEF Needs, NeedsSchema
    <3>2. Level(heap, a) < Level(heap, o)
      BY <1>2, <1>4, <1>6, <3>1, NeedsLess
    <3> QED
      BY <1>5, <3>2 DEF Level
  <2>2. SameIn(heap, g, a) /\ SameIn(heap, g, b)
    BY <1>5, <1>10, <2>1, BelowSame
  <2> QED
    BY <1>13, <2>2 DEF SameIn
<1>15. Void(Field(heap[o].type, i), e, Values(g), Meanings(g))
  <2>1. e.kind = "ref" /\ e.ref = b
    BY <1>2 DEF Ref
  <2>2. MeaningOf(e, Meanings(g)) = MeaningOf(f.schema, Meanings(g))
    BY <1>4, <1>14, <2>1 DEF MeaningOf
  <2>3. Meanings(g)[a] # Broken
    <3>1. Safe(g, given')
      BY <1>2 DEF IInv
    <3> QED
      BY <1>2, <1>4, <1>6, <1>7, <3>1, DefaultMeans
  <2>4. MeaningOf(e, Meanings(g)) # Broken
    BY <1>14, <2>1, <2>3 DEF MeaningOf
  <2> QED
    BY <1>2, <1>4, <2>2, <2>4 DEF Void
<1>16. Means(heap, g, p)
  BY <1>10, <1>12, <1>15, ReadKeeps
<1> QED
  BY <1>2, <1>16 DEF Means

LEMMA ReadingKeeps ==
  ASSUME RInv, RInv', [Next]_vars, vars' # vars, Reading
  PROVE  KeepsMeanings
<1>1. TInv /\ IInv /\ TInv' /\ IInv'
  BY DEF RInv, TInv
<1>2. SUFFICES ASSUME NEW p \in (Made \ Unfinished) \cap DOMAIN heap'
               PROVE  Meanings(heap')[p] = Meanings(heap)[p]
  BY DEF KeepsMeanings
<1>3. p \in DOMAIN heap \ Unfinished
  BY <1>1, Known
<1>4. CASE \E o \in Made : \E i \in Positions(heap[o].type) :
              ReadsNothing(heap[o], i, Meanings(heap)) /\ Get(o, i)
  BY <1>1, <1>3, <1>4, GetKeeps
<1>5. CASE ClonesToRead
  <2>1. ~ Idle
    BY <1>5 DEF ClonesToRead
  <2>2. CloneStep
    <3>1. \A o : ~ (CloneValue(o) \/ Clear(o) \/ Reset(o) \/ SortUp(o))
      BY <2>1 DEF CloneValue, Clear, Reset, SortUp
    <3>2. \A o, i : ~ (Get(o, i) \/ Instantiate(o, i))
      BY <2>1 DEF Get, Instantiate
    <3>3. \A o, i, e : ~ Set(o, i, e)
      BY <2>1 DEF Set
    <3>4. \A o, e : ~ Add(o, e)
      BY <3>3 DEF Add
    <3>5. \A t : ~ New(t)
      BY <2>1 DEF New
    <3>6. Next
      BY DEF vars
    <3> QED
      BY <3>1, <3>2, <3>3, <3>4, <3>5, <3>6, Zenon DEF Next
  <2>3. CASE \E i \in Left : TakeScalar(i)
    BY <1>1, <1>3, <2>1, <2>3, TakeScalarTracks, WorksKeeps
  <2>4. CASE \E i \in Left : CloneComponent(i)
    BY <1>1, <1>3, <2>1, <2>4, CloneComponentTracks, WorksKeeps
  <2>5. CASE CloneReturns
    <3>1. CASE Len(copying) # 1
      BY <1>1, <1>3, <2>1, <2>5, <3>1, CloneReturnsTracks, WorksKeeps
    <3>2. CASE Len(copying) = 1 /\ copying[1].into = 0
      <4>1. heap' = heap
        BY <2>5, <3>2 DEF CloneReturns, Top
      <4> QED
        BY <4>1
    <3>3. CASE Len(copying) = 1 /\ copying[1].into # 0
      <4>1. /\ ReadsNothing(heap[copying[1].into], copying[1].at, Meanings(heap))
            /\ Clonables(heap)[copying[1].from]
        BY <1>5, <3>3 DEF ClonesToRead
      <4> QED
        BY <1>1, <1>3, <2>1, <2>5, <3>3, <4>1, DefaultKeeps
    <3> QED
      BY <3>1, <3>2, <3>3
  <2>6. CASE CloneRaises
    BY <1>1, <1>2, <2>1, <2>6, RaisesKeeps
  <2> QED
    BY <2>2, <2>3, <2>4, <2>5, <2>6 DEF CloneStep
<1> QED
  BY <1>4, <1>5 DEF Reading

\* Reading a component that is not there, although it instantiates it, changes what no
\* object stands for, unless the schema is such that what is instantiated is a value
\* (getComponentByPosition); nor does a clone() that is in progress
\* (_cloneComponentValues), whether it returns or raises.
THEOREM ReadingIsHarmless ==
  Spec => ReadingMeansNothing
<1>1. RInv /\ RInv' /\ [Next]_vars => [Reading => KeepsMeanings]_vars
  BY ReadingKeeps
<1> QED
  BY <1>1, RFirst, RNext, PTL DEF Spec, ReadingMeansNothing
=============================================================================
