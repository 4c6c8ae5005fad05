----------------------- MODULE ComponentPlacementProofs -----------------------
(***************************************************************************)
(* Proofs about ComponentPlacement, for schemas of any number of fields    *)
(* and any number of components on the wire.  The inductive invariant      *)
(* keeps the assignment of the components read so far to fields of which   *)
(* placed is the trace, and says that no other one has a chance.           *)
(***************************************************************************)
EXTENDS ComponentPlacement, TLAPS

\* m[k] is the field that component k went to.  Where several went to one
\* field (in a SET), the last one stays; a SEQUENCE is filled from left to
\* right.
Follows(m) ==
    /\ \A k \in 1..read : wire[k] \in fields[m[k]].tags
    /\ ~input.isSet => /\ \A j, k \in 1..read : j < k => m[j] < m[k]
                       /\ \A k \in 1..read : m[k] < idx
    /\ idx = IF read = 0 THEN 1 ELSE m[read] + 1
    /\ \A k \in 1..read : placed[m[k]] # 0
    /\ \A i \in Positions : placed[i] # 0 =>
          /\ placed[i] \in 1..read /\ m[placed[i]] = i
          /\ \A k \in 1..read : m[k] = i => k <= placed[i]

\* The messages of a schema that the decoder promises to accept.
Sound ==
    /\ Legal
    /\ Indefinite /\ input.isSet => {wire[k] : k \in DOMAIN wire} \subseteq SelfDescribing

Assignments == [1..Len(wire) -> Positions]

\* Whoever wants to assign all components agrees with m on those read.
Forced(m) ==
    Sound => \A f \in Assignments : Fills(f) => \A k \in 1..read : f[k] = m[k]

Traced ==
    fields # <<>> => \E m \in [1..read -> Positions] : Follows(m) /\ Forced(m)

\* What is refused is no message of the schema.
Refused ==
    /\ Sound /\ fields # <<>> /\ input.form # "open" /\ status \notin {"decoding", "value"}
    => \A f \in Assignments : ~Fills(f)

\* Behind the last field of a SEQUENCE there is only the excess.
LastIsFilled ==
    fields # <<>> /\ ~input.isSet =>
        idx <= Len(fields) + 1 /\ (idx > 1 => placed[idx - 1] # 0)

Complete == status = "value" => read = Len(wire) /\ RequiredSeen

IInv ==
    /\ TypeOK /\ Traced /\ LastIsFilled /\ Complete /\ Refused
    /\ OnlyExcessEscapes

-----------------------------------------------------------------------------
LEMMA InitIsSound == Init => IInv
<1> SUFFICES ASSUME Init
             PROVE  IInv
  OBVIOUS
<1>1. input \in Inputs /\ fields \in Seq(Field) /\ wire \in Seq(Tags)
  BY InputsAssumption DEF Init, fields, wire
<1>2. Len(fields) \in Nat /\ Len(wire) \in Nat
  BY <1>1
<1>3. placed \in [1..Len(fields) -> {0}]
  BY DEF Init, Positions
<1>4. placed \in Seq(0..read)
  BY <1>2, <1>3 DEF Init
<1>6. Shaped
  BY <1>1, <1>2 DEF Shaped, Init, Positions
<1>5. TypeOK
  BY <1>1, <1>2, <1>4, <1>6 DEF Init, TypeOK
<1>7. Traced
  <2>1. Follows([k \in 1..read |-> 1]) /\ Forced([k \in 1..read |-> 1])
    BY DEF Init, Follows, Forced
  <2>2. fields # <<>> => 1 \in Positions
    BY <1>1 DEF Positions
  <2> QED
    BY <2>1, <2>2 DEF Traced
<1>8. LastIsFilled /\ Complete /\ Refused /\ OnlyExcessEscapes
  BY <1>2 DEF LastIsFilled, Complete, Refused, OnlyExcessEscapes, Init
<1> QED
  BY <1>5, <1>7, <1>8 DEF IInv

\* What holds whatever the step.
LEMMA Basics ==
    ASSUME IInv
    PROVE  /\ input \in Inputs /\ fields \in Seq(Field) /\ wire \in Seq(Tags)
           /\ Len(fields) \in Nat /\ Len(wire) \in Nat
           /\ idx \in Nat /\ idx >= 1 /\ read \in Nat /\ read <= Len(wire)
           /\ placed \in Seq(0..read)
           /\ fields # <<>> => Len(fields) \in Positions
<1>1. input \in Inputs /\ fields \in Seq(Field) /\ wire \in Seq(Tags)
  BY InputsAssumption DEF IInv, TypeOK, fields, wire
<1>2. Len(fields) \in Nat /\ Len(wire) \in Nat
  BY <1>1
<1>3. fields # <<>> => Len(fields) \in Positions
  BY <1>1 DEF Positions
<1> QED
  BY <1>1, <1>2, <1>3 DEF IInv, TypeOK

\* The schema and the wire stay what they are, and what is said about them.
LEMMA SameInput ==
    ASSUME input' = input
    PROVE  /\ fields' = fields /\ wire' = wire
           /\ Positions' = Positions /\ Legal' = Legal /\ Indefinite' = Indefinite
           /\ Required' = Required /\ Sound' = Sound /\ Assignments' = Assignments
           /\ \A f : Fills(f)' = Fills(f)
<1>1. fields' = fields /\ wire' = wire
  BY DEF fields, wire
<1>2. Positions' = Positions /\ Indefinite' = Indefinite
  BY <1>1 DEF Positions, Indefinite
<1>3. Required' = Required /\ Assignments' = Assignments
  BY <1>1, <1>2 DEF Required, Assignments
<1>4. Legal' = Legal
  BY <1>1, <1>2, <1>3 DEF Legal, Distinct, NearPosition
<1>5. Sound' = Sound
  BY <1>1, <1>2, <1>4 DEF Sound
<1>6. \A f : Fills(f)' = Fills(f)
  BY <1>1, <1>3 DEF Fills
<1> QED
  BY <1>1, <1>2, <1>3, <1>4, <1>5, <1>6

\* A step that only sets the status: what the new one has to answer for.
LEMMA FailKeeps ==
    ASSUME IInv,
           NEW kind \in {"value", "malformed", "underrun", "IndexError", "AttributeError"},
           Fail(kind),
           kind = "value" => read = Len(wire) /\ RequiredSeen,
           kind = "AttributeError" => ~Legal,
           kind = "IndexError" /\ Legal => /\ Indefinite /\ ~input.isSet
                                           /\ placed[Len(fields)] # 0 /\ read < Len(wire),
           kind # "value" /\ Sound /\ fields # <<>> /\ input.form # "open" =>
               \A f \in Assignments : ~Fills(f)
    PROVE  IInv'
<1>1. /\ status' = kind /\ input' = input /\ idx' = idx /\ read' = read /\ placed' = placed
      /\ fields' = fields /\ wire' = wire
  BY DEF Fail, fields, wire
<1>2. /\ Positions' = Positions /\ Legal' = Legal /\ Indefinite' = Indefinite
      /\ Required' = Required /\ Sound' = Sound /\ Assignments' = Assignments
      /\ \A f : Fills(f)' = Fills(f)
  BY <1>1, SameInput
<1>3. TypeOK' /\ Traced' /\ LastIsFilled'
  <2>1. TypeOK' /\ LastIsFilled'
    BY <1>1, <1>2 DEF IInv, TypeOK, Shaped, LastIsFilled
  <2>2. ASSUME NEW m, Follows(m), Forced(m)
        PROVE  Follows(m)' /\ Forced(m)'
    BY <1>1, <1>2, <2>2 DEF Follows, Forced
  <2>3. Traced'
    BY <1>1, <1>2, <2>2 DEF IInv, Traced
  <2> QED
    BY <2>1, <2>3
<1>4. Complete' /\ Refused' /\ OnlyExcessEscapes'
  BY <1>1, <1>2 DEF Complete, Refused, OnlyExcessEscapes, RequiredSeen
<1> QED
  BY <1>3, <1>4 DEF IInv

\* A component goes to a field that accepts it; in a SEQUENCE to none that
\* was passed.
LEMMA PlaceKeeps ==
    ASSUME IInv, Decoding, NEW i, Place(i),
           fields = <<>> => i = idx,
           fields # <<>> => /\ i \in Positions /\ Component \in fields[i].tags
                            /\ ~input.isSet => i >= idx
                            /\ \A f \in Assignments : Sound /\ Fills(f) => f[read + 1] = i
    PROVE  IInv'
<1>1. /\ input' = input /\ read' = read + 1 /\ idx' = i + 1 /\ status' = "decoding"
      /\ fields' = fields /\ wire' = wire /\ Positions' = Positions /\ read < Len(wire)
  BY DEF Place, Decoding, fields, wire, Positions
<1>2. i \in Nat /\ i >= 1
  BY Basics DEF Positions
<1>3. 0..read \subseteq 0..read + 1 /\ read + 1 \in 0..read + 1
  BY Basics
<1>4. CASE fields = <<>>
  <2>1. placed' = Append(placed, read + 1)
    BY <1>4 DEF Place
  <2>2. placed \in Seq(0..read + 1)
    BY <1>3, Basics
  <2>3. placed' \in Seq(0..read')
    BY <1>1, <1>3, <2>1, <2>2
  <2>a. Shaped'
    <3>1. placed = [k \in 1..read |-> k] /\ read \in Nat
      BY <1>4, Basics DEF IInv, TypeOK, Shaped
    <3>2. Append(placed, read + 1) = [k \in 1..read + 1 |-> k]
      BY <3>1
    <3> QED
      BY <1>1, <1>4, <2>1, <3>2 DEF Shaped
  <2>4. TypeOK'
    BY <1>1, <1>2, <2>3, <2>a, Basics DEF TypeOK
  <2> QED
    BY <1>1, <1>4, <2>4 DEF IInv, Traced, LastIsFilled, Complete, Refused,
                            OnlyExcessEscapes
<1>5. CASE fields # <<>>
  <2>1. /\ placed \in [Positions -> 0..read] /\ placed' = [placed EXCEPT ![i] = read + 1]
        /\ i \in Positions /\ wire[read + 1] \in fields[i].tags
        /\ ~input.isSet => i >= idx
    BY <1>5 DEF IInv, TypeOK, Shaped, Place, Component
  <2>2. placed' \in [Positions -> 0..read + 1]
    BY <1>3, <2>1
  <2>3. placed' \in Seq(0..read')
    <3>1. Len(fields) \in Nat
      BY Basics
    <3>2. placed' \in [1..Len(fields) -> 0..read + 1]
      BY <2>2 DEF Positions
    <3> QED
      BY <1>1, <3>1, <3>2
  <2>4. TypeOK'
    BY <1>1, <1>2, <1>5, <2>2, <2>3, Basics DEF TypeOK, Shaped
  <2>5. Traced'
    <3>1. PICK m \in [1..read -> Positions] : Follows(m) /\ Forced(m)
      BY <1>5 DEF IInv, Traced
    <3>9. PICK n : n = [k \in 1..read + 1 |-> IF k = read + 1 THEN i ELSE m[k]]
      OBVIOUS
    <3>2. /\ n \in [1..read + 1 -> Positions] /\ n[read + 1] = i
          /\ \A k \in 1..read : n[k] = m[k] /\ k \in 1..read + 1
      <4>1. /\ read + 1 \in 1..read + 1
            /\ \A k \in 1..read : k # read + 1 /\ k \in 1..read + 1
            /\ \A k \in 1..read + 1 : k # read + 1 => k \in 1..read
        BY Basics
      <4> QED
        BY <2>1, <3>9, <4>1
    <3>3. \A k \in 1..read + 1 : k \in 1..read \/ k = read + 1
      BY Basics
    <3>4. \A k \in 1..read + 1 : wire[k] \in fields[n[k]].tags
      BY <2>1, <3>1, <3>2, <3>3 DEF Follows
    <3>5. ~input.isSet => /\ \A j, k \in 1..read + 1 : j < k => n[j] < n[k]
                          /\ \A k \in 1..read + 1 : n[k] < i + 1
      <4> SUFFICES ASSUME ~input.isSet
                   PROVE  /\ \A j, k \in 1..read + 1 : j < k => n[j] < n[k]
                          /\ \A k \in 1..read + 1 : n[k] < i + 1
        OBVIOUS
      <4>1. \A k \in 1..read : n[k] < i /\ n[k] \in Nat
        <5>1. \A k \in 1..read : n[k] < idx /\ n[k] \in Positions
          BY <3>1, <3>2 DEF Follows
        <5>2. \A k \in 1..read : n[k] \in Nat
          BY <5>1 DEF Positions
        <5>3. idx \in Nat /\ idx <= i
          BY <2>1, Basics
        <5> QED
          BY <1>2, <5>1, <5>2, <5>3
      <4>2. \A j, k \in 1..read : j < k => n[j] < n[k]
        BY <3>1, <3>2 DEF Follows
      <4>3. SUFFICES ASSUME NEW j \in 1..read + 1, NEW k \in 1..read + 1
                     PROVE  /\ n[k] < i + 1
                            /\ j < k => n[j] < n[k]
        OBVIOUS
      <4>4. CASE k = read + 1
        <5>1. j < k => j \in 1..read
          BY <4>4, Basics
        <5> QED
          BY <1>2, <3>2, <4>1, <4>4, <5>1
      <4>5. CASE k \in 1..read
        <5>1. j < k => j \in 1..read
          BY <4>5, Basics
        <5> QED
          BY <1>2, <4>1, <4>2, <4>5, <5>1
      <4> QED
        BY <3>3, <4>4, <4>5
    <3>10. /\ placed'[i] = read + 1 /\ read + 1 # 0
           /\ \A p \in Positions : p # i => placed'[p] = placed[p]
      BY <2>1, Basics
    <3>6. \A k \in 1..read + 1 : placed'[n[k]] # 0
      <4> SUFFICES ASSUME NEW k \in 1..read + 1
                   PROVE  placed'[n[k]] # 0
        OBVIOUS
      <4>1. CASE n[k] = i
        BY <3>10, <4>1
      <4>2. CASE n[k] # i
        <5>1. k \in 1..read /\ n[k] = m[k] /\ m[k] \in Positions
          BY <3>1, <3>2, <3>3, <4>2
        <5> QED
          BY <3>1, <3>10, <4>2, <5>1 DEF Follows
      <4> QED
        BY <4>1, <4>2
    <3>7. \A p \in Positions : placed'[p] # 0 =>
              /\ placed'[p] \in 1..read + 1 /\ n[placed'[p]] = p
              /\ \A k \in 1..read + 1 : n[k] = p => k <= placed'[p]
      <4> SUFFICES ASSUME NEW p \in Positions, placed'[p] # 0
                   PROVE  /\ placed'[p] \in 1..read + 1 /\ n[placed'[p]] = p
                          /\ \A k \in 1..read + 1 : n[k] = p => k <= placed'[p]
        OBVIOUS
      <4>1. CASE p = i
        <5>1. \A k \in 1..read + 1 : k <= read + 1
          BY Basics
        <5>2. read + 1 \in 1..read + 1
          BY Basics
        <5> QED
          BY <3>2, <3>10, <4>1, <5>1, <5>2
      <4>2. CASE p # i
        <5>1. /\ placed'[p] = placed[p] /\ placed[p] \in 1..read /\ m[placed[p]] = p
              /\ \A k \in 1..read : m[k] = p => k <= placed[p]
          BY <3>1, <3>10, <4>2 DEF Follows
        <5> QED
          BY <3>2, <3>3, <4>2, <5>1
      <4> QED
        BY <4>1, <4>2
    <3>8. Follows(n)'
      <4>1. i + 1 = IF read + 1 = 0 THEN 1 ELSE n[read + 1] + 1
        BY <3>2, Basics
      <4> QED
        BY <1>1, <3>4, <3>5, <3>6, <3>7, <4>1 DEF Follows
    <3>11. Forced(n)'
      <4>1. ASSUME Sound, NEW f \in Assignments, Fills(f), NEW k \in 1..read + 1
            PROVE  f[k] = n[k]
        BY <1>5, <3>1, <3>2, <3>3, <4>1 DEF Forced
      <4> QED
        BY <1>1, <4>1, SameInput DEF Forced
    <3> QED
      BY <1>1, <1>5, <3>2, <3>8, <3>11 DEF Traced
  <2>6. LastIsFilled'
    BY <1>1, <1>2, <2>1, Basics DEF LastIsFilled, Positions
  <2>7. Complete' /\ Refused' /\ OnlyExcessEscapes'
    BY <1>1 DEF Complete, Refused, OnlyExcessEscapes
  <2> QED
    BY <2>4, <2>5, <2>6, <2>7 DEF IInv
<1> QED
  BY <1>4, <1>5

-----------------------------------------------------------------------------
LEMMA CandidatesArePositions ==
    ASSUME IInv
    PROVE  /\ Candidates \subseteq Positions
           /\ ~input.isSet => \A i \in Candidates : i >= idx
  BY Basics DEF Candidates, Required, NearPosition, Positions

\* Where an assignment that suits the schema wants the next component.
LEMMA NextIsCandidate ==
    ASSUME IInv, Decoding, fields # <<>>, Sound, NEW f \in Assignments, Fills(f)
    PROVE  /\ f[read + 1] \in Positions /\ Component \in fields[f[read + 1]].tags
           /\ ~input.isSet => f[read + 1] >= idx
           /\ f[read + 1] \in Candidates
<1> DEFINE c == read + 1
<1>1. /\ c \in 1..Len(wire) /\ f[c] \in Positions /\ Component \in fields[f[c]].tags
      /\ DOMAIN f = 1..Len(wire) /\ \A k \in 1..Len(wire) : f[k] \in Positions
  <2>1. c \in 1..Len(wire)
    BY Basics DEF Decoding
  <2>2. DOMAIN f = 1..Len(wire) /\ \A k \in 1..Len(wire) : f[k] \in Positions
    BY DEF Assignments
  <2>3. \A k \in 1..Len(wire) : wire[k] \in fields[f[k]].tags
    BY <2>2 DEF Fills
  <2> QED
    BY <2>1, <2>2, <2>3 DEF Component
<1>2. /\ Positions \subseteq Nat /\ f[c] \in Nat /\ f[c] >= 1 /\ f[c] <= Len(fields)
      /\ idx \in Nat /\ Len(fields) \in Nat /\ read \in Nat
  BY <1>1, Basics DEF Positions
<1> HIDE DEF c
<1>3. PICK m \in [1..read -> Positions] : Follows(m) /\ Forced(m)
  BY DEF IInv, Traced
<1>4. \A k \in 1..read : f[k] = m[k]
  BY <1>3 DEF Forced
<1>5. ASSUME ~input.isSet
      PROVE  /\ f[c] >= idx
             /\ \A j \in Required : j < idx \/ j >= f[c]
  <2>1. \A j, k \in 1..Len(wire) : j < k => f[j] < f[k]
    BY <1>1, <1>5 DEF Fills
  <2>2. ASSUME read = 0 PROVE f[c] >= idx
    <3>1. idx = 1
      BY <1>3, <2>2 DEF Follows
    <3> QED
      BY <1>2, <3>1
  <2>3. ASSUME read # 0 PROVE f[c] >= idx
    <3>1. read \in 1..read /\ read \in 1..Len(wire) /\ read < c
      BY <1>2, <2>3, Basics DEF c
    <3>2. idx = f[read] + 1 /\ f[read] < f[c]
      BY <1>1, <1>3, <1>4, <2>1, <2>3, <3>1 DEF Follows
    <3>3. f[read] \in Nat
      BY <1>1, <1>2, <3>1
    <3> QED
      BY <1>2, <3>2, <3>3
  <2>4. f[c] >= idx
    BY <2>2, <2>3
  <2>5. ASSUME NEW j \in Required, j >= idx, j < f[c]
        PROVE  FALSE
    <3>1. PICK k \in 1..Len(wire) : f[k] = j
      BY <1>1 DEF Fills
    <3>2. j \in Nat
      BY <1>2 DEF Required
    <3>3. k \notin 1..read
      <4>1. \A l \in 1..read : f[l] < idx
        BY <1>3, <1>4, <1>5 DEF Follows
      <4> QED
        BY <1>2, <2>5, <3>1, <3>2, <4>1
    <3>4. k = c \/ c < k
      BY <1>2, <3>3 DEF c
    <3>5. f[c] <= f[k] /\ f[k] \in Nat
      <4>1. f[k] \in Nat
        BY <1>1, <1>2
      <4>2. f[c] = f[k] \/ f[c] < f[k]
        BY <1>1, <2>1, <3>4
      <4> QED
        BY <1>2, <4>1, <4>2
    <3> QED
      BY <1>2, <2>5, <3>1, <3>5
  <2>6. \A j \in Required : j \in Nat
    BY <1>2 DEF Required
  <2> QED
    BY <1>2, <2>4, <2>5, <2>6
<1>6. f[c] \in Candidates
  <2>1. CASE input.isSet
    BY <1>1, <2>1 DEF Candidates
  <2>2. CASE ~input.isSet /\ idx \in Required
    <3>1. f[c] = idx
      BY <1>2, <1>5, <2>2
    <3> QED
      BY <2>2, <3>1 DEF Candidates
  <2>3. CASE ~input.isSet /\ idx \notin Required
    <3>1. f[c] \in idx..Len(fields)
      BY <1>2, <1>5, <2>3
    <3>2. \A k \in idx..f[c] - 1 : k \in Nat /\ k >= idx /\ k < f[c]
      BY <1>2
    <3>3. \A k \in idx..f[c] - 1 : k \notin Required
      BY <1>2, <1>5, <2>3, <3>2
    <3> QED
      BY <2>3, <3>1, <3>3 DEF Candidates, NearPosition
  <2> QED
    BY <2>1, <2>2, <2>3
<1> QED
  BY <1>1, <1>5, <1>6 DEF c

\* No assignment wants anything behind the last field of a SEQUENCE.
LEMMA BehindTheLast ==
    ASSUME IInv, Decoding, fields # <<>>, ~input.isSet, idx > Len(fields), Sound,
           NEW f \in Assignments, Fills(f)
    PROVE  FALSE
  BY NextIsCandidate, Basics DEF Positions

\* Among fields that differ in their tags a component fits into one.
LEMMA OnlyOneAccepts ==
    ASSUME NEW ps, Distinct(ps), NEW i \in ps, NEW tag, tag \in fields[i].tags
    PROVE  (CHOOSE p \in Accepting(ps, tag) : TRUE) = i
<1>1. i \in Accepting(ps, tag)
  BY DEF Accepting
<1>2. \A p \in Accepting(ps, tag) : p = i
  BY DEF Accepting, Distinct
<1> QED
  BY <1>1, <1>2

LEMMA ExcessiveComponentStep ==
    ASSUME IInv, ExcessiveComponent
    PROVE  IInv'
  BY FailKeeps, BehindTheLast DEF ExcessiveComponent, Excessive

LEMMA AmbiguousSetStep ==
    ASSUME IInv, AmbiguousSet
    PROVE  IInv'
  BY FailKeeps DEF AmbiguousSet, Legal, Sound

LEMMA UnguidedComponentStep ==
    ASSUME IInv, UnguidedComponent
    PROVE  IInv'
<1>1. Decoding /\ Unguided
  BY DEF UnguidedComponent
<1>2. ASSUME fields # <<>>, ~input.isSet, Sound, NEW f \in Assignments, Fills(f)
      PROVE  FALSE
    BY <1>1, <1>2, BehindTheLast DEF Unguided
<1>3. ASSUME fields # <<>>, input.isSet, Sound
      PROVE  Component \in SelfDescribing
  <2>1. Indefinite
    BY <1>1, <1>3 DEF Unguided
  <2>2. read + 1 \in DOMAIN wire
    BY <1>1, Basics DEF Decoding
  <2> QED
    BY <1>3, <2>1, <2>2 DEF Sound, Component
<1>4. CASE Component \notin SelfDescribing /\ Fail("malformed")
  BY <1>2, <1>3, <1>4, FailKeeps
<1>5. CASE fields = <<>> /\ Place(idx)
  BY <1>1, <1>5, PlaceKeeps
<1>6. CASE fields # <<>> /\ ~input.isSet /\ Fail("IndexError")
  <2>1. idx = Len(fields) + 1 /\ Indefinite
    BY <1>1, <1>6, Basics DEF Unguided, IInv, LastIsFilled
  <2>2. placed[Len(fields)] # 0
    BY <1>6, <2>1, Basics DEF IInv, LastIsFilled, Positions
  <2> QED
    BY <1>1, <1>2, <1>6, <2>1, <2>2, FailKeeps DEF Decoding
<1>7. CASE /\ fields # <<>> /\ input.isSet /\ Accepting(Positions, Component) = {}
           /\ Fail("malformed")
  <2>1. \A f \in Assignments : Sound => ~Fills(f)
    BY <1>1, <1>7, NextIsCandidate DEF Accepting
  <2> QED
    BY <1>7, <2>1, FailKeeps
<1>8. CASE /\ fields # <<>> /\ input.isSet
           /\ Accepting(Positions, Component) # {}
           /\ Place(CHOOSE i \in Accepting(Positions, Component) : TRUE)
  <2> DEFINE i == CHOOSE p \in Accepting(Positions, Component) : TRUE
  <2>1. i \in Positions /\ Component \in fields[i].tags
    BY <1>8 DEF Accepting
  <2>2. ASSUME NEW f \in Assignments, Sound, Fills(f)
        PROVE  f[read + 1] = i
    BY <1>1, <1>8, <2>2, NextIsCandidate, OnlyOneAccepts DEF Sound, Legal
  <2> HIDE DEF i
  <2>3. Place(i)
    BY <1>8 DEF i
  <2> QED
    BY <1>1, <1>8, <2>1, <2>2, <2>3, PlaceKeeps
<1> QED
  BY <1>4, <1>5, <1>6, <1>7, <1>8 DEF UnguidedComponent

LEMMA GuidedComponentStep ==
    ASSUME IInv, GuidedComponent
    PROVE  IInv'
<1>1. Decoding /\ fields # <<>>
  BY DEF GuidedComponent, Unguided
<1>2. Sound => (input.isSet => Distinct(Positions))
  BY DEF Sound, Legal
<1>3. ASSUME Sound, NEW f \in Assignments, Fills(f)
      PROVE  Distinct(Candidates)
  <2>1. ~input.isSet => idx \in Positions
    BY <1>1, <1>3, NextIsCandidate, Basics DEF Positions
  <2>2. Distinct({idx})
    BY DEF Distinct
  <2> QED
    BY <1>2, <1>3, <2>1, <2>2 DEF Candidates, Sound, Legal
<1>4. CASE Accepting(Candidates, Component) = {} /\ Fail("malformed")
  <2>1. \A f \in Assignments : Sound => ~Fills(f)
    BY <1>1, <1>4, NextIsCandidate DEF Accepting
  <2> QED
    BY <1>4, <2>1, FailKeeps
<1>5. CASE ~Distinct(Candidates) /\ Fail("malformed")
  BY <1>3, <1>5, FailKeeps
<1>6. CASE /\ Accepting(Candidates, Component) # {} /\ Distinct(Candidates)
           /\ Place(CHOOSE i \in Accepting(Candidates, Component) : TRUE)
  <2> DEFINE i == CHOOSE p \in Accepting(Candidates, Component) : TRUE
  <2>1. i \in Candidates /\ Component \in fields[i].tags
    BY <1>6 DEF Accepting
  <2>2. /\ i \in Positions
        /\ ~input.isSet => i >= idx
    BY <2>1, CandidatesArePositions
  <2>3. ASSUME NEW f \in Assignments, Sound, Fills(f)
        PROVE  f[read + 1] = i
    BY <1>1, <1>6, <2>3, NextIsCandidate, OnlyOneAccepts
  <2> HIDE DEF i
  <2>4. Place(i)
    BY <1>6 DEF i
  <2> QED
    BY <1>1, <2>1, <2>2, <2>3, <2>4, PlaceKeeps
<1> QED
  BY <1>4, <1>5, <1>6 DEF GuidedComponent

LEMMA EndStep ==
    ASSUME IInv, SubstrateEnds \/ ContentsEnd
    PROVE  IInv'
<1>1. CASE SubstrateEnds
  BY <1>1, FailKeeps DEF SubstrateEnds
<1>2. CASE ContentsEnd /\ RequiredSeen
  BY <1>2, FailKeeps DEF ContentsEnd, AtEnd
<1>3. CASE ContentsEnd /\ ~RequiredSeen
  <2>1. ASSUME Sound, fields # <<>>, NEW f \in Assignments, Fills(f)
        PROVE  FALSE
    <3>1. PICK m \in [1..read -> Positions] : Follows(m) /\ Forced(m)
      BY <2>1 DEF IInv, Traced
    <3>2. read = Len(wire) /\ DOMAIN f = 1..read
      BY <1>3 DEF ContentsEnd, AtEnd, Assignments
    <3>3. \A k \in 1..read : f[k] = m[k] /\ placed[m[k]] # 0
      BY <2>1, <3>1 DEF Forced, Follows
    <3>4. \A i \in Required : \E k \in 1..read : f[k] = i
      BY <2>1, <3>2 DEF Fills
    <3> QED
      BY <1>3, <3>3, <3>4 DEF RequiredSeen
  <2> QED
    BY <1>3, <2>1, FailKeeps DEF ContentsEnd
<1> QED
  BY <1>1, <1>2, <1>3

LEMMA StutteringKeeps ==
    ASSUME IInv, UNCHANGED vars
    PROVE  IInv'
<1>1. /\ input' = input /\ idx' = idx /\ read' = read /\ placed' = placed /\ status' = status
      /\ fields' = fields /\ wire' = wire
  BY DEF vars, fields, wire
<1>2. /\ Positions' = Positions /\ Legal' = Legal /\ Indefinite' = Indefinite
      /\ Required' = Required /\ Sound' = Sound /\ Assignments' = Assignments
      /\ \A f : Fills(f)' = Fills(f)
  BY <1>1, SameInput
<1>3. ASSUME NEW m, Follows(m), Forced(m)
      PROVE  Follows(m)' /\ Forced(m)'
  BY <1>1, <1>2, <1>3 DEF Follows, Forced
<1>4. Traced'
  BY <1>1, <1>2, <1>3 DEF IInv, Traced
<1> QED
  BY <1>1, <1>2, <1>4 DEF IInv, TypeOK, Shaped, LastIsFilled, Complete, Refused,
                    OnlyExcessEscapes, RequiredSeen

-----------------------------------------------------------------------------
(***************************************************************************)
(* The assignment of components to fields is there in every state.         *)
(***************************************************************************)
THEOREM Invariant == Spec => []IInv
<1>1. IInv /\ [Next]_vars => IInv'
  BY ExcessiveComponentStep, AmbiguousSetStep, UnguidedComponentStep,
     GuidedComponentStep, EndStep, StutteringKeeps DEF Next, Finished
<1> QED
  BY <1>1, InitIsSound, PTL DEF Spec

(***************************************************************************)
(* The position arithmetic keeps its types: no component is placed outside *)
(* the fields of the schema, and placed holds only what has been read.     *)
(***************************************************************************)
THEOREM Typed == Spec => []TypeOK
<1>1. IInv => TypeOK
  BY DEF IInv
<1> QED
  BY <1>1, Invariant, PTL

(***************************************************************************)
(* With a legal schema of any size nothing but an excessive component of a *)
(* SEQUENCE of indefinite length raises anything else than a PyAsn1Error.  *)
(***************************************************************************)
THEOREM ErrorsAreKept == Spec => []OnlyExcessEscapes
<1>1. IInv => OnlyExcessEscapes
  BY DEF IInv
<1> QED
  BY <1>1, Invariant, PTL

\* The assignment of a complete value is one the schema allows, and placed is
\* what it leaves in the fields.
LEMMA TraceIsAFilling ==
    ASSUME IInv, status = "value", fields # <<>>
    PROVE  placed \in Fillings
<1>1. /\ read = Len(wire) /\ RequiredSeen /\ placed \in [Positions -> 0..read]
      /\ read \in Nat
  BY Basics DEF IInv, TypeOK, Complete, Shaped
<1>2. PICK m \in [1..read -> Positions] : Follows(m)
  BY DEF IInv, Traced
<1>3. Fills(m)
  <2>1. \A i \in Required : \E k \in 1..read : m[k] = i
    BY <1>1, <1>2 DEF RequiredSeen, Follows, Required
  <2>2. Required \subseteq {m[k] : k \in DOMAIN m}
    BY <1>2, <2>1
  <2> QED
    BY <1>2, <2>2 DEF Fills, Follows
<1>4. placed = Filling(m)
  <2>1. SUFFICES ASSUME NEW i \in Positions
                 PROVE  placed[i] = Filling(m)[i]
    BY <1>1 DEF Filling
  <2> DEFINE Last(k) == m[k] = i /\ \A l \in k + 1..Len(wire) : m[l] # i
  <2>2. Filling(m)[i] = IF \E k \in 1..read : m[k] = i
                        THEN CHOOSE k \in 1..read : Last(k) ELSE 0
    BY <1>2 DEF Filling
  <2>3. CASE placed[i] = 0
    BY <1>2, <2>2, <2>3 DEF Follows
  <2>4. CASE placed[i] # 0
    <3>1. /\ placed[i] \in 1..read /\ m[placed[i]] = i
          /\ \A k \in 1..read : m[k] = i => k <= placed[i]
      BY <1>2, <2>4 DEF Follows
    <3>2. Last(placed[i])
      BY <1>1, <3>1
    <3>3. \A k \in 1..read : Last(k) => k = placed[i]
      BY <1>1, <3>1
    <3>4. (CHOOSE k \in 1..read : Last(k)) = placed[i]
      BY <3>1, <3>2, <3>3
    <3> QED
      BY <2>2, <3>1, <3>4
  <2> QED
    BY <2>3, <2>4
<1> QED
  BY <1>1, <1>2, <1>3, <1>4 DEF Fillings

(***************************************************************************)
(* Whatever the schema, the components and the length form: a value that   *)
(* comes back holds every component where the schema puts it, in order in  *)
(* a SEQUENCE, and has all its required fields.                            *)
(***************************************************************************)
THEOREM ComponentsArePlaced == Spec => []PlacedAsTheSchemaSays
<1>1. IInv => PlacedAsTheSchemaSays
  BY TraceIsAFilling DEF PlacedAsTheSchemaSays
<1> QED
  BY <1>1, Invariant, PTL

(***************************************************************************)
(* The other direction: a message of a legal schema of any size, one whose *)
(* components suit its fields in some way, is never refused.               *)
(***************************************************************************)
THEOREM MessagesAreAccepted == Spec => []AcceptsTheSchema
<1>1. ASSUME IInv
      PROVE  AcceptsTheSchema
  <2>1. SUFFICES ASSUME Legal, fields # <<>>, input.form # "open",
                        Indefinite /\ input.isSet =>
                            {wire[k] : k \in DOMAIN wire} \subseteq SelfDescribing,
                        status \notin {"decoding", "value"}
                 PROVE  Fillings = {}
    BY DEF AcceptsTheSchema
  <2>2. \A f \in Assignments : ~Fills(f)
    BY <1>1, <2>1 DEF IInv, Refused, Sound
  <2> QED
    BY <2>2 DEF Fillings, Assignments
<1> QED
  BY <1>1, Invariant, PTL
=============================================================================
