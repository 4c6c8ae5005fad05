-------------------------- MODULE BerGrammarProofs --------------------------
(***************************************************************************)
(* Proofs about BerDecoder, for any substrate, any of the rule sets and    *)
(* any nesting limit, and lemmas about the grammar of BerGrammar.          *)
(*                                                                         *)
(* The decoder: a step ends in one of four ways (Raise, Return, Continue,  *)
(* Call), and one lemma for each says what it takes for the invariant to   *)
(* survive it; the actions are then checked against these.                 *)
(*                                                                         *)
(* The grammar: the chart is what its productions say (ChartUnfolds).  TLC *)
(* computes it; here it is a function defined in terms of itself, so that  *)
(* there is such a function has to be proved.  Production of a span looks  *)
(* at spans of a smaller Size only; induction over sizes is done through   *)
(* the least size that is a counterexample (LeastElement).                 *)
(*                                                                         *)
(* Then what a reader of a window from its start needs to know:            *)
(*   Progress   what was read so far begins every way to read the rest     *)
(*   Complete   ... and there is nothing more to read                      *)
(*   Hopeless   the window cannot be read at all                           *)
(*   Only       one item starts at a position, and where it ends           *)
(*   Nothing    none does                                                  *)
(* and, for each production, what Only and Nothing of an item follow from. *)
(***************************************************************************)
EXTENDS BerCanonical, SequenceTheorems, WellFoundedInduction, TLAPS

-----------------------------------------------------------------------------
(* The invariant of the decoder.                                           *)

\* What the stage of a call in progress says about it.  A call that has read
\* its identifier is not too deep, nobody shortens its window before its
\* length is read, and an explicit tag that looks for its end has its value.
StageOK(f, i) ==
    /\ f.st # "enter" => i <= MaxNesting + 1
    /\ f.st \in {"enter", "length"} => f.stop = f.end
    /\ f.st = "closing" => f.len = Indefinite
    /\ f.st = "closing" \/ f.decoder = "ExplicitEnd" => parts[i] # <<>>

StagesOK == \A i \in 1..depth : StageOK(frames[i], i)

\* Every window lies in the substrate.
WindowsInside ==
    \A i \in 1..depth : 1 <= frames[i].start /\ frames[i].end <= Len(substrate) + 1

\* The end-of-octets is not in s.
NoSentinel(s) == \E S : EndOfOctets \notin S /\ s \in Seq(S)

PartsOK == \A i \in Levels : NoSentinel(parts[i])

IInv ==
    /\ TypeOK /\ WindowsNested /\ EooOnlyWhenAsked
    /\ StagesOK /\ WindowsInside /\ PartsOK

-----------------------------------------------------------------------------
LEMMA EmptyHasNoSentinel == NoSentinel(<<>>)
<1>1. EndOfOctets \notin {} /\ <<>> \in Seq({})
  OBVIOUS
<1> QED
  BY <1>1 DEF NoSentinel

LEMMA SentinelNotIn ==
    ASSUME NEW s, NoSentinel(s), NEW k \in DOMAIN s
    PROVE  s[k] # EndOfOctets
<1>1. PICK S : EndOfOctets \notin S /\ s \in Seq(S)
  BY DEF NoSentinel
<1>2. s[k] \in S
  BY <1>1
<1> QED
  BY <1>1, <1>2

LEMMA NoFrameIsAFrame == NoFrame \in Frame
<1>1. <<>> \in Seq(Octet)
  OBVIOUS
<1> QED
  BY <1>1 DEF NoFrame, NewFrame, Frame

LEMMA NewFrameIsAFrame ==
    ASSUME NEW pos \in Nat, NEW end \in Nat, NEW spec \in {"none", "fragment", "segment"},
           NEW tags \in Seq(Octet), NEW allowEoo \in BOOLEAN
    PROVE  /\ NewFrame(pos, end, spec, tags, allowEoo) \in Frame
           /\ NewFrame(pos, end, spec, tags, allowEoo).st = "enter"
           /\ NewFrame(pos, end, spec, tags, allowEoo).pos = pos
           /\ NewFrame(pos, end, spec, tags, allowEoo).start = pos
           /\ NewFrame(pos, end, spec, tags, allowEoo).end = end
           /\ NewFrame(pos, end, spec, tags, allowEoo).stop = end
           /\ NewFrame(pos, end, spec, tags, allowEoo).decoder = "none"
           /\ NewFrame(pos, end, spec, tags, allowEoo).allowEoo = allowEoo
  BY DEF NewFrame, Frame

LEMMA InitIsSound == Init => IInv
<1> SUFFICES ASSUME Init
             PROVE  IInv
  OBVIOUS
<1>1. input \in Inputs /\ substrate \in Seq(Octet) /\ input.rules \in {BER, CER, DER}
  BY InputsAssumption DEF Init, substrate
<1> DEFINE first == NewFrame(1, Len(substrate) + 1, "none", <<>>, FALSE)
<1>2. Len(substrate) + 1 \in Nat /\ 1 \in Nat /\ <<>> \in Seq(Octet) /\ FALSE \in BOOLEAN
  BY <1>1
<1>3. /\ first \in Frame /\ first.st = "enter" /\ first.pos = 1 /\ first.start = 1
      /\ first.end = Len(substrate) + 1 /\ first.stop = Len(substrate) + 1
      /\ first.decoder = "none" /\ first.allowEoo = FALSE
  BY <1>2 DEF NewFrame, Frame
<1> HIDE DEF first
<1>4. /\ depth = 1 /\ status = "decoding" /\ parts = [i \in Levels |-> <<>>]
      /\ result = [val |-> NoValue, pos |-> 1]
      /\ frames = [i \in Levels |-> IF i = 1 THEN first ELSE NoFrame]
  BY DEF Init, Called, first
<1>5. 1 \in Levels /\ frames[1] = first
  BY <1>4, MaxNestingAssumption DEF Levels
<1>6. TypeOK
  BY <1>1, <1>3, <1>4, NoFrameIsAFrame, MaxNestingAssumption DEF TypeOK
<1>7. WindowsNested
  BY <1>2, <1>3, <1>4, <1>5 DEF WindowsNested, Running, F
<1>8. EooOnlyWhenAsked
  BY <1>3, <1>4, <1>5, MaxNestingAssumption DEF EooOnlyWhenAsked, Running, F, Levels
<1>9. StagesOK /\ WindowsInside /\ PartsOK
  BY <1>2, <1>3, <1>4, <1>5, EmptyHasNoSentinel DEF StagesOK, StageOK, WindowsInside, PartsOK
<1> QED
  BY <1>6, <1>7, <1>8, <1>9 DEF IInv

-----------------------------------------------------------------------------
(* The four ways a step ends.                                              *)

LEMMA RaiseKeeps ==
    ASSUME IInv, NEW kind \in {"underrun", "malformed", "nesting", "unmodelled"},
           Raise(kind)
    PROVE  IInv'
<1>1. TypeOK'
  BY NoFrameIsAFrame, MaxNestingAssumption DEF IInv, TypeOK, Raise, substrate
<1>2. WindowsNested' /\ EooOnlyWhenAsked'
  BY DEF WindowsNested, EooOnlyWhenAsked, Running, Raise
<1>3. StagesOK' /\ WindowsInside' /\ PartsOK'
  BY EmptyHasNoSentinel DEF StagesOK, WindowsInside, PartsOK, Raise
<1> QED
  BY <1>1, <1>2, <1>3 DEF IInv

LEMMA ReturnKeeps ==
    ASSUME IInv, status = "decoding", depth > 0, NEW value, NEW pos \in F.start..F.end,
           value = EndOfOctets => F.allowEoo, Return(value, pos)
    PROVE  IInv'
<1> USE DEF IInv
<1>1. /\ depth \in 1..MaxNesting + 2 /\ depth \in Levels
      /\ \A i \in Levels : frames[i] \in Frame
  BY MaxNestingAssumption DEF TypeOK, Levels
<1>2. /\ depth' = depth - 1 /\ input' = input /\ status' \in {"decoding", "value"}
      /\ status' = "value" => depth = 1
      /\ result' = [val |-> value, pos |-> pos]
      /\ \A i \in 1..depth - 1 : frames'[i] = frames[i] /\ parts'[i] = parts[i]
      /\ \A i \in Levels : parts'[i] = IF i = depth THEN <<>> ELSE parts[i]
  BY <1>1, MaxNestingAssumption DEF Return, TypeOK, Levels
<1>3. pos \in Nat /\ F \in Frame
  BY <1>1 DEF F, Frame
<1>4. TypeOK'
  BY <1>1, <1>2, <1>3, NoFrameIsAFrame, MaxNestingAssumption DEF TypeOK, Return, substrate
<1>5. /\ result'.val = value /\ result'.pos = pos
      /\ depth > 1 => /\ F' = frames[depth - 1]
                      /\ F.allowEoo => F'.len = Indefinite /\ F'.decoder # "ExplicitTag"
                      /\ F'.pos <= F.start /\ F.end <= F'.stop
  BY <1>1, <1>2 DEF F, EooOnlyWhenAsked, WindowsNested
<1>6. WindowsNested'
  <2>1. depth > 1 => result'.pos \in F'.pos..F'.stop
    <3>1. depth > 1 => F' \in Frame
      BY <1>1, <1>5, MaxNestingAssumption DEF Levels
    <3>2. F.start <= pos /\ pos <= F.end
      BY <1>3 DEF Frame
    <3>3. depth > 1 => F'.pos \in Nat /\ F'.stop \in Nat /\ F.start \in Nat /\ F.end \in Nat
      BY <1>3, <3>1 DEF Frame
    <3> QED
      BY <1>3, <1>5, <3>2, <3>3
  <2> QED
    BY <2>1, <1>1, <1>2 DEF WindowsNested, Running, substrate
<1>7. EooOnlyWhenAsked'
  <2>1. \A i \in 1..depth' : frames'[i].allowEoo =>
            i > 1 /\ frames'[i - 1].len = Indefinite /\ frames'[i - 1].decoder # "ExplicitTag"
    BY <1>1, <1>2 DEF EooOnlyWhenAsked
  <2>2. Running("wait")' /\ result'.val = EndOfOctets =>
            IsIndefinite' /\ F'.decoder # "ExplicitTag"
    BY <1>1, <1>2, <1>5 DEF Running, IsIndefinite
  <2>3. status' = "value" => result'.val # EndOfOctets
    BY <1>1, <1>2, <1>5 DEF EooOnlyWhenAsked, F
  <2>4. \A i \in 1..depth' : \A k \in DOMAIN parts'[i] : parts'[i][k] # EndOfOctets
    BY <1>1, <1>2 DEF EooOnlyWhenAsked
  <2> QED
    BY <2>1, <2>2, <2>3, <2>4 DEF EooOnlyWhenAsked
<1>8. StagesOK' /\ WindowsInside'
  BY <1>1, <1>2 DEF StagesOK, StageOK, WindowsInside, substrate
<1>9. PartsOK'
  BY <1>2, EmptyHasNoSentinel DEF PartsOK
<1> QED
  BY <1>4, <1>6, <1>7, <1>8, <1>9

\* ExplicitClosing calls on behalf of another decoder, dec.
LEMMA CallKeeps ==
    ASSUME IInv, status = "decoding", depth > 0, F.st \in {"loop", "closing"},
           NEW dec \in {"Constructed", "OctetString", "ExplicitTag", "ExplicitEnd"},
           NEW spec \in {"none", "fragment", "segment"}, NEW tags \in Seq(Octet),
           NEW allowEoo \in BOOLEAN,
           allowEoo => F.len = Indefinite /\ dec # "ExplicitTag",
           dec = "ExplicitEnd" => parts[depth] # <<>>,
           frames' = [frames EXCEPT
                         ![depth] = [@ EXCEPT !.st = "wait", !.decoder = dec],
                         ![depth + 1] = NewFrame(F.pos, F.stop, spec, tags, allowEoo)],
           depth' = depth + 1, UNCHANGED <<input, parts, result, status>>
    PROVE  IInv'
<1> USE DEF IInv
<1> DEFINE new == NewFrame(F.pos, F.stop, spec, tags, allowEoo)
<1>1. /\ MaxNesting \in Nat /\ depth \in Nat
      /\ depth \in 1..MaxNesting + 1 /\ depth \in Levels /\ depth + 1 \in Levels
      /\ \A i \in 1..depth + 1 : i \in Levels
      /\ \A i \in Levels : frames[i] \in Frame
  BY MaxNestingAssumption DEF TypeOK, Levels, StagesOK, StageOK, F
<1>2. F \in Frame /\ F.pos \in Nat /\ F.stop \in Nat /\ F.end \in Nat /\ F.start \in Nat
  BY <1>1 DEF F, Frame
<1>3. /\ new \in Frame /\ new.st = "enter" /\ new.pos = F.pos /\ new.start = F.pos
      /\ new.end = F.stop /\ new.stop = F.stop /\ new.decoder = "none"
      /\ new.allowEoo = allowEoo
  BY <1>2 DEF NewFrame, Frame
<1> DEFINE waiting == [F EXCEPT !.st = "wait", !.decoder = dec]
<1>4. /\ waiting \in Frame /\ waiting.st = "wait" /\ waiting.decoder = dec
      /\ waiting.pos = F.pos /\ waiting.start = F.start /\ waiting.stop = F.stop
      /\ waiting.end = F.end /\ waiting.len = F.len /\ waiting.allowEoo = F.allowEoo
  BY <1>2 DEF Frame
<1>5. frames' = [frames EXCEPT ![depth] = waiting, ![depth + 1] = new]
  BY DEF F
<1> HIDE DEF new, waiting
<1>6. /\ frames'[depth] = waiting /\ frames'[depth + 1] = new
      /\ \A i \in 1..depth - 1 : frames'[i] = frames[i]
      /\ frames' \in [Levels -> Frame]
  <2>1. frames \in [Levels -> Frame] /\ depth # depth + 1
    BY <1>1 DEF TypeOK
  <2>2. \A i \in 1..depth - 1 : i # depth /\ i # depth + 1 /\ i \in Levels
    BY <1>1
  <2>3. \A i \in Levels : frames'[i] = IF i = depth + 1 THEN new ELSE IF i = depth THEN waiting ELSE frames[i]
    BY <2>1, <1>1, <1>5
  <2>4. frames' \in [Levels -> Frame]
    BY <2>1, <1>3, <1>4, <1>5
  <2> QED
    BY <2>1, <2>2, <2>3, <2>4, <1>1
<1>7. F.start <= F.pos /\ F.pos <= F.stop /\ F.stop <= F.end
  BY <1>1 DEF WindowsNested, F
<1>8. TypeOK'
  BY <1>1, <1>6, MaxNestingAssumption DEF TypeOK, substrate
<1>9. WindowsNested'
  <2>1. \A i \in 1..depth' : LET f == frames'[i]
                             IN  f.start <= f.pos /\ f.pos <= f.stop /\ f.stop <= f.end
    BY <1>1, <1>2, <1>3, <1>4, <1>6, <1>7 DEF WindowsNested
  <2>2. \A i \in 1..depth' - 1 : /\ frames'[i].st = "wait"
                                 /\ frames'[i].pos <= frames'[i + 1].start
                                 /\ frames'[i + 1].end <= frames'[i].stop
    <3>1. depth' - 1 = depth
      BY <1>1
    <3>5. SUFFICES ASSUME NEW i \in 1..depth
                   PROVE  /\ frames'[i].st = "wait"
                          /\ frames'[i].pos <= frames'[i + 1].start
                          /\ frames'[i + 1].end <= frames'[i].stop
      BY <3>1
    <3>2. CASE i = depth
      BY <1>1, <1>2, <1>3, <1>4, <1>6, <3>2
    <3>3. CASE i = depth - 1
      BY <1>1, <1>4, <1>6, <3>3 DEF WindowsNested, F
    <3>4. CASE i < depth - 1
      BY <1>1, <1>6, <3>4 DEF WindowsNested
    <3> QED
      BY <1>1, <3>2, <3>3, <3>4
  <2>3. frames'[1].end <= Len(substrate') + 1
    BY <1>1, <1>4, <1>6 DEF WindowsNested, substrate, F
  <2>4. ~Running("wait")'
    BY <1>1, <1>3, <1>6 DEF Running, F
  <2> QED
    BY <2>1, <2>2, <2>3, <2>4 DEF WindowsNested
<1>10. EooOnlyWhenAsked'
  <2>1. \A i \in 1..depth' : frames'[i].allowEoo =>
            i > 1 /\ frames'[i - 1].len = Indefinite /\ frames'[i - 1].decoder # "ExplicitTag"
    <3>1. SUFFICES ASSUME NEW i \in 1..depth + 1, frames'[i].allowEoo
                   PROVE  i > 1 /\ frames'[i - 1].len = Indefinite
                                /\ frames'[i - 1].decoder # "ExplicitTag"
      OBVIOUS
    <3>2. CASE i = depth + 1
      BY <1>1, <1>3, <1>4, <1>6, <3>1, <3>2
    <3>3. CASE i <= depth
      <4>1. /\ frames'[i].allowEoo = frames[i].allowEoo /\ i \in 1..depth
            /\ i > 1 => frames'[i - 1] = frames[i - 1]
        BY <1>1, <1>4, <1>6, <3>3 DEF F
      <4> QED
        BY <3>1, <4>1 DEF EooOnlyWhenAsked
    <3> QED
      BY <1>1, <3>2, <3>3
  <2>2. ~Running("wait")'
    BY <1>1, <1>3, <1>6 DEF Running, F
  <2>3. \A i \in 1..depth' : \A k \in DOMAIN parts'[i] : parts'[i][k] # EndOfOctets
    BY <1>1, SentinelNotIn DEF PartsOK
  <2>4. status' # "value"
    OBVIOUS
  <2> QED
    BY <2>1, <2>2, <2>3, <2>4 DEF EooOnlyWhenAsked
<1>11. StagesOK'
  <2>1. SUFFICES ASSUME NEW i \in 1..depth + 1
                 PROVE  StageOK(frames[i], i)'
    BY DEF StagesOK
  <2>2. CASE i = depth + 1
    BY <1>1, <1>3, <1>6, <2>2 DEF StageOK
  <2>3. CASE i = depth
    BY <1>1, <1>4, <1>6, <2>3 DEF StageOK
  <2>4. CASE i < depth
    BY <1>1, <1>6, <2>4 DEF StagesOK, StageOK
  <2> QED
    BY <1>1, <2>2, <2>3, <2>4
<1>12. WindowsInside'
  <2>1. SUFFICES ASSUME NEW i \in 1..depth + 1
                 PROVE  1 <= frames'[i].start /\ frames'[i].end <= Len(substrate) + 1
    BY DEF WindowsInside, substrate
  <2>2. 1 <= F.start /\ F.end <= Len(substrate) + 1 /\ Len(substrate) \in Nat
    BY <1>1 DEF WindowsInside, F, TypeOK
  <2>3. CASE i = depth + 1
    BY <1>1, <1>2, <1>3, <1>6, <1>7, <2>2, <2>3
  <2>4. CASE i = depth
    BY <1>1, <1>4, <1>6, <2>2, <2>4
  <2>5. CASE i < depth
    BY <1>1, <1>6, <2>5 DEF WindowsInside
  <2> QED
    BY <1>1, <2>3, <2>4, <2>5
<1>13. PartsOK'
  BY DEF PartsOK
<1> QED
  BY <1>8, <1>9, <1>10, <1>11, <1>12, <1>13

\* What the running frame may turn into.
Succeeds(f, p) ==
    /\ f \in Frame /\ f.st \in {"length", "codec", "loop", "closing"}
    /\ f.allowEoo = F.allowEoo /\ f.end = F.end
    /\ F.start <= f.start
    /\ f.start <= f.pos /\ f.pos <= f.stop /\ f.stop <= f.end
    /\ f.st = "length" => f.stop = f.end
    /\ f.st = "closing" => f.len = Indefinite
    /\ f.st = "closing" \/ f.decoder = "ExplicitEnd" => p # <<>>

LEMMA ContinueKeeps ==
    ASSUME IInv, status = "decoding", depth > 0, depth <= MaxNesting + 1, NEW f, NEW p,
           Succeeds(f, p), NoSentinel(p),
           Continue(f), DOMAIN parts' = Levels,
           \A i \in Levels : parts'[i] = IF i = depth THEN p ELSE parts[i]
    PROVE  IInv'
<1> USE DEF IInv
<1>1. /\ depth \in 1..MaxNesting + 1 /\ depth \in Levels
      /\ \A i \in Levels : frames[i] \in Frame
  BY MaxNestingAssumption DEF TypeOK, Levels
<1>2. /\ frames'[depth] = f /\ f \in Frame
      /\ \A i \in 1..depth - 1 : frames'[i] = frames[i]
      /\ frames' \in [Levels -> Frame]
      /\ depth' = depth /\ status' = status /\ input' = input /\ result' = result
      /\ f.st # "wait"
  BY <1>1 DEF Continue, TypeOK, Succeeds
<1>3. \A i \in Levels : parts'[i] = IF i = depth THEN p ELSE parts[i]
  BY <1>1 DEF TypeOK
<1>4. /\ F \in Frame /\ F.start \in Nat /\ F.end \in Nat /\ f.start \in Nat /\ f.pos \in Nat
      /\ f.stop \in Nat /\ f.end \in Nat
  BY <1>1, <1>2 DEF F, Frame
<1>5. TypeOK'
  BY <1>2, <1>1 DEF TypeOK, substrate
<1>6. WindowsNested'
  <2>1. \A i \in 1..depth' : LET g == frames'[i]
                             IN  g.start <= g.pos /\ g.pos <= g.stop /\ g.stop <= g.end
    BY <1>1, <1>2 DEF WindowsNested, Succeeds
  <2>2. SUFFICES \A i \in 1..depth - 1 : /\ frames'[i].st = "wait"
                                         /\ frames'[i].pos <= frames'[i + 1].start
                                         /\ frames'[i + 1].end <= frames'[i].stop
    <3>1. ~Running("wait")'
      BY <1>2 DEF Running, F
    <3>2. frames'[1].end <= Len(substrate') + 1
      BY <1>1, <1>2 DEF WindowsNested, substrate, F, Succeeds
    <3> QED
      BY <2>1, <2>2, <3>1, <3>2, <1>2 DEF WindowsNested
  <2>3. SUFFICES ASSUME NEW i \in 1..depth - 1
                 PROVE  /\ frames'[i].st = "wait"
                        /\ frames'[i].pos <= frames'[i + 1].start
                        /\ frames'[i + 1].end <= frames'[i].stop
    OBVIOUS
  <2>4. CASE i = depth - 1
    <3>1. /\ frames[i].st = "wait" /\ frames[i].pos <= F.start /\ F.end <= frames[i].stop
          /\ frames[i].pos \in Nat /\ frames[i].stop \in Nat
      BY <2>4, <1>1, MaxNestingAssumption DEF WindowsNested, F, Frame, Levels
    <3> QED
      BY <3>1, <2>4, <1>1, <1>2, <1>4 DEF Succeeds
  <2>5. CASE i < depth - 1
    BY <2>5, <1>1, <1>2 DEF WindowsNested
  <2> QED
    BY <2>4, <2>5, <1>1
<1>7. EooOnlyWhenAsked'
  <2>1. \A i \in 1..depth' : frames'[i].allowEoo =>
            i > 1 /\ frames'[i - 1].len = Indefinite /\ frames'[i - 1].decoder # "ExplicitTag"
    <3>1. \A i \in 1..depth : frames'[i].allowEoo = frames[i].allowEoo
      BY <1>1, <1>2 DEF Succeeds, F
    <3>2. \A i \in 1..depth : i > 1 => frames'[i - 1] = frames[i - 1]
      BY <1>1, <1>2
    <3> QED
      BY <3>1, <3>2, <1>2 DEF EooOnlyWhenAsked
  <2>2. ~Running("wait")'
    BY <1>2 DEF Running, F
  <2>3. \A i \in 1..depth' : \A k \in DOMAIN parts'[i] : parts'[i][k] # EndOfOctets
    <3>1. \A i \in 1..depth : i \in Levels /\ NoSentinel(parts'[i])
      BY <1>1, <1>3, MaxNestingAssumption DEF PartsOK, Levels
    <3> QED
      BY <3>1, <1>2, SentinelNotIn
  <2>4. status' # "value"
    BY <1>2
  <2> QED
    BY <2>1, <2>2, <2>3, <2>4 DEF EooOnlyWhenAsked
<1>8. StagesOK'
  <2>1. SUFFICES ASSUME NEW i \in 1..depth
                 PROVE  StageOK(frames[i], i)'
    BY <1>2 DEF StagesOK
  <2>2. CASE i = depth
    BY <2>2, <1>1, <1>2, <1>3 DEF StageOK, Succeeds
  <2>3. CASE i < depth
    BY <2>3, <1>1, <1>2, <1>3, MaxNestingAssumption DEF StagesOK, StageOK, Levels
  <2> QED
    BY <2>2, <2>3, <1>1
<1>9. WindowsInside'
  <2>1. 1 <= F.start /\ F.end <= Len(substrate) + 1
    BY <1>1 DEF WindowsInside, F
  <2> QED
    BY <2>1, <1>1, <1>2, <1>4 DEF WindowsInside, Succeeds, substrate
<1>10. PartsOK'
  BY <1>3 DEF PartsOK
<1> QED
  BY <1>5, <1>6, <1>7, <1>8, <1>9, <1>10

-----------------------------------------------------------------------------
(* The actions.                                                            *)

\* What is known of the running frame.
Known ==
    /\ status = "decoding" /\ depth \in 1..MaxNesting + 2 /\ depth \in Levels
    /\ MaxNesting \in Nat
    /\ F.st # "enter" => depth <= MaxNesting + 1
    /\ F \in Frame
    /\ F.start \in Nat /\ F.pos \in Nat /\ F.stop \in Nat /\ F.end \in Nat
    /\ 1 <= F.start /\ F.start <= F.pos /\ F.pos <= F.stop /\ F.stop <= F.end
    /\ F.end <= Len(substrate) + 1
    /\ F.tags \in Seq(Octet) /\ F.allowEoo \in BOOLEAN
    /\ substrate \in Seq(Octet)
    /\ StageOK(F, depth)
    /\ NoSentinel(parts[depth])
    /\ F.allowEoo => depth > 1
    /\ DOMAIN parts = Levels
    /\ result.pos \in Nat

LEMMA RunningIsKnown ==
    ASSUME IInv, NEW st, Running(st)
    PROVE  Known /\ F.st = st /\ depth > 0
<1> USE DEF IInv
<1>1. /\ MaxNesting \in Nat /\ depth \in 1..MaxNesting + 2 /\ depth \in Levels
      /\ F \in Frame /\ F.st = st /\ depth > 0 /\ status = "decoding"
  BY MaxNestingAssumption DEF TypeOK, Levels, Running, F
<1>2. /\ F.start \in Nat /\ F.pos \in Nat /\ F.stop \in Nat /\ F.end \in Nat
      /\ F.tags \in Seq(Octet) /\ F.allowEoo \in BOOLEAN
  BY <1>1 DEF Frame
<1>3. /\ 1 <= F.start /\ F.start <= F.pos /\ F.pos <= F.stop /\ F.stop <= F.end
      /\ F.end <= Len(substrate) + 1
  BY <1>1 DEF WindowsNested, WindowsInside, F
<1>4. StageOK(F, depth) /\ NoSentinel(parts[depth])
  BY <1>1 DEF StagesOK, PartsOK, F
<1>5. F.allowEoo => depth > 1
  BY <1>1 DEF EooOnlyWhenAsked, F
<1> QED
  BY <1>1, <1>2, <1>3, <1>4, <1>5 DEF Known, StageOK, TypeOK

LEMMA NestingExceededStep ==
    ASSUME IInv, NestingExceeded
    PROVE  IInv'
  BY RaiseKeeps DEF NestingExceeded

LEMMA EndOfOctetsSeenStep ==
    ASSUME IInv, EndOfOctetsSeen
    PROVE  IInv'
<1>1. Known /\ depth > 0
  BY RunningIsKnown DEF EndOfOctetsSeen
<1>2. F.pos + 2 \in F.start..F.end /\ F.allowEoo
  BY <1>1 DEF Known, EndOfOctetsSeen, AtEndOfOctets
<1> QED
  BY <1>1, <1>2, ReturnKeeps DEF Known, EndOfOctetsSeen

LEMMA DecodeTagStep ==
    ASSUME IInv, DecodeTag
    PROVE  IInv'
<1>1. Known /\ depth > 0 /\ F.st = "enter"
  BY RunningIsKnown DEF DecodeTag
<1>2. CASE Raise("underrun") \/ Raise("unmodelled")
  BY <1>2, RaiseKeeps
<1>3. CASE ~(Raise("underrun") \/ Raise("unmodelled"))
  <2> DEFINE f == [F EXCEPT !.st = "length", !.pos = @ + 1,
                            !.tags = <<substrate[F.pos]>> \o @]
  <2>1. F.pos < F.end /\ Continue(f) /\ UNCHANGED parts
    BY <1>3 DEF DecodeTag
  <2>2. substrate[F.pos] \in Octet
    BY <1>1, <2>1 DEF Known
  <2>3. <<substrate[F.pos]>> \o F.tags \in Seq(Octet)
    BY <1>1, <2>2 DEF Known
  <2>6. /\ f \in Frame /\ f.st = "length" /\ f.pos = F.pos + 1 /\ f.start = F.start
        /\ f.stop = F.stop /\ f.end = F.end /\ f.allowEoo = F.allowEoo
        /\ f.decoder = F.decoder
    <3> DEFINE tags == <<substrate[F.pos]>> \o F.tags
    <3>1. f = [F EXCEPT !.st = "length", !.pos = F.pos + 1, !.tags = tags]
      OBVIOUS
    <3>2. tags \in Seq(Octet) /\ F.pos + 1 \in Nat
      BY <1>1, <2>3 DEF Known
    <3> HIDE DEF f, tags
    <3> QED
      BY <1>1, <3>1, <3>2 DEF Known, Frame
  <2>4. Succeeds(f, parts[depth])
    BY <1>1, <2>1, <2>6 DEF Known, Succeeds, StageOK
  <2>7. ~TooDeep
    BY DEF DecodeTag
  <2>5. depth <= MaxNesting + 1
    BY <1>1, <2>7 DEF Known, TooDeep
  <2> HIDE DEF f
  <2> QED
    BY <1>1, <2>1, <2>4, <2>5, ContinueKeeps DEF Known
<1> QED
  BY <1>2, <1>3

LEMMA DecodeLengthStep ==
    ASSUME IInv, DecodeLength
    PROVE  IInv'
<1>1. Known /\ depth > 0 /\ F.st = "length"
  BY RunningIsKnown DEF DecodeLength
<1>2. CASE Raise("underrun") \/ Raise("malformed")
  BY <1>2, RaiseKeeps
<1>3. CASE ~(Raise("underrun") \/ Raise("malformed"))
  <2> DEFINE from == F.pos + LengthSize
             f == [F EXCEPT !.st = "codec", !.len = DecodedLength,
                            !.pos = from, !.start = from,
                            !.stop = IF DecodedLength = Indefinite THEN F.end
                                     ELSE from + DecodedLength]
  <2>1. /\ ~ShortOfLength /\ ~ShortOfLengthOctets /\ ~ShortOfContents
        /\ Continue(f) /\ UNCHANGED parts
    BY <1>3 DEF DecodeLength
  <2>2. substrate[F.pos] \in Octet
    BY <1>1, <2>1 DEF Known, ShortOfLength
  <2>3. LengthSize \in Nat /\ LengthSize >= 1
    BY <2>2 DEF LengthSize, Octet
  <2>4. from \in Nat /\ F.pos <= from /\ from <= F.end
    <3>1. ~(from > F.end)
      BY <2>1 DEF ShortOfLengthOctets
    <3> QED
      BY <1>1, <2>3, <3>1 DEF Known
  <2>5. DecodedLength = Indefinite \/ DecodedLength \in 0..(F.end - from)
    BY <2>1 DEF ShortOfContents
  <2>6. DecodedLength \in Nat \cup {Indefinite}
    BY <1>1, <2>4, <2>5 DEF Known
  <2> DEFINE stop == IF DecodedLength = Indefinite THEN F.end ELSE from + DecodedLength
  <2>7. stop \in Nat /\ from <= stop /\ stop <= F.end
    BY <1>1, <2>4, <2>5 DEF Known, Indefinite
  <2>9. /\ f \in Frame /\ f.st = "codec" /\ f.pos = from /\ f.start = from
        /\ f.stop = stop /\ f.end = F.end /\ f.allowEoo = F.allowEoo
        /\ f.decoder = F.decoder
    <3> HIDE DEF from
    <3>1. f = [F EXCEPT !.st = "codec", !.len = DecodedLength,
                        !.pos = from, !.start = from, !.stop = stop]
      OBVIOUS
    <3> HIDE DEF f, stop
    <3> QED
      BY <1>1, <2>4, <2>6, <2>7, <3>1 DEF Known, Frame
  <2> HIDE DEF from, stop, f
  <2>8. Succeeds(f, parts[depth])
    BY <1>1, <2>4, <2>7, <2>9 DEF Known, Succeeds, StageOK
  <2>10. depth <= MaxNesting + 1
    BY <1>1 DEF Known
  <2> QED
    BY <1>1, <2>1, <2>8, <2>10, ContinueKeeps DEF Known
<1> QED
  BY <1>2, <1>3

LEMMA NoCodecStep ==
    ASSUME IInv, NoCodec
    PROVE  IInv'
  BY RaiseKeeps DEF NoCodec

LEMMA OthersAreNoSentinel ==
    /\ \A type, tags, octs : type # "EndOfOctets" => Leaf(type, tags, octs) # EndOfOctets
    /\ \A tags, kids : Container(tags, kids) # EndOfOctets
<1>1. EndOfOctets.type = "EndOfOctets"
  BY DEF EndOfOctets, Leaf
<1>2. \A type, tags, octs : Leaf(type, tags, octs).type = type
  BY DEF Leaf
<1>3. \A tags, kids : Container(tags, kids).type \in {"Record", "SequenceOf"}
  BY DEF Container
<1> QED
  BY <1>1, <1>2, <1>3

LEMMA DecodeSimpleStep ==
    ASSUME IInv, DecodeSimple
    PROVE  IInv'
<1>1. Known /\ depth > 0
  BY RunningIsKnown DEF DecodeSimple
<1>2. CASE Raise("malformed")
  BY <1>2, RaiseKeeps
<1>3. CASE ~Raise("malformed")
  <2>1. /\ Codec \in {"Integer", "Boolean", "Null"}
        /\ Return(Leaf(Codec, TagSet(F), Octets(F.pos, F.stop)), F.stop)
    BY <1>3 DEF DecodeSimple
  <2>2. Leaf(Codec, TagSet(F), Octets(F.pos, F.stop)) # EndOfOctets
    BY <2>1, OthersAreNoSentinel
  <2> QED
    BY <1>1, <2>1, <2>2, ReturnKeeps DEF Known
<1> QED
  BY <1>2, <1>3

LEMMA CollectFragmentStep ==
    ASSUME IInv, CollectFragment
    PROVE  IInv'
<1>1. Known /\ depth > 0
  BY RunningIsKnown DEF CollectFragment
<1>2. CollectedUpTo \in F.start..F.end
  BY <1>1 DEF Known, CollectedUpTo
<1>3. Leaf("Octets", TagSet(F), Octets(F.pos, CollectedUpTo)) # EndOfOctets
  BY OthersAreNoSentinel
<1> QED
  BY <1>1, <1>2, <1>3, ReturnKeeps DEF Known, CollectFragment

LEMMA DecodePrimitiveStringStep ==
    ASSUME IInv, DecodePrimitiveString
    PROVE  IInv'
<1>1. Known /\ depth > 0
  BY RunningIsKnown DEF DecodePrimitiveString
<1>2. Leaf("OctetString", TagSet(F), Octets(F.pos, F.stop)) # EndOfOctets
  BY OthersAreNoSentinel
<1>3. F.stop \in F.start..F.end
  BY <1>1 DEF Known
<1> QED
  BY <1>1, <1>2, <1>3, ReturnKeeps DEF Known, DecodePrimitiveString

\* Decoders and stages change, the window and what it was called for do not.
LEMMA NextStageKeeps ==
    ASSUME IInv, Known, depth > 0, F.st \in {"codec", "wait"},
           NEW st \in {"loop", "closing"}, NEW pos \in F.start..F.stop,
           NEW dec \in {"Constructed", "OctetString", "ExplicitTag"}, NEW p, NoSentinel(p),
           st = "closing" => F.len = Indefinite /\ p # <<>>,
           Continue([F EXCEPT !.st = st, !.decoder = dec, !.pos = pos]),
           DOMAIN parts' = Levels,
           \A i \in Levels : parts'[i] = IF i = depth THEN p ELSE parts[i]
    PROVE  IInv'
<1> DEFINE f == [F EXCEPT !.st = st, !.decoder = dec, !.pos = pos]
<1>1. /\ f \in Frame /\ f.st = st /\ f.decoder = dec /\ f.pos = pos /\ f.start = F.start
      /\ f.stop = F.stop /\ f.end = F.end /\ f.allowEoo = F.allowEoo /\ f.len = F.len
  <2>1. pos \in Nat
    BY DEF Known
  <2> QED
    BY <2>1 DEF Known, Frame
<1> HIDE DEF f
<1>2. Succeeds(f, p)
  BY <1>1 DEF Known, Succeeds
<1>3. depth <= MaxNesting + 1
  BY DEF Known
<1> QED
  BY <1>2, <1>3, ContinueKeeps DEF Known, f

LEMMA OpenContentsStep ==
    ASSUME IInv, OpenContents
    PROVE  IInv'
<1>1. Known /\ depth > 0 /\ F.st = "codec"
  BY RunningIsKnown DEF OpenContents
<1>2. CASE Raise("malformed")
  BY <1>2, RaiseKeeps
<1>3. CASE ~Raise("malformed")
  <2>1. /\ Codec \in {"Constructed", "ExplicitTag", "OctetString"}
        /\ Continue([F EXCEPT !.st = "loop", !.decoder = Codec]) /\ UNCHANGED parts
    BY <1>3 DEF OpenContents
  <2>2. [F EXCEPT !.st = "loop", !.decoder = Codec]
            = [F EXCEPT !.st = "loop", !.decoder = Codec, !.pos = F.pos]
    BY <1>1 DEF Known, Frame
  <2>3. F.pos \in F.start..F.stop
    BY <1>1 DEF Known
  <2> QED
    BY <1>1, <2>1, <2>2, <2>3, NextStageKeeps DEF Known
<1> QED
  BY <1>2, <1>3

\* The four decoders that call the decoder for what they find.
LEMMA NestedCallKeeps ==
    ASSUME IInv, Known, depth > 0, F.st = "loop",
           F.decoder \in {"Constructed", "OctetString", "ExplicitTag"},
           NEW spec \in {"none", "fragment", "segment"}, NEW tags \in Seq(Octet),
           NEW allowEoo \in BOOLEAN,
           allowEoo => F.len = Indefinite /\ F.decoder # "ExplicitTag",
           Call(spec, tags, allowEoo)
    PROVE  IInv'
<1>1. [F EXCEPT !.st = "wait"] = [F EXCEPT !.st = "wait", !.decoder = F.decoder]
  BY DEF Known, Frame
<1>2. frames' = [frames EXCEPT
                    ![depth] = [@ EXCEPT !.st = "wait", !.decoder = F.decoder],
                    ![depth + 1] = NewFrame(F.pos, F.stop, spec, tags, allowEoo)]
  BY <1>1 DEF Call, F
<1> QED
  BY <1>2, CallKeeps DEF Known, Call

LEMMA NextComponentStep ==
    ASSUME IInv, NextComponent \/ NextFragment
    PROVE  IInv'
<1>1. Known /\ depth > 0 /\ F.st = "loop"
  BY RunningIsKnown DEF NextComponent, NextFragment
<1>2. <<>> \in Seq(Octet) /\ IsIndefinite \in BOOLEAN /\ (IsIndefinite <=> F.len = Indefinite)
  BY DEF IsIndefinite
<1>3. CASE NextComponent
  BY <1>1, <1>2, <1>3, NestedCallKeeps DEF NextComponent
<1>4. CASE NextFragment
  <2>1. CASE Raise("malformed")
    BY <2>1, RaiseKeeps
  <2>2. CASE Call(SpecOfFragments, <<>>, IsIndefinite)
    <3>1. SpecOfFragments \in {"none", "fragment", "segment"}
      BY DEF SpecOfFragments
    <3> QED
      BY <1>1, <1>2, <1>4, <2>2, <3>1, NestedCallKeeps DEF NextFragment
  <2> QED
    BY <1>4, <2>1, <2>2 DEF NextFragment
<1> QED
  BY <1>3, <1>4

LEMMA ExplicitValueStep ==
    ASSUME IInv, ExplicitValue
    PROVE  IInv'
<1>1. Known /\ depth > 0 /\ F.st = "loop"
  BY RunningIsKnown DEF ExplicitValue
<1> QED
  BY <1>1, NestedCallKeeps DEF Known, ExplicitValue

LEMMA AssembledIsNoSentinel == Assembled # EndOfOctets
  BY OthersAreNoSentinel DEF Assembled

LEMMA ContentsExhaustedStep ==
    ASSUME IInv, ContentsExhausted
    PROVE  IInv'
<1>1. Known /\ depth > 0
  BY RunningIsKnown DEF ContentsExhausted
<1>2. CASE Raise("underrun")
  BY <1>2, RaiseKeeps
<1>3. CASE ~Raise("underrun")
  <2>1. Return(Assembled, IF IsIndefinite THEN F.pos ELSE F.stop)
    BY <1>3 DEF ContentsExhausted
  <2>2. F.pos \in F.start..F.end /\ F.stop \in F.start..F.end
    BY <1>1 DEF Known
  <2>3. (IF IsIndefinite THEN F.pos ELSE F.stop) \in F.start..F.end
    BY <2>2
  <2> QED
    BY <1>1, <2>1, <2>3, AssembledIsNoSentinel, ReturnKeeps DEF Known
<1> QED
  BY <1>2, <1>3

\* What a call in progress gets back lies in its window.
LEMMA ReturnedIsInWindow ==
    ASSUME IInv, Running("wait")
    PROVE  /\ result.pos \in F.pos..F.stop
           /\ result.pos \in F.start..F.stop /\ result.pos \in F.start..F.end
           /\ F.decoder = "ExplicitTag" => result.val # EndOfOctets
<1>1. Known
  BY RunningIsKnown
<1>2. result.pos \in F.pos..F.stop
  BY DEF IInv, WindowsNested
<1>3. F.decoder = "ExplicitTag" => result.val # EndOfOctets
  BY DEF IInv, EooOnlyWhenAsked
<1> QED
  BY <1>1, <1>2, <1>3 DEF Known

LEMMA AppendingKeeps ==
    ASSUME NEW s, NoSentinel(s), NEW v, v # EndOfOctets
    PROVE  NoSentinel(Append(s, v))
<1>1. PICK S : EndOfOctets \notin S /\ s \in Seq(S)
  BY DEF NoSentinel
<1>2. s \in Seq(S \cup {v})
  BY <1>1
<1>3. Append(s, v) \in Seq(S \cup {v}) /\ EndOfOctets \notin S \cup {v}
  BY <1>1, <1>2
<1> QED
  BY <1>3 DEF NoSentinel

LEMMA ComponentDecodedStep ==
    ASSUME IInv, ComponentDecoded
    PROVE  IInv'
<1>1. Known /\ depth > 0 /\ F.st = "wait" /\ result.pos \in F.start..F.stop
  BY RunningIsKnown, ReturnedIsInWindow DEF ComponentDecoded
<1> DEFINE p == Append(parts[depth], result.val)
<1>2. NoSentinel(p)
  BY <1>1, AppendingKeeps DEF Known, ComponentDecoded
<1>3. DOMAIN parts' = Levels /\ \A i \in Levels : parts'[i] = IF i = depth THEN p ELSE parts[i]
  BY <1>1 DEF Known, ComponentDecoded
<1>4. [F EXCEPT !.st = "loop", !.pos = result.pos]
          = [F EXCEPT !.st = "loop", !.decoder = F.decoder, !.pos = result.pos]
  BY <1>1 DEF Known, Frame
<1>5. /\ Continue([F EXCEPT !.st = "loop", !.decoder = F.decoder, !.pos = result.pos])
      /\ F.decoder \in {"Constructed", "OctetString"}
  BY <1>4 DEF ComponentDecoded
<1> HIDE DEF p
<1> QED
  BY <1>1, <1>2, <1>3, <1>5, NextStageKeeps

LEMMA ContentsClosedStep ==
    ASSUME IInv, ContentsClosed
    PROVE  IInv'
<1>1. Known /\ depth > 0 /\ result.pos \in F.start..F.end
  BY RunningIsKnown, ReturnedIsInWindow DEF ContentsClosed
<1>2. CASE Raise("malformed")
  BY <1>2, RaiseKeeps
<1>3. CASE Return(Assembled, result.pos)
  BY <1>1, <1>3, AssembledIsNoSentinel, ReturnKeeps DEF Known
<1> QED
  BY <1>2, <1>3 DEF ContentsClosed

LEMMA RereadKeeps ==
    ASSUME IInv, Running("wait"), RereadAsConstructed
    PROVE  IInv'
<1>1. Known /\ depth > 0 /\ F.st = "wait"
  BY RunningIsKnown
<1>2. F.start \in F.start..F.stop
  BY <1>1 DEF Known
<1>3. DOMAIN parts' = Levels
      /\ \A i \in Levels : parts'[i] = IF i = depth THEN <<>> ELSE parts[i]
  BY <1>1 DEF Known, RereadAsConstructed
<1> QED
  BY <1>1, <1>2, <1>3, EmptyHasNoSentinel, NextStageKeeps DEF RereadAsConstructed

LEMMA ExplicitDecodedStep ==
    ASSUME IInv, ExplicitDecoded
    PROVE  IInv'
<1>1. /\ Known /\ depth > 0 /\ F.st = "wait" /\ result.val # EndOfOctets
      /\ result.pos \in F.start..F.stop
  BY RunningIsKnown, ReturnedIsInWindow DEF ExplicitDecoded
<1>2. CASE Return(result.val, F.stop)
  <2>1. F.stop \in F.start..F.end
    BY <1>1 DEF Known
  <2> QED
    BY <1>1, <1>2, <2>1, ReturnKeeps DEF Known
<1>3. CASE RereadAsConstructed
  BY <1>3, RereadKeeps DEF ExplicitDecoded
<1>4. CASE /\ IsIndefinite
           /\ parts' = [parts EXCEPT ![depth] = <<result.val>>]
           /\ Continue([F EXCEPT !.st = "closing", !.pos = result.pos])
  <2> DEFINE p == <<result.val>>
  <2>1. NoSentinel(p) /\ p # <<>>
    <3>1. p \in Seq({result.val}) /\ EndOfOctets \notin {result.val}
      BY <1>1
    <3> QED
      BY <3>1 DEF NoSentinel
  <2>2. DOMAIN parts' = Levels /\ \A i \in Levels : parts'[i] = IF i = depth THEN p ELSE parts[i]
    BY <1>1, <1>4 DEF Known
  <2>3. F.decoder = "ExplicitTag"
    BY DEF ExplicitDecoded
  <2>4. [F EXCEPT !.st = "closing", !.pos = result.pos]
            = [F EXCEPT !.st = "closing", !.decoder = "ExplicitTag", !.pos = result.pos]
    BY <1>1, <2>3 DEF Known, Frame
  <2> HIDE DEF p
  <2> QED
    BY <1>1, <1>4, <2>1, <2>2, <2>4, NextStageKeeps DEF IsIndefinite
<1> QED
  BY <1>2, <1>3, <1>4 DEF ExplicitDecoded

LEMMA ExplicitClosingStep ==
    ASSUME IInv, ExplicitClosing
    PROVE  IInv'
<1>1. Known /\ depth > 0 /\ F.st = "closing"
  BY RunningIsKnown DEF ExplicitClosing
<1>2. frames' = [frames EXCEPT
                    ![depth] = [@ EXCEPT !.st = "wait", !.decoder = "ExplicitEnd"],
                    ![depth + 1] = NewFrame(F.pos, F.stop, "none", <<>>, TRUE)]
  BY <1>1 DEF ExplicitClosing, Known, IInv, TypeOK
<1>3. <<>> \in Seq(Octet) /\ F.len = Indefinite /\ parts[depth] # <<>>
  BY <1>1 DEF Known, StageOK
<1> QED
  BY <1>1, <1>2, <1>3, CallKeeps DEF Known, ExplicitClosing

LEMMA ExplicitClosedStep ==
    ASSUME IInv, ExplicitClosed
    PROVE  IInv'
<1>1. /\ Known /\ depth > 0 /\ F.st = "wait" /\ F.decoder = "ExplicitEnd"
      /\ result.pos \in F.start..F.end
  BY RunningIsKnown, ReturnedIsInWindow DEF ExplicitClosed
<1>2. CASE Return(parts[depth][1], result.pos)
  <2>1. NoSentinel(parts[depth]) /\ parts[depth] # <<>>
    BY <1>1 DEF Known, StageOK
  <2>2. 1 \in DOMAIN parts[depth]
    BY <2>1 DEF NoSentinel
  <2>3. parts[depth][1] # EndOfOctets
    BY <2>1, <2>2, SentinelNotIn
  <2> QED
    BY <1>1, <1>2, <2>3, ReturnKeeps DEF Known
<1>3. CASE RereadAsConstructed
  BY <1>3, RereadKeeps DEF ExplicitClosed
<1> QED
  BY <1>2, <1>3 DEF ExplicitClosed

LEMMA StutteringKeeps ==
    ASSUME IInv, UNCHANGED vars
    PROVE  IInv'
<1>1. /\ input' = input /\ frames' = frames /\ parts' = parts /\ depth' = depth
      /\ result' = result /\ status' = status
  BY DEF vars
<1>2. TypeOK' /\ WindowsNested' /\ EooOnlyWhenAsked'
  BY <1>1 DEF IInv, TypeOK, WindowsNested, EooOnlyWhenAsked, substrate, F, Running,
              IsIndefinite
<1>3. StagesOK' /\ WindowsInside' /\ PartsOK'
  BY <1>1 DEF IInv, StagesOK, StageOK, WindowsInside, PartsOK, substrate
<1> QED
  BY <1>2, <1>3 DEF IInv

-----------------------------------------------------------------------------
(***************************************************************************)
(* What the stages of the decoder rest on holds in every state.            *)
(***************************************************************************)
THEOREM Invariant == Spec => []IInv
<1>1. IInv /\ [Next]_vars => IInv'
  <2> SUFFICES ASSUME IInv, [Next]_vars
               PROVE  IInv'
    OBVIOUS
  <2>1. CASE UNCHANGED vars
    BY <2>1, StutteringKeeps
  <2>2. CASE Next
    BY <2>2, NestingExceededStep, EndOfOctetsSeenStep, DecodeTagStep, DecodeLengthStep,
       NoCodecStep, DecodeSimpleStep, CollectFragmentStep, DecodePrimitiveStringStep,
       OpenContentsStep, NextComponentStep, ExplicitValueStep, ContentsExhaustedStep,
       ComponentDecodedStep, ContentsClosedStep, ExplicitDecodedStep,
       ExplicitClosingStep, ExplicitClosedStep, StutteringKeeps
       DEF Next, Step, Finished
  <2> QED
    BY <2>1, <2>2
<1> QED
  BY <1>1, InitIsSound, PTL DEF Spec

(***************************************************************************)
(* The state of the decoder keeps its type; with it, decode() is never     *)
(* more than MAX_NESTING_DEPTH + 2 calls deep, whatever it is given.       *)
(***************************************************************************)
THEOREM Typed == Spec => []TypeOK
<1>1. IInv => TypeOK
  BY DEF IInv
<1> QED
  BY <1>1, Invariant, PTL

(***************************************************************************)
(* No call of the decoder looks outside the contents it was given, or      *)
(* hands back a position outside of them, for any octets and any limit.    *)
(***************************************************************************)
THEOREM CallsKeepToTheirWindows == Spec => []WindowsNested
<1>1. IInv => WindowsNested
  BY DEF IInv
<1> QED
  BY <1>1, Invariant, PTL

(***************************************************************************)
(* The end-of-octets sentinel only reaches a decoder that asked for it, is *)
(* no component of a value and not what decode() returns.                  *)
(***************************************************************************)
THEOREM SentinelStaysInside == Spec => []EooOnlyWhenAsked
<1>1. IInv => EooOnlyWhenAsked
  BY DEF IInv
<1> QED
  BY <1>1, Invariant, PTL

-----------------------------------------------------------------------------
(* The chart is what its productions say.                                  *)

\* Every non-empty set of naturals has a least element.
LEMMA LeastElement ==
    ASSUME NEW T, T \subseteq Nat, T # {}
    PROVE  \E x \in T : \A y \in T : x <= y
<1>1. \E x \in T : \A y \in T : ~ (<<y, x>> \in OpToRel(<, Nat))
  BY NatLessThanWellFounded, WFMin
<1>2. ASSUME NEW x \in T, NEW y \in T, ~ (<<y, x>> \in OpToRel(<, Nat))
      PROVE  x <= y
  BY <1>2 DEF OpToRel
<1> QED
  BY <1>1, <1>2

Positions(in) == 1..Len(in.octets) + 1

IsInput(in) == in.octets \in Seq(Octet)

\* Productions look at spans of a smaller size only.
Size(in, what, p, q) == 2 * (Len(in.octets) + 1 + q - p) + IF what = "run" THEN 1 ELSE 0

Agree(in, f, g, n) ==
    \A what \in {"item", "run"}, spec \in {"none", "fragment", "segment"},
       p, q, w \in Positions(in) :
        Size(in, what, p, q) < n => f[<<what, spec, p, q, w>>] = g[<<what, spec, p, q, w>>]

LEMMA SizeIsNatural ==
    ASSUME NEW in, IsInput(in), NEW what, NEW p \in Positions(in), NEW q \in Positions(in)
    PROVE  /\ Size(in, what, p, q) \in Nat
           /\ Size(in, what, p, q) <= 4 * (Len(in.octets) + 1) + 1
<1>1. PICK n \in Nat : n = Len(in.octets)
  BY DEF IsInput
<1>2. p \in 1..n + 1 /\ q \in 1..n + 1
  BY <1>1 DEF Positions
<1>3. PICK b \in 0..1 : b = IF what = "run" THEN 1 ELSE 0
  OBVIOUS
<1>4. Size(in, what, p, q) = 2 * (n + 1 + q - p) + b
  BY <1>1, <1>3 DEF Size
<1>5. p \in Int /\ q \in Int /\ 1 <= p /\ p <= n + 1 /\ 1 <= q /\ q <= n + 1
      /\ b \in Int /\ 0 <= b /\ b <= 1
  BY <1>2
<1>6. /\ 2 * (n + 1 + q - p) + b \in Nat
      /\ 2 * (n + 1 + q - p) + b <= 4 * (n + 1) + 1
  BY <1>5
<1> QED
  BY <1>1, <1>4, <1>6

\* How sizes compare.
LEMMA SmallerSizes ==
    ASSUME NEW in, IsInput(in), NEW p \in Positions(in), NEW q \in Positions(in),
           NEW m \in Positions(in)
    PROVE  /\ m <= q => Size(in, "item", p, m) < Size(in, "run", p, q)
           /\ m > p => Size(in, "run", m, q) < Size(in, "item", p, q)
           /\ Size(in, "item", p, q) < Size(in, "run", p, q)
<1>1. PICK n \in Nat : n = Len(in.octets)
  BY DEF IsInput
<1>2. p \in 1..n + 1 /\ q \in 1..n + 1 /\ m \in 1..n + 1
  BY <1>1 DEF Positions
<1>3. \A x, y : /\ Size(in, "item", x, y) = 2 * (n + 1 + y - x) + 0
                /\ Size(in, "run", x, y) = 2 * (n + 1 + y - x) + 1
  BY <1>1 DEF Size
<1> QED
  BY <1>1, <1>2, <1>3

LEMMA AgreeAt ==
    ASSUME NEW in, NEW f, NEW g, NEW n, Agree(in, f, g, n),
           NEW what \in {"item", "run"}, NEW spec \in {"none", "fragment", "segment"},
           NEW p \in Positions(in), NEW q \in Positions(in), NEW w \in Positions(in),
           Size(in, what, p, q) < n
    PROVE  f[<<what, spec, p, q, w>>] = g[<<what, spec, p, q, w>>]
  BY DEF Agree

LEMMA AgreeBelow ==
    ASSUME NEW in, IsInput(in), NEW f, NEW g, NEW n \in Nat, Agree(in, f, g, n),
           NEW k \in Nat, k <= n
    PROVE  Agree(in, f, g, k)
<1>1. SUFFICES ASSUME NEW what \in {"item", "run"}, NEW spec \in {"none", "fragment", "segment"},
                      NEW p \in Positions(in), NEW q \in Positions(in),
                      NEW w \in Positions(in), Size(in, what, p, q) < k
               PROVE  f[<<what, spec, p, q, w>>] = g[<<what, spec, p, q, w>>]
  BY DEF Agree
<1>2. Size(in, what, p, q) < n
  BY <1>1, SizeIsNatural
<1> QED
  BY <1>2, AgreeAt

LEMMA RunsAreLocal ==
    ASSUME NEW in, IsInput(in), NEW f, NEW g, NEW spec \in {"none", "fragment", "segment"},
           NEW p \in Positions(in), NEW q \in Positions(in), NEW w \in Positions(in),
           Agree(in, f, g, Size(in, "run", p, q))
    PROVE  Runs(f, spec, p, q, w) = Runs(g, spec, p, q, w)
<1>1. ASSUME NEW m \in p + 2..q
      PROVE  /\ f[<<"item", spec, p, m, w>>] = g[<<"item", spec, p, m, w>>]
             /\ f[<<"run", spec, m, q, w>>] = g[<<"run", spec, m, q, w>>]
  <2>1. m \in Positions(in)
    BY DEF Positions, IsInput
  <2>2. /\ Size(in, "item", p, m) < Size(in, "run", p, q)
        /\ Size(in, "run", m, q) < Size(in, "run", p, q)
    <3>1. /\ m <= q /\ p < m
          /\ p \in Nat /\ m \in Nat
      BY <2>1 DEF Positions
    <3>2. Size(in, "item", p, q) \in Nat /\ Size(in, "run", m, q) \in Nat
          /\ Size(in, "run", p, q) \in Nat
      BY <2>1, SizeIsNatural
    <3>3. p <= q
      BY <3>1 DEF Positions
    <3>4. Size(in, "item", p, q) < Size(in, "run", p, q)
      BY SmallerSizes
    <3>5. Size(in, "item", p, m) < Size(in, "run", p, q)
      BY <2>1, <3>1, SmallerSizes
    <3>6. Size(in, "run", m, q) < Size(in, "item", p, q)
      BY <2>1, <3>1, SmallerSizes
    <3> QED
      BY <3>2, <3>4, <3>5, <3>6
  <2>3. f[<<"item", spec, p, m, w>>] = g[<<"item", spec, p, m, w>>]
    <3>1. PICK y \in Positions(in) : y = m
      BY <2>1
    <3>2. Size(in, "item", p, y) < Size(in, "run", p, q)
      BY <2>2, <3>1
    <3>3. f[<<"item", spec, p, y, w>>] = g[<<"item", spec, p, y, w>>]
      BY <3>2, AgreeAt
    <3> QED
      BY <3>1, <3>3
  <2>4. f[<<"run", spec, m, q, w>>] = g[<<"run", spec, m, q, w>>]
    BY <2>1, <2>2, AgreeAt
  <2> QED
    BY <2>3, <2>4
<1>2. {Prefixed(f[<<"item", spec, p, m, w>>], f[<<"run", spec, m, q, w>>]) : m \in p + 2..q}
      = {Prefixed(g[<<"item", spec, p, m, w>>], g[<<"run", spec, m, q, w>>]) : m \in p + 2..q}
  BY <1>1
<1> QED
  BY <1>2 DEF Runs

LEMMA HeadersAreRead ==
    ASSUME NEW in, IsInput(in), NEW p \in Positions(in), NEW q \in Positions(in),
           HeaderFits(in, p, q)
    PROVE  /\ in.octets[p] \in Octet /\ in.octets[p + 1] \in Octet
           /\ ContentsAt(in, p) \in p + 2..q
           /\ p + 2 <= q
<1>1. p \in 1..Len(in.octets) /\ p + 1 \in 1..Len(in.octets)
  BY DEF HeaderFits, Positions, IsInput
<1>2. in.octets[p] \in Octet /\ in.octets[p + 1] \in Octet
  BY <1>1 DEF IsInput
<1>3. SizeAt(in, p) \in Nat /\ SizeAt(in, p) >= 1
  BY <1>2 DEF SizeAt, Octet
<1> QED
  BY <1>1, <1>2, <1>3 DEF HeaderFits, ContentsAt, Positions, IsInput

LEMMA ContentsAreLocal ==
    ASSUME NEW in, IsInput(in), NEW f, NEW g, NEW spec \in {"none", "fragment", "segment"},
           NEW p \in Positions(in), NEW q \in Positions(in), NEW w \in Positions(in),
           HeaderFits(in, p, q), Agree(in, f, g, Size(in, "item", p, q)), NEW unclosed
    PROVE  Contents(in, f, spec, p, q, w, unclosed) = Contents(in, g, spec, p, q, w, unclosed)
<1> DEFINE c == ContentsAt(in, p)
<1>1. c \in p + 2..q /\ p + 2 <= q
  BY HeadersAreRead
<1>2. c \in Positions(in) /\ q - 2 \in Positions(in)
  BY <1>1 DEF Positions, IsInput
<1>3. /\ Size(in, "run", c, q) < Size(in, "item", p, q)
      /\ Size(in, "run", c, q - 2) < Size(in, "item", p, q)
  <2>1. p \in Nat /\ q \in Nat
    BY DEF Positions
  <2>2. PICK n \in Nat : n = Len(in.octets)
    BY DEF IsInput
  <2>3. /\ Size(in, "run", c, q) = 2 * (n + 1 + q - c) + 1
        /\ Size(in, "run", c, q - 2) = 2 * (n + 1 + (q - 2) - c) + 1
        /\ Size(in, "item", p, q) = 2 * (n + 1 + q - p) + 0
    BY <2>2 DEF Size
  <2> HIDE DEF c
  <2> QED
    BY <1>1, <2>1, <2>2, <2>3
<1> HIDE DEF c
<1>4. /\ f[<<"run", spec, c, q, q>>] = g[<<"run", spec, c, q, q>>]
      /\ f[<<"run", spec, c, q - 2, w>>] = g[<<"run", spec, c, q - 2, w>>]
      /\ f[<<"run", spec, c, q, w>>] = g[<<"run", spec, c, q, w>>]
  BY <1>2, <1>3 DEF Agree
<1> QED
  BY <1>4 DEF Contents, c

LEMMA ProductionsAreLocal ==
    ASSUME NEW in, IsInput(in), NEW f, NEW g,
           NEW what \in {"item", "run"}, NEW spec \in {"none", "fragment", "segment"},
           NEW p \in Positions(in), NEW q \in Positions(in), NEW w \in Positions(in),
           Agree(in, f, g, Size(in, what, p, q))
    PROVE  Production(in, f, what, spec, p, q, w) = Production(in, g, what, spec, p, q, w)
<1>1. CASE what = "run"
  BY <1>1, RunsAreLocal DEF Production
<1>2. CASE what = "item" /\ ~HeaderFits(in, p, q)
  BY <1>2 DEF Production, ValueItems, FragmentItems
<1>3. CASE what = "item" /\ HeaderFits(in, p, q)
  <2>1. \A u \in BOOLEAN : \A s \in {"none", "fragment", "segment"} :
            Contents(in, f, s, p, q, w, u) = Contents(in, g, s, p, q, w, u)
    BY <1>3, ContentsAreLocal
  <2>2. Strings(in, f, spec, p, q, w) = Strings(in, g, spec, p, q, w)
    BY <2>1 DEF Strings, SpecBelow
  <2>6. Strings(in, f, "none", p, q, w) = Strings(in, g, "none", p, q, w)
    BY <2>1 DEF Strings, SpecBelow
  <2>3. TaggedValues(in, f, p, q, w) = TaggedValues(in, g, p, q, w)
    BY <2>1 DEF TaggedValues
  <2>4. ValueItems(in, f, p, q, w) = ValueItems(in, g, p, q, w)
    BY <2>1, <2>6, <2>3 DEF ValueItems
  <2>5. FragmentItems(in, f, spec, p, q, w) = FragmentItems(in, g, spec, p, q, w)
    BY <2>2 DEF FragmentItems
  <2> QED
    BY <1>3, <2>4, <2>5 DEF Production
<1> QED
  BY <1>1, <1>2, <1>3

LEMMA SpansAreTuples ==
    ASSUME NEW in, NEW what \in {"item", "run"}, NEW spec \in {"none", "fragment", "segment"},
           NEW p \in Positions(in), NEW q \in Positions(in), NEW w \in Positions(in)
    PROVE  <<what, spec, p, q, w>> \in Spans(in)
  BY DEF Spans, Positions

\* The chart is a fixed point of the productions.
LEMMA ChartUnfolds ==
    ASSUME NEW in, IsInput(in),
           NEW what \in {"item", "run"}, NEW spec \in {"none", "fragment", "segment"},
           NEW p \in Positions(in), NEW q \in Positions(in), NEW w \in Positions(in)
    PROVE  Chart(in)[<<what, spec, p, q, w>>] = Production(in, Chart(in), what, spec, p, q, w)
<1> DEFINE D(f) == [s \in Spans(in) |-> Production(in, f, s[1], s[2], s[3], s[4], s[5])]
           Good(f, n) == Agree(in, f, D(f), n)
           T == {n \in Nat : ~ \E f : Good(f, n)}
<1>1. T = {}
  <2>1. SUFFICES ASSUME T # {}
                 PROVE  FALSE
    OBVIOUS
  <2>8. T \subseteq Nat
    OBVIOUS
  <2>2. PICK n \in T : \A m \in T : n <= m
    <3> HIDE DEF T
    <3> QED
      BY <2>1, <2>8, LeastElement
  <2>3. n # 0
    <3>1. Good(<<>>, 0)
      BY SizeIsNatural DEF Agree
    <3> QED
      BY <3>1
  <2>4. n \in Nat /\ n - 1 \in Nat /\ n - 1 \notin T
    <3> HIDE DEF T
    <3> QED
      BY <2>2, <2>3, <2>8
  <2>5. PICK f : Good(f, n - 1)
    BY <2>4
  <2>6. ASSUME NEW a \in {"item", "run"}, NEW b \in {"none", "fragment", "segment"},
               NEW x \in Positions(in), NEW y \in Positions(in), NEW z \in Positions(in),
               Size(in, a, x, y) < n
        PROVE  D(f)[<<a, b, x, y, z>>] = D(D(f))[<<a, b, x, y, z>>]
    <3>1. Agree(in, f, D(f), Size(in, a, x, y))
      <4>1. Size(in, a, x, y) \in Nat /\ Size(in, a, x, y) <= n - 1
        BY <2>4, <2>6, SizeIsNatural
      <4> HIDE DEF D
      <4> QED
        BY <2>4, <2>5, <4>1, AgreeBelow
    <3>2. /\ D(f)[<<a, b, x, y, z>>] = Production(in, f, a, b, x, y, z)
          /\ D(D(f))[<<a, b, x, y, z>>] = Production(in, D(f), a, b, x, y, z)
      BY SpansAreTuples
    <3> HIDE DEF D
    <3>3. Production(in, f, a, b, x, y, z) = Production(in, D(f), a, b, x, y, z)
      BY <3>1, ProductionsAreLocal
    <3> QED
      BY <3>2, <3>3
  <2>7. Good(D(f), n)
    BY <2>6 DEF Agree
  <2> QED
    BY <2>2, <2>7
<1>2. PICK N \in Nat : N = 4 * (Len(in.octets) + 1) + 4
  <2>1. PICK n \in Nat : n = Len(in.octets)
    BY DEF IsInput
  <2> QED
    BY <2>1
<1>3. \E f : Good(f, N)
  BY <1>1, <1>2
<1>4. PICK f : Good(f, N)
  BY <1>3
<1>5. ASSUME NEW s \in Spans(in)
      PROVE  D(f)[s] = D(D(f))[s]
  <2>1. PICK a \in {"item", "run"}, b \in {"none", "fragment", "segment"},
             x \in Positions(in), y \in Positions(in), z \in Positions(in) :
             s = <<a, b, x, y, z>>
    BY DEF Spans, Positions
  <2>2. Size(in, a, x, y) \in Nat /\ Size(in, a, x, y) <= N
    <3>1. PICK n \in Nat : n = Len(in.octets)
      BY DEF IsInput
    <3>2. Size(in, a, x, y) \in Nat /\ Size(in, a, x, y) <= 4 * (n + 1) + 1
      BY <3>1, SizeIsNatural
    <3> QED
      BY <1>2, <3>1, <3>2
  <2>3. Agree(in, f, D(f), Size(in, a, x, y))
    <3> HIDE DEF D
    <3> QED
      BY <1>2, <1>4, <2>2, AgreeBelow
  <2>4. /\ D(f)[s] = Production(in, f, a, b, x, y, z)
        /\ D(D(f))[s] = Production(in, D(f), a, b, x, y, z)
    BY <2>1
  <2> HIDE DEF D
  <2>5. Production(in, f, a, b, x, y, z) = Production(in, D(f), a, b, x, y, z)
    BY <2>3, ProductionsAreLocal
  <2> QED
    BY <2>4, <2>5
<1>6. D(f) = D(D(f))
  <2>1. D(f) = [s \in Spans(in) |-> D(f)[s]] /\ D(D(f)) = [s \in Spans(in) |-> D(D(f))[s]]
    OBVIOUS
  <2> HIDE DEF D
  <2> QED
    BY <1>5, <2>1
<1>7. Chart(in) = D(Chart(in))
  <2>1. Chart(in) = CHOOSE g : g = D(g)
    BY DEF Chart
  <2> HIDE DEF D
  <2> QED
    BY <1>6, <2>1
<1> QED
  BY <1>7, SpansAreTuples

-----------------------------------------------------------------------------
(* Items and runs of an input.                                             *)

Item(in, spec, p, q, w) == Chart(in)[<<"item", spec, p, q, w>>]

Run(in, spec, p, q, w) == Chart(in)[<<"run", spec, p, q, w>>]

Elements(in, spec) ==
    UNION {Item(in, spec, s[1], s[2], s[3]) : s \in Positions(in) \X Positions(in) \X Positions(in)}

\* A substrate position, one of the two sorts of items, a window's end.
LEMMA ItemsUnfold ==
    ASSUME NEW in, IsInput(in), NEW p \in Positions(in), NEW q \in Positions(in),
           NEW w \in Positions(in)
    PROVE  /\ Item(in, "none", p, q, w) = ValueItems(in, Chart(in), p, q, w)
           /\ \A spec \in {"fragment", "segment"} :
                 Item(in, spec, p, q, w) = FragmentItems(in, Chart(in), spec, p, q, w)
<1>1. Item(in, "none", p, q, w) = Production(in, Chart(in), "item", "none", p, q, w)
  BY ChartUnfolds DEF Item
<1>2. \A spec \in {"fragment", "segment"} :
          Item(in, spec, p, q, w) = Production(in, Chart(in), "item", spec, p, q, w)
  BY ChartUnfolds DEF Item
<1> QED
  BY <1>1, <1>2 DEF Production

LEMMA RunsUnfold ==
    ASSUME NEW in, IsInput(in), NEW spec \in {"none", "fragment", "segment"},
           NEW p \in Positions(in), NEW q \in Positions(in), NEW w \in Positions(in)
    PROVE  /\ p = q => Run(in, spec, p, q, w) = {<<>>}
           /\ p # q => Run(in, spec, p, q, w) =
                 UNION {Prefixed(Item(in, spec, p, m, w), Run(in, spec, m, q, w)) : m \in p + 2..q}
<1>1. Run(in, spec, p, q, w) = Production(in, Chart(in), "run", spec, p, q, w)
  BY ChartUnfolds DEF Run
<1>2. Run(in, spec, p, q, w) = Runs(Chart(in), spec, p, q, w)
  BY <1>1 DEF Production
<1> QED
  BY <1>2 DEF Runs, Item, Run

\* How a run begins.
Begins(in, spec, p, q, w, r) ==
    \E m \in p + 2..q : \E x \in Item(in, spec, p, m, w) :
        \E rest \in Run(in, spec, m, q, w) : r = <<x>> \o rest

LEMMA RunBegins ==
    ASSUME NEW in, IsInput(in), NEW spec \in {"none", "fragment", "segment"},
           NEW p \in Positions(in), NEW q \in Positions(in), NEW w \in Positions(in), p # q,
           NEW r \in Run(in, spec, p, q, w)
    PROVE  Begins(in, spec, p, q, w, r)
<1>1. Run(in, spec, p, q, w) =
          UNION {Prefixed(Item(in, spec, p, m, w), Run(in, spec, m, q, w)) : m \in p + 2..q}
  BY RunsUnfold
<1>2. PICK m \in p + 2..q : r \in Prefixed(Item(in, spec, p, m, w), Run(in, spec, m, q, w))
  BY <1>1
<1>3. \E x \in Item(in, spec, p, m, w) : \E rest \in Run(in, spec, m, q, w) : r = <<x>> \o rest
  <2>1. PICK s \in Item(in, spec, p, m, w) \X Run(in, spec, m, q, w) : r = <<s[1]>> \o s[2]
    BY <1>2, Zenon DEF Prefixed
  <2>2. s[1] \in Item(in, spec, p, m, w) /\ s[2] \in Run(in, spec, m, q, w)
    OBVIOUS
  <2> QED
    BY <2>1, <2>2, Zenon
<1> QED
  BY <1>3, Zenon DEF Begins

LEMMA ItemsNeedHeaders ==
    ASSUME NEW in, IsInput(in), NEW spec \in {"none", "fragment", "segment"},
           NEW p \in Positions(in), NEW q \in Positions(in), NEW w \in Positions(in),
           NEW x \in Item(in, spec, p, q, w)
    PROVE  HeaderFits(in, p, q) /\ in.octets[p] # 0
<1>1. CASE spec = "none"
  <2>1. x \in ValueItems(in, Chart(in), p, q, w)
    BY <1>1, ItemsUnfold
  <2>2. HeaderFits(in, p, q)
    BY <2>1 DEF ValueItems
  <2>3. ASSUME in.octets[p] = 0
        PROVE  FALSE
    <3>1. ~IsContainer(0) /\ ~IsTagged(0) /\ TagId(0) = 0
      BY DEF IsContainer, IsTagged, Constructed, TagId
    <3>2. ~IsConstructedString(in, p)
      BY <2>3 DEF IsConstructedString
    <3>3. x \in PrimitiveValues(in, p, q)
      BY <2>1, <2>2, <2>3, <3>1, <3>2 DEF ValueItems
    <3> QED
      BY <2>3, <3>1, <3>3 DEF PrimitiveValues
  <2> QED
    BY <2>2, <2>3
<1>2. CASE spec # "none"
  <2>1. x \in FragmentItems(in, Chart(in), spec, p, q, w)
    BY <1>2, ItemsUnfold
  <2>2. HeaderFits(in, p, q)
    BY <2>1 DEF FragmentItems
  <2>3. ASSUME in.octets[p] = 0
        PROVE  FALSE
    <3>1. ~IsTagged(0)
      BY DEF IsTagged, Constructed
    <3>2. ~IsCaptured(in, p, q, w)
      BY <2>3, <3>1 DEF IsCaptured
    <3> QED
      BY <2>1, <2>2, <2>3, <3>2 DEF FragmentItems
  <2> QED
    BY <2>2, <2>3
<1> QED
  BY <1>1, <1>2

LEMMA RunsAreSequences ==
    ASSUME NEW in, IsInput(in), NEW spec \in {"none", "fragment", "segment"}
    PROVE  \A p, q, w \in Positions(in) : Run(in, spec, p, q, w) \subseteq Seq(Elements(in, spec))
<1> DEFINE T == {n \in Nat : \E p, q, w \in Positions(in) :
                    n = Size(in, "run", p, q)
                    /\ ~ (Run(in, spec, p, q, w) \subseteq Seq(Elements(in, spec)))}
<1>1. SUFFICES ASSUME T # {}
               PROVE  FALSE
  BY SizeIsNatural
<1>2. T \subseteq Nat
  OBVIOUS
<1>3. PICK n \in T : \A k \in T : n <= k
  <2> HIDE DEF T
  <2> QED
    BY <1>1, <1>2, LeastElement
<1>4. PICK p \in Positions(in), q \in Positions(in), w \in Positions(in) :
          n = Size(in, "run", p, q)
          /\ ~ (Run(in, spec, p, q, w) \subseteq Seq(Elements(in, spec)))
  BY <1>3
<1>5. PICK r \in Run(in, spec, p, q, w) : r \notin Seq(Elements(in, spec))
  BY <1>4
<1>6. p # q
  <2>1. <<>> \in Seq(Elements(in, spec))
    OBVIOUS
  <2>2. p = q => Run(in, spec, p, q, w) = {<<>>}
    BY RunsUnfold
  <2> QED
    BY <1>5, <2>1, <2>2
<1>12. Begins(in, spec, p, q, w, r)
  BY <1>5, <1>6, RunBegins
<1>7. PICK m \in p + 2..q : \E x \in Item(in, spec, p, m, w) :
          \E rest \in Run(in, spec, m, q, w) : r = <<x>> \o rest
  BY <1>12, Zenon DEF Begins
<1>8. PICK x \in Item(in, spec, p, m, w), rest \in Run(in, spec, m, q, w) : r = <<x>> \o rest
  BY <1>7
<1>9. m \in Positions(in) /\ m > p /\ m <= q
  BY DEF Positions, IsInput
<1>10. rest \in Seq(Elements(in, spec))
  <2>1. Size(in, "run", m, q) \in Nat /\ Size(in, "item", p, q) \in Nat
        /\ Size(in, "run", p, q) \in Nat
    BY <1>9, SizeIsNatural
  <2>2. Size(in, "run", m, q) < Size(in, "item", p, q)
    BY <1>9, SmallerSizes
  <2>3. Size(in, "item", p, q) < Size(in, "run", p, q)
    BY SmallerSizes
  <2>4. Size(in, "run", m, q) \notin T
    <3> HIDE DEF T
    <3> QED
      BY <1>3, <1>4, <2>1, <2>2, <2>3
  <2> QED
    BY <1>9, <2>1, <2>4
<1>11. x \in Elements(in, spec)
  <2>1. <<p, m, w>> \in Positions(in) \X Positions(in) \X Positions(in)
    BY <1>9
  <2> QED
    BY <2>1 DEF Elements
<1> HIDE DEF T
<1> QED
  BY <1>5, <1>8, <1>10, <1>11

-----------------------------------------------------------------------------
(* What the octets of a window begin with.                                 *)

\* Nothing that starts at p is an item.
Nothing(in, spec, p, w) ==
    \A z \in Positions(in) : z <= w => Item(in, spec, p, z, w) = {}

\* x is the one item that starts at p, and it ends before q.
Only(in, spec, p, w, q, x) ==
    /\ q \in p + 2..w
    /\ Item(in, spec, p, q, w) = {x}
    /\ \A z \in Positions(in) : z <= w /\ z # q => Item(in, spec, p, z, w) = {}

\* The runs that begin with the items of s.
After(s, runs) == {s \o rest : rest \in runs}

LEMMA RunJoins ==
    ASSUME NEW in, IsInput(in), NEW spec \in {"none", "fragment", "segment"},
           NEW p \in Positions(in), NEW q \in Positions(in), NEW w \in Positions(in), p # q,
           NEW m \in p + 2..q, NEW x \in Item(in, spec, p, m, w),
           NEW rest \in Run(in, spec, m, q, w)
    PROVE  <<x>> \o rest \in Run(in, spec, p, q, w)
<1>1. Run(in, spec, p, q, w) =
          UNION {Prefixed(Item(in, spec, p, k, w), Run(in, spec, k, q, w)) : k \in p + 2..q}
  BY RunsUnfold
<1>2. PICK s \in Item(in, spec, p, m, w) \X Run(in, spec, m, q, w) : s = <<x, rest>>
  OBVIOUS
<1>3. <<s[1]>> \o s[2] \in Prefixed(Item(in, spec, p, m, w), Run(in, spec, m, q, w))
  BY Zenon DEF Prefixed
<1>4. s[1] = x /\ s[2] = rest
  BY <1>2
<1> QED
  BY <1>1, <1>3, <1>4

LEMMA RunBackwards ==
    ASSUME NEW in, IsInput(in), NEW spec \in {"none", "fragment", "segment"},
           NEW p \in Positions(in), NEW q \in Positions(in), NEW w \in Positions(in), q < p
    PROVE  Run(in, spec, p, q, w) = {}
<1>1. p # q /\ p \in Int /\ q \in Int
  BY DEF Positions
<1>2. SUFFICES ASSUME NEW r \in Run(in, spec, p, q, w)
               PROVE  FALSE
  OBVIOUS
<1>3. Begins(in, spec, p, q, w, r)
  BY <1>1, RunBegins
<1>4. PICK m \in p + 2..q : TRUE
  BY <1>3 DEF Begins
<1> QED
  BY <1>1, <1>4

\* The one item at p begins every run from p.
LEMMA RunAfterItem ==
    ASSUME NEW in, IsInput(in), NEW spec \in {"none", "fragment", "segment"},
           NEW p \in Positions(in), NEW to \in Positions(in), NEW w \in Positions(in),
           NEW m, NEW x, Only(in, spec, p, w, m, x), to # p, to <= w
    PROVE  Run(in, spec, p, to, w) = After(<<x>>, Run(in, spec, m, to, w))
<1>1. m \in Positions(in) /\ m \in p + 2..w
  BY DEF Only, Positions, IsInput
<1>2. ASSUME NEW r \in Run(in, spec, p, to, w)
      PROVE  r \in After(<<x>>, Run(in, spec, m, to, w))
  <2>1. Begins(in, spec, p, to, w, r)
    BY RunBegins
  <2>5. PICK k \in p + 2..to : \E y \in Item(in, spec, p, k, w) :
            \E rest \in Run(in, spec, k, to, w) : r = <<y>> \o rest
    BY <2>1, Zenon DEF Begins
  <2>2. PICK y \in Item(in, spec, p, k, w) :
            \E rest \in Run(in, spec, k, to, w) : r = <<y>> \o rest
    BY <2>5
  <2>3. k \in Positions(in) /\ k <= w
    BY DEF Positions, IsInput
  <2>4. k = m /\ y = x
    BY <2>2, <2>3 DEF Only
  <2> QED
    BY <2>2, <2>4 DEF After
<1>3. ASSUME NEW rest \in Run(in, spec, m, to, w)
      PROVE  <<x>> \o rest \in Run(in, spec, p, to, w)
  <2>1. ~ (to < m)
    BY <1>1, RunBackwards
  <2>2. m \in p + 2..to
    BY <1>1, <2>1 DEF Positions
  <2>3. x \in Item(in, spec, p, m, w)
    BY DEF Only
  <2> QED
    BY <2>2, <2>3, RunJoins
<1> QED
  BY <1>2, <1>3 DEF After

LEMMA RunAfterNothing ==
    ASSUME NEW in, IsInput(in), NEW spec \in {"none", "fragment", "segment"},
           NEW p \in Positions(in), NEW to \in Positions(in), NEW w \in Positions(in),
           Nothing(in, spec, p, w), to # p, to <= w
    PROVE  Run(in, spec, p, to, w) = {}
<1>1. SUFFICES ASSUME NEW r \in Run(in, spec, p, to, w)
               PROVE  FALSE
  OBVIOUS
<1>2. Begins(in, spec, p, to, w, r)
  BY RunBegins
<1>3. PICK k \in p + 2..to : \E x \in Item(in, spec, p, k, w) : TRUE
  BY <1>2 DEF Begins
<1>4. k \in Positions(in) /\ k <= w
  BY DEF Positions, IsInput
<1> QED
  BY <1>3, <1>4 DEF Nothing

LEMMA ZeroStartsNothing ==
    ASSUME NEW in, IsInput(in), NEW spec \in {"none", "fragment", "segment"},
           NEW p \in Positions(in), NEW w \in Positions(in), in.octets[p] = 0
    PROVE  Nothing(in, spec, p, w)
  BY ItemsNeedHeaders DEF Nothing

LEMMA OnlyIsSomething ==
    ASSUME NEW in, IsInput(in), NEW spec \in {"none", "fragment", "segment"},
           NEW p \in Positions(in), NEW w \in Positions(in), NEW q, NEW x,
           Only(in, spec, p, w, q, x)
    PROVE  /\ in.octets[p] # 0 /\ x \in Elements(in, spec)
           /\ q \in Positions(in) /\ q \in p + 2..w
<1>1. q \in Positions(in) /\ q \in p + 2..w /\ x \in Item(in, spec, p, q, w)
  BY DEF Only, Positions, IsInput
<1>2. in.octets[p] # 0
  BY <1>1, ItemsNeedHeaders
<1>3. <<p, q, w>> \in Positions(in) \X Positions(in) \X Positions(in)
  BY <1>1
<1> QED
  BY <1>1, <1>2, <1>3 DEF Elements

LEMMA AfterSequences ==
    ASSUME NEW S, NEW s \in Seq(S), NEW x \in S, NEW runs, runs \subseteq Seq(S)
    PROVE  /\ After(s, After(<<x>>, runs)) = After(Append(s, x), runs)
           /\ After(<<>>, runs) = runs
           /\ After(s, {<<>>}) = {s}
           /\ After(s, {}) = {}
<1>1. ASSUME NEW rest \in runs
      PROVE  s \o (<<x>> \o rest) = Append(s, x) \o rest
  <2>1. <<x>> \in Seq(S) /\ rest \in Seq(S)
    OBVIOUS
  <2>2. Append(s, x) = s \o <<x>>
    OBVIOUS
  <2> QED
    BY <2>1, <2>2, ConcatAssociative
<1>2. \A rest \in runs : <<>> \o rest = rest
  BY ConcatEmptySeq
<1>3. s \o <<>> = s
  BY ConcatEmptySeq
<1>4. After(s, After(<<x>>, runs)) = After(Append(s, x), runs)
  <2>1. After(s, After(<<x>>, runs)) = {s \o (<<x>> \o rest) : rest \in runs}
    BY DEF After
  <2>2. {s \o (<<x>> \o rest) : rest \in runs} = {Append(s, x) \o rest : rest \in runs}
    BY <1>1
  <2> QED
    BY <2>1, <2>2 DEF After
<1>5. After(<<>>, runs) = runs
  BY <1>2 DEF After
<1>6. After(s, {<<>>}) = {s} /\ After(s, {}) = {}
  BY <1>3 DEF After
<1> QED
  BY <1>4, <1>5, <1>6

-----------------------------------------------------------------------------
(* How far the contents of an encoding have been read.                     *)

Zeros(in, p, w) == p + 1 < w /\ ZerosAt(in, p)

\* The contents of frame f may end at to.
IsEnd(in, f, to) == to = f.stop \/ (f.len = Indefinite /\ Zeros(in, to, f.stop))

\* Every way to read the contents of f begins with items and goes on at pos.
Progress(in, spec, f, pos, items) ==
    /\ items \in Seq(Elements(in, spec))
    /\ \A to \in f.start..f.stop : IsEnd(in, f, to) =>
          Run(in, spec, f.start, to, f.stop) = After(items, Run(in, spec, pos, to, f.stop))

\* There is no way to read them.
Hopeless(in, spec, f) ==
    \A to \in f.start..f.stop : IsEnd(in, f, to) => Run(in, spec, f.start, to, f.stop) = {}

\* There is one: they are items, and end at pos.
Complete(in, spec, f, pos, items) ==
    \A to \in f.start..f.stop : IsEnd(in, f, to) =>
        Run(in, spec, f.start, to, f.stop) = IF to = pos THEN {items} ELSE {}

InWindow(in, f, pos) ==
    /\ f.start \in Positions(in) /\ f.stop \in Positions(in)
    /\ pos \in f.start..f.stop

LEMMA WindowPositions ==
    ASSUME NEW in, IsInput(in), NEW f, NEW pos, InWindow(in, f, pos)
    PROVE  /\ f.start \in Int /\ f.stop \in Int /\ f.start <= f.stop
           /\ pos \in Positions(in) /\ f.start <= pos /\ pos <= f.stop
           /\ \A to \in f.start..f.stop : to \in Positions(in) /\ to <= f.stop
<1>1. PICK n \in Nat : n = Len(in.octets)
  BY DEF IsInput
<1> QED
  BY <1>1 DEF InWindow, Positions

LEMMA ProgressBegins ==
    ASSUME NEW in, IsInput(in), NEW spec \in {"none", "fragment", "segment"},
           NEW f, InWindow(in, f, f.start)
    PROVE  Progress(in, spec, f, f.start, <<>>)
<1>1. ASSUME NEW to \in f.start..f.stop
      PROVE  Run(in, spec, f.start, to, f.stop) = After(<<>>, Run(in, spec, f.start, to, f.stop))
  <2>1. to \in Positions(in) /\ f.start \in Positions(in) /\ f.stop \in Positions(in)
    BY WindowPositions DEF InWindow
  <2>2. Run(in, spec, f.start, to, f.stop) \subseteq Seq(Elements(in, spec))
    BY <2>1, RunsAreSequences
  <2>3. \A rest \in Run(in, spec, f.start, to, f.stop) : <<>> \o rest = rest
    BY <2>2, ConcatEmptySeq
  <2> QED
    BY <2>3 DEF After
<1>2. <<>> \in Seq(Elements(in, spec))
  OBVIOUS
<1> QED
  BY <1>1, <1>2 DEF Progress

\* One more item.
LEMMA ProgressGoesOn ==
    ASSUME NEW in, IsInput(in), NEW spec \in {"none", "fragment", "segment"},
           NEW f, NEW pos, InWindow(in, f, pos), pos < f.stop,
           NEW items, Progress(in, spec, f, pos, items),
           NEW m, NEW x, Only(in, spec, pos, f.stop, m, x)
    PROVE  Progress(in, spec, f, m, Append(items, x))
<1>1. pos \in Positions(in) /\ f.stop \in Positions(in)
  BY WindowPositions DEF InWindow
<1>2. in.octets[pos] # 0 /\ x \in Elements(in, spec) /\ m \in Positions(in)
  BY <1>1, OnlyIsSomething
<1>3. items \in Seq(Elements(in, spec))
  BY DEF Progress
<1>4. ASSUME NEW to \in f.start..f.stop, IsEnd(in, f, to)
      PROVE  Run(in, spec, f.start, to, f.stop)
                 = After(Append(items, x), Run(in, spec, m, to, f.stop))
  <2>1. to \in Positions(in) /\ to <= f.stop
    BY WindowPositions
  <2>2. to # pos
    BY <1>1, <1>2, <1>4 DEF IsEnd, Zeros, ZerosAt, Positions
  <2>3. Run(in, spec, pos, to, f.stop) = After(<<x>>, Run(in, spec, m, to, f.stop))
    <3>1. PICK w \in Positions(in) : w = f.stop
      BY <1>1
    <3>2. Only(in, spec, pos, w, m, x) /\ to <= w
      BY <2>1, <3>1
    <3>3. Run(in, spec, pos, to, w) = After(<<x>>, Run(in, spec, m, to, w))
      BY <1>1, <2>1, <2>2, <3>2, RunAfterItem
    <3> QED
      BY <3>1, <3>3
  <2>4. Run(in, spec, f.start, to, f.stop) = After(items, Run(in, spec, pos, to, f.stop))
    BY <1>4 DEF Progress
  <2>5. Run(in, spec, m, to, f.stop) \subseteq Seq(Elements(in, spec))
    BY <1>1, <1>2, <2>1, RunsAreSequences
  <2>6. After(items, After(<<x>>, Run(in, spec, m, to, f.stop)))
            = After(Append(items, x), Run(in, spec, m, to, f.stop))
    BY <1>2, <1>3, <2>5, AfterSequences
  <2> QED
    BY <2>3, <2>4, <2>6
<1>5. Append(items, x) \in Seq(Elements(in, spec))
  BY <1>2, <1>3
<1> QED
  BY <1>4, <1>5 DEF Progress

LEMMA ProgressFails ==
    ASSUME NEW in, IsInput(in), NEW spec \in {"none", "fragment", "segment"},
           NEW f, NEW pos, InWindow(in, f, pos), pos < f.stop,
           NEW items, Progress(in, spec, f, pos, items),
           Nothing(in, spec, pos, f.stop),
           f.len = Indefinite => ~Zeros(in, pos, f.stop)
    PROVE  Hopeless(in, spec, f)
<1>1. pos \in Positions(in) /\ f.stop \in Positions(in)
  BY WindowPositions DEF InWindow
<1>2. SUFFICES ASSUME NEW to \in f.start..f.stop, IsEnd(in, f, to)
               PROVE  Run(in, spec, f.start, to, f.stop) = {}
  BY DEF Hopeless
<1>3. to \in Positions(in) /\ to <= f.stop
  BY WindowPositions
<1>4. to # pos
  BY <1>1, <1>2 DEF IsEnd, Positions
<1>5. Run(in, spec, pos, to, f.stop) = {}
  BY <1>1, <1>3, <1>4, RunAfterNothing
<1>6. Run(in, spec, f.start, to, f.stop) = After(items, {})
  BY <1>2, <1>5 DEF Progress
<1> QED
  BY <1>6 DEF After

LEMMA ProgressEnds ==
    ASSUME NEW in, IsInput(in), NEW spec \in {"none", "fragment", "segment"},
           NEW f, NEW pos, InWindow(in, f, pos),
           NEW items, Progress(in, spec, f, pos, items),
           pos = f.stop \/ Zeros(in, pos, f.stop)
    PROVE  Complete(in, spec, f, pos, items)
<1>1. pos \in Positions(in) /\ f.stop \in Positions(in)
  BY WindowPositions DEF InWindow
<1>2. SUFFICES ASSUME NEW to \in f.start..f.stop, IsEnd(in, f, to)
               PROVE  Run(in, spec, f.start, to, f.stop) = IF to = pos THEN {items} ELSE {}
  BY DEF Complete
<1>3. to \in Positions(in) /\ to <= f.stop
  BY WindowPositions
<1>4. Run(in, spec, f.start, to, f.stop) = After(items, Run(in, spec, pos, to, f.stop))
  BY <1>2 DEF Progress
<1>5. items \o <<>> = items
  BY ConcatEmptySeq DEF Progress
<1>6. CASE to = pos
  <2>1. pos = pos => Run(in, spec, pos, pos, f.stop) = {<<>>}
    BY <1>1, RunsUnfold
  <2> QED
    BY <1>4, <1>5, <1>6, <2>1 DEF After
<1>7. CASE to # pos
  <2>1. Run(in, spec, pos, to, f.stop) = {}
    <3>1. CASE pos = f.stop
      <4>1. to < pos
        BY <1>1, <1>3, <1>7, <3>1 DEF Positions
      <4> QED
        BY <1>1, <1>3, <4>1, RunBackwards
    <3>2. CASE Zeros(in, pos, f.stop)
      <4>1. Nothing(in, spec, pos, f.stop)
        BY <1>1, <3>2, ZeroStartsNothing DEF Zeros, ZerosAt
      <4> QED
        BY <1>1, <1>3, <1>7, <4>1, RunAfterNothing
    <3> QED
      BY <3>1, <3>2
  <2> QED
    BY <1>4, <1>7, <2>1 DEF After
<1> QED
  BY <1>6, <1>7

-----------------------------------------------------------------------------
(* What the identifier at a position calls for.                            *)

LEMMA Kinds ==
    ASSUME NEW t \in Octet
    PROVE  /\ Universal(t) /\ TagId(t) = 4 => t = IF Constructed(t) THEN 36 ELSE 4
           /\ t \in {4, 36} => Universal(t) /\ TagId(t) = 4 /\ (Constructed(t) <=> t = 36)
           /\ IsContainer(t) => t \notin {4, 36} /\ ~IsTagged(t)
           /\ IsTagged(t) => t \notin {4, 36}
  BY DEF Universal, Constructed, TagId, IsContainer, IsTagged, Octet

\* Frame f has read the header at p.
HeaderRead(in, p, f) ==
    /\ p \in Positions(in) /\ f.end \in Positions(in)
    /\ HeaderFits(in, p, f.end)
    /\ f.start = ContentsAt(in, p)
    /\ f.len = Indefinite <=> IsIndefiniteAt(in, p)
    /\ f.stop = IF IsIndefiniteAt(in, p) THEN f.end ELSE f.start + LengthAt(in, p)
    /\ f.stop \in f.start..f.end

LEMMA HeaderReadFacts ==
    ASSUME NEW in, IsInput(in), NEW p, NEW f, HeaderRead(in, p, f)
    PROVE  /\ p \in Positions(in) /\ f.end \in Positions(in)
           /\ p \in Int /\ f.end \in Int
           /\ f.start \in Positions(in) /\ f.stop \in Positions(in)
           /\ f.start \in p + 2..f.end /\ f.stop \in f.start..f.end
           /\ InWindow(in, f, f.start)
           /\ in.octets[p] \in Octet
           /\ \A q \in Positions(in) : q <= f.end =>
                 (HeaderFits(in, p, q) <=> f.start <= q)
<1>1. PICK n \in Nat : n = Len(in.octets)
  BY DEF IsInput
<1>2. p \in 1..n + 1 /\ f.end \in 1..n + 1 /\ f.stop \in f.start..f.end
  BY <1>1 DEF HeaderRead, Positions
<1>3. f.start \in p + 2..f.end /\ in.octets[p] \in Octet
  BY HeadersAreRead DEF HeaderRead
<1>4. /\ f.start \in Positions(in) /\ f.stop \in Positions(in)
      /\ p \in Positions(in) /\ f.end \in Positions(in)
  BY <1>1, <1>2, <1>3 DEF Positions
<1>5. ASSUME NEW q \in Positions(in), q <= f.end
      PROVE  HeaderFits(in, p, q) <=> f.start <= q
  <2>1. q \in 1..n + 1
    BY <1>1 DEF Positions
  <2> QED
    BY <1>2, <1>3, <2>1 DEF HeaderRead, HeaderFits
<1> QED
  BY <1>2, <1>3, <1>4, <1>5 DEF InWindow

\* The contents may end at pos, and the encoding then ends before z.
Closes(in, f, pos, z) ==
    \/ f.len # Indefinite /\ pos = f.stop /\ z = f.stop
    \/ f.len = Indefinite /\ Zeros(in, pos, f.stop) /\ z = pos + 2

\* They end with their window, without an end-of-octets.
LeftOpen(f, pos, z) == f.len = Indefinite /\ pos = f.stop /\ z = f.stop

Ends(in, f, pos, z) == Closes(in, f, pos, z) \/ LeftOpen(f, pos, z)

\* items are the contents of the encoding at p exactly if it ends before z.
EndsBefore(in, spec, p, f, q, z, items) ==
    Contents(in, Chart(in), spec, p, q, f.end, TRUE) = IF q = z THEN {items} ELSE {}

ClosesBefore(in, spec, p, f, q, z, items) ==
    Contents(in, Chart(in), spec, p, q, f.end, FALSE) = IF q = z THEN {items} ELSE {}

LEMMA ContentsHopeless ==
    ASSUME NEW in, IsInput(in), NEW spec \in {"none", "fragment", "segment"}, NEW p, NEW f,
           HeaderRead(in, p, f), Hopeless(in, spec, f),
           NEW q \in Positions(in), q <= f.end, f.start <= q, NEW unclosed
    PROVE  Contents(in, Chart(in), spec, p, q, f.end, unclosed) = {}
<1>1. /\ p \in Int /\ f.start \in Positions(in) /\ f.stop \in Positions(in)
      /\ f.end \in Positions(in) /\ f.start \in p + 2..f.end /\ f.stop \in f.start..f.end
      /\ q \in Int /\ f.start \in Int /\ f.stop \in Int /\ f.end \in Int
  BY HeaderReadFacts DEF Positions
<1>2. CASE ~IsIndefiniteAt(in, p)
  <2>1. EndsAt(in, p, q) => q = f.stop
    BY <1>2 DEF EndsAt, HeaderRead
  <2>2. Run(in, spec, f.start, f.stop, f.stop) = {}
    BY <1>1 DEF Hopeless, IsEnd
  <2> QED
    BY <1>2, <2>1, <2>2 DEF Contents, HeaderRead, Run
<1>3. CASE IsIndefiniteAt(in, p)
  <2>1. f.len = Indefinite /\ f.stop = f.end
    BY <1>3 DEF HeaderRead
  <2>2. ZerosAt(in, q - 2) => Run(in, spec, f.start, q - 2, f.stop) = {}
    <3>1. CASE f.start <= q - 2
      <4>1. q - 2 \in f.start..f.stop
        BY <1>1, <2>1, <3>1
      <4>2. ZerosAt(in, q - 2) => IsEnd(in, f, q - 2)
        BY <1>1, <2>1 DEF IsEnd, Zeros
      <4> QED
        BY <4>1, <4>2 DEF Hopeless
    <3>2. CASE q - 2 < f.start
      <4>1. q - 2 \in Positions(in)
        <5>1. q - 2 >= 1
          BY <1>1, HeaderReadFacts DEF Positions
        <5> QED
          BY <5>1, <1>1 DEF Positions, IsInput
      <4> QED
        BY <1>1, <3>2, <4>1, RunBackwards
    <3> QED
      BY <1>1, <3>1, <3>2
  <2>3. Run(in, spec, f.start, f.stop, f.stop) = {}
    BY <1>1 DEF Hopeless, IsEnd
  <2> QED
    BY <1>3, <2>1, <2>2, <2>3 DEF Contents, HeaderRead, Run
<1> QED
  BY <1>2, <1>3

LEMMA ContentsComplete ==
    ASSUME NEW in, IsInput(in), NEW spec \in {"none", "fragment", "segment"}, NEW p, NEW f,
           HeaderRead(in, p, f), NEW pos \in f.start..f.stop, NEW items,
           Complete(in, spec, f, pos, items),
           NEW z, NEW q \in Positions(in), q <= f.end, f.start <= q
    PROVE  /\ Ends(in, f, pos, z) => EndsBefore(in, spec, p, f, q, z, items)
           /\ Closes(in, f, pos, z) => ClosesBefore(in, spec, p, f, q, z, items)
<1> SUFFICES ASSUME NEW unclosed \in BOOLEAN,
                    Closes(in, f, pos, z) \/ (unclosed /\ LeftOpen(f, pos, z))
             PROVE  Contents(in, Chart(in), spec, p, q, f.end, unclosed)
                        = IF q = z THEN {items} ELSE {}
  BY DEF Ends, EndsBefore, ClosesBefore
<1>1. /\ p \in Int /\ f.start \in Positions(in) /\ f.stop \in Positions(in)
      /\ f.end \in Positions(in) /\ f.start \in p + 2..f.end /\ f.stop \in f.start..f.end
      /\ q \in Int /\ f.start \in Int /\ f.stop \in Int /\ f.end \in Int /\ pos \in Int
  BY HeaderReadFacts DEF Positions
<1>5. Run(in, spec, f.start, f.stop, f.stop) = IF f.stop = pos THEN {items} ELSE {}
  BY <1>1 DEF Complete, IsEnd
<1>2. CASE ~IsIndefiniteAt(in, p)
  <2>1. EndsAt(in, p, q) <=> q = f.stop
    BY <1>2 DEF EndsAt, HeaderRead
  <2>2. pos = f.stop /\ z = f.stop
    BY <1>2 DEF Closes, LeftOpen, HeaderRead
  <2> QED
    BY <1>2, <1>5, <2>1, <2>2 DEF Contents, HeaderRead, Run
<1>3. CASE IsIndefiniteAt(in, p)
  <2>1. f.len = Indefinite /\ f.stop = f.end
    BY <1>3 DEF HeaderRead
  <2>2. ZerosAt(in, q - 2) => Run(in, spec, f.start, q - 2, f.stop)
                                  = IF q - 2 = pos THEN {items} ELSE {}
    <3>1. CASE f.start <= q - 2
      <4>1. q - 2 \in f.start..f.stop
        BY <1>1, <2>1, <3>1
      <4>2. ZerosAt(in, q - 2) => IsEnd(in, f, q - 2)
        BY <1>1, <2>1 DEF IsEnd, Zeros
      <4> QED
        BY <4>1, <4>2 DEF Complete
    <3>2. CASE q - 2 < f.start
      <4>1. q - 2 \in Positions(in)
        <5>1. q - 2 >= 1
          BY <1>1, HeaderReadFacts DEF Positions
        <5> QED
          BY <5>1, <1>1 DEF Positions, IsInput
      <4>2. Run(in, spec, f.start, q - 2, f.stop) = {}
        BY <1>1, <3>2, <4>1, RunBackwards
      <4>3. q - 2 # pos
        BY <1>1, <3>2
      <4> QED
        BY <4>2, <4>3
    <3>3. f.start <= q - 2 \/ q - 2 < f.start
      BY <1>1
    <3> QED
      BY <3>1, <3>2, <3>3
  <2>3. Contents(in, Chart(in), spec, p, q, f.end, unclosed) =
            (IF ZerosAt(in, q - 2) THEN Run(in, spec, f.start, q - 2, f.stop) ELSE {})
            \cup (IF unclosed /\ q = f.stop THEN Run(in, spec, f.start, f.stop, f.stop) ELSE {})
    BY <1>3, <2>1 DEF Contents, HeaderRead, Run
  <2>4. CASE Zeros(in, pos, f.stop) /\ z = pos + 2
    <3>1. f.stop # pos
      BY <1>1, <2>4 DEF Zeros
    <3>2. q - 2 = pos <=> q = z
      BY <1>1, <2>4
    <3>3. q = z => ZerosAt(in, q - 2)
      BY <3>2, <2>4 DEF Zeros
    <3> QED
      BY <1>5, <2>2, <2>3, <3>1, <3>2, <3>3
  <2>5. CASE unclosed /\ pos = f.stop /\ z = f.stop
    <3>1. q - 2 # pos
      BY <1>1, <2>1, <2>5
    <3> QED
      BY <1>5, <2>2, <2>3, <2>5, <3>1
  <2> QED
    BY <2>1, <2>4, <2>5 DEF Closes, LeftOpen
<1> QED
  BY <1>2, <1>3

-----------------------------------------------------------------------------
(* What an encoding is once its header, and its contents, have been read.  *)

\* x is the one item that starts with the header at p, and it ends before z.
OneItem(in, spec, p, f, z, x) ==
    \A q \in Positions(in) : q <= f.end /\ f.start <= q =>
        Item(in, spec, p, q, f.end) = IF q = z THEN {x} ELSE {}

NoItem(in, spec, p, f) ==
    \A q \in Positions(in) : q <= f.end /\ f.start <= q => Item(in, spec, p, q, f.end) = {}

LEMMA ItemsAreBehindHeaders ==
    ASSUME NEW in, IsInput(in), NEW spec \in {"none", "fragment", "segment"}, NEW p, NEW f,
           HeaderRead(in, p, f), NEW q \in Positions(in), q <= f.end, q < f.start
    PROVE  Item(in, spec, p, q, f.end) = {}
<1>1. /\ p \in Positions(in) /\ f.end \in Positions(in) /\ ~HeaderFits(in, p, q)
  <2>1. f.start \in Int /\ q \in Int
    BY HeaderReadFacts DEF Positions
  <2> QED
    BY <2>1, HeaderReadFacts
<1> QED
  BY <1>1, ItemsNeedHeaders

LEMMA OneItemIsOnly ==
    ASSUME NEW in, IsInput(in), NEW spec \in {"none", "fragment", "segment"}, NEW p, NEW f,
           HeaderRead(in, p, f), NEW z \in f.start..f.end, NEW x, OneItem(in, spec, p, f, z, x)
    PROVE  Only(in, spec, p, f.end, z, x)
<1>1. /\ p \in Int /\ f.start \in p + 2..f.end /\ f.end \in Positions(in)
      /\ f.end \in Int /\ f.start \in Int /\ f.start \in Positions(in) /\ z \in Int
  BY HeaderReadFacts DEF Positions
<1>2. z \in Positions(in) /\ z \in p + 2..f.end /\ z <= f.end /\ f.start <= z
  BY <1>1 DEF Positions, IsInput
<1>3. Item(in, spec, p, z, f.end) = {x}
  BY <1>2 DEF OneItem
<1>4. ASSUME NEW q \in Positions(in), q <= f.end, q # z
      PROVE  Item(in, spec, p, q, f.end) = {}
  <2>1. CASE f.start <= q
    BY <1>4, <2>1 DEF OneItem
  <2>2. CASE q < f.start
    BY <1>4, <2>2, ItemsAreBehindHeaders
  <2>3. q \in Int
    BY DEF Positions
  <2> QED
    BY <1>1, <2>1, <2>2, <2>3
<1> QED
  BY <1>2, <1>3, <1>4 DEF Only

LEMMA NoItemIsNothing ==
    ASSUME NEW in, IsInput(in), NEW spec \in {"none", "fragment", "segment"}, NEW p, NEW f,
           HeaderRead(in, p, f), NoItem(in, spec, p, f)
    PROVE  Nothing(in, spec, p, f.end)
<1>1. ASSUME NEW q \in Positions(in), q <= f.end
      PROVE  Item(in, spec, p, q, f.end) = {}
  <2>1. CASE f.start <= q
    BY <1>1, <2>1 DEF NoItem
  <2>2. CASE q < f.start
    BY <1>1, <2>2, ItemsAreBehindHeaders
  <2>3. q \in Int /\ f.start \in Int
    BY HeaderReadFacts DEF Positions
  <2> QED
    BY <2>1, <2>2, <2>3
<1> QED
  BY <1>1 DEF Nothing

\* The items behind a header that has been read.
LEMMA ItemsBehind ==
    ASSUME NEW in, IsInput(in), NEW p, NEW f, HeaderRead(in, p, f),
           NEW q \in Positions(in), q <= f.end, f.start <= q
    PROVE  /\ HeaderFits(in, p, q)
           /\ Item(in, "none", p, q, f.end) = ValueItems(in, Chart(in), p, q, f.end)
           /\ \A spec \in {"fragment", "segment"} :
                 Item(in, spec, p, q, f.end) = FragmentItems(in, Chart(in), spec, p, q, f.end)
<1>1. p \in Positions(in) /\ f.end \in Positions(in) /\ HeaderFits(in, p, q)
  BY HeaderReadFacts
<1> QED
  BY <1>1, ItemsUnfold

LEMMA ClosesInside ==
    ASSUME NEW in, IsInput(in), NEW p, NEW f, HeaderRead(in, p, f),
           NEW pos \in f.start..f.stop, NEW z, Ends(in, f, pos, z)
    PROVE  z \in f.start..f.end
<1>1. /\ f.start \in Int /\ f.stop \in Int /\ f.end \in Int
      /\ f.start <= f.stop /\ f.stop <= f.end
  BY HeaderReadFacts DEF Positions
<1> QED
  BY <1>1 DEF Ends, Closes, LeftOpen, Zeros

-----------------------------------------------------------------------------
(* Constructed encodings.                                                  *)

LEMMA HopelessContainer ==
    ASSUME NEW in, IsInput(in), NEW p, NEW f, HeaderRead(in, p, f),
           IsContainer(in.octets[p]) \/ IsTagged(in.octets[p]), Hopeless(in, "none", f)
    PROVE  Nothing(in, "none", p, f.end)
<1>1. ASSUME NEW q \in Positions(in), q <= f.end, f.start <= q
      PROVE  Item(in, "none", p, q, f.end) = {}
  <2>1. /\ HeaderFits(in, p, q)
        /\ Item(in, "none", p, q, f.end) = ValueItems(in, Chart(in), p, q, f.end)
    BY <1>1, ItemsBehind
  <2>2. \A u : Contents(in, Chart(in), "none", p, q, f.end, u) = {}
    BY <1>1, ContentsHopeless
  <2>3. in.octets[p] \notin {4, 36}
    BY Kinds, HeaderReadFacts
  <2>4. ~IsConstructedString(in, p)
    BY <2>3 DEF IsConstructedString
  <2>5. TaggedValues(in, Chart(in), p, q, f.end) = {}
    BY <2>2 DEF TaggedValues
  <2>6. {Container(<<Bare(in.octets[p])>>, r) :
            r \in Contents(in, Chart(in), "none", p, q, f.end, TRUE)} = {}
    BY <2>2
  <2> QED
    BY <2>1, <2>4, <2>5, <2>6 DEF ValueItems
<1>2. NoItem(in, "none", p, f)
  BY <1>1 DEF NoItem
<1> QED
  BY <1>2, NoItemIsNothing

LEMMA HopelessString ==
    ASSUME NEW in, IsInput(in), NEW p, NEW f, HeaderRead(in, p, f),
           NEW spec \in {"none", "fragment", "segment"}, Hopeless(in, SpecBelow(in, spec), f)
    PROVE  /\ spec = "none" /\ IsConstructedString(in, p) => Nothing(in, "none", p, f.end)
           /\ spec # "none" /\ in.octets[p] \in {4, 36} /\ IsIndefiniteAt(in, p)
                 => Nothing(in, spec, p, f.end)
<1> DEFINE below == SpecBelow(in, spec)
<1>0. below \in {"none", "fragment", "segment"}
  BY DEF SpecBelow
<1>1. ASSUME NEW q \in Positions(in), q <= f.end, f.start <= q
      PROVE  /\ HeaderFits(in, p, q)
             /\ Item(in, "none", p, q, f.end) = ValueItems(in, Chart(in), p, q, f.end)
             /\ spec # "none" => Item(in, spec, p, q, f.end)
                                   = FragmentItems(in, Chart(in), spec, p, q, f.end)
             /\ Strings(in, Chart(in), spec, p, q, f.end) = {}
  <2>1. Contents(in, Chart(in), below, p, q, f.end, FALSE) = {}
    <3> HIDE DEF below
    <3>1. Hopeless(in, below, f)
      BY DEF below
    <3> QED
      BY <1>0, <1>1, <3>1, ContentsHopeless
  <2>2. Strings(in, Chart(in), spec, p, q, f.end) = {}
    BY <2>1 DEF Strings
  <2> QED
    BY <1>1, <2>2, ItemsBehind
<1>2. ASSUME spec = "none", IsConstructedString(in, p)
      PROVE  NoItem(in, "none", p, f)
  <2>1. ~IsContainer(in.octets[p])
    BY <1>2, Kinds, HeaderReadFacts DEF IsConstructedString
  <2> QED
    BY <1>1, <1>2, <2>1 DEF NoItem, ValueItems
<1>3. ASSUME spec # "none", in.octets[p] \in {4, 36}, IsIndefiniteAt(in, p)
      PROVE  NoItem(in, spec, p, f)
  <2>1. ~IsTagged(in.octets[p])
    BY <1>3, Kinds, HeaderReadFacts
  <2>2. \A q : ~IsCaptured(in, p, q, f.end)
    BY <1>3, <2>1 DEF IsCaptured, EndsAt
  <2> QED
    BY <1>1, <1>3, <2>2 DEF NoItem, FragmentItems
<1> QED
  BY <1>2, <1>3, NoItemIsNothing


LEMMA CompleteContainer ==
    ASSUME NEW in, IsInput(in), NEW p, NEW f, HeaderRead(in, p, f),
           NEW pos \in f.start..f.stop, NEW items, Complete(in, "none", f, pos, items),
           NEW z, Ends(in, f, pos, z), NEW n \in Nat, n = Len(items),
           IsContainer(in.octets[p]) \/ (IsTagged(in.octets[p]) /\ n > 1)
    PROVE  Only(in, "none", p, f.end, z, Container(<<Bare(in.octets[p])>>, items))
<1> DEFINE t == in.octets[p]
           x == Container(<<Bare(t)>>, items)
<1>1. ASSUME NEW q \in Positions(in), q <= f.end, f.start <= q
      PROVE  Item(in, "none", p, q, f.end) = IF q = z THEN {x} ELSE {}
  <2>1. /\ HeaderFits(in, p, q)
        /\ Item(in, "none", p, q, f.end) = ValueItems(in, Chart(in), p, q, f.end)
    BY <1>1, ItemsBehind
  <2>2. Contents(in, Chart(in), "none", p, q, f.end, TRUE) = IF q = z THEN {items} ELSE {}
    <3>1. Ends(in, f, pos, z) => EndsBefore(in, "none", p, f, q, z, items)
      BY <1>1, ContentsComplete
    <3> QED
      BY <3>1 DEF EndsBefore
  <2>3. Contents(in, Chart(in), "none", p, q, f.end, FALSE)
            \subseteq Contents(in, Chart(in), "none", p, q, f.end, TRUE)
    BY DEF Contents
  <2>4. t \notin {4, 36} /\ (IsContainer(t) => ~IsTagged(t))
    BY Kinds, HeaderReadFacts
  <2>5. ~IsConstructedString(in, p)
    BY <2>4 DEF IsConstructedString
  <2>6. {Container(<<Bare(t)>>, r) : r \in Contents(in, Chart(in), "none", p, q, f.end, TRUE)}
            = IF q = z THEN {x} ELSE {}
    BY <2>2
  <2>7. IsTagged(t) => TaggedValues(in, Chart(in), p, q, f.end) = IF q = z THEN {x} ELSE {}
    <3>1. SUFFICES ASSUME IsTagged(t)
                   PROVE  TaggedValues(in, Chart(in), p, q, f.end) = IF q = z THEN {x} ELSE {}
      OBVIOUS
    <3>2. Len(items) > 1 /\ Len(items) # 1
      <4>1. n > 1
        BY <2>4, <3>1
      <4> QED
        BY <4>1
    <3>3. {k \in Contents(in, Chart(in), "none", p, q, f.end, TRUE) : Len(k) > 1}
              = IF q = z THEN {items} ELSE {}
      BY <2>2, <3>2
    <3>4. {k \in Contents(in, Chart(in), "none", p, q, f.end, FALSE) : Len(k) = 1} = {}
      <4>1. \A k \in Contents(in, Chart(in), "none", p, q, f.end, FALSE) : k = items
        BY <2>2, <2>3
      <4> QED
        BY <3>2, <4>1
    <3> QED
      BY <3>3, <3>4 DEF TaggedValues
  <2> QED
    BY <2>1, <2>4, <2>5, <2>6, <2>7 DEF ValueItems
<1>2. OneItem(in, "none", p, f, z, x)
  BY <1>1 DEF OneItem
<1>3. z \in f.start..f.end
  BY ClosesInside
<1> HIDE DEF x
<1>4. Only(in, "none", p, f.end, z, x)
  BY <1>2, <1>3, OneItemIsOnly
<1> QED
  BY <1>4 DEF x

LEMMA FromContainer ==
    ASSUME NEW in, IsInput(in), NEW p, NEW f, HeaderRead(in, p, f), IsTagged(in.octets[p]),
           NEW q \in Positions(in), q <= f.end, f.start <= q
    PROVE  Item(in, "none", p, q, f.end) = TaggedValues(in, Chart(in), p, q, f.end)
<1>1. /\ HeaderFits(in, p, q)
      /\ Item(in, "none", p, q, f.end) = ValueItems(in, Chart(in), p, q, f.end)
  BY ItemsBehind
<1>2. in.octets[p] \notin {4, 36} /\ ~IsContainer(in.octets[p])
  BY Kinds, HeaderReadFacts
<1>3. ~IsConstructedString(in, p)
  BY <1>2 DEF IsConstructedString
<1> QED
  BY <1>1, <1>2, <1>3 DEF ValueItems

\* A value alone under a tag of another class.
LEMMA CompleteTagged ==
    ASSUME NEW in, IsInput(in), NEW p, NEW f, HeaderRead(in, p, f), IsTagged(in.octets[p]),
           NEW pos \in f.start..f.stop, NEW x, Complete(in, "none", f, pos, <<x>>),
           NEW z, Closes(in, f, pos, z)
    PROVE  Only(in, "none", p, f.end, z, Retagged(x, in.octets[p]))
<1> DEFINE t == in.octets[p]
           y == Retagged(x, t)
<1>0. Ends(in, f, pos, z)
  BY DEF Ends
<1>1. ASSUME NEW q \in Positions(in), q <= f.end, f.start <= q
      PROVE  Item(in, "none", p, q, f.end) = IF q = z THEN {y} ELSE {}
  <2>1. Item(in, "none", p, q, f.end) = TaggedValues(in, Chart(in), p, q, f.end)
    BY <1>1, FromContainer
  <2>2. Ends(in, f, pos, z) => EndsBefore(in, "none", p, f, q, z, <<x>>)
    BY <1>1, ContentsComplete
  <2>3. Closes(in, f, pos, z) => ClosesBefore(in, "none", p, f, q, z, <<x>>)
    BY <1>1, ContentsComplete
  <2> DEFINE all == Contents(in, Chart(in), "none", p, q, f.end, TRUE)
             closed == Contents(in, Chart(in), "none", p, q, f.end, FALSE)
  <2>4. /\ all = IF q = z THEN {<<x>>} ELSE {}
        /\ closed = IF q = z THEN {<<x>>} ELSE {}
    BY <1>0, <2>2, <2>3 DEF EndsBefore, ClosesBefore
  <2>5. TaggedValues(in, Chart(in), p, q, f.end) =
            {Container(<<Bare(t)>>, r) : r \in {k \in all : Len(k) > 1}}
            \cup {Retagged(r[1], t) : r \in {k \in closed : Len(k) = 1}}
    BY DEF TaggedValues
  <2> HIDE DEF all, closed
  <2>6. Len(<<x>>) = 1 /\ <<x>>[1] = x
    OBVIOUS
  <2>7. {k \in all : Len(k) > 1} = {} /\ {k \in closed : Len(k) = 1} = closed
    <3>1. ~(Len(<<x>>) > 1)
      BY <2>6
    <3>2. \A k \in all : k = <<x>>
      BY <2>4
    <3>3. \A k \in closed : k = <<x>>
      BY <2>4
    <3>4. \A k \in all : ~(Len(k) > 1)
      BY <3>1, <3>2
    <3>5. \A k \in closed : Len(k) = 1
      BY <2>6, <3>3
    <3> QED
      BY <3>4, <3>5
  <2>8. {Retagged(r[1], t) : r \in closed} = IF q = z THEN {y} ELSE {}
    BY <2>4, <2>6
  <2> QED
    BY <2>1, <2>5, <2>7, <2>8
<1>2. OneItem(in, "none", p, f, z, y)
  BY <1>1 DEF OneItem
<1>3. z \in f.start..f.end
  BY <1>0, ClosesInside
<1> HIDE DEF y
<1>4. Only(in, "none", p, f.end, z, y)
  BY <1>2, <1>3, OneItemIsOnly
<1> QED
  BY <1>4 DEF y

\* No value at all under one.
LEMMA EmptyTagged ==
    ASSUME NEW in, IsInput(in), NEW p, NEW f, HeaderRead(in, p, f), IsTagged(in.octets[p]),
           NEW pos \in f.start..f.stop, Complete(in, "none", f, pos, <<>>),
           NEW z, Ends(in, f, pos, z)
    PROVE  Nothing(in, "none", p, f.end)
<1>1. ASSUME NEW q \in Positions(in), q <= f.end, f.start <= q
      PROVE  Item(in, "none", p, q, f.end) = {}
  <2>1. Item(in, "none", p, q, f.end) = TaggedValues(in, Chart(in), p, q, f.end)
    BY <1>1, FromContainer
  <2>2. Ends(in, f, pos, z) => EndsBefore(in, "none", p, f, q, z, <<>>)
    BY <1>1, ContentsComplete
  <2>3. \A r \in Contents(in, Chart(in), "none", p, q, f.end, TRUE) : r = <<>>
    BY <2>2 DEF EndsBefore
  <2>6. ~(Len(<<>>) > 1) /\ Len(<<>>) # 1
    OBVIOUS
  <2>4. Contents(in, Chart(in), "none", p, q, f.end, FALSE)
            \subseteq Contents(in, Chart(in), "none", p, q, f.end, TRUE)
    BY DEF Contents
  <2>5. /\ {k \in Contents(in, Chart(in), "none", p, q, f.end, TRUE) : Len(k) > 1} = {}
        /\ {k \in Contents(in, Chart(in), "none", p, q, f.end, FALSE) : Len(k) = 1} = {}
    <3>1. \A k \in Contents(in, Chart(in), "none", p, q, f.end, TRUE) :
              ~(Len(k) > 1) /\ Len(k) # 1
      BY <2>3, <2>6
    <3> QED
      BY <2>4, <3>1
  <2> QED
    BY <2>1, <2>5 DEF TaggedValues
<1>2. NoItem(in, "none", p, f)
  BY <1>1 DEF NoItem
<1> QED
  BY <1>2, NoItemIsNothing

\* Contents that need an end-of-octets and do not have it.
LEMMA LeftOpenContents ==
    ASSUME NEW in, IsInput(in), NEW spec \in {"none", "fragment", "segment"}, NEW p, NEW f,
           HeaderRead(in, p, f), f.len = Indefinite, NEW items,
           Complete(in, spec, f, f.stop, items),
           NEW q \in Positions(in), q <= f.end, f.start <= q
    PROVE  Contents(in, Chart(in), spec, p, q, f.end, FALSE) = {}
<1>1. /\ p \in Int /\ f.start \in Positions(in) /\ f.stop \in Positions(in)
      /\ f.end \in Positions(in) /\ f.start \in p + 2..f.end /\ f.stop \in f.start..f.end
      /\ q \in Int /\ f.start \in Int /\ f.stop \in Int /\ f.end \in Int
  BY HeaderReadFacts DEF Positions
<1>2. IsIndefiniteAt(in, p) /\ f.stop = f.end
  BY DEF HeaderRead
<1>3. ZerosAt(in, q - 2) => Run(in, spec, f.start, q - 2, f.stop) = {}
  <2>1. CASE f.start <= q - 2
    <3>1. q - 2 \in f.start..f.stop /\ q - 2 # f.stop
      BY <1>1, <1>2, <2>1
    <3>2. ZerosAt(in, q - 2) => IsEnd(in, f, q - 2)
      BY <1>1, <1>2 DEF IsEnd, Zeros
    <3> QED
      BY <3>1, <3>2 DEF Complete
  <2>2. CASE q - 2 < f.start
    <3>1. q - 2 >= 1
      BY <1>1, HeaderReadFacts DEF Positions
    <3>2. q - 2 \in Positions(in)
      BY <3>1, <1>1 DEF Positions, IsInput
    <3> QED
      BY <1>1, <2>2, <3>2, RunBackwards
  <2> QED
    BY <1>1, <2>1, <2>2
<1>4. Contents(in, Chart(in), spec, p, q, f.end, FALSE)
          = (IF ZerosAt(in, q - 2) THEN Run(in, spec, f.start, q - 2, f.stop) ELSE {}) \cup {}
  BY <1>2 DEF Contents, HeaderRead, Run
<1> QED
  BY <1>3, <1>4

LEMMA OpenTagged ==
    ASSUME NEW in, IsInput(in), NEW p, NEW f, HeaderRead(in, p, f), IsTagged(in.octets[p]),
           f.len = Indefinite, NEW x, Complete(in, "none", f, f.stop, <<x>>)
    PROVE  Nothing(in, "none", p, f.end)
<1>0. Ends(in, f, f.stop, f.stop) /\ f.stop \in f.start..f.stop
  BY HeaderReadFacts DEF Ends, LeftOpen
<1>1. ASSUME NEW q \in Positions(in), q <= f.end, f.start <= q
      PROVE  Item(in, "none", p, q, f.end) = {}
  <2>1. Item(in, "none", p, q, f.end) = TaggedValues(in, Chart(in), p, q, f.end)
    BY <1>1, FromContainer
  <2>2. Ends(in, f, f.stop, f.stop) => EndsBefore(in, "none", p, f, q, f.stop, <<x>>)
    BY <1>0, <1>1, ContentsComplete
  <2>3. \A r \in Contents(in, Chart(in), "none", p, q, f.end, TRUE) : r = <<x>>
    BY <1>0, <2>2 DEF EndsBefore
  <2>6. ~(Len(<<x>>) > 1)
    OBVIOUS
  <2>4. Contents(in, Chart(in), "none", p, q, f.end, FALSE) = {}
    BY <1>1, LeftOpenContents
  <2>5. {k \in Contents(in, Chart(in), "none", p, q, f.end, TRUE) : Len(k) > 1} = {}
    <3>1. \A k \in Contents(in, Chart(in), "none", p, q, f.end, TRUE) : ~(Len(k) > 1)
      BY <2>3, <2>6
    <3> QED
      BY <3>1
  <2> QED
    BY <2>1, <2>4, <2>5 DEF TaggedValues
<1>2. NoItem(in, "none", p, f)
  BY <1>1 DEF NoItem
<1> QED
  BY <1>2, NoItemIsNothing

-----------------------------------------------------------------------------
(* Strings and primitive encodings.                                        *)

\* Whether CER accepts how a string with these fragments was cut.
WellCut(in, spec, items) == SpecBelow(in, spec) = "segment" => IsSegmentation(items)

LEMMA CompleteString ==
    ASSUME NEW in, IsInput(in), NEW p, NEW f, HeaderRead(in, p, f),
           NEW spec \in {"none", "fragment", "segment"},
           NEW pos \in f.start..f.stop, NEW items,
           Complete(in, SpecBelow(in, spec), f, pos, items),
           NEW z, Closes(in, f, pos, z)
    PROVE  /\ spec = "none" /\ IsConstructedString(in, p) /\ WellCut(in, spec, items) =>
                 Only(in, "none", p, f.end, z,
                      Leaf("OctetString", <<Bare(in.octets[p])>>, Joined(items)))
           /\ spec = "none" /\ IsConstructedString(in, p) /\ ~WellCut(in, spec, items) =>
                 Nothing(in, "none", p, f.end)
           /\ /\ spec # "none" /\ in.octets[p] \in {4, 36} /\ IsIndefiniteAt(in, p)
              /\ spec = "segment" => ~Constructed(in.octets[p])
              => Only(in, spec, p, f.end, z, Joined(items))
<1> DEFINE x == Leaf("OctetString", <<Bare(in.octets[p])>>, Joined(items))
           y == Joined(items)
           below == SpecBelow(in, spec)
<1>0. below \in {"none", "fragment", "segment"}
  BY DEF SpecBelow
<1>1. ASSUME NEW q \in Positions(in), q <= f.end, f.start <= q
      PROVE  /\ HeaderFits(in, p, q)
             /\ Item(in, "none", p, q, f.end) = ValueItems(in, Chart(in), p, q, f.end)
             /\ spec # "none" => Item(in, spec, p, q, f.end)
                                   = FragmentItems(in, Chart(in), spec, p, q, f.end)
             /\ Strings(in, Chart(in), spec, p, q, f.end)
                   = IF q = z /\ WellCut(in, spec, items) THEN {y} ELSE {}
  <2>1. ClosesBefore(in, below, p, f, q, z, items)
    <3> HIDE DEF below
    <3>1. Complete(in, below, f, pos, items)
      BY DEF below
    <3> QED
      BY <1>0, <1>1, <3>1, ContentsComplete
  <2>2. Contents(in, Chart(in), below, p, q, f.end, FALSE) = IF q = z THEN {items} ELSE {}
    BY <2>1 DEF ClosesBefore
  <2>3. Strings(in, Chart(in), spec, p, q, f.end)
           = IF q = z /\ WellCut(in, spec, items) THEN {y} ELSE {}
    BY <2>2 DEF Strings, WellCut
  <2> QED
    BY <1>1, <2>3, ItemsBehind
<1>2. z \in f.start..f.end
  BY ClosesInside DEF Ends
<1>3. ASSUME spec = "none", IsConstructedString(in, p)
      PROVE  /\ WellCut(in, spec, items) => Only(in, "none", p, f.end, z, x)
             /\ ~WellCut(in, spec, items) => Nothing(in, "none", p, f.end)
  <2>1. ~IsContainer(in.octets[p])
    BY <1>3, Kinds, HeaderReadFacts DEF IsConstructedString
  <2>2. WellCut(in, spec, items) => OneItem(in, "none", p, f, z, x)
    BY <1>1, <1>3, <2>1 DEF OneItem, ValueItems
  <2>3. ~WellCut(in, spec, items) => NoItem(in, "none", p, f)
    BY <1>1, <1>3, <2>1 DEF NoItem, ValueItems
  <2> HIDE DEF x
  <2> QED
    BY <1>2, <2>2, <2>3, OneItemIsOnly, NoItemIsNothing
<1>4. ASSUME spec # "none", in.octets[p] \in {4, 36}, IsIndefiniteAt(in, p),
             spec = "segment" => ~Constructed(in.octets[p])
      PROVE  Only(in, spec, p, f.end, z, y)
  <2>1. ~IsTagged(in.octets[p])
    BY <1>4, Kinds, HeaderReadFacts
  <2>2. \A q : ~IsCaptured(in, p, q, f.end)
    BY <1>4, <2>1 DEF IsCaptured, EndsAt
  <2>3. WellCut(in, spec, items)
    BY <1>4 DEF WellCut, SpecBelow
  <2>4. OneItem(in, spec, p, f, z, y)
    BY <1>1, <1>4, <2>2, <2>3 DEF OneItem, FragmentItems
  <2> HIDE DEF y
  <2> QED
    BY <1>2, <2>4, OneItemIsOnly
<1> QED
  BY <1>3, <1>4

\* A string of indefinite length that its window cuts off.
LEMMA OpenString ==
    ASSUME NEW in, IsInput(in), NEW p, NEW f, HeaderRead(in, p, f),
           NEW spec \in {"none", "fragment", "segment"},
           f.len = Indefinite, NEW items, Complete(in, SpecBelow(in, spec), f, f.stop, items)
    PROVE  /\ spec = "none" /\ IsConstructedString(in, p) => Nothing(in, "none", p, f.end)
           /\ spec # "none" /\ in.octets[p] \in {4, 36} => Nothing(in, spec, p, f.end)
<1> DEFINE below == SpecBelow(in, spec)
<1>0. below \in {"none", "fragment", "segment"}
  BY DEF SpecBelow
<1>1. ASSUME NEW q \in Positions(in), q <= f.end, f.start <= q
      PROVE  /\ HeaderFits(in, p, q)
             /\ Item(in, "none", p, q, f.end) = ValueItems(in, Chart(in), p, q, f.end)
             /\ spec # "none" => Item(in, spec, p, q, f.end)
                                   = FragmentItems(in, Chart(in), spec, p, q, f.end)
             /\ Strings(in, Chart(in), spec, p, q, f.end) = {}
  <2>1. Contents(in, Chart(in), below, p, q, f.end, FALSE) = {}
    <3> HIDE DEF below
    <3>1. Complete(in, below, f, f.stop, items)
      BY DEF below
    <3> QED
      BY <1>0, <1>1, <3>1, LeftOpenContents
  <2>2. Strings(in, Chart(in), spec, p, q, f.end) = {}
    BY <2>1 DEF Strings
  <2> QED
    BY <1>1, <2>2, ItemsBehind
<1>2. ASSUME spec = "none", IsConstructedString(in, p)
      PROVE  NoItem(in, "none", p, f)
  <2>1. ~IsContainer(in.octets[p])
    BY <1>2, Kinds, HeaderReadFacts DEF IsConstructedString
  <2> QED
    BY <1>1, <1>2, <2>1 DEF NoItem, ValueItems
<1>3. ASSUME spec # "none", in.octets[p] \in {4, 36}
      PROVE  NoItem(in, spec, p, f)
  <2>1. ~IsTagged(in.octets[p])
    BY <1>3, Kinds, HeaderReadFacts
  <2>2. \A q : ~IsCaptured(in, p, q, f.end)
    BY <1>3, <2>1 DEF IsCaptured, EndsAt, HeaderRead
  <2> QED
    BY <1>1, <1>3, <2>2 DEF NoItem, FragmentItems
<1> QED
  BY <1>2, <1>3, NoItemIsNothing

\* A primitive encoding of definite length whose contents its type accepts.
PrimitiveFits(in, p, f) ==
    LET t == in.octets[p]
        n == f.stop - f.start
    IN  /\ Universal(t) /\ TagId(t) \in {1, 2, 4, 5}
        /\ Constructed(t) => t = 33 /\ in.rules.canonicalContents
        /\ f.len # Indefinite
        /\ TagId(t) = 1 => n = 1
        /\ TagId(t) = 2 => n > 0
        /\ TagId(t) = 5 => n = 0
        /\ in.rules.canonicalContents => ~IsSpareSpelling(in, p, f.stop)

LEMMA EndsAtStop ==
    ASSUME NEW in, NEW p, NEW f, HeaderRead(in, p, f), NEW q
    PROVE  /\ EndsAt(in, p, q) <=> (f.len # Indefinite /\ q = f.stop)
           /\ ContentsAt(in, p) = f.start
  BY DEF EndsAt, HeaderRead

\* Neither a container, a constructed string nor under a tag.
LEMMA PrimitiveItems ==
    ASSUME NEW in, IsInput(in), NEW p, NEW f, HeaderRead(in, p, f),
           ~IsContainer(in.octets[p]), ~IsConstructedString(in, p), ~IsTagged(in.octets[p]),
           NEW q \in Positions(in), q <= f.end, f.start <= q
    PROVE  Item(in, "none", p, q, f.end) = PrimitiveValues(in, p, q)
  BY ItemsBehind DEF ValueItems

LEMMA PrimitiveValue ==
    ASSUME NEW in, IsInput(in), NEW p, NEW f, HeaderRead(in, p, f), PrimitiveFits(in, p, f)
    PROVE  Only(in, "none", p, f.end, f.stop,
                Leaf(TagMap[TagId(in.octets[p])], <<Bare(in.octets[p])>>,
                     SubSeq(in.octets, f.start, f.stop - 1)))
<1> DEFINE x == Leaf(TagMap[TagId(in.octets[p])], <<Bare(in.octets[p])>>,
                     SubSeq(in.octets, f.start, f.stop - 1))
<1>1. ~IsContainer(in.octets[p]) /\ ~IsTagged(in.octets[p])
  BY DEF PrimitiveFits, IsContainer, IsTagged
<1>2. ~IsConstructedString(in, p)
  <2>1. in.octets[p] # 36
    BY DEF PrimitiveFits, Constructed
  <2> QED
    BY <2>1 DEF PrimitiveFits, IsConstructedString, HeaderRead
<1>3. ASSUME NEW q \in Positions(in), q <= f.end, f.start <= q
      PROVE  Item(in, "none", p, q, f.end) = IF q = f.stop THEN {x} ELSE {}
  <2>1. Item(in, "none", p, q, f.end) = PrimitiveValues(in, p, q)
    BY <1>1, <1>2, <1>3, PrimitiveItems
  <2>2. EndsAt(in, p, q) <=> q = f.stop
    BY EndsAtStop DEF PrimitiveFits
  <2>3. ContentsAt(in, p) = f.start
    BY EndsAtStop
  <2> QED
    BY <2>1, <2>2, <2>3 DEF PrimitiveValues, PrimitiveFits
<1>4. OneItem(in, "none", p, f, f.stop, x)
  BY <1>3 DEF OneItem
<1>5. f.stop \in f.start..f.end
  BY HeaderReadFacts
<1> HIDE DEF x
<1>6. Only(in, "none", p, f.end, f.stop, x)
  BY <1>4, <1>5, OneItemIsOnly
<1> QED
  BY <1>6 DEF x

LEMMA NoPrimitiveValue ==
    ASSUME NEW in, IsInput(in), NEW p, NEW f, HeaderRead(in, p, f), ~PrimitiveFits(in, p, f),
           ~IsContainer(in.octets[p]), ~IsConstructedString(in, p), ~IsTagged(in.octets[p])
    PROVE  Nothing(in, "none", p, f.end)
<1>1. ASSUME NEW q \in Positions(in), q <= f.end, f.start <= q
      PROVE  Item(in, "none", p, q, f.end) = {}
  <2>1. Item(in, "none", p, q, f.end) = PrimitiveValues(in, p, q)
    BY <1>1, PrimitiveItems
  <2>2. EndsAt(in, p, q) <=> (f.len # Indefinite /\ q = f.stop)
    BY EndsAtStop
  <2>3. ContentsAt(in, p) = f.start
    BY EndsAtStop
  <2> QED
    BY <2>1, <2>2, <2>3 DEF PrimitiveValues, PrimitiveFits
<1>2. NoItem(in, "none", p, f)
  BY <1>1 DEF NoItem
<1> QED
  BY <1>2, NoItemIsNothing

\* Where the contents of a fragment that is taken as it stands end.
CapturedTo(f) ==
    IF f.len # Indefinite THEN f.stop ELSE IF f.start < f.end THEN f.end - 1 ELSE f.start

LEMMA CapturedFragment ==
    ASSUME NEW in, IsInput(in), NEW p, NEW f, HeaderRead(in, p, f),
           NEW spec \in {"fragment", "segment"},
           \/ in.octets[p] \in {4, 36} /\ f.len # Indefinite
           \/ IsTagged(in.octets[p]),
           spec = "segment" => ~Constructed(in.octets[p])
    PROVE  Only(in, spec, p, f.end, CapturedTo(f),
                SubSeq(in.octets, f.start, CapturedTo(f) - 1))
<1> DEFINE z == CapturedTo(f)
           x == SubSeq(in.octets, f.start, z - 1)
<1>1. /\ f.start \in Int /\ f.stop \in Int /\ f.end \in Int /\ f.start <= f.end
      /\ f.stop \in f.start..f.end
  BY HeaderReadFacts DEF Positions
<1>2. z \in f.start..f.end
  BY <1>1 DEF CapturedTo
<1>3. ASSUME NEW q \in Positions(in), q <= f.end, f.start <= q
      PROVE  Item(in, spec, p, q, f.end) = IF q = z THEN {x} ELSE {}
  <2>1. /\ HeaderFits(in, p, q)
        /\ Item(in, spec, p, q, f.end) = FragmentItems(in, Chart(in), spec, p, q, f.end)
    BY <1>3, ItemsBehind
  <2>2. EndsAt(in, p, q) <=> (f.len # Indefinite /\ q = f.stop)
    BY EndsAtStop
  <2>3. ContentsAt(in, p) = f.start
    BY EndsAtStop
  <2>4. IsIndefiniteAt(in, p) <=> f.len = Indefinite
    BY DEF HeaderRead
  <2>5. IsTagged(in.octets[p]) => in.octets[p] \notin {4, 36}
    BY Kinds, HeaderReadFacts
  <2>6. IsCaptured(in, p, q, f.end) <=> q = z
    <3>1. CASE f.len # Indefinite
      BY <2>2, <2>4, <3>1 DEF IsCaptured, CapturedTo
    <3>2. CASE f.len = Indefinite
      <4>1. z = IF f.start < f.end THEN f.end - 1 ELSE f.end
        BY <1>1, <3>2 DEF CapturedTo
      <4>2. ~EndsAt(in, p, q)
        BY <2>2, <3>2
      <4> QED
        BY <2>3, <2>4, <3>2, <4>1, <4>2 DEF IsCaptured
    <3> QED
      BY <3>1, <3>2
  <2> QED
    BY <2>1, <2>3, <2>4, <2>5, <2>6 DEF FragmentItems
<1>4. OneItem(in, spec, p, f, z, x)
  BY <1>3 DEF OneItem
<1> HIDE DEF x
<1>5. Only(in, spec, p, f.end, z, x)
  BY <1>2, <1>4, OneItemIsOnly
<1> QED
  BY <1>5 DEF x

LEMMA NoFragment ==
    ASSUME NEW in, IsInput(in), NEW p, NEW f, HeaderRead(in, p, f),
           NEW spec \in {"fragment", "segment"},
           in.octets[p] \notin {4, 36}, ~IsTagged(in.octets[p])
    PROVE  Nothing(in, spec, p, f.end)
<1>1. ASSUME NEW q \in Positions(in), q <= f.end, f.start <= q
      PROVE  Item(in, spec, p, q, f.end) = {}
  BY <1>1, ItemsBehind DEF FragmentItems, IsCaptured
<1>2. NoItem(in, spec, p, f)
  BY <1>1 DEF NoItem
<1> QED
  BY <1>2, NoItemIsNothing

\* No segment of a string of CER is constructed.
LEMMA ConstructedSegment ==
    ASSUME NEW in, IsInput(in), NEW p \in Positions(in), NEW w \in Positions(in),
           Constructed(in.octets[p])
    PROVE  Nothing(in, "segment", p, w)
<1>1. ASSUME NEW q \in Positions(in)
      PROVE  Item(in, "segment", p, q, w) = {}
  BY <1>1, ItemsUnfold DEF FragmentItems
<1> QED
  BY <1>1 DEF Nothing

-----------------------------------------------------------------------------
(* Functions defined by recursion over 0..n.                               *)

\* A recursion that starts with a and goes on by step, whose i-th value is in S[i].
Steps(n, S, a, step) ==
    /\ n \in Nat /\ a \in S[0]
    /\ \A i \in 1..n : \A x \in S[i - 1] : step[i][x] \in S[i]

Iterates(n, S, a, step, f) ==
    /\ f = [i \in 0..n |-> IF i = 0 THEN a ELSE step[i][f[i - 1]]]
    /\ \A i \in 0..n : f[i] \in S[i]

LEMMA Iteration ==
    ASSUME NEW n, NEW S, NEW a, NEW step, Steps(n, S, a, step)
    PROVE  \E f : Iterates(n, S, a, step, f)
<1>0. /\ n \in Nat /\ a \in S[0]
      /\ \A i \in 1..n : \A x \in S[i - 1] : step[i][x] \in S[i]
  BY DEF Steps
<1> DEFINE D(f, m) == [i \in 0..m |-> IF i = 0 THEN a ELSE step[i][f[i - 1]]]
           Good(f, m) == f = D(f, m) /\ \A i \in 0..m : f[i] \in S[i]
           T == {m \in 0..n : ~ \E f : Good(f, m)}
<1>1. SUFFICES ASSUME T # {}
               PROVE  FALSE
  BY <1>0 DEF Iterates
<1>2. T \subseteq Nat
  BY <1>0
<1>3. PICK m \in T : \A k \in T : m <= k
  <2> HIDE DEF T
  <2> QED
    BY <1>1, <1>2, LeastElement
<1>4. m # 0
  <2> DEFINE f == [i \in 0..0 |-> a]
  <2>1. f = D(f, 0) /\ \A i \in 0..0 : f[i] \in S[i]
    BY <1>0
  <2> QED
    BY <2>1
<1>5. m - 1 \in 0..n /\ m \in 1..n /\ m - 1 \notin T
  <2>1. m \in 0..n
    OBVIOUS
  <2> HIDE DEF T
  <2> QED
    BY <1>0, <1>3, <1>4, <2>1
<1>6. PICK f : Good(f, m - 1)
  <2> HIDE DEF Good
  <2> QED
    BY <1>5
<1>7. /\ \A i \in 0..m - 1 : f[i] = (IF i = 0 THEN a ELSE step[i][f[i - 1]])
      /\ \A i \in 0..m - 1 : f[i] \in S[i]
  <2>1. f = D(f, m - 1) /\ \A i \in 0..m - 1 : f[i] \in S[i]
    BY <1>6
  <2>2. \A i \in 0..m - 1 : D(f, m - 1)[i] = (IF i = 0 THEN a ELSE step[i][f[i - 1]])
    OBVIOUS
  <2> HIDE DEF D
  <2> QED
    BY <2>1, <2>2
<1> DEFINE g == [i \in 0..m |-> IF i = m THEN step[m][f[m - 1]] ELSE f[i]]
<1>8. ASSUME NEW i \in 0..m
      PROVE  g[i] = (IF i = 0 THEN a ELSE step[i][g[i - 1]]) /\ g[i] \in S[i]
  <2>1. CASE i = m
    <3>1. m - 1 \in 0..m /\ m - 1 # m /\ g[m - 1] = f[m - 1] /\ f[m - 1] \in S[m - 1]
      BY <1>5, <1>7
    <3> QED
      BY <1>0, <1>4, <1>5, <2>1, <3>1
  <2>2. CASE i # m
    <3>1. i \in 0..m - 1 /\ g[i] = f[i]
      BY <1>5, <2>2
    <3>2. i # 0 => i - 1 \in 0..m /\ i - 1 # m
      BY <1>5
    <3>3. i # 0 => g[i - 1] = f[i - 1]
      BY <3>2
    <3> HIDE DEF g
    <3> QED
      BY <1>7, <3>1, <3>3
  <2> QED
    BY <2>1, <2>2
<1>9. Good(g, m)
  <2>1. g = [i \in 0..m |-> g[i]]
    OBVIOUS
  <2> HIDE DEF g
  <2>2. g = D(g, m)
    BY <1>8, <2>1
  <2> QED
    BY <1>8, <2>2
<1> HIDE DEF g, Good
<1> QED
  BY <1>3, <1>9

\* Functions that start alike and go on alike are alike.
GoAlike(n, f, g) ==
    /\ n \in Nat /\ f[0] = g[0]
    /\ \A i \in 1..n : f[i - 1] = g[i - 1] => f[i] = g[i]

LEMMA Coincidence ==
    ASSUME NEW n, NEW f, NEW g, GoAlike(n, f, g)
    PROVE  \A i \in 0..n : f[i] = g[i]
<1>0. /\ n \in Nat /\ f[0] = g[0]
      /\ \A i \in 1..n : f[i - 1] = g[i - 1] => f[i] = g[i]
  BY DEF GoAlike
<1> DEFINE W == {i \in 0..n : f[i] # g[i]}
<1>1. SUFFICES ASSUME W # {}
               PROVE  FALSE
  OBVIOUS
<1>2. W \subseteq Nat
  BY <1>0
<1>3. PICK i \in W : \A j \in W : i <= j
  <2> HIDE DEF W
  <2> QED
    BY <1>1, <1>2, LeastElement
<1>4. i \in 0..n /\ i # 0
  BY <1>0
<1>5. i - 1 \in 0..n /\ i - 1 \notin W /\ i \in 1..n
  <2> HIDE DEF W
  <2> QED
    BY <1>0, <1>3, <1>4
<1> QED
  BY <1>0, <1>5

-----------------------------------------------------------------------------
(* Headers.                                                                *)

\* A length read as the octets that it is made of.
Digits(octets, from, size, digits) ==
    \A i \in 1..size : octets[from + i - 1] = digits[i]

Accumulates(size, digits, acc) ==
    /\ acc \in [0..size -> Nat]
    /\ acc[0] = 0
    /\ \A i \in 1..size : acc[i] = acc[i - 1] * 256 + digits[i]

LEMMA BigEndianUnfolds ==
    ASSUME NEW octets, NEW from \in Nat, NEW size \in Nat,
           NEW digits \in [1..size -> Nat], Digits(octets, from, size, digits)
    PROVE  \E acc : Accumulates(size, digits, acc) /\ BigEndian(octets, from, size) = acc[size]
<1> DEFINE S == [i \in 0..size |-> Nat]
           step == [i \in 1..size |-> [x \in Nat |-> x * 256 + digits[i]]]
           D(f) == [i \in 0..size |-> IF i = 0 THEN 0 ELSE f[i - 1] * 256 + octets[from + i - 1]]
<1>1. Steps(size, S, 0, step)
  BY DEF Steps
<1>2. PICK f : Iterates(size, S, 0, step, f)
  <2> HIDE DEF S, step
  <2> QED
    BY <1>1, Iteration
<1>3. f = [i \in 0..size |-> IF i = 0 THEN 0 ELSE step[i][f[i - 1]]]
  <2> HIDE DEF step
  <2> QED
    BY <1>2 DEF Iterates
<1>4. \A i \in 0..size : f[i] \in Nat
  BY <1>2 DEF Iterates
<1>5. f = D(f)
  <2>1. ASSUME NEW i \in 1..size
        PROVE  step[i][f[i - 1]] = f[i - 1] * 256 + octets[from + i - 1]
    <3>1. f[i - 1] \in Nat
      BY <1>4
    <3>2. step[i][f[i - 1]] = f[i - 1] * 256 + digits[i]
      BY <3>1
    <3> QED
      BY <3>2 DEF Digits
  <2> HIDE DEF step
  <2>2. \A i \in 0..size : (IF i = 0 THEN 0 ELSE step[i][f[i - 1]])
                           = (IF i = 0 THEN 0 ELSE f[i - 1] * 256 + octets[from + i - 1])
    BY <2>1
  <2> QED
    BY <1>3, <2>2
<1> DEFINE acc == CHOOSE g : g = D(g)
<1>6. acc = D(acc)
  <2> HIDE DEF D
  <2> QED
    BY <1>5
<1>7. BigEndian(octets, from, size) = acc[size]
  BY DEF BigEndian
<1> HIDE DEF acc
<1>8. /\ acc[0] = 0
      /\ \A i \in 1..size : acc[i] = acc[i - 1] * 256 + digits[i]
      /\ acc = [i \in 0..size |-> acc[i]]
  <2>1. /\ acc = [i \in 0..size |-> acc[i]]
        /\ \A i \in 0..size : acc[i] = (IF i = 0 THEN 0 ELSE acc[i - 1] * 256 + octets[from + i - 1])
    BY <1>6
  <2>2. ASSUME NEW i \in 1..size
        PROVE  acc[i] = acc[i - 1] * 256 + digits[i]
    <3>1. octets[from + i - 1] = digits[i]
      BY Zenon DEF Digits
    <3>2. i \in 0..size /\ i # 0
      OBVIOUS
    <3>3. acc[i] = acc[i - 1] * 256 + octets[from + i - 1]
      BY <2>1, <3>2
    <3> QED
      BY <3>1, <3>3
  <2>3. acc[0] = 0
    BY <2>1
  <2> QED
    BY <2>1, <2>2, <2>3
<1>9. \A i \in 0..size : f[i] = acc[i]
  <2>1. f[0] = 0 /\ \A i \in 1..size : f[i] = f[i - 1] * 256 + digits[i]
    <3>1. \A i \in 0..size : f[i] = (IF i = 0 THEN 0 ELSE f[i - 1] * 256 + octets[from + i - 1])
      BY <1>5
    <3>2. ASSUME NEW i \in 1..size
          PROVE  f[i] = f[i - 1] * 256 + digits[i]
      <4>1. octets[from + i - 1] = digits[i]
        BY Zenon DEF Digits
      <4>2. i \in 0..size /\ i # 0
        OBVIOUS
      <4>3. f[i] = f[i - 1] * 256 + octets[from + i - 1]
        BY <3>1, <4>2
      <4> QED
        BY <4>1, <4>3
    <3> QED
      BY <3>1, <3>2
  <2> HIDE DEF S, step, D
  <2>2. f[0] = acc[0]
    BY <1>8, <2>1
  <2>3. ASSUME NEW i \in 1..size, f[i - 1] = acc[i - 1]
        PROVE  f[i] = acc[i]
    <3>1. f[i] = f[i - 1] * 256 + digits[i]
      BY <2>1
    <3>2. acc[i] = acc[i - 1] * 256 + digits[i]
      BY <1>8
    <3> QED
      BY <2>3, <3>1, <3>2
  <2>4. GoAlike(size, f, acc)
    BY <2>2, <2>3 DEF GoAlike
  <2> QED
    BY <2>4, Coincidence
<1>10. acc \in [0..size -> Nat]
  BY <1>4, <1>8, <1>9
<1>11. Accumulates(size, digits, acc)
  BY <1>8, <1>10 DEF Accumulates
<1> QED
  BY <1>7, <1>11

\* The numbers that length fields give.
LEMMA BigEndianIsNatural ==
    ASSUME NEW octets, NEW from \in Nat, NEW size \in Nat,
           \A i \in 1..size : octets[from + i - 1] \in Nat
    PROVE  BigEndian(octets, from, size) \in Nat
<1> DEFINE digits == [i \in 1..size |-> octets[from + i - 1]]
<1>1. digits \in [1..size -> Nat]
  OBVIOUS
<1>2. Digits(octets, from, size, digits)
  BY DEF Digits
<1> HIDE DEF digits
<1>3. PICK acc : Accumulates(size, digits, acc) /\ BigEndian(octets, from, size) = acc[size]
  BY <1>1, <1>2, BigEndianUnfolds
<1>4. acc[size] \in Nat
  BY <1>3 DEF Accumulates
<1> QED
  BY <1>3, <1>4

LEMMA LengthsAreNatural ==
    ASSUME NEW in, IsInput(in), NEW p \in Positions(in), NEW w \in Positions(in),
           p + 1 < w, ContentsAt(in, p) <= w, ~IsIndefiniteAt(in, p)
    PROVE  LengthAt(in, p) \in Nat
<1>1. PICK n \in Nat : n = Len(in.octets)
  BY DEF IsInput
<1>2. p \in Nat /\ w \in Nat /\ 1 <= p /\ w <= n + 1
  BY <1>1 DEF Positions
<1>3. \A i \in 1..n : in.octets[i] \in Octet
  BY <1>1 DEF IsInput
<1>4. in.octets[p + 1] \in 0..255
  BY <1>2, <1>3 DEF Octet
<1>5. CASE in.octets[p + 1] < 128
  BY <1>4, <1>5 DEF LengthAt
<1>6. CASE ~(in.octets[p + 1] < 128)
  <2> DEFINE size == in.octets[p + 1] - 128
  <2>1. size \in Nat /\ size >= 1 /\ SizeAt(in, p) = size + 1
    BY <1>4, <1>6 DEF SizeAt, IsIndefiniteAt
  <2>2. LengthAt(in, p) = BigEndian(in.octets, p + 2, size)
    BY <1>6 DEF LengthAt
  <2>3. p + 1 + (size + 1) <= w
    BY <2>1 DEF ContentsAt
  <2> HIDE DEF size
  <2>4. \A i \in 1..size : in.octets[(p + 2) + i - 1] \in Nat
    <3>1. SUFFICES ASSUME NEW i \in 1..size
                   PROVE  in.octets[(p + 2) + i - 1] \in Nat
      OBVIOUS
    <3>2. PICK k \in 1..n : k = (p + 2) + i - 1
      BY <1>2, <2>1, <2>3
    <3>3. in.octets[k] \in Octet
      BY <1>3
    <3>4. in.octets[k] \in Nat
      BY <3>3 DEF Octet
    <3> QED
      BY <3>2, <3>4
  <2>5. p + 2 \in Nat
    BY <1>2
  <2> QED
    BY <2>1, <2>2, <2>4, <2>5, BigEndianIsNatural
<1> QED
  BY <1>5, <1>6

\* No header in the window, no item in it.
LEMMA NoHeader ==
    ASSUME NEW in, IsInput(in), NEW spec \in {"none", "fragment", "segment"},
           NEW p \in Positions(in), NEW w \in Positions(in), ~HeaderFits(in, p, w)
    PROVE  Nothing(in, spec, p, w)
<1>1. ASSUME NEW q \in Positions(in), q <= w
      PROVE  ~HeaderFits(in, p, q)
  <2>1. SUFFICES ASSUME HeaderFits(in, p, q)
                 PROVE  FALSE
    OBVIOUS
  <2>2. ContentsAt(in, p) \in p + 2..q /\ p \in Int /\ q \in Int /\ w \in Int
    BY <2>1, HeadersAreRead DEF Positions
  <2> QED
    BY <1>1, <2>1, <2>2 DEF HeaderFits
<1> QED
  BY <1>1, ItemsNeedHeaders DEF Nothing

\* The contents would end outside of the window.
LEMMA TooLong ==
    ASSUME NEW in, IsInput(in), NEW spec \in {"none", "fragment", "segment"},
           NEW p \in Positions(in), NEW w \in Positions(in), HeaderFits(in, p, w),
           ~IsIndefiniteAt(in, p), ~(ContentsAt(in, p) + LengthAt(in, p) <= w)
    PROVE  Nothing(in, spec, p, w)
<1>1. ASSUME NEW q \in Positions(in), q <= w
      PROVE  Item(in, spec, p, q, w) = {}
  <2>1. ~EndsAt(in, p, q)
    BY <1>1 DEF EndsAt
  <2>2. \A s, u : Contents(in, Chart(in), s, p, q, w, u) = {}
    BY <2>1 DEF Contents
  <2>3. /\ \A s : Strings(in, Chart(in), s, p, q, w) = {}
        /\ TaggedValues(in, Chart(in), p, q, w) = {}
    BY <2>2 DEF Strings, TaggedValues
  <2>4. ValueItems(in, Chart(in), p, q, w) = {}
    BY <2>1, <2>2, <2>3 DEF ValueItems, PrimitiveValues
  <2>5. \A s : FragmentItems(in, Chart(in), s, p, q, w) = {}
    BY <2>1, <2>3 DEF FragmentItems, IsCaptured
  <2> QED
    BY <1>1, <2>4, <2>5, ItemsUnfold
<1> QED
  BY <1>1 DEF Nothing

-----------------------------------------------------------------------------
(* Lengths.                                                                *)

LEMMA QuotientsUnfold ==
    ASSUME NEW n \in Nat
    PROVE  /\ Quotients(n) \in [0..8 -> Nat]
           /\ Quotients(n)[0] = n
           /\ \A k \in 1..8 : Quotients(n)[k] = Quotients(n)[k - 1] \div 256
<1> DEFINE S == [k \in 0..8 |-> Nat]
           step == [k \in 1..8 |-> [x \in Nat |-> x \div 256]]
           D(f) == [k \in 0..MAX_LENGTH_OCTETS |-> IF k = 0 THEN n ELSE f[k - 1] \div 256]
<1>1. Steps(8, S, n, step)
  BY DEF Steps
<1>2. PICK f : Iterates(8, S, n, step, f)
  <2> HIDE DEF S, step
  <2> QED
    BY <1>1, Iteration
<1>3. f = [k \in 0..8 |-> IF k = 0 THEN n ELSE step[k][f[k - 1]]]
  <2> HIDE DEF step
  <2> QED
    BY <1>2 DEF Iterates
<1>4. \A k \in 0..8 : f[k] \in Nat
  BY <1>2 DEF Iterates
<1>5. f = D(f)
  <2>1. \A k \in 0..8 : (IF k = 0 THEN n ELSE step[k][f[k - 1]])
                           = (IF k = 0 THEN n ELSE f[k - 1] \div 256)
    BY <1>4
  <2> QED
    BY <1>3, <2>1 DEF MAX_LENGTH_OCTETS
<1>6. Quotients(n) = D(Quotients(n))
  <2>1. Quotients(n) = CHOOSE g : g = D(g)
    BY DEF Quotients
  <2> HIDE DEF D
  <2> QED
    BY <1>5, <2>1
<1>7. /\ Quotients(n)[0] = n
      /\ \A k \in 1..8 : Quotients(n)[k] = Quotients(n)[k - 1] \div 256
      /\ Quotients(n) = [k \in 0..8 |-> Quotients(n)[k]]
  BY <1>6 DEF MAX_LENGTH_OCTETS
<1>8. \A k \in 0..8 : f[k] = Quotients(n)[k]
  <2>1. f[0] = n /\ \A k \in 1..8 : f[k] = f[k - 1] \div 256
    BY <1>5 DEF MAX_LENGTH_OCTETS
  <2> HIDE DEF S, step, D
  <2>2. f[0] = Quotients(n)[0]
    BY <1>7, <2>1
  <2>3. \A k \in 1..8 : f[k - 1] = Quotients(n)[k - 1] => f[k] = Quotients(n)[k]
    BY <1>7, <2>1
  <2>4. GoAlike(8, f, Quotients(n))
    BY <2>2, <2>3 DEF GoAlike
  <2> QED
    BY <2>4, Coincidence
<1> QED
  BY <1>4, <1>7, <1>8

LEMMA DigitDropped ==
    ASSUME NEW a \in Nat, NEW o \in Octet
    PROVE  (a * 256 + o) \div 256 = a /\ (a * 256 + o) % 256 = o
BY DEF Octet

LEMMA OctetsAreNatural == Octet \subseteq Nat
BY DEF Octet

\* What a minimal length of several octets says is written as it was read.
LEMMA LongLengths ==
    ASSUME NEW octets, NEW from \in Nat, NEW size \in 1..8,
           NEW digits \in [1..size -> Octet], Digits(octets, from, size, digits),
           digits[1] # 0, BigEndian(octets, from, size) >= 128
    PROVE  LengthOctets(BigEndian(octets, from, size))
               = <<128 + size>> \o digits
<1>1. digits \in [1..size -> Nat] /\ size \in Nat
  <2>1. \A i \in 1..size : digits[i] \in Octet
    OBVIOUS
  <2>2. ASSUME NEW i \in 1..size
        PROVE  digits[i] \in Nat
    <3>1. digits[i] \in Octet
      BY <2>1
    <3> QED
      BY <3>1, OctetsAreNatural
  <2>3. digits = [i \in 1..size |-> digits[i]]
    OBVIOUS
  <2> QED
    BY <2>2, <2>3
<1>13. PICK acc : Accumulates(size, digits, acc) /\ BigEndian(octets, from, size) = acc[size]
  BY <1>1, BigEndianUnfolds
<1>2. /\ acc \in [0..size -> Nat] /\ acc[0] = 0
      /\ \A i \in 1..size : acc[i] = acc[i - 1] * 256 + digits[i]
      /\ BigEndian(octets, from, size) = acc[size]
  BY <1>13 DEF Accumulates
<1> DEFINE n == BigEndian(octets, from, size)
           left == Quotients(n)
<1>3. n \in Nat /\ n = acc[size]
  BY <1>2
<1> HIDE DEF n
<1>4. /\ left \in [0..8 -> Nat] /\ left[0] = n
      /\ \A k \in 1..8 : left[k] = left[k - 1] \div 256
  <2>1. PICK m \in Nat : m = n
    BY <1>3
  <2>2. /\ Quotients(m) \in [0..8 -> Nat] /\ Quotients(m)[0] = m
        /\ \A k \in 1..8 : Quotients(m)[k] = Quotients(m)[k - 1] \div 256
    BY QuotientsUnfold
  <2> QED
    BY <2>1, <2>2
<1> HIDE DEF left
<1>5. ASSUME NEW i \in 1..size
      PROVE  acc[i] \div 256 = acc[i - 1] /\ acc[i] % 256 = digits[i]
  <2>1. PICK a \in Nat, o \in Octet : a = acc[i - 1] /\ o = digits[i]
    BY <1>2
  <2>2. (a * 256 + o) \div 256 = a /\ (a * 256 + o) % 256 = o
    BY DigitDropped
  <2>3. acc[i] = a * 256 + o
    BY <1>2, <2>1
  <2> QED
    BY <2>1, <2>2, <2>3
<1>6. \A j \in 0..size : left[j] = acc[size - j]
  <2> DEFINE back == [j \in 0..size |-> acc[size - j]]
  <2>1. left[0] = back[0]
    BY <1>3, <1>4
  <2>2. ASSUME NEW j \in 1..size, left[j - 1] = back[j - 1]
        PROVE  left[j] = back[j]
    <3>1. size - j + 1 \in 1..size /\ j \in 1..8
      OBVIOUS
    <3>2. acc[size - j + 1] \div 256 = acc[size - j]
      BY <1>5, <3>1
    <3>3. back[j - 1] = acc[size - j + 1] /\ back[j] = acc[size - j]
      BY <3>1
    <3>4. left[j] = left[j - 1] \div 256
      BY <1>4, <3>1
    <3> QED
      BY <2>2, <3>2, <3>3, <3>4
  <2>3. size \in Nat /\ \A j \in 0..size : back[j] = acc[size - j]
    OBVIOUS
  <2> HIDE DEF back
  <2>5. GoAlike(size, left, back)
    BY <2>1, <2>2, <2>3 DEF GoAlike
  <2>4. \A j \in 0..size : left[j] = back[j]
    BY <2>5, Coincidence
  <2> QED
    BY <2>3, <2>4
<1>7. \A i \in 1..size : acc[i] # 0
  <2> DEFINE W == {i \in 1..size : acc[i] = 0}
  <2>1. SUFFICES ASSUME W # {}
                 PROVE  FALSE
    OBVIOUS
  <2>2. PICK i \in W : \A j \in W : i <= j
    <3>1. W \subseteq Nat
      OBVIOUS
    <3> HIDE DEF W
    <3> QED
      BY <2>1, <3>1, LeastElement
  <2>3. i \in 1..size /\ acc[i] = 0
    OBVIOUS
  <2>9. acc[i - 1] \in Nat /\ digits[i] \in Nat
    BY <1>1, <1>2, <2>3
  <2>4. PICK a \in Nat, d \in Nat : a = acc[i - 1] /\ d = digits[i]
    BY <2>9
  <2>5. a * 256 + d = 0
    BY <1>2, <2>3, <2>4
  <2>6. a = 0 /\ d = 0
    BY <2>5
  <2>7. i # 1
    BY <2>4, <2>6
  <2>8. i - 1 \in 1..size /\ i - 1 \notin W
    <3> HIDE DEF W
    <3> QED
      BY <2>2, <2>3, <2>7
  <2> QED
    BY <2>4, <2>6, <2>8
<1>8. \A k \in size..8 : left[k] = 0
  <2> DEFINE f == [i \in 0..8 - size |-> left[size + i]]
             g == [i \in 0..8 - size |-> 0]
  <2>1. f[0] = g[0]
    BY <1>2, <1>6
  <2>2. ASSUME NEW i \in 1..8 - size, f[i - 1] = g[i - 1]
        PROVE  f[i] = g[i]
    <3>1. left[size + i] = left[size + i - 1] \div 256
      <4>1. PICK k \in 1..8 : k = size + i
        OBVIOUS
      <4>2. left[k] = left[k - 1] \div 256
        BY <1>4, Zenon
      <4>3. k - 1 = size + i - 1
        BY <4>1
      <4> QED
        BY <4>1, <4>2, <4>3
    <3>2. left[size + i - 1] = 0
      BY <2>2
    <3> QED
      BY <3>1, <3>2
  <2>3. 8 - size \in Nat
    OBVIOUS
  <2>4. ASSUME NEW i \in 0..8 - size
        PROVE  f[i] = left[size + i] /\ g[i] = 0
    OBVIOUS
  <2> HIDE DEF f, g
  <2>6. GoAlike(8 - size, f, g)
    BY <2>1, <2>2, <2>3 DEF GoAlike
  <2>5. \A i \in 0..8 - size : f[i] = g[i]
    BY <2>6, Coincidence
  <2>7. ASSUME NEW k \in size..8
        PROVE  left[k] = 0
    <3>1. PICK i \in 0..8 - size : i = k - size
      OBVIOUS
    <3>2. k = size + i
      BY <3>1
    <3>3. left[size + i] = 0
      BY <2>4, <2>5
    <3> QED
      BY <3>2, <3>3
  <2> QED
    BY <2>7
<1> DEFINE IsSize(k) == left[k - 1] # 0 /\ (k < MAX_LENGTH_OCTETS => left[k] = 0)
<1>9. \A k \in 1..8 : IsSize(k) <=> k = size
  <2>1. ASSUME NEW k \in 1..8, IsSize(k)
        PROVE  k = size
    <3>1. ~ (k < size)
      BY <1>6, <1>7, <2>1 DEF MAX_LENGTH_OCTETS
    <3>2. ~ (k > size)
      BY <1>8, <2>1
    <3> QED
      BY <3>1, <3>2
  <2>2. IsSize(size)
    BY <1>2, <1>6, <1>7
  <2> QED
    BY <2>1, <2>2
<1>10. (CHOOSE k \in 1..MAX_LENGTH_OCTETS : IsSize(k)) = size
  <2> HIDE DEF IsSize
  <2> QED
    BY <1>9 DEF MAX_LENGTH_OCTETS
<1>11. LengthOctets(n) = <<128 + size>> \o [i \in 1..size |-> left[size - i] % 256]
  <2>1. ~ (n < 128)
    BY <1>3 DEF n
  <2> DEFINE sz == CHOOSE k \in 1..MAX_LENGTH_OCTETS :
                       left[k - 1] # 0 /\ (k < MAX_LENGTH_OCTETS => left[k] = 0)
  <2>2. LengthOctets(n) = <<128 + sz>> \o [i \in 1..sz |-> left[sz - i] % 256]
    BY <2>1, Zenon DEF LengthOctets, left
  <2>3. sz = size
    BY <1>10
  <2> HIDE DEF sz
  <2> QED
    BY <2>2, <2>3
<1>12. \A i \in 1..size : left[size - i] % 256 = digits[i]
  BY <1>5, <1>6
<1> QED
  BY <1>11, <1>12 DEF n

\* The length octets are octets, or at least numbers if the length is too large.
LEMMA LengthsAreSequences ==
    ASSUME NEW n \in Nat
    PROVE  LengthOctets(n) \in Seq(Nat)
<1>1. CASE n < 128
  BY <1>1 DEF LengthOctets
<1>2. CASE ~ (n < 128)
  <2> DEFINE left == Quotients(n)
             IsSize(k) == left[k - 1] # 0 /\ (k < MAX_LENGTH_OCTETS => left[k] = 0)
             sz == CHOOSE k \in 1..MAX_LENGTH_OCTETS : IsSize(k)
             T == {k \in 1..8 : k = 8 \/ left[k] = 0}
  <2>1. left \in [0..8 -> Nat] /\ left[0] # 0
    BY <1>2, QuotientsUnfold
  <2>2. PICK k \in T : \A j \in T : k <= j
    <3>1. T \subseteq Nat /\ 8 \in T
      OBVIOUS
    <3> HIDE DEF T
    <3>2. T # {}
      BY <3>1
    <3> QED
      BY <3>1, <3>2, LeastElement
  <2>3. k \in 1..8 /\ (k = 8 \/ left[k] = 0)
    OBVIOUS
  <2>4. left[k - 1] # 0
    <3>1. CASE k = 1
      BY <2>1, <3>1
    <3>2. CASE k # 1
      <4>1. k - 1 \in 1..8
        BY <2>3, <3>2
      <4>2. k - 1 \notin T
        <5> HIDE DEF T
        <5> QED
          BY <2>2, <2>3, <4>1
      <4> QED
        BY <4>1, <4>2
    <3> QED
      BY <3>1, <3>2
  <2>5. \E j \in 1..MAX_LENGTH_OCTETS : IsSize(j)
    BY <2>3, <2>4 DEF MAX_LENGTH_OCTETS
  <2>6. sz \in 1..8 /\ IsSize(sz)
    <3> HIDE DEF IsSize
    <3> QED
      BY <2>5 DEF MAX_LENGTH_OCTETS
  <2>7. LengthOctets(n) = <<128 + sz>> \o [i \in 1..sz |-> left[sz - i] % 256]
    BY <1>2, Zenon DEF LengthOctets
  <2> HIDE DEF sz, left
  <2>8. ASSUME NEW i \in 1..sz
        PROVE  left[sz - i] % 256 \in Nat
    <3>1. sz - i \in 0..8
      BY <2>6
    <3>2. PICK a \in Nat : a = left[sz - i]
      BY <2>1, <3>1
    <3>3. a % 256 \in Nat
      OBVIOUS
    <3> QED
      BY <3>2, <3>3
  <2>9. [i \in 1..sz |-> left[sz - i] % 256] \in Seq(Nat)
    BY <2>6, <2>8
  <2>10. <<128 + sz>> \in Seq(Nat)
    BY <2>6
  <2> QED
    BY <2>7, <2>9, <2>10, ConcatProperties
<1> QED
  BY <1>1, <1>2

-----------------------------------------------------------------------------
(* Parts of an input.                                                      *)

Part(in, p, q) == SubSeq(in.octets, p, q - 1)

LEMMA PartFacts ==
    ASSUME NEW in, IsInput(in), NEW p \in Positions(in), NEW q \in Positions(in), p <= q
    PROVE  /\ Part(in, p, q) \in Seq(Octet) /\ Part(in, p, q) \in Seq(Nat)
           /\ Len(Part(in, p, q)) = q - p
           /\ \A i \in 1..q - p : Part(in, p, q)[i] = in.octets[p + i - 1]
<1>1. PICK n \in Nat : n = Len(in.octets)
  BY DEF IsInput
<1>2. p \in 1..n + 1 /\ q \in 1..n + 1
  BY <1>1 DEF Positions
<1>3. \A i \in p..q - 1 : in.octets[i] \in Octet
  BY <1>1, <1>2 DEF IsInput
<1>4. p \in Int /\ q - 1 \in Int
  BY <1>2
<1>5. /\ SubSeq(in.octets, p, q - 1) \in Seq(Octet)
      /\ Len(SubSeq(in.octets, p, q - 1)) = IF p <= q - 1 THEN (q - 1) - p + 1 ELSE 0
      /\ \A i \in 1..(q - 1) - p + 1 : SubSeq(in.octets, p, q - 1)[i] = in.octets[p + i - 1]
  BY <1>3, <1>4, SubSeqProperties
<1>6. Seq(Octet) \subseteq Seq(Nat)
  BY OctetsAreNatural, SeqMonotonic
<1>7. (q - 1) - p + 1 = q - p /\ (IF p <= q - 1 THEN (q - 1) - p + 1 ELSE 0) = q - p
  BY <1>2
<1>8. Part(in, p, q) = SubSeq(in.octets, p, q - 1)
  BY DEF Part
<1>9. Part(in, p, q) \in Seq(Octet)
  BY <1>5, <1>8
<1>10. Len(Part(in, p, q)) = q - p
  BY <1>5, <1>7, <1>8
<1>11. \A i \in 1..q - p : Part(in, p, q)[i] = in.octets[p + i - 1]
  BY <1>5, <1>7, <1>8
<1> QED
  BY <1>6, <1>9, <1>10, <1>11

LEMMA PartsJoin ==
    ASSUME NEW in, IsInput(in), NEW p \in Positions(in), NEW m \in Positions(in),
           NEW q \in Positions(in), p <= m, m <= q
    PROVE  Part(in, p, m) \o Part(in, m, q) = Part(in, p, q)
<1>1. PICK n \in Nat : n = Len(in.octets)
  BY DEF IsInput
<1>2. p \in 1..n + 1 /\ q \in 1..n + 1 /\ m \in 1..n + 1
  BY <1>1 DEF Positions
<1>3. PICK k \in p - 1..n : k = m - 1
  BY <1>2
<1>4. PICK l \in k..n : l = q - 1
  BY <1>2, <1>3
<1>5. SubSeq(in.octets, p, k) \o SubSeq(in.octets, k + 1, l) = SubSeq(in.octets, p, l)
  BY <1>1, <1>2, ConcatAdjacentSubSeq DEF IsInput
<1>6. k + 1 = m
  BY <1>2, <1>3
<1> QED
  BY <1>3, <1>4, <1>5, <1>6 DEF Part

LEMMA NumbersAssociate ==
    ASSUME NEW s \in Seq(Nat), NEW t \in Seq(Nat), NEW r \in Seq(Nat)
    PROVE  (s \o t) \o r = s \o (t \o r)
<1> DEFINE P(a, b, c) == (a \o b) \o c = a \o (b \o c)
<1>1. \A S : \A a, b, c \in Seq(S) : P(a, b, c)
  BY ConcatAssociative, Zenon
<1>2. P(s, t, r)
  <2> HIDE DEF P
  <2> QED
    BY <1>1
<1> QED
  BY <1>2

LEMMA SingletonSequence ==
    ASSUME NEW S, NEW s \in Seq(S), Len(s) = 1
    PROVE  s = <<s[1]>>
  BY SeqEqual

LEMMA PairSequence ==
    ASSUME NEW S, NEW s \in Seq(S), Len(s) = 2
    PROVE  s = <<s[1], s[2]>>
<1>1. s[1] \in S /\ s[2] \in S
  BY ElementOfSeq
<1>2. <<s[1], s[2]>> \in Seq(S) /\ Len(<<s[1], s[2]>>) = 2
  BY <1>1
<1>3. \A i \in 1..2 : s[i] = <<s[1], s[2]>>[i]
  OBVIOUS
<1> QED
  BY <1>2, <1>3, SeqEqual

LEMMA ShortParts ==
    ASSUME NEW in, IsInput(in), NEW p \in Positions(in)
    PROVE  /\ Part(in, p, p) = <<>>
           /\ p + 1 \in Positions(in) => Part(in, p, p + 1) = <<in.octets[p]>>
           /\ p + 2 \in Positions(in) =>
                 Part(in, p, p + 2) = <<in.octets[p], in.octets[p + 1]>>
<1>0. p \in Nat /\ p <= p /\ p <= p + 1 /\ p <= p + 2
  BY DEF Positions
<1>1. Len(Part(in, p, p)) = 0 /\ Part(in, p, p) \in Seq(Nat)
  BY <1>0, PartFacts
<1>2. ASSUME p + 1 \in Positions(in)
      PROVE  Part(in, p, p + 1) = <<in.octets[p]>>
  <2>1. PICK q \in Positions(in) : q = p + 1
    BY <1>2
  <2>2. /\ Part(in, p, q) \in Seq(Nat) /\ Len(Part(in, p, q)) = q - p
        /\ \A i \in 1..q - p : Part(in, p, q)[i] = in.octets[p + i - 1]
    BY <1>0, <2>1, PartFacts
  <2>3. q - p = 1
    BY <1>0, <2>1
  <2>4. Part(in, p, q)[1] = in.octets[p]
    BY <1>0, <2>2, <2>3
  <2>5. Len(Part(in, p, q)) = 1
    BY <2>2, <2>3
  <2> QED
    BY <2>1, <2>2, <2>4, <2>5, SingletonSequence
<1>3. ASSUME p + 2 \in Positions(in)
      PROVE  Part(in, p, p + 2) = <<in.octets[p], in.octets[p + 1]>>
  <2>1. PICK q \in Positions(in) : q = p + 2
    BY <1>3
  <2>2. /\ Part(in, p, q) \in Seq(Nat) /\ Len(Part(in, p, q)) = q - p
        /\ \A i \in 1..q - p : Part(in, p, q)[i] = in.octets[p + i - 1]
    BY <1>0, <2>1, PartFacts
  <2>3. q - p = 2
    BY <1>0, <2>1
  <2>4. Part(in, p, q)[1] = in.octets[p] /\ Part(in, p, q)[2] = in.octets[p + 1]
    <3>1. p + 1 - 1 = p /\ p + 2 - 1 = p + 1
      BY <1>0
    <3>2. Part(in, p, q)[1] = in.octets[p + 1 - 1] /\ Part(in, p, q)[2] = in.octets[p + 2 - 1]
      BY <2>2, <2>3
    <3> QED
      BY <3>1, <3>2
  <2>5. Len(Part(in, p, q)) = 2
    BY <2>2, <2>3
  <2> QED
    BY <2>1, <2>2, <2>4, <2>5, PairSequence
<1> QED
  BY <1>1, <1>2, <1>3

\* A header in the shortest form is written as it was read.
LEMMA HeaderSpelled ==
    ASSUME NEW in, IsInput(in), NEW p \in Positions(in), NEW w \in Positions(in),
           HeaderFits(in, p, w), ~IsIndefiniteAt(in, p), in.rules.requireMinimalLength
    PROVE  Part(in, p, ContentsAt(in, p)) = <<in.octets[p]>> \o LengthOctets(LengthAt(in, p))
<1>1. PICK n \in Nat : n = Len(in.octets)
  BY DEF IsInput
<1>2. /\ p \in Nat /\ w \in Nat /\ 1 <= p /\ w <= n + 1 /\ p + 1 < w
      /\ ContentsAt(in, p) <= w /\ ContentsAt(in, p) \in p + 2..w
  BY <1>1, HeadersAreRead DEF Positions, HeaderFits
<1>3. p + 1 \in Positions(in) /\ p + 2 \in Positions(in) /\ ContentsAt(in, p) \in Positions(in)
  BY <1>1, <1>2 DEF Positions
<1>4. PICK o \in Octet : o = in.octets[p + 1]
  BY <1>1, <1>2 DEF IsInput
<1>5. CASE o < 128
  <2>1. SizeAt(in, p) = 1 /\ LengthAt(in, p) = o
    BY <1>4, <1>5 DEF SizeAt, LengthAt, Octet
  <2>2. ContentsAt(in, p) = p + 2
    BY <1>2, <2>1 DEF ContentsAt
  <2>3. LengthOctets(o) = <<o>>
    BY <1>5 DEF LengthOctets
  <2>4. Part(in, p, p + 2) = <<in.octets[p], in.octets[p + 1]>>
    BY <1>3, ShortParts
  <2> QED
    BY <1>4, <2>1, <2>2, <2>3, <2>4
<1>6. CASE ~ (o < 128)
  <2>1. PICK size \in 1..127 : size = o - 128
    BY <1>4, <1>6 DEF Octet, IsIndefiniteAt
  <2>2. SizeAt(in, p) = size + 1 /\ LengthAt(in, p) = BigEndian(in.octets, p + 2, size)
    BY <1>4, <1>6, <2>1 DEF SizeAt, LengthAt, IsIndefiniteAt, Octet
  <2>3. size \in 1..8
    BY <2>1, <2>2 DEF HeaderFits, MAX_LENGTH_OCTETS
  <2>4. PICK c \in Positions(in) : c = ContentsAt(in, p)
    BY <1>3
  <2>20. PICK m \in Positions(in) : m = p + 2
    BY <1>3
  <2>5. c = m + size /\ m \in Nat /\ c \in Nat /\ p <= m /\ m <= c /\ c - m = size
    BY <1>2, <2>1, <2>2, <2>4, <2>20 DEF ContentsAt
  <2> DEFINE digits == Part(in, m, c)
  <2>6. /\ digits \in Seq(Octet) /\ digits \in Seq(Nat) /\ Len(digits) = c - m
        /\ \A i \in 1..c - m : digits[i] = in.octets[m + i - 1]
    <3>1. m <= c
      BY <2>5
    <3> QED
      BY <3>1, PartFacts, Zenon
  <2>12. Part(in, p, c) = Part(in, p, m) \o digits
    BY <2>5, PartsJoin
  <2> HIDE DEF digits
  <2>8. digits \in [1..size -> Octet] /\ Digits(in.octets, m, size, digits)
    BY <2>5, <2>6 DEF Digits
  <2>9. LengthAt(in, p) >= 128 /\ in.octets[m] # 0
    BY <2>2, <2>3, <2>20 DEF HeaderFits, LengthAllowed
  <2>10. digits[1] # 0
    <3>1. digits[1] = in.octets[m + 1 - 1]
      BY <2>3, <2>5, <2>6
    <3> QED
      BY <2>5, <2>9, <3>1
  <2>21. LengthAt(in, p) = BigEndian(in.octets, m, size)
    BY <2>2, <2>20
  <2>22. BigEndian(in.octets, m, size) >= 128
    BY <2>9, <2>21
  <2>23. LengthOctets(BigEndian(in.octets, m, size)) = <<128 + size>> \o digits
    <3>1. m \in Nat
      BY <2>5
    <3>2. ASSUME NEW s \in 1..8, NEW d \in [1..s -> Octet], Digits(in.octets, m, s, d),
                 d[1] # 0, BigEndian(in.octets, m, s) >= 128
          PROVE  LengthOctets(BigEndian(in.octets, m, s)) = <<128 + s>> \o d
      <4>1. PICK octets : octets = in.octets
        OBVIOUS
      <4>2. Digits(octets, m, s, d) /\ BigEndian(octets, m, s) >= 128
        BY <3>2, <4>1
      <4>3. LengthOctets(BigEndian(octets, m, s)) = <<128 + s>> \o d
        BY <3>1, <3>2, <4>2, LongLengths, ZenonT(60)
      <4> QED
        BY <4>1, <4>3
    <3> QED
      BY <2>3, <2>8, <2>10, <2>22, <3>2, Zenon
  <2>11. LengthOctets(LengthAt(in, p)) = <<128 + size>> \o digits
    BY <2>21, <2>23
  <2>13. Part(in, p, m) = <<in.octets[p], o>>
    BY <1>3, <1>4, <2>20, ShortParts
  <2>14. o = 128 + size /\ o \in Nat
    BY <1>4, <2>1
  <2>24. p \in 1..n
    BY <1>2
  <2>25. in.octets[p] \in Octet
    BY <1>1, <2>24 DEF IsInput
  <2>15. in.octets[p] \in Nat
    BY <2>25, OctetsAreNatural
  <2>16. <<in.octets[p]>> \in Seq(Nat) /\ <<o>> \in Seq(Nat)
    BY <2>14, <2>15
  <2>17. <<in.octets[p], o>> = <<in.octets[p]>> \o <<o>>
    BY <2>14, <2>15
  <2>18. (<<in.octets[p]>> \o <<o>>) \o digits = <<in.octets[p]>> \o (<<o>> \o digits)
    BY <2>6, <2>16, NumbersAssociate
  <2> QED
    BY <2>4, <2>11, <2>12, <2>13, <2>14, <2>17, <2>18
<1> QED
  BY <1>5, <1>6

-----------------------------------------------------------------------------
(* Strings, one after the other.                                           *)

Cat(s, t) == s \o t

Joins(strings, acc) ==
    /\ acc \in [0..Len(strings) -> Seq(Nat)]
    /\ acc[0] = <<>>
    /\ \A i \in 1..Len(strings) : acc[i] = acc[i - 1] \o strings[i]

LEMMA JoinedUnfolds ==
    ASSUME NEW strings \in Seq(Seq(Nat))
    PROVE  \E acc : Joins(strings, acc) /\ Joined(strings) = acc[Len(strings)]
<1>0. PICK n \in Nat : n = Len(strings)
  OBVIOUS
<1> DEFINE S == [i \in 0..n |-> Seq(Nat)]
           step == [i \in 1..n |-> [x \in Seq(Nat) |-> Cat(x, strings[i])]]
           D(f) == [i \in 0..n |-> IF i = 0 THEN <<>> ELSE Cat(f[i - 1], strings[i])]
<1>9. \A i \in 1..n : strings[i] \in Seq(Nat)
  BY <1>0, ElementOfSeq
<1>1. Steps(n, S, <<>>, step)
  <2>1. ASSUME NEW i \in 1..n, NEW x \in Seq(Nat)
        PROVE  Cat(x, strings[i]) \in Seq(Nat)
    BY <1>9, ConcatProperties DEF Cat
  <2>2. <<>> \in Seq(Nat)
    OBVIOUS
  <2> QED
    BY <2>1, <2>2 DEF Steps
<1>2. PICK f : Iterates(n, S, <<>>, step, f)
  <2> HIDE DEF S, step
  <2> QED
    BY <1>1, Iteration
<1>3. f = [i \in 0..n |-> IF i = 0 THEN <<>> ELSE step[i][f[i - 1]]]
  <2> HIDE DEF step
  <2> QED
    BY <1>2 DEF Iterates
<1>4. \A i \in 0..n : f[i] \in Seq(Nat)
  BY <1>2 DEF Iterates
<1>5. f = D(f)
  <2>1. ASSUME NEW i \in 1..n
        PROVE  step[i][f[i - 1]] = Cat(f[i - 1], strings[i])
    <3>1. f[i - 1] \in Seq(Nat)
      BY <1>4
    <3> QED
      BY <3>1
  <2> HIDE DEF step
  <2>2. \A i \in 0..n : (IF i = 0 THEN <<>> ELSE step[i][f[i - 1]])
                           = (IF i = 0 THEN <<>> ELSE Cat(f[i - 1], strings[i]))
    BY <2>1
  <2> QED
    BY <1>3, <2>2
<1> DEFINE acc == CHOOSE g : g = D(g)
<1>6. acc = D(acc)
  <2> HIDE DEF D
  <2> QED
    BY <1>5
<1>7. Joined(strings) = acc[n]
  BY <1>0 DEF Joined, Cat
<1> HIDE DEF acc
<1>8. /\ acc = [i \in 0..n |-> acc[i]]
      /\ \A i \in 0..n : acc[i] = (IF i = 0 THEN <<>> ELSE Cat(acc[i - 1], strings[i]))
  BY <1>6
<1>10. \A i \in 0..n : f[i] = acc[i]
  <2>1. \A i \in 0..n : f[i] = (IF i = 0 THEN <<>> ELSE Cat(f[i - 1], strings[i]))
    BY <1>5
  <2> HIDE DEF S, step, D
  <2>2. f[0] = acc[0]
    <3>1. 0 \in 0..n
      BY <1>0
    <3> QED
      BY <1>8, <2>1, <3>1
  <2>3. ASSUME NEW i \in 1..n, f[i - 1] = acc[i - 1]
        PROVE  f[i] = acc[i]
    <3>1. i \in 0..n /\ i # 0
      OBVIOUS
    <3>2. f[i] = Cat(f[i - 1], strings[i]) /\ acc[i] = Cat(acc[i - 1], strings[i])
      BY <1>8, <2>1, <3>1
    <3> QED
      BY <2>3, <3>2
  <2>4. GoAlike(n, f, acc)
    BY <2>2, <2>3 DEF GoAlike
  <2> QED
    BY <2>4, Coincidence
<1>11. acc \in [0..n -> Seq(Nat)]
  BY <1>4, <1>8, <1>10
<1>12. acc[0] = <<>> /\ \A i \in 1..n : acc[i] = acc[i - 1] \o strings[i]
  <2>1. acc[0] = <<>> /\ \A i \in 1..n : acc[i] = Cat(acc[i - 1], strings[i])
    BY <1>8
  <2> QED
    BY <2>1 DEF Cat
<1> QED
  BY <1>0, <1>7, <1>11, <1>12 DEF Joins

LEMMA NothingJoined ==
    ASSUME NEW strings \in Seq(Seq(Nat)), Len(strings) = 0
    PROVE  Joined(strings) = <<>>
  BY JoinedUnfolds DEF Joins

LEMMA JoinedIsSequence ==
    ASSUME NEW strings \in Seq(Seq(Nat))
    PROVE  Joined(strings) \in Seq(Nat)
<1>1. PICK n \in Nat : n = Len(strings)
  OBVIOUS
<1>2. PICK acc : Joins(strings, acc) /\ Joined(strings) = acc[Len(strings)]
  BY JoinedUnfolds
<1> QED
  BY <1>1, <1>2 DEF Joins

LEMMA JoinedFromTheFront ==
    ASSUME NEW strings \in Seq(Seq(Nat)), NEW rest \in Seq(Seq(Nat)),
           Len(strings) = Len(rest) + 1,
           \A i \in 1..Len(rest) : strings[i + 1] = rest[i]
    PROVE  Joined(strings) = strings[1] \o Joined(rest)
<1>1. PICK n \in Nat : n = Len(rest)
  OBVIOUS
<1>2. PICK acc : Joins(strings, acc) /\ Joined(strings) = acc[n + 1]
  <2>1. \E acc : Joins(strings, acc) /\ Joined(strings) = acc[Len(strings)]
    BY JoinedUnfolds
  <2> QED
    BY <1>1, <2>1
<1>3. PICK tail : Joins(rest, tail) /\ Joined(rest) = tail[n]
  <2>1. \E a : Joins(rest, a) /\ Joined(rest) = a[Len(rest)]
    BY JoinedUnfolds
  <2> QED
    BY <1>1, <2>1
<1>4. /\ acc \in [0..n + 1 -> Seq(Nat)] /\ acc[0] = <<>>
      /\ \A i \in 1..n + 1 : acc[i] = acc[i - 1] \o strings[i]
  BY <1>1, <1>2 DEF Joins
<1>5. /\ tail \in [0..n -> Seq(Nat)] /\ tail[0] = <<>>
      /\ \A i \in 1..n : tail[i] = tail[i - 1] \o rest[i]
  BY <1>1, <1>3 DEF Joins
<1>6. strings[1] \in Seq(Nat) /\ \A i \in 1..n : rest[i] \in Seq(Nat)
  BY <1>1, ElementOfSeq
<1> DEFINE f == [i \in 0..n |-> acc[i + 1]]
           g == [i \in 0..n |-> Cat(strings[1], tail[i])]
<1>7. f[0] = g[0]
  <2>1. acc[1] = acc[0] \o strings[1]
    <3>1. PICK j \in 1..n + 1 : j = 1
      BY <1>1
    <3>2. acc[j] = acc[j - 1] \o strings[j]
      BY <1>4
    <3> QED
      BY <3>1, <3>2
  <2>2. acc[1] = strings[1]
    BY <1>4, <1>6, <2>1, ConcatEmptySeq
  <2>3. strings[1] \o tail[0] = strings[1]
    BY <1>5, <1>6, ConcatEmptySeq
  <2>4. f[0] = acc[1] /\ g[0] = Cat(strings[1], tail[0])
    BY <1>1
  <2> QED
    BY <2>2, <2>3, <2>4 DEF Cat
<1>8. ASSUME NEW i \in 1..n, f[i - 1] = g[i - 1]
      PROVE  f[i] = g[i]
  <2>1. PICK j \in 1..n + 1 : j = i + 1
    OBVIOUS
  <2>2. acc[j] = acc[j - 1] \o strings[j]
    BY <1>4, Zenon
  <2>3. strings[j] = rest[i]
    BY <1>1, <2>1
  <2>4. acc[j - 1] = strings[1] \o tail[i - 1]
    <3>1. f[i - 1] = acc[j - 1] /\ g[i - 1] = Cat(strings[1], tail[i - 1])
      BY <2>1
    <3> HIDE DEF f, g
    <3> QED
      BY <1>8, <3>1 DEF Cat
  <2>5. tail[i - 1] \in Seq(Nat) /\ rest[i] \in Seq(Nat)
    BY <1>5, <1>6
  <2>6. (strings[1] \o tail[i - 1]) \o rest[i] = strings[1] \o (tail[i - 1] \o rest[i])
    <3>1. PICK s \in Seq(Nat), t \in Seq(Nat), r \in Seq(Nat) :
              s = strings[1] /\ t = tail[i - 1] /\ r = rest[i]
      BY <1>6, <2>5
    <3>2. (s \o t) \o r = s \o (t \o r)
      BY NumbersAssociate
    <3> QED
      BY <3>1, <3>2
  <2>7. f[i] = acc[j] /\ g[i] = Cat(strings[1], tail[i])
    BY <2>1
  <2>8. tail[i] = tail[i - 1] \o rest[i]
    BY <1>5
  <2> HIDE DEF f, g
  <2> QED
    BY <2>2, <2>3, <2>4, <2>6, <2>7, <2>8 DEF Cat
<1>9. f[n] = acc[n + 1] /\ g[n] = Cat(strings[1], tail[n])
  BY <1>1
<1> HIDE DEF f, g
<1>10. GoAlike(n, f, g)
  BY <1>1, <1>7, <1>8 DEF GoAlike
<1>11. f[n] = g[n]
  <2>1. \A i \in 0..n : f[i] = g[i]
    BY <1>10, Coincidence
  <2> QED
    BY <1>1, <2>1
<1> QED
  BY <1>2, <1>3, <1>9, <1>11 DEF Cat

-----------------------------------------------------------------------------
(* Constructed encodings.                                                  *)

LEMMA ConstructionsAreSequences ==
    ASSUME NEW t \in Nat, NEW contents \in Seq(Nat), NEW indefinite
    PROVE  Construction(t, contents, indefinite) \in Seq(Nat)
<1>1. /\ <<t + 32>> \in Seq(Nat) /\ <<t + 32, 128>> \in Seq(Nat) /\ <<0, 0>> \in Seq(Nat)
      /\ LengthOctets(Len(contents)) \in Seq(Nat)
  BY LengthsAreSequences
<1>2. \A a, b, c \in Seq(Nat) : a \o b \o c \in Seq(Nat)
  <2>1. ASSUME NEW a \in Seq(Nat), NEW b \in Seq(Nat), NEW c \in Seq(Nat)
        PROVE  a \o b \o c \in Seq(Nat)
    <3>1. a \o b \in Seq(Nat)
      BY ConcatProperties
    <3> QED
      BY <3>1, ConcatProperties
  <2> QED
    BY <2>1
<1>3. CASE indefinite
  BY <1>1, <1>2, <1>3, Zenon DEF Construction
<1>4. CASE ~indefinite
  BY <1>1, <1>2, <1>4, Zenon DEF Construction
<1> QED
  BY <1>3, <1>4

\* The encodings under one more tag each.
Wraps(tags, encoding, indefinite, wrapped) ==
    /\ wrapped \in [0..Len(tags) -> Seq(Nat)]
    /\ wrapped[0] = encoding
    /\ \A i \in 1..Len(tags) : wrapped[i] = Construction(tags[i], wrapped[i - 1], indefinite)

LEMMA WrappedUnfolds ==
    ASSUME NEW tags \in Seq(Nat), NEW encoding \in Seq(Nat), NEW indefinite
    PROVE  \E wrapped : /\ Wraps(tags, encoding, indefinite, wrapped)
                        /\ Wrapped(tags, encoding, indefinite) = wrapped[Len(tags)]
<1>0. PICK n \in Nat : n = Len(tags)
  OBVIOUS
<1> DEFINE S == [i \in 0..n |-> Seq(Nat)]
           step == [i \in 1..n |-> [x \in Seq(Nat) |-> Construction(tags[i], x, indefinite)]]
           D(f) == [i \in 0..n |-> IF i = 0 THEN encoding
                                   ELSE Construction(tags[i], f[i - 1], indefinite)]
<1>9. \A i \in 1..n : tags[i] \in Nat
  BY <1>0, ElementOfSeq
<1>1. Steps(n, S, encoding, step)
  <2>1. ASSUME NEW i \in 1..n, NEW x \in Seq(Nat)
        PROVE  Construction(tags[i], x, indefinite) \in Seq(Nat)
    BY <1>9, ConstructionsAreSequences
  <2> QED
    BY <2>1 DEF Steps
<1>2. PICK f : Iterates(n, S, encoding, step, f)
  <2> HIDE DEF S, step
  <2> QED
    BY <1>1, Iteration
<1>3. f = [i \in 0..n |-> IF i = 0 THEN encoding ELSE step[i][f[i - 1]]]
  <2> HIDE DEF step
  <2> QED
    BY <1>2 DEF Iterates
<1>4. \A i \in 0..n : f[i] \in Seq(Nat)
  BY <1>2 DEF Iterates
<1>5. f = D(f)
  <2>1. ASSUME NEW i \in 1..n
        PROVE  step[i][f[i - 1]] = Construction(tags[i], f[i - 1], indefinite)
    <3>1. f[i - 1] \in Seq(Nat)
      BY <1>4
    <3> QED
      BY <3>1
  <2> HIDE DEF step
  <2>2. \A i \in 0..n : (IF i = 0 THEN encoding ELSE step[i][f[i - 1]])
            = (IF i = 0 THEN encoding ELSE Construction(tags[i], f[i - 1], indefinite))
    BY <2>1
  <2> QED
    BY <1>3, <2>2
<1> DEFINE wrapped == CHOOSE g : g = D(g)
<1>6. wrapped = D(wrapped)
  <2> HIDE DEF D
  <2> QED
    BY <1>5
<1>7. Wrapped(tags, encoding, indefinite) = wrapped[n]
  BY <1>0 DEF Wrapped
<1> HIDE DEF wrapped
<1>8. /\ wrapped = [i \in 0..n |-> wrapped[i]]
      /\ \A i \in 0..n : wrapped[i] = (IF i = 0 THEN encoding
                                       ELSE Construction(tags[i], wrapped[i - 1], indefinite))
  BY <1>6
<1>10. \A i \in 0..n : f[i] = wrapped[i]
  <2>1. \A i \in 0..n : f[i] = (IF i = 0 THEN encoding
                                ELSE Construction(tags[i], f[i - 1], indefinite))
    BY <1>5
  <2> HIDE DEF S, step, D
  <2>2. f[0] = wrapped[0]
    <3>1. 0 \in 0..n
      BY <1>0
    <3> QED
      BY <1>8, <2>1, <3>1
  <2>3. ASSUME NEW i \in 1..n, f[i - 1] = wrapped[i - 1]
        PROVE  f[i] = wrapped[i]
    <3>1. i \in 0..n /\ i # 0
      OBVIOUS
    <3>2. /\ f[i] = Construction(tags[i], f[i - 1], indefinite)
          /\ wrapped[i] = Construction(tags[i], wrapped[i - 1], indefinite)
      BY <1>8, <2>1, <3>1
    <3> QED
      BY <2>3, <3>2
  <2>4. GoAlike(n, f, wrapped)
    BY <2>2, <2>3 DEF GoAlike
  <2> QED
    BY <2>4, Coincidence
<1>11. wrapped \in [0..n -> Seq(Nat)]
  BY <1>4, <1>8, <1>10
<1>12. /\ wrapped[0] = encoding
       /\ \A i \in 1..n : wrapped[i] = Construction(tags[i], wrapped[i - 1], indefinite)
  BY <1>8
<1> QED
  BY <1>0, <1>7, <1>11, <1>12 DEF Wraps

LEMMA WrappedFacts ==
    ASSUME NEW tags \in Seq(Nat), NEW encoding \in Seq(Nat), NEW indefinite
    PROVE  /\ Wrapped(tags, encoding, indefinite) \in Seq(Nat)
           /\ Len(tags) = 0 => Wrapped(tags, encoding, indefinite) = encoding
<1>1. PICK n \in Nat : n = Len(tags)
  OBVIOUS
<1>2. PICK wrapped : /\ Wraps(tags, encoding, indefinite, wrapped)
                     /\ Wrapped(tags, encoding, indefinite) = wrapped[n]
  <2>1. \E wrapped : /\ Wraps(tags, encoding, indefinite, wrapped)
                     /\ Wrapped(tags, encoding, indefinite) = wrapped[Len(tags)]
    BY WrappedUnfolds
  <2> QED
    BY <1>1, <2>1
<1>3. wrapped \in [0..n -> Seq(Nat)] /\ wrapped[0] = encoding
  BY <1>1, <1>2 DEF Wraps
<1> QED
  BY <1>1, <1>2, <1>3

LEMMA WrappedOnceMore ==
    ASSUME NEW tags \in Seq(Nat), NEW t \in Nat, NEW encoding \in Seq(Nat), NEW indefinite
    PROVE  Wrapped(Append(tags, t), encoding, indefinite)
               = Construction(t, Wrapped(tags, encoding, indefinite), indefinite)
<1>1. PICK n \in Nat : n = Len(tags)
  OBVIOUS
<1>2. PICK more \in Seq(Nat) : more = Append(tags, t)
  BY AppendProperties
<1>3. /\ Len(more) = n + 1 /\ more[n + 1] = t
      /\ \A i \in 1..n : more[i] = tags[i]
  BY <1>1, <1>2
<1>4. PICK f : Wraps(tags, encoding, indefinite, f) /\ Wrapped(tags, encoding, indefinite) = f[n]
  <2>1. \E f : /\ Wraps(tags, encoding, indefinite, f)
               /\ Wrapped(tags, encoding, indefinite) = f[Len(tags)]
    BY WrappedUnfolds
  <2> QED
    BY <1>1, <2>1
<1>5. PICK g : Wraps(more, encoding, indefinite, g) /\ Wrapped(more, encoding, indefinite) = g[n + 1]
  <2>1. \E g : /\ Wraps(more, encoding, indefinite, g)
               /\ Wrapped(more, encoding, indefinite) = g[Len(more)]
    BY WrappedUnfolds
  <2> QED
    BY <1>3, <2>1
<1>6. /\ f[0] = encoding
      /\ \A i \in 1..n : f[i] = Construction(tags[i], f[i - 1], indefinite)
  BY <1>1, <1>4 DEF Wraps
<1>7. /\ g[0] = encoding
      /\ \A i \in 1..n + 1 : g[i] = Construction(more[i], g[i - 1], indefinite)
  BY <1>3, <1>5 DEF Wraps
<1>8. ASSUME NEW i \in 1..n, f[i - 1] = g[i - 1]
      PROVE  f[i] = g[i]
  <2>1. i \in 1..n + 1
    BY <1>1
  <2>2. f[i] = Construction(tags[i], f[i - 1], indefinite) /\ more[i] = tags[i]
    BY <1>3, <1>6
  <2>3. g[i] = Construction(more[i], g[i - 1], indefinite)
    BY <1>7, <2>1
  <2> QED
    BY <1>8, <2>2, <2>3
<1>9. GoAlike(n, f, g)
  BY <1>6, <1>7, <1>8 DEF GoAlike
<1>10. f[n] = g[n]
  BY <1>9, Coincidence
<1>11. g[n + 1] = Construction(more[n + 1], g[n], indefinite)
  <2>1. PICK j \in 1..n + 1 : j = n + 1
    OBVIOUS
  <2>2. g[j] = Construction(more[j], g[j - 1], indefinite)
    BY <1>7
  <2>3. j - 1 = n
    BY <2>1
  <2> QED
    BY <2>1, <2>2, <2>3
<1> QED
  BY <1>2, <1>3, <1>4, <1>5, <1>10, <1>11

Value(a, s, o, k) == [type |-> a, tags |-> s, octs |-> o, kids |-> k]

-----------------------------------------------------------------------------
(* The values of the canonical rules.                                      *)

\* The inputs whose accepted encodings are canonical ones.
IsCanonical(in) ==
    \/ in.rules = DER /\ HasNoConstructedBoolean(in)
    \/ in.rules = CER /\ HasNoConstructedString(in)

LEMMA CanonicalHeaders ==
    ASSUME NEW in, IsInput(in), IsCanonical(in),
           NEW p \in Positions(in), NEW q \in Positions(in), HeaderFits(in, p, q)
    PROVE  /\ ~IsConstructedString(in, p)
           /\ in.rules.requireMinimalLength
           /\ Constructed(in.octets[p]) => (IsIndefiniteAt(in, p) <=> in.rules = CER)
           /\ in.rules = CER => in.rules # DER
<1>1. /\ CER.requireMinimalLength /\ DER.requireMinimalLength
      /\ CER.requireIndefLengthForConstructed /\ ~DER.supportIndefLength
      /\ ~DER.supportConstructedForm /\ CER # DER
  BY DEF CER, DER, BER
<1>2. LengthAllowed(in, p)
  BY DEF HeaderFits
<1>3. ASSUME in.rules = DER
      PROVE  ~IsConstructedString(in, p) /\ ~IsIndefiniteAt(in, p)
  BY <1>1, <1>2, <1>3 DEF LengthAllowed, IsConstructedString
<1>4. ASSUME in.rules = CER
      PROVE  /\ ~IsConstructedString(in, p)
             /\ Constructed(in.octets[p]) => IsIndefiniteAt(in, p)
  <2>1. p \in 1..Len(in.octets) - 1
    BY DEF HeaderFits, Positions, IsInput
  <2>2. HasNoConstructedString(in)
    BY <1>1, <1>4 DEF IsCanonical
  <2> QED
    BY <1>1, <1>2, <1>4, <2>1, <2>2 DEF LengthAllowed, HasNoConstructedString
<1>5. in.rules = DER \/ in.rules = CER
  BY DEF IsCanonical
<1> QED
  BY <1>1, <1>3, <1>4, <1>5

\* No encoding is a string made of fragments.
StringsArePlain(in) ==
    \A p, q \in Positions(in) : HeaderFits(in, p, q) => ~IsConstructedString(in, p)

LEMMA PlainStrings ==
    ASSUME NEW in, IsInput(in), IsCanonical(in) \/ HasNoConstructedString(in)
    PROVE  StringsArePlain(in)
<1>1. ASSUME NEW p \in Positions(in), NEW q \in Positions(in), HeaderFits(in, p, q)
      PROVE  ~IsConstructedString(in, p)
  <2>1. CASE IsCanonical(in)
    BY <1>1, <2>1, CanonicalHeaders
  <2>2. CASE HasNoConstructedString(in)
    <3>1. p \in 1..Len(in.octets) - 1
      BY <1>1 DEF HeaderFits, Positions, IsInput
    <3> QED
      BY <2>2, <3>1 DEF HasNoConstructedString
  <2> QED
    BY <2>1, <2>2
<1> QED
  BY <1>1 DEF StringsArePlain

\* The contents of the constructed encoding p .. q - 1 end at to, and their
\* window at within.
IsInside(in, p, q, w, unclosed, to, within) ==
    /\ ContentsAt(in, p) \in Positions(in) /\ p + 2 <= ContentsAt(in, p)
    /\ ContentsAt(in, p) <= to /\ to <= q /\ (q <= w => to <= within)
    /\ \/ ~IsIndefiniteAt(in, p) /\ EndsAt(in, p, q) /\ to = q /\ within = q
       \/ IsIndefiniteAt(in, p) /\ to = q - 2 /\ within = w /\ ZerosAt(in, q - 2)
       \/ IsIndefiniteAt(in, p) /\ unclosed /\ to = q /\ within = w /\ q = w

\* What these contents are.
Holds(in, p, q, w, unclosed, r) ==
    \E to \in Positions(in), within \in Positions(in) :
        /\ IsInside(in, p, q, w, unclosed, to, within)
        /\ r \in Run(in, "none", ContentsAt(in, p), to, within)

LEMMA ContentsHold ==
    ASSUME NEW in, IsInput(in),
           NEW p \in Positions(in), NEW q \in Positions(in), NEW w \in Positions(in),
           HeaderFits(in, p, q), NEW unclosed \in BOOLEAN,
           NEW r \in Contents(in, Chart(in), "none", p, q, w, unclosed)
    PROVE  Holds(in, p, q, w, unclosed, r)
<1>1. PICK c \in Positions(in) : c = ContentsAt(in, p) /\ c \in p + 2..q
  <2>1. ContentsAt(in, p) \in p + 2..q
    BY HeadersAreRead
  <2>2. \A c \in p + 2..q : c \in Positions(in)
    <3>1. PICK n \in Nat : n = Len(in.octets)
      BY DEF IsInput
    <3> QED
      BY <3>1 DEF Positions
  <2> QED
    BY <2>1, <2>2
<1>2. p \in Nat /\ q \in Nat /\ w \in Nat /\ c \in Nat /\ c <= q /\ p + 2 <= q
  BY <1>1 DEF Positions
<1>3. PICK e \in Positions(in) : e = q - 2
  BY <1>2 DEF Positions
<1>4. /\ Chart(in)[<<"run", "none", c, q, q>>] = Run(in, "none", c, q, q)
      /\ Chart(in)[<<"run", "none", c, q, w>>] = Run(in, "none", c, q, w)
      /\ Chart(in)[<<"run", "none", c, e, w>>] = Run(in, "none", c, e, w)
  BY DEF Run
<1>5. \/ ~IsIndefiniteAt(in, p) /\ EndsAt(in, p, q) /\ r \in Run(in, "none", c, q, q)
      \/ IsIndefiniteAt(in, p) /\ ZerosAt(in, q - 2) /\ r \in Run(in, "none", c, e, w)
      \/ IsIndefiniteAt(in, p) /\ unclosed /\ q = w /\ r \in Run(in, "none", c, q, w)
  BY <1>1, <1>3, <1>4 DEF Contents
<1>6. CASE ~IsIndefiniteAt(in, p) /\ EndsAt(in, p, q) /\ r \in Run(in, "none", c, q, q)
  BY <1>1, <1>2, <1>6 DEF Holds, IsInside
<1>7. CASE IsIndefiniteAt(in, p) /\ ZerosAt(in, q - 2) /\ r \in Run(in, "none", c, e, w)
  <2>1. ~ (e < c)
    BY <1>7, RunBackwards
  <2>2. c <= e /\ e <= q /\ (q <= w => e <= w)
    BY <1>2, <1>3, <2>1
  <2> QED
    BY <1>1, <1>3, <1>7, <2>2 DEF Holds, IsInside
<1>8. CASE IsIndefiniteAt(in, p) /\ unclosed /\ q = w /\ r \in Run(in, "none", c, q, w)
  BY <1>1, <1>2, <1>8 DEF Holds, IsInside
<1> QED
  BY <1>5, <1>6, <1>7, <1>8

\* The one item of a run ends where the run does.
LEMMA LoneItems ==
    ASSUME NEW in, IsInput(in), NEW spec \in {"none", "fragment", "segment"},
           NEW p \in Positions(in), NEW q \in Positions(in), NEW w \in Positions(in),
           NEW r \in Run(in, spec, p, q, w), Len(r) = 1
    PROVE  r[1] \in Item(in, spec, p, q, w)
<1>1. p # q
  <2>1. p = q => Run(in, spec, p, q, w) = {<<>>}
    BY RunsUnfold
  <2> QED
    BY <2>1
<1>2. Begins(in, spec, p, q, w, r)
  BY <1>1, RunBegins
<1>3. PICK m \in p + 2..q : \E x \in Item(in, spec, p, m, w) :
          \E rest \in Run(in, spec, m, q, w) : r = <<x>> \o rest
  BY <1>2, Zenon DEF Begins
<1>4. PICK x \in Item(in, spec, p, m, w), rest \in Run(in, spec, m, q, w) : r = <<x>> \o rest
  BY <1>3
<1>5. m \in Positions(in)
  BY DEF Positions, IsInput
<1>6. rest \in Seq(Elements(in, spec)) /\ r \in Seq(Elements(in, spec))
  BY <1>5, RunsAreSequences
<1>7. Len(r) = 1 + Len(rest) /\ r[1] = x
  BY <1>4, <1>6
<1>8. m = q
  <2>1. SUFFICES ASSUME m # q
                 PROVE  FALSE
    OBVIOUS
  <2>2. Begins(in, spec, m, q, w, rest)
    BY <1>5, <2>1, RunBegins
  <2>3. PICK y, more : rest = <<y>> \o more /\ \E e \in m + 2..q : more \in Run(in, spec, e, q, w)
    BY <2>2, Zenon DEF Begins
  <2>4. PICK e \in m + 2..q : more \in Run(in, spec, e, q, w)
    BY <2>3
  <2>5. e \in Positions(in)
    BY <1>5 DEF Positions, IsInput
  <2>6. more \in Seq(Elements(in, spec))
    BY <2>4, <2>5, RunsAreSequences
  <2>7. PICK k \in Nat : k = Len(more)
    BY <2>6
  <2>8. Len(rest) = 1 + k
    BY <2>3, <2>6, <2>7
  <2>9. 1 = 1 + (1 + k)
    BY <1>7, <2>8
  <2> QED
    BY <2>9
<1> QED
  BY <1>4, <1>7, <1>8

\* The three ways a value is read when no string is made of fragments.
IsBuilt(in, p, q, w, x) ==
    /\ Constructed(in.octets[p])
    /\ \E r : /\ Holds(in, p, q, w, TRUE, r) /\ x = Container(<<Bare(in.octets[p])>>, r)
              /\ IsContainer(in.octets[p]) \/ Len(r) > 1

IsRetagged(in, p, q, w, x) ==
    /\ Constructed(in.octets[p])
    /\ \E r : /\ Holds(in, p, q, w, FALSE, r) /\ Len(r) = 1
              /\ x = Retagged(r[1], in.octets[p])

IsPlain(in, p, q, x) ==
    /\ Constructed(in.octets[p]) => in.octets[p] = 33 /\ q = ContentsAt(in, p) + 1
    /\ EndsAt(in, p, q)
    /\ \E type \in {"Boolean", "Integer", "OctetString", "Null"} :
          x = Leaf(type, <<Bare(in.octets[p])>>, Part(in, ContentsAt(in, p), q))

LEMMA ValuesAreRead ==
    ASSUME NEW in, IsInput(in), StringsArePlain(in),
           NEW p \in Positions(in), NEW q \in Positions(in), NEW w \in Positions(in),
           NEW x \in Item(in, "none", p, q, w)
    PROVE  \/ IsBuilt(in, p, q, w, x)
           \/ IsRetagged(in, p, q, w, x)
           \/ IsPlain(in, p, q, x)
<1>1. HeaderFits(in, p, q) /\ x \in ValueItems(in, Chart(in), p, q, w)
  BY ItemsNeedHeaders, ItemsUnfold
<1>2. ~IsConstructedString(in, p)
  BY <1>1 DEF StringsArePlain
<1> DEFINE t == in.octets[p]
<1>3. \A u \in BOOLEAN : \A r \in Contents(in, Chart(in), "none", p, q, w, u) :
          Holds(in, p, q, w, u, r)
  BY <1>1, ContentsHold
<1>4. CASE IsContainer(t)
  <2>1. x \in {Container(<<Bare(t)>>, r) : r \in Contents(in, Chart(in), "none", p, q, w, TRUE)}
    BY <1>1, <1>4 DEF ValueItems
  <2>2. PICK r \in Contents(in, Chart(in), "none", p, q, w, TRUE) :
            x = Container(<<Bare(t)>>, r)
    BY <2>1
  <2>3. Holds(in, p, q, w, TRUE, r)
    BY <1>3
  <2> QED
    BY <1>4, <2>2, <2>3 DEF IsBuilt, IsContainer
<1>5. CASE ~IsContainer(t) /\ IsTagged(t)
  <2>1. x \in TaggedValues(in, Chart(in), p, q, w)
    BY <1>1, <1>2, <1>5 DEF ValueItems
  <2>2. CASE x \in {Container(<<Bare(t)>>, r) :
                r \in {k \in Contents(in, Chart(in), "none", p, q, w, TRUE) : Len(k) > 1}}
    <3>1. PICK r \in Contents(in, Chart(in), "none", p, q, w, TRUE) :
              x = Container(<<Bare(t)>>, r) /\ Len(r) > 1
      BY <2>2
    <3>2. Holds(in, p, q, w, TRUE, r)
      BY <1>3
    <3> QED
      BY <1>5, <3>1, <3>2 DEF IsBuilt, IsTagged
  <2>3. CASE x \in {Retagged(r[1], t) :
                r \in {k \in Contents(in, Chart(in), "none", p, q, w, FALSE) : Len(k) = 1}}
    <3>1. PICK r \in Contents(in, Chart(in), "none", p, q, w, FALSE) :
              Len(r) = 1 /\ x = Retagged(r[1], t)
      BY <2>3
    <3>2. Holds(in, p, q, w, FALSE, r)
      BY <1>3
    <3> QED
      BY <1>5, <3>1, <3>2 DEF IsRetagged, IsTagged
  <2> QED
    BY <2>1, <2>2, <2>3 DEF TaggedValues
<1>6. CASE ~IsContainer(t) /\ ~IsTagged(t)
  <2>1. x \in PrimitiveValues(in, p, q)
    BY <1>1, <1>2, <1>6 DEF ValueItems
  <2>2. /\ TagId(t) \in {1, 2, 4, 5} /\ EndsAt(in, p, q)
        /\ Constructed(t) => t = 33
        /\ TagId(t) = 1 => q - ContentsAt(in, p) = 1
        /\ x = Leaf(TagMap[TagId(t)], <<Bare(t)>>,
                    SubSeq(in.octets, ContentsAt(in, p), q - 1))
    BY <2>1 DEF PrimitiveValues
  <2>4. Constructed(t) => q = ContentsAt(in, p) + 1
    <3>1. t = 33 => TagId(t) = 1
      BY DEF TagId
    <3>2. ContentsAt(in, p) \in Int /\ q \in Int
      BY <1>1, HeadersAreRead DEF Positions
    <3> QED
      BY <2>2, <3>1, <3>2
  <2>3. TagMap[TagId(t)] \in {"Boolean", "Integer", "OctetString", "Null"}
    BY <2>2 DEF TagMap
  <2> QED
    BY <2>2, <2>3, <2>4 DEF IsPlain, Part
<1> QED
  BY <1>4, <1>5, <1>6

\* Among canonical inputs the identifier of a plain value is primitive.
LEMMA PlainFormats ==
    ASSUME NEW in, IsInput(in), IsCanonical(in), NEW p \in Positions(in),
           NEW q \in Positions(in), HeaderFits(in, p, q), NEW x, IsPlain(in, p, q, x)
    PROVE  ~Constructed(in.octets[p])
<1>1. SUFFICES ASSUME Constructed(in.octets[p])
               PROVE  FALSE
  OBVIOUS
<1>2. PICK c \in Positions(in) : c = ContentsAt(in, p) /\ c \in p + 2..q
  BY HeadersAreRead DEF Positions, IsInput
<1>3. in.octets[p] = 33 /\ q = c + 1 /\ EndsAt(in, p, q)
  BY <1>1, <1>2 DEF IsPlain
<1>4. p \in Int /\ c \in Int /\ p + 1 \in 1..Len(in.octets) /\ p \in 1..Len(in.octets) - 1
      /\ in.octets[p + 1] \in Octet
  BY <1>2 DEF Positions, IsInput, HeaderFits
<1>5. ~IsIndefiniteAt(in, p) /\ c + LengthAt(in, p) = c + 1
  BY <1>2, <1>3 DEF EndsAt
<1>6. in.rules # CER
  BY <1>1, <1>5 DEF HeaderFits, LengthAllowed, CER, BER
<1>7. in.rules = DER /\ HasNoConstructedBoolean(in)
  BY <1>6 DEF IsCanonical
<1>8. in.octets[p + 1] # 1
  BY <1>3, <1>4, <1>7 DEF HasNoConstructedBoolean
<1>9. SizeAt(in, p) > 1 => LengthAt(in, p) >= 128
  BY <1>7 DEF HeaderFits, LengthAllowed, DER, BER
<1>10. PICK l \in Nat : l = LengthAt(in, p)
  <2>1. p + 1 < q /\ ContentsAt(in, p) <= q
    BY DEF HeaderFits
  <2> QED
    BY <1>5, <2>1, LengthsAreNatural
<1>11. l = 1
  BY <1>4, <1>5, <1>10
<1>12. PICK o \in 0..255 : o = in.octets[p + 1]
  BY <1>4 DEF Octet
<1>13. o < 128
  <2>1. CASE o > 128
    <3>1. SizeAt(in, p) = o - 127
      BY <1>12, <2>1 DEF SizeAt
    <3>2. SizeAt(in, p) > 1
      BY <2>1, <3>1
    <3> QED
      BY <1>9, <1>10, <1>11, <3>2
  <2>2. o # 128
    BY <1>5, <1>12 DEF IsIndefiniteAt
  <2> QED
    BY <2>1, <2>2
<1>14. l = o
  BY <1>10, <1>12, <1>13 DEF LengthAt
<1> QED
  BY <1>8, <1>11, <1>12, <1>14

\* A value has tags, and components that are values.
IsShaped(in, x) ==
    \E a, s, o, k :
        /\ x = Value(a, s, o, k)
        /\ s \in Seq(Nat) /\ Len(s) > 0
        /\ o \in Seq(Nat)
        /\ k \in Seq(Elements(in, "none"))

LEMMA FieldsMakeShapes ==
    ASSUME NEW in, NEW a, NEW s \in Seq(Nat), Len(s) > 0, NEW o \in Seq(Nat),
           NEW k \in Seq(Elements(in, "none"))
    PROVE  IsShaped(in, Value(a, s, o, k))
  BY DEF IsShaped

LEMMA RetaggedFields ==
    ASSUME NEW a, NEW s, NEW o, NEW k, NEW t
    PROVE  Retagged(Value(a, s, o, k), t) = Value(a, Append(s, Bare(t)), o, k)
  BY DEF Retagged, Value

LEMMA RunsOfContents ==
    ASSUME NEW in, IsInput(in), NEW p, NEW q, NEW w, NEW unclosed, NEW r,
           Holds(in, p, q, w, unclosed, r)
    PROVE  r \in Seq(Elements(in, "none"))
<1>1. PICK to \in Positions(in), within \in Positions(in) :
          /\ ContentsAt(in, p) \in Positions(in)
          /\ r \in Run(in, "none", ContentsAt(in, p), to, within)
  BY DEF Holds, IsInside
<1> QED
  BY <1>1, RunsAreSequences

\* What Holds says of a lone component.
LEMMA LoneComponents ==
    ASSUME NEW in, IsInput(in), NEW p \in Positions(in), NEW q \in Positions(in), NEW w,
           NEW unclosed, NEW r, Holds(in, p, q, w, unclosed, r), Len(r) = 1
    PROVE  \E c, to, within \in Positions(in) : p < c /\ to <= q /\ r[1] \in Item(in, "none", c, to, within)
<1>1. PICK to \in Positions(in), within \in Positions(in) :
          /\ ContentsAt(in, p) \in Positions(in) /\ p + 2 <= ContentsAt(in, p)
          /\ to <= q /\ r \in Run(in, "none", ContentsAt(in, p), to, within)
  BY DEF Holds, IsInside
<1>2. PICK c \in Positions(in) : c = ContentsAt(in, p)
  BY <1>1
<1>3. p < c
  BY <1>1, <1>2 DEF Positions
<1>4. r[1] \in Item(in, "none", c, to, within)
  BY <1>1, <1>2, LoneItems
<1> QED
  BY <1>1, <1>3, <1>4

LEMMA BareTags ==
    ASSUME NEW t \in Octet
    PROVE  /\ Bare(t) \in Nat
           /\ Constructed(t) => Bare(t) + 32 = t
           /\ ~Constructed(t) => Bare(t) = t
  BY DEF Octet, Bare, Constructed

LEMMA ValuesAreShaped ==
    ASSUME NEW in, IsInput(in), StringsArePlain(in)
    PROVE  \A x \in Elements(in, "none") : IsShaped(in, x)
<1> DEFINE Bad(n, p, q, w) == /\ n = Size(in, "item", p, q)
                              /\ \E x \in Item(in, "none", p, q, w) : ~IsShaped(in, x)
           T == {n \in Nat : \E p, q, w \in Positions(in) : Bad(n, p, q, w)}
<1>1. T = {}
  <2>1. SUFFICES ASSUME T # {}
                 PROVE  FALSE
    OBVIOUS
  <2>2. PICK n \in T : \A k \in T : n <= k
    <3>1. T \subseteq Nat
      OBVIOUS
    <3> HIDE DEF T
    <3> QED
      BY <2>1, <3>1, LeastElement
  <2>3. PICK p \in Positions(in), q \in Positions(in), w \in Positions(in) : Bad(n, p, q, w)
    OBVIOUS
  <2>4. PICK x \in Item(in, "none", p, q, w) : ~IsShaped(in, x)
    BY <2>3
  <2>5. HeaderFits(in, p, q) /\ in.octets[p] \in Octet
    BY ItemsNeedHeaders, HeadersAreRead
  <2>6. PICK t \in Octet : t = in.octets[p]
    BY <2>5
  <2>7. Bare(t) \in Nat /\ <<Bare(t)>> \in Seq(Nat) /\ Len(<<Bare(t)>>) > 0
    BY BareTags
  <2>8. CASE IsBuilt(in, p, q, w, x)
    <3>1. PICK r : Holds(in, p, q, w, TRUE, r) /\ x = Container(<<Bare(t)>>, r)
      BY <2>6, <2>8 DEF IsBuilt
    <3>2. r \in Seq(Elements(in, "none"))
      BY <3>1, RunsOfContents
    <3>3. PICK a : x = Value(a, <<Bare(t)>>, <<>>, r)
      BY <3>1 DEF Container, Value
    <3>4. <<>> \in Seq(Nat)
      OBVIOUS
    <3>5. IsShaped(in, Value(a, <<Bare(t)>>, <<>>, r))
      BY <2>7, <3>2, <3>4, FieldsMakeShapes
    <3> QED
      BY <2>4, <3>3, <3>5
  <2>9. CASE IsRetagged(in, p, q, w, x)
    <3>1. PICK r : Holds(in, p, q, w, FALSE, r) /\ Len(r) = 1 /\ x = Retagged(r[1], t)
      BY <2>6, <2>9 DEF IsRetagged
    <3>2. PICK c \in Positions(in), to \in Positions(in), within \in Positions(in) :
              p < c /\ to <= q /\ r[1] \in Item(in, "none", c, to, within)
      BY <3>1, LoneComponents
    <3>3. Size(in, "item", c, to) < Size(in, "item", p, q)
      <4>1. PICK m \in Nat : m = Len(in.octets)
        BY DEF IsInput
      <4>2. c \in Int /\ to \in Int /\ p \in Int /\ q \in Int
        BY DEF Positions
      <4>3. /\ Size(in, "item", c, to) = 2 * (m + 1 + to - c) + 0
            /\ Size(in, "item", p, q) = 2 * (m + 1 + q - p) + 0
        BY <4>1 DEF Size
      <4> QED
        BY <3>2, <4>1, <4>2, <4>3
    <3>4. Size(in, "item", c, to) \in Nat /\ Size(in, "item", p, q) \in Nat
      BY SizeIsNatural
    <3>5. Size(in, "item", c, to) \notin T
      <4>1. n = Size(in, "item", p, q)
        BY <2>3
      <4> HIDE DEF T
      <4> QED
        BY <2>2, <3>3, <3>4, <4>1
    <3>6. IsShaped(in, r[1])
      BY <3>2, <3>4, <3>5
    <3>7. PICK a, s, o, k :
              /\ r[1] = Value(a, s, o, k)
              /\ s \in Seq(Nat) /\ Len(s) > 0
              /\ o \in Seq(Nat)
              /\ k \in Seq(Elements(in, "none"))
      BY <3>6, Zenon DEF IsShaped
    <3>8. x = Value(a, Append(s, Bare(t)), o, k)
      BY <3>1, <3>7, RetaggedFields
    <3>9. Append(s, Bare(t)) \in Seq(Nat) /\ Len(Append(s, Bare(t))) > 0
      BY <2>7, <3>7, AppendProperties
    <3>10. IsShaped(in, Value(a, Append(s, Bare(t)), o, k))
      BY <3>7, <3>9, FieldsMakeShapes
    <3> QED
      BY <2>4, <3>8, <3>10
  <2>10. CASE IsPlain(in, p, q, x)
    <3>1. PICK type : x = Leaf(type, <<Bare(t)>>, Part(in, ContentsAt(in, p), q))
      BY <2>6, <2>10 DEF IsPlain
    <3>2. PICK c \in Positions(in) : c = ContentsAt(in, p) /\ c <= q
      BY <2>5, HeadersAreRead DEF Positions, IsInput
    <3>3. Part(in, c, q) \in Seq(Nat)
      BY <3>2, PartFacts
    <3>4. x = Value(type, <<Bare(t)>>, Part(in, c, q), <<>>)
      BY <3>1, <3>2 DEF Leaf, Value
    <3>5. <<>> \in Seq(Elements(in, "none"))
      OBVIOUS
    <3>6. IsShaped(in, Value(type, <<Bare(t)>>, Part(in, c, q), <<>>))
      BY <2>7, <3>3, <3>5, FieldsMakeShapes
    <3> QED
      BY <2>4, <3>4, <3>6
  <2> QED
    BY <2>8, <2>9, <2>10, ValuesAreRead
<1>2. ASSUME NEW x \in Elements(in, "none")
      PROVE  IsShaped(in, x)
  <2>1. PICK p \in Positions(in), q \in Positions(in), w \in Positions(in) :
            x \in Item(in, "none", p, q, w)
    BY DEF Elements
  <2>2. Size(in, "item", p, q) \in Nat
    BY SizeIsNatural
  <2>3. Size(in, "item", p, q) \notin T
    <3> HIDE DEF T
    <3> QED
      BY <1>1
  <2> QED
    BY <2>1, <2>2, <2>3
<1> QED
  BY <1>2

-----------------------------------------------------------------------------
(* Encodings that spell the octets they were read from.                    *)

\* The encoding e is the octets p .. q - 1 of a window that ends at w, but for
\* the end-of-octets that CER lets the window's end stand for.
Spelled(in, p, q, w, e) ==
    \E z \in Seq({0}) : /\ e = Part(in, p, q) \o z
                        /\ z # <<>> => q = w /\ in.rules = CER

LEMMA ZerosAreNumbers == Seq({0}) \subseteq Seq(Nat) /\ <<>> \in Seq({0}) /\ <<0, 0>> \in Seq({0})
<1>1. {0} \subseteq Nat
  OBVIOUS
<1> QED
  BY <1>1, SeqMonotonic

LEMMA PartsAreSpelled ==
    ASSUME NEW in, IsInput(in), NEW p \in Positions(in), NEW q \in Positions(in), p <= q, NEW w
    PROVE  Spelled(in, p, q, w, Part(in, p, q))
<1>1. Part(in, p, q) \in Seq(Nat)
  BY PartFacts
<1>2. Part(in, p, q) = Part(in, p, q) \o <<>>
  BY <1>1, ConcatEmptySeq
<1> QED
  BY <1>2, ZerosAreNumbers DEF Spelled

LEMMA SpellingsAreSequences ==
    ASSUME NEW in, IsInput(in), NEW p \in Positions(in), NEW q \in Positions(in), p <= q, NEW w,
           NEW e, Spelled(in, p, q, w, e)
    PROVE  e \in Seq(Nat)
<1>1. Part(in, p, q) \in Seq(Nat)
  BY PartFacts
<1>2. PICK z \in Seq({0}) : e = Part(in, p, q) \o z
  BY DEF Spelled
<1>3. z \in Seq(Nat)
  BY ZerosAreNumbers
<1> QED
  BY <1>1, <1>2, <1>3, ConcatProperties

LEMMA SpellingsJoin ==
    ASSUME NEW in, IsInput(in), NEW p \in Positions(in), NEW m \in Positions(in),
           NEW q \in Positions(in), NEW w \in Positions(in), p <= m, m <= q, q <= w,
           NEW s, Spelled(in, p, m, w, s), NEW t, Spelled(in, m, q, w, t),
           m = q => t = <<>>
    PROVE  Spelled(in, p, q, w, s \o t)
<1>1. CASE m = q
  <2>1. s \in Seq(Nat)
    BY SpellingsAreSequences
  <2>2. s \o t = s
    BY <1>1, <2>1, ConcatEmptySeq
  <2> QED
    BY <1>1, <2>2
<1>2. CASE m # q
  <2>1. m # w
    BY <1>2 DEF Positions
  <2>2. s = Part(in, p, m) \o <<>>
    BY <2>1 DEF Spelled
  <2>3. PICK z \in Seq({0}) : /\ t = Part(in, m, q) \o z
                              /\ z # <<>> => q = w /\ in.rules = CER
    BY DEF Spelled
  <2>4. Part(in, p, m) \in Seq(Nat) /\ Part(in, m, q) \in Seq(Nat) /\ z \in Seq(Nat)
    BY PartFacts, ZerosAreNumbers
  <2>5. s = Part(in, p, m)
    BY <2>2, <2>4, ConcatEmptySeq
  <2>6. (Part(in, p, m) \o Part(in, m, q)) \o z = Part(in, p, m) \o (Part(in, m, q) \o z)
    BY <2>4, NumbersAssociate
  <2>7. Part(in, p, m) \o Part(in, m, q) = Part(in, p, q)
    BY PartsJoin
  <2>8. s \o t = Part(in, p, q) \o z
    BY <2>3, <2>5, <2>6, <2>7
  <2> QED
    BY <2>3, <2>8 DEF Spelled
<1> QED
  BY <1>1, <1>2

\* The string s spells x wherever x is read from fewer than n octets.
Reply(in, n, x, s) ==
    \A p, q, w \in Positions(in) :
        x \in Item(in, "none", p, q, w) /\ q <= w /\ q - p < n => Spelled(in, p, q, w, s)

Replies(in, n, kids, strings) ==
    /\ strings \in Seq(Seq(Nat)) /\ Len(strings) = Len(kids)
    /\ \A i \in 1..Len(kids) : Reply(in, n, kids[i], strings[i])

LEMMA ReplyTo ==
    ASSUME NEW in, NEW n, NEW x, NEW s, Reply(in, n, x, s),
           NEW p \in Positions(in), NEW q \in Positions(in), NEW w \in Positions(in),
           x \in Item(in, "none", p, q, w), q <= w, q - p < n
    PROVE  Spelled(in, p, q, w, s)
  BY DEF Reply

\* The strings of a run's components, joined, spell the run.
Misspelled(in, n, p, q, w) ==
    /\ p <= q /\ q <= w /\ q - p < n
    /\ \E r \in Run(in, "none", p, q, w) :
           \E strings : Replies(in, n, r, strings) /\ ~Spelled(in, p, q, w, Joined(strings))

LEMMA RunsAreSpelled ==
    ASSUME NEW in, IsInput(in), NEW n \in Int
    PROVE  \A p, q, w \in Positions(in) : ~Misspelled(in, n, p, q, w)
<1> DEFINE T == {k \in Nat : \E p, q, w \in Positions(in) : k = q - p /\ Misspelled(in, n, p, q, w)}
<1>1. SUFFICES ASSUME T # {}
               PROVE  FALSE
  <2>1. SUFFICES ASSUME NEW p \in Positions(in), NEW q \in Positions(in), NEW w \in Positions(in),
                        Misspelled(in, n, p, q, w)
                 PROVE  T # {}
    OBVIOUS
  <2>4. p <= q
    BY <2>1 DEF Misspelled
  <2>2. q - p \in Nat
    BY <2>4 DEF Positions
  <2>3. q - p \in T
    BY <2>1, <2>2
  <2> QED
    BY <2>3
<1>2. PICK k \in T : \A l \in T : k <= l
  <2>1. T \subseteq Nat
    OBVIOUS
  <2> HIDE DEF T
  <2> QED
    BY <1>1, <2>1, LeastElement
<1>3. PICK p \in Positions(in), q \in Positions(in), w \in Positions(in) :
          k = q - p /\ Misspelled(in, n, p, q, w)
  OBVIOUS
<1>4. p <= q /\ q <= w /\ q - p < n
  BY <1>3 DEF Misspelled
<1>5. PICK r \in Run(in, "none", p, q, w) :
          \E strings : Replies(in, n, r, strings) /\ ~Spelled(in, p, q, w, Joined(strings))
  BY <1>3, Zenon DEF Misspelled
<1>6. PICK strings : Replies(in, n, r, strings) /\ ~Spelled(in, p, q, w, Joined(strings))
  BY <1>5
<1>7. /\ strings \in Seq(Seq(Nat)) /\ Len(strings) = Len(r)
      /\ \A i \in 1..Len(r) : Reply(in, n, r[i], strings[i])
  BY <1>6 DEF Replies
<1>8. p # q
  <2>1. SUFFICES ASSUME p = q
                 PROVE  FALSE
    OBVIOUS
  <2>2. r = <<>>
    BY <2>1, RunsUnfold
  <2>3. Joined(strings) = <<>>
    BY <1>7, <2>2, NothingJoined
  <2>4. Part(in, p, p) = <<>>
    BY ShortParts
  <2> QED
    BY <1>4, <1>6, <2>1, <2>3, <2>4, PartsAreSpelled
<1>9. Begins(in, "none", p, q, w, r)
  BY <1>8, RunBegins
<1>10. PICK m \in p + 2..q : \E x \in Item(in, "none", p, m, w) :
           \E rest \in Run(in, "none", m, q, w) : r = <<x>> \o rest
  BY <1>9, Zenon DEF Begins
<1>11. PICK x \in Item(in, "none", p, m, w), rest \in Run(in, "none", m, q, w) :
           r = <<x>> \o rest
  BY <1>10
<1>12. m \in Positions(in) /\ p < m /\ p <= m /\ m <= q /\ m <= w /\ m - p < n /\ q - m < n
       /\ q - m \in Nat /\ q - m < q - p
  BY <1>4 DEF Positions, IsInput
<1>13. rest \in Seq(Elements(in, "none")) /\ x \in Elements(in, "none")
  <2>1. <<p, m, w>> \in Positions(in) \X Positions(in) \X Positions(in)
    BY <1>12
  <2> QED
    BY <1>12, <2>1, RunsAreSequences DEF Elements
<1>14. PICK l \in Nat : l = Len(rest)
  BY <1>13
<1>15. Len(r) = l + 1 /\ r[1] = x /\ \A i \in 1..l : r[i + 1] = rest[i]
  BY <1>11, <1>13, <1>14
<1> DEFINE others == [i \in 1..l |-> strings[i + 1]]
<1>16. others \in Seq(Seq(Nat)) /\ Len(others) = l /\ \A i \in 1..l : others[i] = strings[i + 1]
  <2>1. ASSUME NEW i \in 1..l
        PROVE  strings[i + 1] \in Seq(Nat)
    BY <1>7, <1>14, <1>15, ElementOfSeq
  <2> QED
    BY <1>14, <2>1
<1> HIDE DEF others
<1>17. Replies(in, n, rest, others)
  <2>1. ASSUME NEW i \in 1..l
        PROVE  Reply(in, n, rest[i], others[i])
    <3>1. PICK j \in 1..Len(r) : j = i + 1
      BY <1>14, <1>15
    <3>2. Reply(in, n, r[j], strings[j])
      BY <1>7
    <3> QED
      BY <1>15, <1>16, <3>1, <3>2
  <2> QED
    BY <1>14, <1>16, <2>1 DEF Replies
<1>18. Spelled(in, m, q, w, Joined(others))
  <2>1. q - m \notin T
    <3> HIDE DEF T
    <3> QED
      BY <1>2, <1>3, <1>12
  <2>2. ~Misspelled(in, n, m, q, w)
    BY <1>12, <2>1
  <2> QED
    BY <1>4, <1>12, <1>17, <2>2, Zenon DEF Misspelled
<1>19. Spelled(in, p, m, w, strings[1])
  <2>1. Reply(in, n, x, strings[1])
    <3>1. 1 \in 1..Len(r)
      BY <1>14, <1>15
    <3> QED
      BY <1>7, <1>15, <3>1
  <2> QED
    BY <1>12, <2>1, ReplyTo
<1>20. m = q => Joined(others) = <<>>
  <2>1. SUFFICES ASSUME m = q
                 PROVE  Joined(others) = <<>>
    OBVIOUS
  <2>2. rest = <<>>
    BY <1>12, <2>1, RunsUnfold
  <2>3. Len(others) = 0
    BY <1>14, <1>16, <2>2
  <2> QED
    BY <1>16, <2>3, NothingJoined
<1>21. Spelled(in, p, q, w, strings[1] \o Joined(others))
  BY <1>4, <1>12, <1>18, <1>19, <1>20, SpellingsJoin
<1>22. Joined(strings) = strings[1] \o Joined(others)
  BY <1>7, <1>14, <1>15, <1>16, JoinedFromTheFront
<1> QED
  BY <1>6, <1>21, <1>22

LEMMA HeadersOfConstructions ==
    ASSUME NEW in, IsInput(in), IsCanonical(in),
           NEW p \in Positions(in), NEW q \in Positions(in), HeaderFits(in, p, q)
    PROVE  /\ \E t \in Octet : t = in.octets[p]
           /\ <<in.octets[p]>> \in Seq(Nat)
           /\ ~IsIndefiniteAt(in, p) =>
                 /\ LengthAt(in, p) \in Nat
                 /\ Part(in, p, ContentsAt(in, p))
                       = <<in.octets[p]>> \o LengthOctets(LengthAt(in, p))
           /\ IsIndefiniteAt(in, p) =>
                 /\ ContentsAt(in, p) = p + 2
                 /\ Part(in, p, ContentsAt(in, p)) = <<in.octets[p], 128>>
<1>1. in.octets[p] \in Octet /\ ContentsAt(in, p) \in p + 2..q
  BY HeadersAreRead
<1>2. p \in Nat /\ q \in Nat /\ p + 2 <= q /\ p + 1 < q /\ ContentsAt(in, p) <= q
  BY <1>1 DEF Positions
<1>3. <<in.octets[p]>> \in Seq(Nat)
  <2>1. in.octets[p] \in Nat
    BY <1>1, OctetsAreNatural
  <2> QED
    BY <2>1
<1>4. ASSUME ~IsIndefiniteAt(in, p)
      PROVE  /\ LengthAt(in, p) \in Nat
             /\ Part(in, p, ContentsAt(in, p)) = <<in.octets[p]>> \o LengthOctets(LengthAt(in, p))
  <2>1. LengthAt(in, p) \in Nat
    BY <1>2, <1>4, LengthsAreNatural
  <2>2. in.rules.requireMinimalLength
    BY CanonicalHeaders
  <2> QED
    BY <1>4, <2>1, <2>2, HeaderSpelled
<1>5. ASSUME IsIndefiniteAt(in, p)
      PROVE  /\ ContentsAt(in, p) = p + 2
             /\ Part(in, p, ContentsAt(in, p)) = <<in.octets[p], 128>>
  <2>1. in.octets[p + 1] = 128
    BY <1>5 DEF IsIndefiniteAt
  <2>2. ContentsAt(in, p) = p + 2
    BY <1>2, <2>1 DEF ContentsAt, SizeAt
  <2>3. p + 2 \in Positions(in)
    BY <1>2 DEF Positions, IsInput
  <2> QED
    BY <2>1, <2>2, <2>3, ShortParts
<1> QED
  BY <1>1, <1>3, <1>4, <1>5

LEMMA ConstructionsAreSpelled ==
    ASSUME NEW in, IsInput(in), IsCanonical(in),
           NEW p \in Positions(in), NEW q \in Positions(in), NEW w \in Positions(in), q <= w,
           HeaderFits(in, p, q), Constructed(in.octets[p]), NEW unclosed,
           NEW to \in Positions(in), NEW within \in Positions(in),
           IsInside(in, p, q, w, unclosed, to, within),
           NEW body, Spelled(in, ContentsAt(in, p), to, within, body)
    PROVE  Spelled(in, p, q, w, Construction(Bare(in.octets[p]), body, in.rules = CER))
<1>1. PICK c \in Positions(in) : c = ContentsAt(in, p)
  BY DEF IsInside
<1>2. p + 2 <= c /\ c <= to /\ to <= q /\ to <= within
  BY <1>1 DEF IsInside
<1>3. p \in Nat /\ c \in Nat /\ q \in Nat /\ w \in Nat /\ to \in Nat /\ p <= c /\ c <= q
  BY <1>2 DEF Positions
<1>4. PICK t \in Octet : t = in.octets[p]
  BY HeadersOfConstructions
<1>5. Bare(t) + 32 = t
  BY <1>4, BareTags
<1>6. PICK z \in Seq({0}) : /\ body = Part(in, c, to) \o z
                            /\ z # <<>> => to = within /\ in.rules = CER
  BY <1>1 DEF Spelled
<1>7. /\ Part(in, c, to) \in Seq(Nat) /\ z \in Seq(Nat) /\ Part(in, p, c) \in Seq(Nat)
      /\ <<0, 0>> \in Seq(Nat) /\ Len(Part(in, c, to)) = to - c
  BY <1>2, <1>3, PartFacts, ZerosAreNumbers
<1>8. IsIndefiniteAt(in, p) <=> in.rules = CER
  BY CanonicalHeaders
<1>9. CASE ~IsIndefiniteAt(in, p)
  <2>1. to = q /\ EndsAt(in, p, q)
    BY <1>9 DEF IsInside
  <2>2. body = Part(in, c, q)
    BY <1>6, <1>7, <1>8, <1>9, <2>1, ConcatEmptySeq
  <2>3. LengthAt(in, p) \in Nat /\ Part(in, p, c) = <<t>> \o LengthOctets(LengthAt(in, p))
    BY <1>1, <1>4, <1>9, HeadersOfConstructions
  <2>4. Len(body) = LengthAt(in, p)
    <3>1. PICK l \in Nat : l = LengthAt(in, p)
      BY <2>3
    <3>2. c + l = q
      BY <1>1, <2>1, <3>1 DEF EndsAt
    <3>3. Len(body) = q - c
      BY <1>7, <2>1, <2>2
    <3> QED
      BY <1>3, <3>1, <3>2, <3>3
  <2>5. Construction(Bare(t), body, FALSE) = <<t>> \o LengthOctets(Len(body)) \o body
    BY <1>5 DEF Construction
  <2>6. Construction(Bare(t), body, FALSE) = Part(in, p, c) \o Part(in, c, q)
    BY <2>2, <2>3, <2>4, <2>5
  <2>7. Construction(Bare(t), body, FALSE) = Part(in, p, q)
    BY <1>3, <2>6, PartsJoin
  <2>8. Construction(Bare(t), body, in.rules = CER) = Construction(Bare(t), body, FALSE)
    BY <1>8, <1>9 DEF Construction
  <2>9. p <= q
    BY <1>3
  <2>10. Spelled(in, p, q, w, Part(in, p, q))
    BY <2>9, PartsAreSpelled
  <2> QED
    BY <1>4, <2>7, <2>8, <2>10
<1>10. CASE IsIndefiniteAt(in, p)
  <2>1. c = p + 2 /\ Part(in, p, c) = <<t, 128>>
    BY <1>1, <1>4, <1>10, HeadersOfConstructions
  <2>2. (in.rules = CER) = TRUE
    BY <1>8, <1>10
  <2>3. Construction(Bare(t), body, TRUE) = Part(in, p, c) \o body \o <<0, 0>>
    BY <1>5, <2>1 DEF Construction
  <2>4. (Part(in, p, c) \o (Part(in, c, to) \o z)) \o <<0, 0>>
            = Part(in, p, to) \o (z \o <<0, 0>>)
    <3>1. Part(in, p, c) \o (Part(in, c, to) \o z) = (Part(in, p, c) \o Part(in, c, to)) \o z
      BY <1>7, NumbersAssociate
    <3>2. Part(in, p, c) \o Part(in, c, to) = Part(in, p, to)
      BY <1>2, <1>3, PartsJoin
    <3>3. p <= to
      BY <1>2, <1>3
    <3>4. Part(in, p, to) \in Seq(Nat)
      BY <3>3, PartFacts
    <3>5. (Part(in, p, to) \o z) \o <<0, 0>> = Part(in, p, to) \o (z \o <<0, 0>>)
      BY <1>7, <3>4, NumbersAssociate
    <3> QED
      BY <3>1, <3>2, <3>5
  <2>5. Construction(Bare(t), body, TRUE) = Part(in, p, to) \o (z \o <<0, 0>>)
    BY <1>6, <2>3, <2>4
  <2>6. CASE to = q - 2 /\ within = w /\ ZerosAt(in, q - 2)
    <3>1. z = <<>>
      BY <1>3, <1>6, <2>6
    <3>2. z \o <<0, 0>> = <<0, 0>>
      BY <1>7, <3>1, ConcatEmptySeq
    <3>3. to + 2 = q
      BY <1>3, <2>6
    <3>4. Part(in, to, q) = <<in.octets[to], in.octets[to + 1]>>
      BY <3>3, ShortParts
    <3>5. in.octets[to] = 0 /\ in.octets[to + 1] = 0
      BY <2>6 DEF ZerosAt
    <3>6. Part(in, p, to) \o Part(in, to, q) = Part(in, p, q)
      BY <1>2, <1>3, PartsJoin
    <3>7. Construction(Bare(t), body, TRUE) = Part(in, p, q)
      BY <2>5, <3>2, <3>4, <3>5, <3>6
    <3>8. p <= q
      BY <1>3
    <3> QED
      BY <1>4, <2>2, <3>7, <3>8, PartsAreSpelled
  <2>7. CASE to = q /\ within = w /\ q = w
    <3>1. z \o <<0, 0>> \in Seq({0})
      BY ZerosAreNumbers, ConcatProperties
    <3>2. Construction(Bare(t), body, TRUE) = Part(in, p, q) \o (z \o <<0, 0>>)
      BY <2>5, <2>7
    <3> QED
      BY <1>4, <2>2, <2>7, <3>1, <3>2 DEF Spelled
  <2> QED
    BY <1>10, <2>6, <2>7 DEF IsInside
<1> QED
  BY <1>9, <1>10

-----------------------------------------------------------------------------
(* Encodings of values.                                                    *)

\* The encoding of a value before its outer tags.
Innermost(a, s, o, strings, indefinite) ==
    IF a \in {"Record", "SequenceOf"} THEN Construction(s[1], Joined(strings), indefinite)
    ELSE <<s[1]>> \o LengthOctets(Len(o)) \o o

LEMMA EncodedByField ==
    ASSUME NEW a, NEW s, NEW o, NEW k, NEW strings, NEW indefinite
    PROVE  Encoded(Value(a, s, o, k), strings, indefinite)
               = Wrapped(Tail(s), Innermost(a, s, o, strings, indefinite), indefinite)
  BY DEF Encoded, Value, Innermost

LEMMA InnermostIsSequence ==
    ASSUME NEW a, NEW s \in Seq(Nat), Len(s) > 0, NEW o \in Seq(Nat),
           NEW strings \in Seq(Seq(Nat)), NEW indefinite
    PROVE  Innermost(a, s, o, strings, indefinite) \in Seq(Nat)
<1>1. s[1] \in Nat
  BY ElementOfSeq
<1>2. Construction(s[1], Joined(strings), indefinite) \in Seq(Nat)
  BY <1>1, JoinedIsSequence, ConstructionsAreSequences
<1>3. <<s[1]>> \o LengthOctets(Len(o)) \o o \in Seq(Nat)
  <2>1. <<s[1]>> \in Seq(Nat) /\ LengthOctets(Len(o)) \in Seq(Nat)
    BY <1>1, LengthsAreSequences
  <2>2. <<s[1]>> \o LengthOctets(Len(o)) \in Seq(Nat)
    BY <2>1, ConcatProperties
  <2> QED
    BY <2>2, ConcatProperties
<1> QED
  BY <1>2, <1>3, Zenon DEF Innermost

LEMMA EncodingsAreSequences ==
    ASSUME NEW in, NEW x, IsShaped(in, x), NEW strings \in Seq(Seq(Nat)), NEW indefinite
    PROVE  Encoded(x, strings, indefinite) \in Seq(Nat)
<1>1. PICK a, s, o, k : /\ x = Value(a, s, o, k)
                        /\ s \in Seq(Nat) /\ Len(s) > 0
                        /\ o \in Seq(Nat)
  BY Zenon DEF IsShaped
<1>2. Innermost(a, s, o, strings, indefinite) \in Seq(Nat)
  BY <1>1, InnermostIsSequence
<1>3. Tail(s) \in Seq(Nat)
  BY <1>1
<1>4. Wrapped(Tail(s), Innermost(a, s, o, strings, indefinite), indefinite) \in Seq(Nat)
  BY <1>2, <1>3, WrappedFacts
<1> QED
  BY <1>1, <1>4, EncodedByField

LEMMA EncodedUnderOneTag ==
    ASSUME NEW a, NEW t \in Nat, NEW o \in Seq(Nat), NEW k, NEW strings \in Seq(Seq(Nat)),
           NEW indefinite
    PROVE  Encoded(Value(a, <<t>>, o, k), strings, indefinite)
               = Innermost(a, <<t>>, o, strings, indefinite)
<1>1. <<t>> \in Seq(Nat) /\ Len(<<t>>) > 0 /\ Tail(<<t>>) \in Seq(Nat) /\ Len(Tail(<<t>>)) = 0
  OBVIOUS
<1>2. Innermost(a, <<t>>, o, strings, indefinite) \in Seq(Nat)
  BY <1>1, InnermostIsSequence
<1>3. Wrapped(Tail(<<t>>), Innermost(a, <<t>>, o, strings, indefinite), indefinite)
          = Innermost(a, <<t>>, o, strings, indefinite)
  BY <1>1, <1>2, WrappedFacts
<1> QED
  BY <1>3, EncodedByField

LEMMA EncodedUnderMoreTags ==
    ASSUME NEW a, NEW s \in Seq(Nat), Len(s) > 0, NEW t \in Nat, NEW o \in Seq(Nat), NEW k,
           NEW strings \in Seq(Seq(Nat)), NEW indefinite
    PROVE  Encoded(Value(a, Append(s, t), o, k), strings, indefinite)
               = Construction(t, Encoded(Value(a, s, o, k), strings, indefinite), indefinite)
<1>1. PICK n \in Nat : n = Len(s) /\ n > 0
  OBVIOUS
<1>2. PICK more \in Seq(Nat) : more = Append(s, t)
  BY AppendProperties
<1>3. Len(more) = n + 1 /\ more[1] = s[1]
  BY <1>1, <1>2, AppendProperties
<1>4. Tail(more) = Append(Tail(s), t)
  <2>1. /\ Tail(more) \in Seq(Nat) /\ Len(Tail(more)) = n
        /\ \A i \in 1..n : Tail(more)[i] = more[i + 1]
    BY <1>1, <1>3
  <2>2. /\ Tail(s) \in Seq(Nat) /\ Len(Tail(s)) = n - 1
        /\ \A i \in 1..n - 1 : Tail(s)[i] = s[i + 1]
    BY <1>1
  <2>3. PICK tail \in Seq(Nat) : tail = Tail(s)
    BY <2>2
  <2>4. PICK both \in Seq(Nat) : both = Append(tail, t)
    BY AppendProperties
  <2>5. /\ Len(both) = n /\ both[n] = t
        /\ \A i \in 1..n - 1 : both[i] = tail[i]
    BY <1>1, <2>2, <2>3, <2>4
  <2>6. ASSUME NEW i \in 1..n
        PROVE  Tail(more)[i] = both[i]
    <3>1. CASE i = n
      BY <1>1, <1>2, <2>1, <2>5, <3>1
    <3>2. CASE i # n
      <4>1. i \in 1..n - 1 /\ i + 1 \in 1..n
        BY <3>2
      <4>2. more[i + 1] = s[i + 1]
        BY <1>1, <1>2, <4>1
      <4> QED
        BY <2>1, <2>2, <2>3, <2>5, <4>1, <4>2
    <3> QED
      BY <3>1, <3>2
  <2> QED
    BY <2>1, <2>3, <2>4, <2>5, <2>6, SeqEqual
<1>5. Innermost(a, more, o, strings, indefinite) = Innermost(a, s, o, strings, indefinite)
  BY <1>3 DEF Innermost
<1>6. PICK e \in Seq(Nat) : e = Innermost(a, s, o, strings, indefinite)
  BY InnermostIsSequence
<1>7. Tail(s) \in Seq(Nat)
  BY <1>1
<1>8. Wrapped(Append(Tail(s), t), e, indefinite)
          = Construction(t, Wrapped(Tail(s), e, indefinite), indefinite)
  <2>1. PICK tail \in Seq(Nat) : tail = Tail(s)
    BY <1>7
  <2>2. Wrapped(Append(tail, t), e, indefinite)
            = Construction(t, Wrapped(tail, e, indefinite), indefinite)
    BY WrappedOnceMore
  <2> QED
    BY <2>1, <2>2
<1>9. Encoded(Value(a, more, o, k), strings, indefinite)
          = Wrapped(Append(Tail(s), t), e, indefinite)
  BY <1>4, <1>5, <1>6, EncodedByField
<1>10. Encoded(Value(a, s, o, k), strings, indefinite) = Wrapped(Tail(s), e, indefinite)
  BY <1>6, EncodedByField
<1> QED
  BY <1>2, <1>8, <1>9, <1>10

LEMMA KidsOfValues ==
    ASSUME NEW a, NEW s, NEW o, NEW k
    PROVE  Value(a, s, o, k).kids = k
  BY DEF Value

LEMMA FewerReplies ==
    ASSUME NEW in, NEW n \in Int, NEW m \in Int, m <= n, NEW kids, NEW strings,
           Replies(in, n, kids, strings)
    PROVE  Replies(in, m, kids, strings)
<1>1. ASSUME NEW x, NEW s, Reply(in, n, x, s)
      PROVE  Reply(in, m, x, s)
  <2>1. \A p, q \in Positions(in) : q - p < m => q - p < n
    BY DEF Positions
  <2> QED
    BY <1>1, <2>1 DEF Reply
<1> QED
  BY <1>1 DEF Replies

\* The encoding of a value spells the octets it was read from, when the strings
\* for its components spell those they were read from.
Miscoded(in, p, q, w) ==
    /\ q <= w
    /\ \E x \in Item(in, "none", p, q, w) :
           \E strings : /\ Replies(in, q - p, x.kids, strings)
                        /\ ~Spelled(in, p, q, w, Encoded(x, strings, in.rules = CER))

LEMMA ValuesAreSpelled ==
    ASSUME NEW in, IsInput(in), IsCanonical(in)
    PROVE  \A p, q, w \in Positions(in) : ~Miscoded(in, p, q, w)
<1> DEFINE T == {k \in Nat : \E p, q, w \in Positions(in) : k = q - p /\ Miscoded(in, p, q, w)}
           cer == in.rules = CER
<1>1. SUFFICES ASSUME T # {}
               PROVE  FALSE
  <2>1. SUFFICES ASSUME NEW p \in Positions(in), NEW q \in Positions(in), NEW w \in Positions(in),
                        Miscoded(in, p, q, w)
                 PROVE  T # {}
    OBVIOUS
  <2>2. HeaderFits(in, p, q)
    BY <2>1, ItemsNeedHeaders DEF Miscoded
  <2>3. q - p \in Nat
    BY <2>2 DEF HeaderFits, Positions
  <2>4. q - p \in T
    BY <2>1, <2>3
  <2> QED
    BY <2>4
<1>2. PICK k \in T : \A l \in T : k <= l
  <2>1. T \subseteq Nat
    OBVIOUS
  <2> HIDE DEF T
  <2> QED
    BY <1>1, <2>1, LeastElement
<1>3. PICK p \in Positions(in), q \in Positions(in), w \in Positions(in) :
          k = q - p /\ Miscoded(in, p, q, w)
  OBVIOUS
<1>4. PICK x \in Item(in, "none", p, q, w) :
          \E strings : /\ Replies(in, q - p, x.kids, strings)
                       /\ ~Spelled(in, p, q, w, Encoded(x, strings, cer))
  BY <1>3, Zenon DEF Miscoded
<1>5. PICK strings : /\ Replies(in, q - p, x.kids, strings)
                     /\ ~Spelled(in, p, q, w, Encoded(x, strings, cer))
  BY <1>4
<1> HIDE DEF cer
<1>6. HeaderFits(in, p, q) /\ q <= w
  BY <1>3, ItemsNeedHeaders DEF Miscoded
<1>7. PICK t \in Octet : t = in.octets[p]
  BY <1>6, HeadersOfConstructions
<1>8. Bare(t) \in Nat /\ strings \in Seq(Seq(Nat)) /\ p \in Nat /\ q \in Nat /\ q - p \in Int
  BY <1>5, BareTags DEF Replies, Positions
<1>9. ASSUME NEW unclosed, NEW to \in Positions(in), NEW within \in Positions(in),
             IsInside(in, p, q, w, unclosed, to, within), Constructed(in.octets[p]),
             NEW body, Spelled(in, ContentsAt(in, p), to, within, body)
      PROVE  Spelled(in, p, q, w, Construction(Bare(t), body, cer))
  BY <1>6, <1>7, <1>9, ConstructionsAreSpelled DEF cer
<1>10. ASSUME NEW unclosed, NEW to \in Positions(in), NEW within \in Positions(in),
              IsInside(in, p, q, w, unclosed, to, within)
       PROVE  \E c \in Positions(in) : /\ c = ContentsAt(in, p) /\ c <= to /\ to <= within
                                       /\ to - c < q - p /\ to - c \in Int /\ to - c \in Nat
  <2>1. PICK c \in Positions(in) : c = ContentsAt(in, p)
    BY <1>10 DEF IsInside
  <2>2. p + 2 <= c /\ c <= to /\ to <= q /\ to <= within
    BY <1>6, <1>10, <2>1 DEF IsInside
  <2>3. c \in Nat /\ to \in Nat
    BY DEF Positions
  <2> QED
    BY <1>8, <2>1, <2>2, <2>3
<1>11. CASE IsBuilt(in, p, q, w, x)
  <2>1. PICK r : Holds(in, p, q, w, TRUE, r) /\ x = Container(<<Bare(t)>>, r)
    BY <1>7, <1>11 DEF IsBuilt
  <2>2. PICK to \in Positions(in), within \in Positions(in) :
            /\ IsInside(in, p, q, w, TRUE, to, within)
            /\ r \in Run(in, "none", ContentsAt(in, p), to, within)
    BY <2>1 DEF Holds
  <2>3. PICK c \in Positions(in) : /\ c = ContentsAt(in, p) /\ c <= to /\ to <= within
                                   /\ to - c < q - p
    BY <1>10, <2>2
  <2>4. PICK a : x = Value(a, <<Bare(t)>>, <<>>, r) /\ a \in {"Record", "SequenceOf"}
    BY <2>1 DEF Container, Value
  <2>5. x.kids = r
    BY <2>4, KidsOfValues
  <2>6. Spelled(in, c, to, within, Joined(strings))
    <3>1. ~Misspelled(in, q - p, c, to, within)
      BY <1>8, RunsAreSpelled
    <3>2. r \in Run(in, "none", c, to, within) /\ Replies(in, q - p, r, strings)
      BY <1>5, <2>2, <2>3, <2>5
    <3> QED
      BY <2>3, <3>1, <3>2, Zenon DEF Misspelled
  <2>7. Spelled(in, p, q, w, Construction(Bare(t), Joined(strings), cer))
    BY <1>9, <1>11, <2>2, <2>3, <2>6 DEF IsBuilt
  <2>8. Encoded(Value(a, <<Bare(t)>>, <<>>, r), strings, cer)
            = Innermost(a, <<Bare(t)>>, <<>>, strings, cer)
    <3>1. PICK nil \in Seq(Nat) : nil = <<>>
      BY EmptySeq
    <3>2. Encoded(Value(a, <<Bare(t)>>, nil, r), strings, cer)
              = Innermost(a, <<Bare(t)>>, nil, strings, cer)
      BY <1>8, EncodedUnderOneTag
    <3> QED
      BY <3>1, <3>2
  <2>9. <<Bare(t)>>[1] = Bare(t)
    OBVIOUS
  <2>10. Innermost(a, <<Bare(t)>>, <<>>, strings, cer) = Construction(Bare(t), Joined(strings), cer)
    BY <2>4, <2>9 DEF Innermost
  <2> QED
    BY <1>5, <2>4, <2>7, <2>8, <2>10
<1>12. CASE IsRetagged(in, p, q, w, x)
  <2>1. PICK r : Holds(in, p, q, w, FALSE, r) /\ Len(r) = 1 /\ x = Retagged(r[1], t)
    BY <1>7, <1>12 DEF IsRetagged
  <2>2. PICK to \in Positions(in), within \in Positions(in) :
            /\ IsInside(in, p, q, w, FALSE, to, within)
            /\ r \in Run(in, "none", ContentsAt(in, p), to, within)
    BY <2>1 DEF Holds
  <2>3. PICK c \in Positions(in) : /\ c = ContentsAt(in, p) /\ c <= to /\ to <= within
                                   /\ to - c < q - p /\ to - c \in Int /\ to - c \in Nat
    BY <1>10, <2>2
  <2>4. PICK y \in Item(in, "none", c, to, within) : y = r[1]
    BY <2>1, <2>2, <2>3, LoneItems
  <2>5. y \in Elements(in, "none")
    <3>1. <<c, to, within>> \in Positions(in) \X Positions(in) \X Positions(in)
      OBVIOUS
    <3> QED
      BY <3>1 DEF Elements
  <2>6. IsShaped(in, y)
    BY <2>5, PlainStrings, ValuesAreShaped
  <2>7. PICK a, s, o, kk : /\ y = Value(a, s, o, kk)
                           /\ s \in Seq(Nat) /\ Len(s) > 0
                           /\ o \in Seq(Nat)
    BY <2>6, Zenon DEF IsShaped
  <2>8. x = Value(a, Append(s, Bare(t)), o, kk)
    BY <2>1, <2>4, <2>7, RetaggedFields
  <2>9. x.kids = kk /\ y.kids = kk
    BY <2>7, <2>8, KidsOfValues
  <2>10. Replies(in, to - c, y.kids, strings)
    <3>1. to - c <= q - p
      BY <1>8, <2>3
    <3>2. Replies(in, q - p, kk, strings)
      BY <1>5, <2>9
    <3>3. Replies(in, to - c, kk, strings)
      BY <1>8, <2>3, <3>1, <3>2, FewerReplies
    <3> QED
      BY <2>9, <3>3
  <2>11. Spelled(in, c, to, within, Encoded(y, strings, cer))
    <3>1. to - c \notin T
      <4> HIDE DEF T
      <4> QED
        BY <1>2, <1>3, <1>8, <2>3
    <3>2. ~Miscoded(in, c, to, within)
      BY <2>3, <3>1
    <3> QED
      BY <2>3, <2>10, <3>2, Zenon DEF Miscoded, cer
  <2>12. Spelled(in, p, q, w, Construction(Bare(t), Encoded(y, strings, cer), cer))
    BY <1>9, <1>12, <2>2, <2>3, <2>11 DEF IsRetagged
  <2>13. Encoded(Value(a, Append(s, Bare(t)), o, kk), strings, cer)
             = Construction(Bare(t), Encoded(Value(a, s, o, kk), strings, cer), cer)
    BY <1>8, <2>7, EncodedUnderMoreTags
  <2> QED
    BY <1>5, <2>7, <2>8, <2>12, <2>13
<1>13. CASE IsPlain(in, p, q, x)
  <2>1. PICK c \in Positions(in) : c = ContentsAt(in, p) /\ c \in p + 2..q
    BY <1>6, HeadersAreRead DEF Positions, IsInput
  <2>2. PICK type \in {"Boolean", "Integer", "OctetString", "Null"} :
            x = Leaf(type, <<Bare(t)>>, Part(in, c, q))
    BY <1>7, <1>13, <2>1 DEF IsPlain
  <2>3. ~Constructed(t) /\ ~IsIndefiniteAt(in, p) /\ c + LengthAt(in, p) = q
    BY <1>6, <1>7, <1>13, <2>1, PlainFormats DEF IsPlain, EndsAt
  <2>4. Bare(t) = t
    BY <2>3, BareTags
  <2>5. c \in Nat /\ p <= c /\ c <= q /\ p <= q
    BY <1>8, <2>1 DEF Positions
  <2>6. PICK o \in Seq(Nat) : o = Part(in, c, q) /\ Len(o) = q - c
    BY <2>5, PartFacts
  <2>7. LengthAt(in, p) \in Nat /\ Part(in, p, c) = <<t>> \o LengthOctets(LengthAt(in, p))
    BY <1>6, <1>7, <2>1, <2>3, HeadersOfConstructions
  <2>8. Len(o) = LengthAt(in, p)
    <3>1. PICK l \in Nat : l = LengthAt(in, p)
      BY <2>7
    <3>2. c + l = q
      BY <2>3, <3>1
    <3>3. Len(o) = q - c
      BY <2>6
    <3>4. q - c = l
      BY <1>8, <2>5, <3>2
    <3> QED
      BY <3>1, <3>3, <3>4
  <2>9. x = Value(type, <<Bare(t)>>, o, <<>>)
    BY <2>2, <2>6 DEF Leaf, Value
  <2>10. Encoded(Value(type, <<Bare(t)>>, o, <<>>), strings, cer)
             = Innermost(type, <<Bare(t)>>, o, strings, cer)
    BY <1>8, EncodedUnderOneTag
  <2>11. Innermost(type, <<Bare(t)>>, o, strings, cer) = <<t>> \o LengthOctets(Len(o)) \o o
    <3>1. type \notin {"Record", "SequenceOf"} /\ <<Bare(t)>>[1] = t
      BY <2>2, <2>4
    <3> QED
      BY <3>1 DEF Innermost
  <2>12. <<t>> \o LengthOctets(Len(o)) \o o = Part(in, p, q)
    <3>1. Part(in, p, c) \o Part(in, c, q) = Part(in, p, q)
      BY <2>5, PartsJoin
    <3> QED
      BY <2>6, <2>7, <2>8, <3>1
  <2>13. Spelled(in, p, q, w, Part(in, p, q))
    BY <2>5, PartsAreSpelled
  <2> QED
    BY <1>5, <2>9, <2>10, <2>11, <2>12, <2>13
<1> QED
  BY <1>11, <1>12, <1>13, PlainStrings, ValuesAreRead

-----------------------------------------------------------------------------
(* Encodings of values and of all their components.                        *)

LEMMA ComponentsAreValues ==
    ASSUME NEW in, IsInput(in), IsCanonical(in),
           NEW values, values \subseteq Elements(in, "none")
    PROVE  Components(values) \subseteq Elements(in, "none")
<1>1. ASSUME NEW v \in values, NEW i \in DOMAIN v.kids
      PROVE  v.kids[i] \in Elements(in, "none")
  <2>1. IsShaped(in, v)
    BY PlainStrings, ValuesAreShaped
  <2>2. PICK a, s, o, k : v = Value(a, s, o, k) /\ k \in Seq(Elements(in, "none"))
    BY <2>1, Zenon DEF IsShaped
  <2>3. v.kids = k
    BY <2>2, KidsOfValues
  <2>4. i \in 1..Len(k)
    BY <2>2, <2>3
  <2> QED
    BY <2>2, <2>3, <2>4, ElementOfSeq
<1> QED
  BY <1>1 DEF Components

LEMMA GenerationsUnfold ==
    ASSUME NEW in, IsInput(in), IsCanonical(in), NEW v \in Elements(in, "none"), NEW n \in Nat
    PROVE  /\ Generations(v, n)[0] = {v}
           /\ \A k \in 1..n : Generations(v, n)[k] = Components(Generations(v, n)[k - 1])
           /\ \A k \in 0..n : Generations(v, n)[k] \subseteq Elements(in, "none")
<1> DEFINE E == Elements(in, "none")
           S == [k \in 0..n |-> SUBSET E]
           step == [k \in 1..n |-> [x \in SUBSET E |-> Components(x)]]
           D(f) == [k \in 0..n |-> IF k = 0 THEN {v} ELSE Components(f[k - 1])]
<1>1. Steps(n, S, {v}, step)
  <2>1. ASSUME NEW x \in SUBSET E
        PROVE  Components(x) \in SUBSET E
    BY ComponentsAreValues
  <2>2. {v} \in SUBSET E
    OBVIOUS
  <2> HIDE DEF E
  <2> QED
    BY <2>1, <2>2 DEF Steps
<1>2. PICK f : Iterates(n, S, {v}, step, f)
  <2> HIDE DEF S, step
  <2> QED
    BY <1>1, Iteration
<1>3. f = [k \in 0..n |-> IF k = 0 THEN {v} ELSE step[k][f[k - 1]]]
  <2> HIDE DEF step
  <2> QED
    BY <1>2 DEF Iterates
<1> HIDE DEF E
<1>4. \A k \in 0..n : f[k] \in SUBSET E
  BY <1>2 DEF Iterates
<1>5. f = D(f)
  <2>1. ASSUME NEW k \in 1..n
        PROVE  step[k][f[k - 1]] = Components(f[k - 1])
    <3>1. f[k - 1] \in SUBSET E
      BY <1>4
    <3> QED
      BY <3>1
  <2> HIDE DEF step
  <2>2. \A k \in 0..n : (IF k = 0 THEN {v} ELSE step[k][f[k - 1]])
                           = (IF k = 0 THEN {v} ELSE Components(f[k - 1]))
    BY <2>1
  <2> QED
    BY <1>3, <2>2
<1> DEFINE g == Generations(v, n)
<1>6. g = D(g)
  <2>1. g = CHOOSE h : h = D(h)
    BY DEF Generations
  <2> HIDE DEF D
  <2> QED
    BY <1>5, <2>1
<1> HIDE DEF g
<1>7. \A k \in 0..n : g[k] = (IF k = 0 THEN {v} ELSE Components(g[k - 1]))
  BY <1>6
<1>8. \A k \in 0..n : f[k] = g[k]
  <2>1. \A k \in 0..n : f[k] = (IF k = 0 THEN {v} ELSE Components(f[k - 1]))
    BY <1>5
  <2> HIDE DEF S, step, D
  <2>2. f[0] = g[0]
    BY <1>7, <2>1
  <2>3. ASSUME NEW k \in 1..n, f[k - 1] = g[k - 1]
        PROVE  f[k] = g[k]
    <3>1. k \in 0..n /\ k # 0
      OBVIOUS
    <3> QED
      BY <1>7, <2>1, <2>3, <3>1
  <2>4. GoAlike(n, f, g)
    BY <2>2, <2>3 DEF GoAlike
  <2> QED
    BY <2>4, Coincidence
<1>9. g[0] = {v} /\ \A k \in 1..n : g[k] = Components(g[k - 1])
  BY <1>7
<1>10. \A k \in 0..n : g[k] \subseteq E
  BY <1>4, <1>8
<1> QED
  BY <1>9, <1>10 DEF g, E

\* The encodings that an encoding of generation n - k is made of.
Below(encodings, k, u) ==
    [i \in 1..Len(u.kids) |-> IF k = 0 THEN <<>> ELSE encodings[k - 1][u.kids[i]]]

Encodes(v, n, indefinite, encodings) ==
    /\ Encoding(v, n, indefinite) = encodings[n][v]
    /\ \A k \in 0..n : \A u \in Generations(v, n)[n - k] :
           encodings[k][u] = Encoded(u, Below(encodings, k, u), indefinite)

\* The encodings of the components of u, and none where there are none yet.
Over(f, u) == [i \in 1..Len(u.kids) |-> f[u.kids[i]]]

Nones(u) == [i \in 1..Len(u.kids) |-> <<>>]

LEMMA KidsInTheNextGeneration ==
    ASSUME NEW in, IsInput(in), IsCanonical(in), NEW v \in Elements(in, "none"), NEW n \in Nat,
           NEW k \in 0..n, NEW u \in Generations(v, n)[n - k]
    PROVE  /\ IsShaped(in, u)
           /\ Len(u.kids) \in Nat
           /\ k # 0 => \A i \in 1..Len(u.kids) : u.kids[i] \in Generations(v, n)[n - (k - 1)]
<1>1. PICK j \in 0..n : j = n - k
  OBVIOUS
<1>2. u \in Elements(in, "none")
  BY <1>1, GenerationsUnfold
<1>3. IsShaped(in, u)
  BY <1>2, PlainStrings, ValuesAreShaped
<1>4. PICK a, s, o, kids : u = Value(a, s, o, kids) /\ kids \in Seq(Elements(in, "none"))
  BY <1>3, Zenon DEF IsShaped
<1>5. u.kids = kids
  BY <1>4, KidsOfValues
<1>6. DOMAIN u.kids = 1..Len(u.kids) /\ Len(u.kids) \in Nat
  BY <1>4, <1>5
<1>7. ASSUME k # 0, NEW i \in 1..Len(u.kids)
      PROVE  u.kids[i] \in Generations(v, n)[n - (k - 1)]
  <2>1. PICK l \in 1..n : l = n - (k - 1)
    BY <1>7
  <2>2. Generations(v, n)[l] = Components(Generations(v, n)[l - 1])
    BY GenerationsUnfold
  <2>3. l - 1 = n - k
    BY <2>1
  <2>4. u.kids[i] \in Components(Generations(v, n)[n - k])
    BY <1>6 DEF Components
  <2> QED
    BY <2>1, <2>2, <2>3, <2>4
<1> QED
  BY <1>3, <1>6, <1>7

LEMMA EncodingUnfolds ==
    ASSUME NEW in, IsInput(in), IsCanonical(in), NEW v \in Elements(in, "none"), NEW n \in Nat,
           NEW indefinite
    PROVE  \E encodings : Encodes(v, n, indefinite, encodings)
<1> DEFINE G(k) == Generations(v, n)[n - k]
           S == [k \in 0..n |-> [G(k) -> Seq(Nat)]]
           a == [u \in G(0) |-> Encoded(u, Nones(u), indefinite)]
           step == [k \in 1..n |-> [x \in [G(k - 1) -> Seq(Nat)] |->
                       [u \in G(k) |-> Encoded(u, Over(x, u), indefinite)]]]
           D(f) == [k \in 0..n |-> [u \in G(k) |-> Encoded(u, Below(f, k, u), indefinite)]]
<1>1. a \in [G(0) -> Seq(Nat)]
  <2>1. ASSUME NEW u \in G(0)
        PROVE  Encoded(u, Nones(u), indefinite) \in Seq(Nat)
    <3>1. IsShaped(in, u) /\ Len(u.kids) \in Nat
      <4>1. PICK k \in 0..n : k = 0
        OBVIOUS
      <4>2. u \in Generations(v, n)[n - k]
        BY <4>1
      <4> QED
        BY <4>2, KidsInTheNextGeneration
    <3>2. Nones(u) \in Seq(Seq(Nat))
      BY <3>1, EmptySeq DEF Nones
    <3> QED
      BY <3>1, <3>2, EncodingsAreSequences
  <2> HIDE DEF G
  <2> QED
    BY <2>1
<1>2. ASSUME NEW k \in 1..n, NEW x \in [G(k - 1) -> Seq(Nat)]
      PROVE  [u \in G(k) |-> Encoded(u, Over(x, u), indefinite)] \in [G(k) -> Seq(Nat)]
  <2>1. ASSUME NEW u \in G(k)
        PROVE  Encoded(u, Over(x, u), indefinite) \in Seq(Nat)
    <3>1. /\ IsShaped(in, u) /\ Len(u.kids) \in Nat
          /\ \A i \in 1..Len(u.kids) : u.kids[i] \in G(k - 1)
      <4>1. k \in 0..n /\ k # 0
        OBVIOUS
      <4>2. u \in Generations(v, n)[n - k]
        OBVIOUS
      <4> HIDE DEF G
      <4>3. /\ IsShaped(in, u) /\ Len(u.kids) \in Nat
            /\ \A i \in 1..Len(u.kids) : u.kids[i] \in Generations(v, n)[n - (k - 1)]
        BY <4>1, <4>2, KidsInTheNextGeneration
      <4> QED
        BY <4>3 DEF G
    <3> HIDE DEF G
    <3>2. Over(x, u) \in Seq(Seq(Nat))
      BY <3>1 DEF Over
    <3> QED
      BY <3>1, <3>2, EncodingsAreSequences
  <2> HIDE DEF G
  <2> QED
    BY <2>1
<1>3. Steps(n, S, a, step)
  <2> HIDE DEF G, a
  <2>1. a \in S[0]
    BY <1>1
  <2>2. ASSUME NEW k \in 1..n, NEW x \in S[k - 1]
        PROVE  step[k][x] \in S[k]
    <3>1. S[k - 1] = [G(k - 1) -> Seq(Nat)] /\ S[k] = [G(k) -> Seq(Nat)]
      OBVIOUS
    <3>2. step[k][x] = [u \in G(k) |-> Encoded(u, Over(x, u), indefinite)]
      BY <3>1
    <3> HIDE DEF S, step
    <3> QED
      BY <1>2, <3>1, <3>2
  <2> HIDE DEF S, step
  <2> QED
    BY <2>1, <2>2 DEF Steps
<1>4. PICK f : Iterates(n, S, a, step, f)
  <2> HIDE DEF S, a, step
  <2> QED
    BY <1>3, Iteration
<1>5. f = [k \in 0..n |-> IF k = 0 THEN a ELSE step[k][f[k - 1]]]
  <2> HIDE DEF a, step
  <2> QED
    BY <1>4 DEF Iterates
<1>6. \A k \in 0..n : f[k] \in [G(k) -> Seq(Nat)]
  <2> HIDE DEF G, a, step
  <2> QED
    BY <1>4 DEF Iterates
<1>7. f = D(f)
  <2>1. ASSUME NEW k \in 1..n
        PROVE  step[k][f[k - 1]] = [u \in G(k) |-> Encoded(u, Below(f, k, u), indefinite)]
    <3> HIDE DEF G
    <3>1. f[k - 1] \in [G(k - 1) -> Seq(Nat)]
      BY <1>6
    <3>2. step[k][f[k - 1]] = [u \in G(k) |-> Encoded(u, Over(f[k - 1], u), indefinite)]
      BY <3>1
    <3>3. \A u \in G(k) : Over(f[k - 1], u) = Below(f, k, u)
      BY DEF Over, Below
    <3> HIDE DEF step
    <3> QED
      BY <3>2, <3>3
  <2>2. a = [u \in G(0) |-> Encoded(u, Below(f, 0, u), indefinite)]
    <3>1. \A u \in G(0) : Nones(u) = Below(f, 0, u)
      BY DEF Nones, Below
    <3> HIDE DEF G
    <3> QED
      BY <3>1
  <2> HIDE DEF a, step, G
  <2>3. \A k \in 0..n : (IF k = 0 THEN a ELSE step[k][f[k - 1]])
                           = [u \in G(k) |-> Encoded(u, Below(f, k, u), indefinite)]
    BY <2>1, <2>2
  <2> QED
    BY <1>5, <2>3
<1> DEFINE encodings == CHOOSE g : g = D(g)
<1>8. encodings = D(encodings)
  <2> HIDE DEF D
  <2> QED
    BY <1>7
<1>9. Encoding(v, n, indefinite) = encodings[n][v]
  BY Zenon DEF Encoding, Below
<1> HIDE DEF encodings
<1>10. \A k \in 0..n : \A u \in G(k) :
           encodings[k][u] = Encoded(u, Below(encodings, k, u), indefinite)
  <2> HIDE DEF G
  <2>1. \A k \in 0..n :
            encodings[k] = [u \in G(k) |-> Encoded(u, Below(encodings, k, u), indefinite)]
    BY <1>8
  <2> QED
    BY <2>1
<1> QED
  BY <1>9, <1>10 DEF Encodes

\* The encodings of a generation are sequences that spell what they were read from.
Speaks(in, encodings, k, u) ==
    encodings[k][u] \in Seq(Nat) /\ Reply(in, k + 1, u, encodings[k][u])

LEMMA GenerationsSpeak ==
    ASSUME NEW in, IsInput(in), IsCanonical(in), NEW v \in Elements(in, "none"), NEW n \in Nat,
           NEW encodings, Encodes(v, n, in.rules = CER, encodings)
    PROVE  \A k \in 0..n : \A u \in Generations(v, n)[n - k] : Speaks(in, encodings, k, u)
<1> DEFINE cer == in.rules = CER
           T == {k \in 0..n : \E u \in Generations(v, n)[n - k] : ~Speaks(in, encodings, k, u)}
<1>1. SUFFICES ASSUME T # {}
               PROVE  FALSE
  OBVIOUS
<1>2. PICK k \in T : \A l \in T : k <= l
  <2>1. T \subseteq Nat
    OBVIOUS
  <2> HIDE DEF T
  <2> QED
    BY <1>1, <2>1, LeastElement
<1>3. k \in 0..n
  OBVIOUS
<1>4. PICK u \in Generations(v, n)[n - k] : ~Speaks(in, encodings, k, u)
  OBVIOUS
<1> HIDE DEF cer
<1>5. /\ IsShaped(in, u) /\ Len(u.kids) \in Nat
      /\ k # 0 => \A i \in 1..Len(u.kids) : u.kids[i] \in Generations(v, n)[n - (k - 1)]
  BY <1>3, <1>4, KidsInTheNextGeneration
<1>6. PICK strings : strings = Below(encodings, k, u)
  OBVIOUS
<1>7. encodings[k][u] = Encoded(u, strings, cer)
  BY <1>3, <1>6 DEF Encodes, cer
<1>8. Len(strings) = Len(u.kids) /\ DOMAIN strings = 1..Len(u.kids)
  BY <1>5, <1>6 DEF Below
<1>9. ASSUME NEW i \in 1..Len(u.kids)
      PROVE  strings[i] \in Seq(Nat) /\ (k # 0 => Reply(in, k, u.kids[i], strings[i]))
  <2>1. CASE k = 0
    <3>1. strings[i] = <<>>
      BY <1>6, <2>1 DEF Below
    <3> QED
      BY <2>1, <3>1, EmptySeq
  <2>2. CASE k # 0
    <3>1. k - 1 \in 0..n /\ k - 1 \notin T
      <4> HIDE DEF T
      <4> QED
        BY <1>2, <1>3, <2>2
    <3>2. PICK j \in 0..n : j = k - 1 /\ j \notin T
      BY <3>1
    <3>3. u.kids[i] \in Generations(v, n)[n - j]
      BY <1>5, <2>2, <3>2
    <3>4. Speaks(in, encodings, j, u.kids[i])
      BY <3>2, <3>3
    <3>5. strings[i] = encodings[j][u.kids[i]]
      BY <1>6, <2>2, <3>2 DEF Below
    <3>6. j + 1 = k
      BY <1>3, <3>2
    <3> HIDE DEF T
    <3> QED
      BY <3>4, <3>5, <3>6 DEF Speaks
  <2> QED
    BY <2>1, <2>2
<1>10. strings \in Seq(Seq(Nat))
  <2>1. PICK m \in Nat : m = Len(u.kids)
    BY <1>5
  <2>2. strings = [i \in 1..m |-> strings[i]]
    BY <1>6, <2>1 DEF Below
  <2>3. \A i \in 1..m : strings[i] \in Seq(Nat)
    BY <1>9, <2>1
  <2> QED
    BY <2>2, <2>3
<1>11. encodings[k][u] \in Seq(Nat)
  BY <1>5, <1>7, <1>10, EncodingsAreSequences
<1>12. ASSUME NEW p \in Positions(in), NEW q \in Positions(in), NEW w \in Positions(in),
              u \in Item(in, "none", p, q, w), q <= w, q - p < k + 1
       PROVE  Spelled(in, p, q, w, encodings[k][u])
  <2>1. HeaderFits(in, p, q)
    BY <1>12, ItemsNeedHeaders
  <2>2. p \in Nat /\ q \in Nat /\ p + 1 < q /\ k \in Nat
    BY <1>3, <2>1 DEF HeaderFits, Positions
  <2>3. k # 0 /\ q - p <= k /\ q - p \in Int /\ k \in Int
    BY <1>12, <2>2
  <2>4. Replies(in, k, u.kids, strings)
    BY <1>8, <1>9, <1>10, <2>3 DEF Replies
  <2>5. Replies(in, q - p, u.kids, strings)
    BY <2>3, <2>4, FewerReplies
  <2>6. ~Miscoded(in, p, q, w)
    BY ValuesAreSpelled
  <2>7. Spelled(in, p, q, w, Encoded(u, strings, cer))
    BY <1>12, <2>5, <2>6, Zenon DEF Miscoded, cer
  <2> QED
    BY <1>7, <2>7
<1>13. Reply(in, k + 1, u, encodings[k][u])
  BY <1>12, Zenon DEF Reply
<1> HIDE DEF T
<1> QED
  BY <1>4, <1>11, <1>13 DEF Speaks

\* The encoding of a value spells the octets that it was read from.
LEMMA EncodingsSpell ==
    ASSUME NEW in, IsInput(in), IsCanonical(in),
           NEW p \in Positions(in), NEW q \in Positions(in), NEW w \in Positions(in), q <= w,
           NEW v \in Item(in, "none", p, q, w), NEW n \in Nat, q - p <= n
    PROVE  Spelled(in, p, q, w, Encoding(v, n, in.rules = CER))
<1>1. v \in Elements(in, "none")
  <2>1. <<p, q, w>> \in Positions(in) \X Positions(in) \X Positions(in)
    OBVIOUS
  <2> QED
    BY <2>1 DEF Elements
<1>2. PICK encodings : Encodes(v, n, in.rules = CER, encodings)
  BY <1>1, EncodingUnfolds
<1>3. v \in Generations(v, n)[n - n]
  <2>1. Generations(v, n)[0] = {v}
    BY <1>1, GenerationsUnfold
  <2>2. n - n = 0
    OBVIOUS
  <2> QED
    BY <2>1, <2>2
<1>4. Speaks(in, encodings, n, v)
  BY <1>1, <1>2, <1>3, GenerationsSpeak
<1>5. Reply(in, n + 1, v, encodings[n][v])
  BY <1>4 DEF Speaks
<1>6. q - p < n + 1
  BY DEF Positions
<1>7. Spelled(in, p, q, w, encodings[n][v])
  BY <1>5, <1>6, ReplyTo
<1> QED
  BY <1>2, <1>7 DEF Encodes
=============================================================================
