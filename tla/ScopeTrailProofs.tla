--------------------------- MODULE ScopeTrailProofs ---------------------------
(***************************************************************************)
(* Proofs about ScopeTrail, for any set of contexts and tokens and any     *)
(* bounds.  The inductive invariant says of one context how the calls in   *)
(* progress and the trail fit together (Fits), and of one call that it     *)
(* has pushed exactly if it is going to pop (Disciplined).                 *)
(***************************************************************************)
EXTENDS ScopeTrail, SequenceTheorems, TLAPS

\* The part of the trail a call accounts for ends here.
Extent(f) == f.at + (IF f.pushed THEN 1 ELSE 0)

Stacked(cs, tr, inh) ==
    /\ \A i \in 1..Len(cs) :
          /\ Len(inh) <= cs[i].at
          /\ Extent(cs[i]) <= Len(tr)
          /\ cs[i].pushed => tr[cs[i].at + 1] = cs[i].token
    /\ \A i, j \in 1..Len(cs) : i < j => Extent(cs[i]) <= cs[j].at
    /\ Len(inh) <= Len(tr)
    /\ \A k \in 1..Len(inh) : tr[k] = inh[k]

Clean(cs, tr) ==
    /\ \A i, j \in 1..Len(cs) : i < j /\ cs[i].clean => cs[j].clean
    /\ \A i \in 1..Len(cs) : cs[i].clean =>
          IF i = Len(cs) THEN Len(tr) = Extent(cs[i]) ELSE cs[i + 1].at = Extent(cs[i])

Fits(cs, tr, inh) == Stacked(cs, tr, inh) /\ Clean(cs, tr)

Disciplined(f, nativeOn) ==
    /\ f.st # "value" => ~f.pushed
    /\ f.codec = "ber" /\ f.st = "value" => f.pushed = f.debugging
    /\ f.codec = "native" => f.st = "value" /\ f.pushed = nativeOn

IInv ==
    /\ TypeOK
    /\ \A c \in Contexts : Fits(calls[c], trail[c], inherited[c])
    /\ \A c \in Contexts : \A i \in 1..Len(calls[c]) : Disciplined(calls[c][i], enabled["native"])
    /\ \A c \in Contexts : c \notin started => calls[c] = <<>>

-----------------------------------------------------------------------------
(* What the steps do to one context, as facts about sequences.             *)

LEMMA DropLast ==
    ASSUME NEW S, NEW s \in Seq(S), s # <<>>
    PROVE  /\ SubSeq(s, 1, Len(s) - 1) \in Seq(S)
           /\ Len(SubSeq(s, 1, Len(s) - 1)) = Len(s) - 1
           /\ \A i \in 1..Len(s) - 1 : SubSeq(s, 1, Len(s) - 1)[i] = s[i]
           /\ Len(s) \in Nat \ {0}
<1>1. Len(s) \in Nat /\ Len(s) # 0
  BY EmptySeq
<1> DEFINE n == Len(s) - 1
<1>2. n \in Nat /\ (\A i \in 1..n : s[i] \in S)
  BY <1>1, ElementOfSeq
<1> HIDE DEF n
<1>3. /\ SubSeq(s, 1, n) \in Seq(S)
      /\ Len(SubSeq(s, 1, n)) = IF 1 <= n THEN n - 1 + 1 ELSE 0
      /\ \A i \in 1..n - 1 + 1 : SubSeq(s, 1, n)[i] = s[1 + i - 1]
  BY <1>2, SubSeqProperties
<1>4. Len(SubSeq(s, 1, n)) = n /\ \A i \in 1..n : SubSeq(s, 1, n)[i] = s[i]
  BY <1>2, <1>3
<1> QED
  BY <1>1, <1>3, <1>4 DEF n

\* What typing says of the calls of one context.
LEMMA CallTypes ==
    ASSUME NEW cs \in Seq(Call)
    PROVE  /\ Len(cs) \in Nat
           /\ \A i \in 1..Len(cs) :
                 cs[i] \in Call /\ cs[i].at \in Nat /\ Extent(cs[i]) \in Nat
<1>1. \A i \in 1..Len(cs) : cs[i] \in Call
  BY ElementOfSeq
<1>2. \A i \in 1..Len(cs) : cs[i].at \in Nat
  BY <1>1 DEF Call
<1>3. \A i \in 1..Len(cs) : Extent(cs[i]) \in Nat
  BY <1>2 DEF Extent
<1> QED
  BY <1>1, <1>2, <1>3, LenProperties

LEMMA FitsExtend ==
    ASSUME NEW cs \in Seq(Call), NEW tr \in Seq(Tokens), NEW inh \in Seq(Tokens),
           Fits(cs, tr, inh),
           NEW f \in Call, f.at = Len(tr), f.clean, ~f.pushed
    PROVE  Fits(Append(cs, f), tr, inh)
<1> DEFINE ds == Append(cs, f)
<1>1. /\ Len(ds) = Len(cs) + 1
      /\ \A i \in 1..Len(cs) : ds[i] = cs[i]
      /\ ds[Len(cs) + 1] = f
  BY AppendProperties
<1>2. Len(tr) \in Nat /\ Len(inh) \in Nat /\ Extent(f) = Len(tr)
  BY LenProperties DEF Extent
<1> HIDE DEF ds
<1>c. /\ Len(cs) \in Nat
      /\ \A i \in 1..Len(ds) : i = Len(cs) + 1 \/ i \in 1..Len(cs)
  BY <1>1, LenProperties
<1>3. Stacked(ds, tr, inh)
  <2>1. ASSUME NEW i \in 1..Len(ds)
        PROVE  /\ Len(inh) <= ds[i].at
               /\ Extent(ds[i]) <= Len(tr)
               /\ ds[i].pushed => tr[ds[i].at + 1] = ds[i].token
    <3>1. CASE i = Len(cs) + 1
      BY <1>1, <1>2, <3>1 DEF Fits, Stacked
    <3>2. CASE i \in 1..Len(cs)
      BY <1>1, <3>2 DEF Fits, Stacked
    <3> QED
      BY <1>c, <3>1, <3>2
  <2>2. ASSUME NEW i \in 1..Len(ds), NEW j \in 1..Len(ds), i < j
        PROVE  Extent(ds[i]) <= ds[j].at
    <3>1. i \in 1..Len(cs)
      BY <1>1, <1>c, <2>2
    <3>2. CASE j = Len(cs) + 1
      BY <1>1, <3>1, <3>2 DEF Fits, Stacked
    <3>3. CASE j \in 1..Len(cs)
      BY <1>1, <2>2, <3>1, <3>3 DEF Fits, Stacked
    <3> QED
      BY <1>c, <3>2, <3>3
  <2> QED
    BY <2>1, <2>2 DEF Fits, Stacked
<1>4. Clean(ds, tr)
  <2>1. ASSUME NEW i \in 1..Len(ds), NEW j \in 1..Len(ds), i < j, ds[i].clean
        PROVE  ds[j].clean
    <3>1. CASE j = Len(ds)
      BY <1>1, <3>1
    <3>2. CASE j # Len(ds)
      <4>1. i \in 1..Len(cs) /\ j \in 1..Len(cs)
        BY <1>1, <1>c, <2>1, <3>2
      <4> QED
        BY <1>1, <2>1, <4>1 DEF Fits, Clean
    <3> QED
      BY <3>1, <3>2
  <2>2. ASSUME NEW i \in 1..Len(ds), ds[i].clean
        PROVE  IF i = Len(ds) THEN Len(tr) = Extent(ds[i]) ELSE ds[i + 1].at = Extent(ds[i])
    <3>1. CASE i = Len(ds)
      BY <1>1, <1>2, <3>1
    <3>2. CASE i = Len(cs)
      BY <1>1, <1>2, <3>2, <2>2, CallTypes DEF Fits, Clean
    <3>3. CASE i < Len(cs)
      <4>1. i \in 1..Len(cs) /\ i + 1 \in 1..Len(cs) /\ i # Len(ds)
        BY <1>1, <1>c, <3>3
      <4> QED
        BY <1>1, <2>2, <3>3, <4>1 DEF Fits, Clean
    <3> QED
      BY <1>1, <1>c, <3>1, <3>2, <3>3
  <2> QED
    BY <2>1, <2>2 DEF Clean
<1> QED
  BY <1>3, <1>4 DEF Fits, ds

\* The innermost call is replaced by one that accounts for as much.
LEMMA FitsReplace ==
    ASSUME NEW cs \in Seq(Call), NEW tr \in Seq(Tokens), NEW inh \in Seq(Tokens),
           Fits(cs, tr, inh), cs # <<>>,
           NEW f \in Call,
           f.at = cs[Len(cs)].at, f.clean = cs[Len(cs)].clean,
           f.pushed = cs[Len(cs)].pushed, f.token = cs[Len(cs)].token
    PROVE  Fits([cs EXCEPT ![Len(cs)] = f], tr, inh)
<1> DEFINE ds == [cs EXCEPT ![Len(cs)] = f]
<1>1. Len(cs) \in Nat \ {0}
  BY DropLast
<1>2. /\ Len(ds) = Len(cs)
      /\ \A i \in 1..Len(cs) : ds[i] = IF i = Len(cs) THEN f ELSE cs[i]
  BY <1>1, ExceptSeq
<1>3. \A i \in 1..Len(cs) : /\ ds[i].at = cs[i].at /\ ds[i].clean = cs[i].clean
                            /\ ds[i].pushed = cs[i].pushed /\ ds[i].token = cs[i].token
                            /\ Extent(ds[i]) = Extent(cs[i])
  BY <1>1, <1>2 DEF Extent
<1> HIDE DEF ds
<1>4. Stacked(ds, tr, inh)
  BY <1>1, <1>2, <1>3 DEF Fits, Stacked
<1>5. Clean(ds, tr)
  <2>1. ASSUME NEW i \in 1..Len(ds), NEW j \in 1..Len(ds), i < j, ds[i].clean
        PROVE  ds[j].clean
    BY <1>2, <1>3, <2>1 DEF Fits, Clean
  <2>2. ASSUME NEW i \in 1..Len(ds), ds[i].clean
        PROVE  IF i = Len(ds) THEN Len(tr) = Extent(ds[i]) ELSE ds[i + 1].at = Extent(ds[i])
    <3>1. CASE i = Len(ds)
      BY <1>2, <1>3, <2>2, <3>1 DEF Fits, Clean
    <3>2. CASE i # Len(ds)
      <4>1. i + 1 \in 1..Len(cs)
        BY <1>1, <1>2, <3>2
      <4> QED
        BY <1>2, <1>3, <2>2, <3>2, <4>1 DEF Fits, Clean
    <3> QED
      BY <3>1, <3>2
  <2> QED
    BY <2>1, <2>2 DEF Clean
<1> QED
  BY <1>4, <1>5 DEF Fits, ds

\* The innermost call drops out and takes its own token, if any, with it.
LEMMA FitsReturn ==
    ASSUME NEW cs \in Seq(Call), NEW tr \in Seq(Tokens), NEW inh \in Seq(Tokens),
           Fits(cs, tr, inh), cs # <<>>,
           NEW ds \in Seq(Call), Len(ds) = Len(cs) - 1,
           \A i \in 1..Len(ds) : ds[i] = cs[i],
           NEW ts \in Seq(Tokens),
           Len(ts) = Len(tr) - (IF cs[Len(cs)].pushed THEN 1 ELSE 0),
           \A k \in 1..Len(ts) : ts[k] = tr[k]
    PROVE  Fits(ds, ts, inh)
<1> DEFINE n == Len(cs)
<1>1. n \in Nat \ {0} /\ Len(tr) \in Nat /\ Len(ts) \in Nat /\ Len(inh) \in Nat
  BY DropLast, LenProperties
<1>2. cs[n].at <= Len(ts) /\ Len(inh) <= cs[n].at /\ cs[n].at \in Nat
  BY <1>1, CallTypes DEF Fits, Stacked, Extent
<1>3. \A i \in 1..Len(ds) : /\ i \in 1..n /\ i < n
                            /\ Extent(cs[i]) <= cs[n].at
                            /\ Extent(cs[i]) \in Nat /\ cs[i].at \in Nat
  BY <1>1, CallTypes DEF Fits, Stacked
<1>4. Stacked(ds, ts, inh)
  <2>1. ASSUME NEW i \in 1..Len(ds)
        PROVE  /\ Len(inh) <= ds[i].at
               /\ Extent(ds[i]) <= Len(ts)
               /\ ds[i].pushed => ts[ds[i].at + 1] = ds[i].token
    <3>1. Len(inh) <= ds[i].at /\ Extent(ds[i]) <= Len(ts)
      <4>1. Len(inh) <= ds[i].at
        BY <1>3 DEF Fits, Stacked
      <4>2. ds[i] = cs[i] /\ Extent(cs[i]) \in Nat /\ Extent(cs[i]) <= cs[n].at
        BY <1>3
      <4> QED
        BY <1>1, <1>2, <4>1, <4>2
    <3>2. ASSUME ds[i].pushed PROVE ts[ds[i].at + 1] = ds[i].token
      <4>1. ds[i].at + 1 \in 1..Len(ts)
        BY <1>1, <1>3, <3>1, <3>2 DEF Extent
      <4>2. tr[ds[i].at + 1] = ds[i].token
        BY <1>3, <3>2 DEF Fits, Stacked
      <4> QED
        BY <4>1, <4>2
    <3> QED
      BY <3>1, <3>2
  <2>2. \A i, j \in 1..Len(ds) : i < j => Extent(ds[i]) <= ds[j].at
    BY <1>3 DEF Fits, Stacked
  <2>3. Len(inh) <= Len(ts) /\ \A k \in 1..Len(inh) : ts[k] = inh[k]
    BY <1>1, <1>2 DEF Fits, Stacked
  <2> QED
    BY <2>1, <2>2, <2>3 DEF Stacked
<1>5. Clean(ds, ts)
  <2>1. ASSUME NEW i \in 1..Len(ds), NEW j \in 1..Len(ds), i < j, ds[i].clean
        PROVE  ds[j].clean
    BY <1>3, <2>1 DEF Fits, Clean
  <2>2. ASSUME NEW i \in 1..Len(ds), ds[i].clean
        PROVE  IF i = Len(ds) THEN Len(ts) = Extent(ds[i]) ELSE ds[i + 1].at = Extent(ds[i])
    <3>1. cs[i].clean /\ cs[i + 1].at = Extent(cs[i])
      BY <1>3, <2>2 DEF Fits, Clean
    <3>2. CASE i = Len(ds)
      <4>1. i + 1 = n
        BY <1>1, <3>2
      <4>2. cs[n].clean
        BY <1>1, <1>3, <3>1 DEF Fits, Clean
      <4>3. Len(tr) = Extent(cs[n])
        <5>1. n \in 1..n
          BY <1>1
        <5> QED
          BY <4>2, <5>1 DEF Fits, Clean
      <4> QED
        BY <1>1, <1>2, <3>1, <3>2, <4>1, <4>3 DEF Extent
    <3>3. CASE i # Len(ds)
      <4>1. i + 1 \in 1..Len(ds)
        BY <1>1, <3>3
      <4> QED
        BY <3>1, <3>3, <4>1
    <3> QED
      BY <3>2, <3>3
  <2> QED
    BY <2>1, <2>2 DEF Clean
<1> QED
  BY <1>4, <1>5 DEF Fits

\* The innermost call chooses its codec and enters its token, if it is to.
LEMMA FitsChoose ==
    ASSUME NEW cs \in Seq(Call), NEW tr \in Seq(Tokens), NEW inh \in Seq(Tokens),
           Fits(cs, tr, inh), cs # <<>>, ~cs[Len(cs)].pushed,
           NEW ds \in Seq(Call), Len(ds) = Len(cs),
           \A i \in 1..Len(cs) : i # Len(cs) => ds[i] = cs[i],
           ds[Len(cs)].clean = cs[Len(cs)].clean,
           ds[Len(cs)].at = Len(tr),
           NEW ts \in Seq(Tokens),
           Len(ts) = Len(tr) + (IF ds[Len(cs)].pushed THEN 1 ELSE 0),
           ds[Len(cs)].pushed => ts[Len(tr) + 1] = ds[Len(cs)].token,
           \A k \in 1..Len(tr) : ts[k] = tr[k]
    PROVE  Fits(ds, ts, inh)
<1> DEFINE n == Len(cs)
<1>1. n \in Nat \ {0} /\ Len(tr) \in Nat /\ Len(ts) \in Nat /\ Len(inh) \in Nat
  BY DropLast, LenProperties
<1>2. cs[n].at <= Len(tr) /\ Len(tr) <= Len(ts) /\ Len(ts) = Extent(ds[n])
  BY <1>1, CallTypes DEF Fits, Stacked, Extent
<1>3. \A i \in 1..n : i # n => /\ i < n /\ ds[i] = cs[i]
                               /\ Extent(cs[i]) <= Len(tr)
                               /\ Extent(cs[i]) \in Nat /\ cs[i].at \in Nat
  BY <1>1, CallTypes DEF Fits, Stacked
<1>4. Stacked(ds, ts, inh)
  <2>1. ASSUME NEW i \in 1..n
        PROVE  /\ Len(inh) <= ds[i].at
               /\ Extent(ds[i]) <= Len(ts)
               /\ ds[i].pushed => ts[ds[i].at + 1] = ds[i].token
    <3>1. CASE i = n
      BY <1>1, <1>2, <3>1 DEF Fits, Stacked
    <3>2. CASE i # n
      <4>1. Len(inh) <= ds[i].at /\ Extent(ds[i]) <= Len(tr)
        BY <1>3, <3>2 DEF Fits, Stacked
      <4>2. ASSUME ds[i].pushed PROVE ts[ds[i].at + 1] = ds[i].token
        <5>1. ds[i].at + 1 \in 1..Len(tr)
          BY <1>1, <1>3, <3>2, <4>1, <4>2 DEF Extent
        <5>2. tr[ds[i].at + 1] = ds[i].token
          BY <1>3, <3>2, <4>2 DEF Fits, Stacked
        <5> QED
          BY <5>1, <5>2
      <4>3. Extent(ds[i]) \in Nat
        BY <1>3, <3>2
      <4> QED
        BY <1>1, <1>2, <4>1, <4>2, <4>3
    <3> QED
      BY <3>1, <3>2
  <2>2. ASSUME NEW i \in 1..n, NEW j \in 1..n, i < j
        PROVE  Extent(ds[i]) <= ds[j].at
    <3>1. i # n
      BY <1>1, <2>2
    <3> QED
      BY <1>1, <1>3, <2>2, <3>1 DEF Fits, Stacked
  <2>3. Len(inh) <= Len(ts) /\ \A k \in 1..Len(inh) : ts[k] = inh[k]
    BY <1>1, <1>2 DEF Fits, Stacked
  <2> QED
    BY <2>1, <2>2, <2>3 DEF Stacked
<1>5. Clean(ds, ts)
  <2>1. ASSUME NEW i \in 1..n, NEW j \in 1..n, i < j, ds[i].clean
        PROVE  ds[j].clean
    <3>1. cs[i].clean /\ cs[j].clean
      BY <1>1, <1>3, <2>1 DEF Fits, Clean
    <3> QED
      BY <1>3, <3>1
  <2>2. ASSUME NEW i \in 1..n, ds[i].clean
        PROVE  IF i = n THEN Len(ts) = Extent(ds[i]) ELSE ds[i + 1].at = Extent(ds[i])
    <3>1. CASE i = n
      BY <1>2, <3>1
    <3>2. CASE i # n
      <4>1. cs[i].clean /\ cs[i + 1].at = Extent(cs[i]) /\ ds[i] = cs[i]
        BY <1>3, <2>2, <3>2 DEF Fits, Clean
      <4>2. CASE i + 1 = n
        <5>1. cs[n].clean
          BY <1>1, <1>3, <3>2, <4>1, <4>2 DEF Fits, Clean
        <5>2. Len(tr) = Extent(cs[n]) /\ Extent(cs[n]) = cs[n].at
          BY <1>1, <5>1, CallTypes DEF Fits, Clean, Extent
        <5> QED
          BY <3>2, <4>1, <4>2, <5>2
      <4>3. CASE i + 1 # n
        <5>1. i + 1 \in 1..n
          BY <1>1, <3>2
        <5> QED
          BY <1>3, <3>2, <4>1, <4>3, <5>1
      <4> QED
        BY <4>2, <4>3
    <3> QED
      BY <3>1, <3>2
  <2> QED
    BY <2>1, <2>2 DEF Clean
<1> QED
  BY <1>4, <1>5 DEF Fits

\* The calls above some level are gone and those below it are not clean.
LEMMA FitsUnwind ==
    ASSUME NEW cs \in Seq(Call), NEW tr \in Seq(Tokens), NEW inh \in Seq(Tokens),
           Fits(cs, tr, inh),
           NEW ds \in Seq(Call), Len(ds) <= Len(cs),
           \A i \in 1..Len(ds) :
              ~ds[i].clean /\ ds[i].at = cs[i].at
              /\ ds[i].pushed = cs[i].pushed /\ ds[i].token = cs[i].token
    PROVE  Fits(ds, tr, inh)
<1>1. Len(cs) \in Nat /\ Len(ds) \in Nat
  BY LenProperties
<1>2. \A i \in 1..Len(ds) : i \in 1..Len(cs) /\ Extent(ds[i]) = Extent(cs[i])
  BY <1>1 DEF Extent
<1>3. Stacked(ds, tr, inh)
  BY <1>1, <1>2 DEF Fits, Stacked
<1>4. Clean(ds, tr)
  BY DEF Clean
<1> QED
  BY <1>3, <1>4 DEF Fits

-----------------------------------------------------------------------------
(* Every step keeps the inductive invariant.                               *)

LEMMA ContextTypes ==
    ASSUME TypeOK, NEW c \in Contexts
    PROVE  /\ calls[c] \in Seq(Call) /\ Len(calls[c]) \in Nat
           /\ trail[c] \in Seq(Tokens) /\ Len(trail[c]) \in Nat
           /\ inherited[c] \in Seq(Tokens)
           /\ InCall(c) => /\ Len(calls[c]) \in 1..Len(calls[c])
                           /\ Running(c) \in Call
                           /\ Running(c) = calls[c][Len(calls[c])]
<1>1. /\ calls[c] \in Seq(Call) /\ trail[c] \in Seq(Tokens) /\ inherited[c] \in Seq(Tokens)
  BY DEF TypeOK
<1>2. Len(calls[c]) \in Nat /\ Len(trail[c]) \in Nat
  BY <1>1, LenProperties
<1>3. ASSUME InCall(c)
      PROVE  Len(calls[c]) \in 1..Len(calls[c])
  BY <1>1, <1>2, <1>3, DropLast DEF InCall
<1>4. ASSUME InCall(c)
      PROVE  Running(c) \in Call
  BY <1>1, <1>3, <1>4, ElementOfSeq DEF Running
<1> QED
  BY <1>1, <1>2, <1>3, <1>4 DEF Running

\* A step of context c has to be looked at in c alone.
LEMMA OneContext ==
    ASSUME IInv, TypeOK', NEW c \in Contexts,
           enabled' = enabled, started \subseteq started',
           \A e \in Contexts \ {c} :
              calls'[e] = calls[e] /\ trail'[e] = trail[e] /\ inherited'[e] = inherited[e],
           Fits(calls'[c], trail'[c], inherited'[c]),
           \A i \in 1..Len(calls'[c]) : Disciplined(calls'[c][i], enabled["native"]),
           c \notin started' => calls'[c] = <<>>
    PROVE  IInv'
<1>1. ASSUME NEW e \in Contexts
      PROVE  Fits(calls'[e], trail'[e], inherited'[e])
  BY DEF IInv
<1>2. ASSUME NEW e \in Contexts
      PROVE  \A i \in 1..Len(calls'[e]) : Disciplined(calls'[e][i], enabled'["native"])
  BY DEF IInv
<1>3. \A e \in Contexts : e \notin started' => calls'[e] = <<>>
  BY DEF IInv
<1> QED
  BY <1>1, <1>2, <1>3 DEF IInv

\* All calls of a context are disciplined: as one is added, replaced, dropped.
LEMMA DisciplinedAppend ==
    ASSUME NEW cs \in Seq(Call), NEW on, NEW f \in Call, Disciplined(f, on),
           \A i \in 1..Len(cs) : Disciplined(cs[i], on)
    PROVE  \A i \in 1..Len(Append(cs, f)) : Disciplined(Append(cs, f)[i], on)
<1>1. /\ Len(Append(cs, f)) = Len(cs) + 1 /\ Len(cs) \in Nat
      /\ \A i \in 1..Len(cs) : Append(cs, f)[i] = cs[i]
      /\ Append(cs, f)[Len(cs) + 1] = f
  BY AppendProperties, LenProperties
<1>2. ASSUME NEW i \in 1..Len(Append(cs, f))
      PROVE  Disciplined(Append(cs, f)[i], on)
  <2>1. CASE i = Len(cs) + 1
    BY <1>1, <2>1
  <2>2. CASE i \in 1..Len(cs)
    BY <1>1, <2>2
  <2> QED
    BY <1>1, <2>1, <2>2
<1> QED
  BY <1>2

LEMMA DecodeStep ==
    ASSUME IInv, NEW c \in Contexts, Decode(c) \/ DecodeComponent(c)
    PROVE  IInv'
<1>1. PICK g : /\ \/ g = NewCall("ber", TRUE, "enter", Len(trail[c]))
                  \/ g = NewCall("ber", FALSE, "snapshot", Len(trail[c]))
               /\ calls' = [calls EXCEPT ![c] = Append(@, g)]
  BY DEF Decode, DecodeComponent
<1>2. c \in started /\ UNCHANGED <<enabled, debugFlag, started, inherited, trail>>
  BY DEF Decode, DecodeComponent, HasRoom
<1>3. calls[c] \in Seq(Call) /\ trail[c] \in Seq(Tokens) /\ inherited[c] \in Seq(Tokens)
      /\ Len(trail[c]) \in Nat
  BY ContextTypes DEF IInv
<1>4. /\ g \in Call /\ g.at = Len(trail[c]) /\ g.clean /\ ~g.pushed
      /\ Disciplined(g, enabled["native"])
  <2>1. CASE g = NewCall("ber", TRUE, "enter", Len(trail[c]))
    BY <1>3, <2>1 DEF NewCall, Call, Codecs, Disciplined
  <2>2. CASE g = NewCall("ber", FALSE, "snapshot", Len(trail[c]))
    BY <1>3, <2>2 DEF NewCall, Call, Codecs, Disciplined
  <2> QED
    BY <1>1, <2>1, <2>2
<1>5. calls'[c] = Append(calls[c], g) /\ calls'[c] \in Seq(Call)
  BY <1>1, <1>3, <1>4, AppendProperties DEF IInv, TypeOK
<1>6. TypeOK'
  BY <1>1, <1>2, <1>5 DEF IInv, TypeOK
<1>7. Fits(calls'[c], trail'[c], inherited'[c])
  BY <1>2, <1>3, <1>4, <1>5, FitsExtend DEF IInv
<1>8. \A i \in 1..Len(calls'[c]) : Disciplined(calls'[c][i], enabled["native"])
  BY <1>3, <1>4, <1>5, DisciplinedAppend DEF IInv
<1> QED
  BY <1>1, <1>2, <1>6, <1>7, <1>8, OneContext DEF IInv, TypeOK

\* _DEBUG is refreshed, or a call takes its snapshot of it.
LEMMA DebugStep ==
    ASSUME IInv, NEW c \in Contexts, RefreshDebug(c) \/ SnapshotDebug(c)
    PROVE  IInv'
<1> DEFINE n == Len(calls[c])
<1>1. InCall(c) /\ UNCHANGED <<enabled, started, inherited, trail>>
  BY DEF RefreshDebug, SnapshotDebug
<1>2. /\ calls[c] \in Seq(Call) /\ trail[c] \in Seq(Tokens) /\ inherited[c] \in Seq(Tokens)
      /\ n \in 1..n /\ Running(c) = calls[c][n] /\ Running(c) \in Call /\ n \in Nat
  BY <1>1, ContextTypes DEF IInv
<1>3. Disciplined(Running(c), enabled["native"])
  BY <1>2 DEF IInv
<1>4. PICK f : /\ \/ f = [Running(c) EXCEPT !.st = "snapshot"]
                  \/ f = [Running(c) EXCEPT !.st = "tag", !.debugging = debugFlag]
               /\ Running(c).st # "value" /\ f.st # "value"
               /\ calls' = [calls EXCEPT ![c][n] = f]
  <2>1. CASE RefreshDebug(c)
    <3>1. WITNESS [Running(c) EXCEPT !.st = "snapshot"]
    <3> QED
      BY <1>2, <2>1 DEF RefreshDebug, Replace, Call
  <2>2. CASE SnapshotDebug(c)
    <3>1. WITNESS [Running(c) EXCEPT !.st = "tag", !.debugging = debugFlag]
    <3> QED
      BY <1>2, <2>2 DEF SnapshotDebug, Replace, Call
  <2> QED
    BY <2>1, <2>2
<1>5. /\ f \in Call
      /\ f.at = Running(c).at /\ f.clean = Running(c).clean /\ f.codec = Running(c).codec
      /\ f.pushed = Running(c).pushed /\ f.token = Running(c).token
  BY <1>2, <1>4 DEF IInv, TypeOK, Call
<1>6. /\ calls'[c] = [calls[c] EXCEPT ![n] = f] /\ calls'[c] \in Seq(Call)
      /\ Len(calls'[c]) = n
      /\ \A i \in 1..n : calls'[c][i] = IF i = n THEN f ELSE calls[c][i]
  BY <1>2, <1>4, <1>5, ExceptSeq DEF IInv, TypeOK
<1>7. TypeOK'
  <2>1. debugFlag' \in BOOLEAN
    BY DEF IInv, TypeOK, RefreshDebug, SnapshotDebug, Codecs
  <2>2. calls' \in [Contexts -> Seq(Call)]
    BY <1>4, <1>6 DEF IInv, TypeOK
  <2> QED
    BY <1>1, <2>1, <2>2 DEF IInv, TypeOK
<1>8. Fits(calls'[c], trail'[c], inherited'[c])
  <2>1. Fits(calls[c], trail[c], inherited[c]) /\ calls[c] # <<>>
    BY <1>1 DEF IInv, InCall
  <2>2. Fits([calls[c] EXCEPT ![n] = f], trail[c], inherited[c])
    BY <1>2, <1>5, <2>1, FitsReplace
  <2> QED
    BY <1>1, <1>6, <2>2
<1>9. Disciplined(f, enabled["native"])
  BY <1>3, <1>4, <1>5 DEF Disciplined
<1>10. \A i \in 1..Len(calls'[c]) : Disciplined(calls'[c][i], enabled["native"])
  BY <1>6, <1>9 DEF IInv
<1>11. c \in started
  BY <1>1 DEF IInv, InCall
<1> QED
  BY <1>1, <1>4, <1>7, <1>8, <1>10, <1>11, OneContext DEF IInv, TypeOK

LEMMA ChooseStep ==
    ASSUME IInv, NEW c \in Contexts, NEW token \in Tokens, ChooseCodec(c, token)
    PROVE  IInv'
<1> DEFINE n == Len(calls[c])
           f == [Running(c) EXCEPT
                    !.st = "value", !.at = Len(trail[c]),
                    !.pushed = Running(c).debugging,
                    !.token = IF Running(c).debugging THEN token ELSE ""]
<1>1. /\ InCall(c) /\ Running(c).st = "tag" /\ UNCHANGED <<enabled, debugFlag, started, inherited>>
      /\ calls' = [calls EXCEPT ![c][n] = f]
      /\ IF Running(c).debugging THEN Push(c, token) ELSE UNCHANGED trail
  BY DEF ChooseCodec, Replace
<1>2. /\ calls[c] \in Seq(Call) /\ trail[c] \in Seq(Tokens) /\ inherited[c] \in Seq(Tokens)
      /\ n \in 1..n /\ Running(c) = calls[c][n] /\ Running(c) \in Call /\ n \in Nat
      /\ Len(trail[c]) \in Nat /\ calls[c] # <<>>
  BY <1>1, ContextTypes DEF IInv, InCall
<1>3. Disciplined(Running(c), enabled["native"])
  BY <1>2 DEF IInv
<1>4. ~Running(c).pushed /\ Running(c).codec = "ber"
  BY <1>1, <1>2, <1>3 DEF Disciplined, Call, Codecs
<1>5. /\ f \in Call /\ f.at = Len(trail[c]) /\ f.clean = Running(c).clean
      /\ f.pushed = Running(c).debugging /\ f.codec = "ber" /\ f.st = "value"
      /\ f.debugging = Running(c).debugging
      /\ f.pushed => f.token = token
  BY <1>2, <1>4 DEF Call
<1> HIDE DEF f
<1>6. /\ calls'[c] \in Seq(Call) /\ Len(calls'[c]) = n
      /\ \A i \in 1..n : calls'[c][i] = IF i = n THEN f ELSE calls[c][i]
  <2>1. calls'[c] = [calls[c] EXCEPT ![n] = f]
    BY <1>1 DEF IInv, TypeOK
  <2> QED
    BY <1>2, <1>5, <2>1, ExceptSeq
<1>7. /\ trail'[c] \in Seq(Tokens) /\ trail' \in [Contexts -> Seq(Tokens)]
      /\ \A e \in Contexts \ {c} : trail'[e] = trail[e]
      /\ Len(trail'[c]) = Len(trail[c]) + (IF f.pushed THEN 1 ELSE 0)
      /\ f.pushed => trail'[c][Len(trail[c]) + 1] = f.token
      /\ \A k \in 1..Len(trail[c]) : trail'[c][k] = trail[c][k]
  <2>1. CASE Running(c).debugging
    <3>1. trail' = [trail EXCEPT ![c] = Append(@, token)] /\ f.pushed /\ f.token = token
      BY <1>1, <1>5, <2>1 DEF Push
    <3>2. trail'[c] = Append(trail[c], token) /\ trail'[c] \in Seq(Tokens)
      BY <1>2, <3>1, AppendProperties DEF IInv, TypeOK
    <3>3. trail' \in [Contexts -> Seq(Tokens)] /\ \A e \in Contexts \ {c} : trail'[e] = trail[e]
      BY <3>1, <3>2 DEF IInv, TypeOK
    <3> QED
      BY <1>2, <3>1, <3>2, <3>3, AppendProperties
  <2>2. CASE ~Running(c).debugging
    BY <1>1, <1>2, <1>5, <2>2 DEF IInv, TypeOK
  <2> QED
    BY <2>1, <2>2
<1>8. TypeOK'
  <2>1. calls' \in [Contexts -> Seq(Call)]
    BY <1>1, <1>6 DEF IInv, TypeOK
  <2> QED
    BY <1>1, <1>7, <2>1 DEF IInv, TypeOK
<1>9. Fits(calls'[c], trail'[c], inherited'[c])
  <2>1. /\ Fits(calls[c], trail[c], inherited[c])
        /\ ~calls[c][n].pushed /\ calls'[c][n] = f
        /\ f.clean = calls[c][n].clean
    BY <1>2, <1>4, <1>5, <1>6 DEF IInv
  <2>2. /\ \A i \in 1..Len(calls[c]) : i # Len(calls[c]) => calls'[c][i] = calls[c][i]
        /\ calls'[c][Len(calls[c])].clean = calls[c][Len(calls[c])].clean
        /\ calls'[c][Len(calls[c])].at = Len(trail[c])
    BY <1>5, <1>6, <2>1
  <2>3. /\ Len(trail'[c]) = Len(trail[c]) + (IF calls'[c][Len(calls[c])].pushed THEN 1 ELSE 0)
        /\ calls'[c][Len(calls[c])].pushed =>
              trail'[c][Len(trail[c]) + 1] = calls'[c][Len(calls[c])].token
    BY <1>7, <2>1
  <2>4. Fits(calls'[c], trail'[c], inherited[c])
    BY <1>2, <1>6, <1>7, <2>1, <2>2, <2>3, FitsChoose
  <2> QED
    BY <1>1, <2>4
<1>10. Disciplined(f, enabled["native"])
  BY <1>5 DEF Disciplined
<1>11. \A i \in 1..Len(calls'[c]) : Disciplined(calls'[c][i], enabled["native"])
  BY <1>6, <1>10 DEF IInv
<1>12. c \in started
  BY <1>1 DEF IInv, InCall
<1> QED
  BY <1>1, <1>7, <1>8, <1>9, <1>11, <1>12, OneContext DEF IInv, TypeOK

\* A call returns; a pop takes exactly what the call pushed.
LEMMA LeaveStep ==
    ASSUME IInv, NEW c \in Contexts, EndOfOctets(c) \/ Return(c) \/ NativeReturn(c)
    PROVE  IInv'
<1> DEFINE n == Len(calls[c])
<1>1. /\ InCall(c) /\ UNCHANGED <<enabled, debugFlag, started, inherited>>
      /\ calls' = [calls EXCEPT ![c] = Dropped(c)]
  BY DEF EndOfOctets, Return, NativeReturn
<1>2. /\ calls[c] \in Seq(Call) /\ trail[c] \in Seq(Tokens) /\ inherited[c] \in Seq(Tokens)
      /\ n \in 1..n /\ Running(c) = calls[c][n] /\ Running(c) \in Call /\ n \in Nat
      /\ Len(trail[c]) \in Nat /\ calls[c] # <<>>
  BY <1>1, ContextTypes DEF IInv, InCall
<1>3. Disciplined(Running(c), enabled["native"]) /\ Fits(calls[c], trail[c], inherited[c])
  BY <1>2 DEF IInv
<1>4. IF Running(c).pushed THEN Pop(c) ELSE UNCHANGED trail
  <2>1. CASE EndOfOctets(c)
    BY <1>3, <2>1 DEF EndOfOctets, Disciplined
  <2>2. CASE Return(c)
    BY <1>3, <2>2 DEF Return, Disciplined
  <2>3. CASE NativeReturn(c)
    BY <1>3, <2>3 DEF NativeReturn, Disciplined
  <2> QED
    BY <2>1, <2>2, <2>3
<1>5. /\ calls'[c] \in Seq(Call) /\ Len(calls'[c]) = n - 1
      /\ \A i \in 1..n - 1 : calls'[c][i] = calls[c][i]
  <2>1. calls'[c] = SubSeq(calls[c], 1, Len(calls[c]) - 1)
    BY <1>1 DEF Dropped, IInv, TypeOK
  <2> QED
    BY <1>2, <2>1, DropLast
<1>6. Running(c).pushed => trail[c] # <<>>
  <2>1. ASSUME Running(c).pushed PROVE Len(trail[c]) >= 1
    <3>1. Extent(calls[c][n]) <= Len(trail[c])
      BY <1>2, <1>3 DEF Fits, Stacked
    <3>2. calls[c][n].at \in Nat
      BY <1>2, CallTypes
    <3> QED
      BY <1>2, <2>1, <3>1, <3>2 DEF Extent
  <2> QED
    BY <2>1, EmptySeq
<1>7. /\ trail'[c] \in Seq(Tokens) /\ trail' \in [Contexts -> Seq(Tokens)]
      /\ \A e \in Contexts \ {c} : trail'[e] = trail[e]
      /\ Len(trail'[c]) = Len(trail[c]) - (IF Running(c).pushed THEN 1 ELSE 0)
      /\ \A k \in 1..Len(trail'[c]) : trail'[c][k] = trail[c][k]
  <2>1. CASE Running(c).pushed
    <3>1. trail[c] # <<>>
      BY <1>6, <2>1
    <3>2. trail' = [trail EXCEPT ![c] = SubSeq(@, 1, Len(@) - 1)]
      BY <1>4, <2>1, <3>1 DEF Pop, IInv, TypeOK
    <3>3. trail'[c] = SubSeq(trail[c], 1, Len(trail[c]) - 1)
      BY <3>2 DEF IInv, TypeOK
    <3>4. /\ trail'[c] \in Seq(Tokens) /\ Len(trail'[c]) = Len(trail[c]) - 1
          /\ \A k \in 1..Len(trail[c]) - 1 : trail'[c][k] = trail[c][k]
      BY <1>2, <3>1, <3>3, DropLast
    <3>5. trail' \in [Contexts -> Seq(Tokens)] /\ \A e \in Contexts \ {c} : trail'[e] = trail[e]
      BY <3>2, <3>4 DEF IInv, TypeOK
    <3> QED
      BY <2>1, <3>4, <3>5
  <2>2. CASE ~Running(c).pushed
    BY <1>2, <1>4, <2>2 DEF IInv, TypeOK
  <2> QED
    BY <2>1, <2>2
<1>8. TypeOK'
  <2>1. calls' \in [Contexts -> Seq(Call)]
    BY <1>1, <1>5 DEF IInv, TypeOK
  <2> QED
    BY <1>1, <1>7, <2>1 DEF IInv, TypeOK
<1>9. Fits(calls'[c], trail'[c], inherited'[c])
  BY <1>1, <1>2, <1>3, <1>5, <1>7, FitsReturn
<1>10. \A i \in 1..Len(calls'[c]) : Disciplined(calls'[c][i], enabled["native"])
  BY <1>2, <1>5 DEF IInv
<1>11. c \in started
  BY <1>1 DEF IInv, InCall
<1> QED
  BY <1>1, <1>7, <1>8, <1>9, <1>10, <1>11, OneContext DEF IInv, TypeOK

\* A native codec enters its token as it is called.
LEMMA NativeCallStep ==
    ASSUME IInv, NEW c \in Contexts, NEW token \in Tokens, NEW top \in BOOLEAN,
           NativeCall(c, token, top)
    PROVE  IInv'
<1> DEFINE g == NewCall("native", top, "value", Len(trail[c]))
           f == [g EXCEPT !.pushed = enabled["native"],
                          !.token = IF enabled["native"] THEN token ELSE ""]
           n == Len(calls[c]) + 1
           cs == Append(calls[c], g)
           on == enabled["native"]
<1>1. /\ c \in started /\ UNCHANGED <<enabled, debugFlag, started, inherited>>
      /\ calls' = [calls EXCEPT ![c] = Append(@, f)]
      /\ IF on THEN Push(c, token) ELSE UNCHANGED trail
  BY DEF NativeCall, HasRoom
<1>2. /\ calls[c] \in Seq(Call) /\ trail[c] \in Seq(Tokens) /\ inherited[c] \in Seq(Tokens)
      /\ Len(calls[c]) \in Nat /\ Len(trail[c]) \in Nat /\ on \in BOOLEAN
  BY ContextTypes DEF IInv, TypeOK, Codecs
<1>3. g \in Call /\ g.at = Len(trail[c]) /\ g.clean /\ ~g.pushed
  BY <1>2 DEF NewCall, Call, Codecs
<1>4. /\ f \in Call /\ f.at = Len(trail[c]) /\ f.clean = g.clean /\ f.pushed = on
      /\ f.codec = "native" /\ f.st = "value" /\ (f.pushed => f.token = token)
  BY <1>2 DEF NewCall, Call, Codecs
<1>5. Fits(cs, trail[c], inherited[c]) /\ cs \in Seq(Call) /\ Len(cs) = n /\ cs # <<>>
      /\ cs[n] = g /\ \A i \in 1..Len(calls[c]) : cs[i] = calls[c][i]
  BY <1>2, <1>3, AppendProperties, FitsExtend DEF IInv
<1>6. /\ calls'[c] \in Seq(Call) /\ calls'[c] = Append(calls[c], f)
      /\ Len(calls'[c]) = n /\ calls'[c][n] = f
      /\ \A i \in 1..Len(calls[c]) : calls'[c][i] = calls[c][i]
  <2>1. calls'[c] = Append(calls[c], f)
    BY <1>1 DEF IInv, TypeOK
  <2>2. f \in Call
    BY <1>4
  <2> HIDE DEF f
  <2> QED
    BY <1>2, <2>1, <2>2, AppendProperties
<1> HIDE DEF f, g, cs
<1>7. /\ trail'[c] \in Seq(Tokens) /\ trail' \in [Contexts -> Seq(Tokens)]
      /\ \A e \in Contexts \ {c} : trail'[e] = trail[e]
      /\ Len(trail'[c]) = Len(trail[c]) + (IF f.pushed THEN 1 ELSE 0)
      /\ f.pushed => trail'[c][Len(trail[c]) + 1] = f.token
      /\ \A k \in 1..Len(trail[c]) : trail'[c][k] = trail[c][k]
  <2>1. CASE on
    <3>1. trail' = [trail EXCEPT ![c] = Append(@, token)] /\ f.pushed /\ f.token = token
      BY <1>1, <1>4, <2>1 DEF Push
    <3>2. trail'[c] = Append(trail[c], token) /\ trail'[c] \in Seq(Tokens)
      BY <1>2, <3>1, AppendProperties DEF IInv, TypeOK
    <3>3. trail' \in [Contexts -> Seq(Tokens)] /\ \A e \in Contexts \ {c} : trail'[e] = trail[e]
      BY <3>1, <3>2 DEF IInv, TypeOK
    <3> QED
      BY <1>2, <3>1, <3>2, <3>3, AppendProperties
  <2>2. CASE ~on
    BY <1>1, <1>2, <1>4, <2>2 DEF IInv, TypeOK
  <2> QED
    BY <2>1, <2>2
<1>8. TypeOK'
  <2>1. calls' \in [Contexts -> Seq(Call)]
    BY <1>1, <1>6 DEF IInv, TypeOK
  <2> QED
    BY <1>1, <1>7, <2>1 DEF IInv, TypeOK
<1>9. Fits(calls'[c], trail'[c], inherited'[c])
  <2>1. /\ ~cs[Len(cs)].pushed /\ Len(calls'[c]) = Len(cs)
        /\ calls'[c][Len(cs)] = f /\ calls'[c][Len(cs)].clean = cs[Len(cs)].clean
        /\ calls'[c][Len(cs)].at = Len(trail[c])
    BY <1>3, <1>4, <1>5, <1>6
  <2>4. /\ Len(trail'[c]) = Len(trail[c]) + (IF calls'[c][Len(cs)].pushed THEN 1 ELSE 0)
        /\ calls'[c][Len(cs)].pushed =>
              trail'[c][Len(trail[c]) + 1] = calls'[c][Len(cs)].token
    BY <1>7, <2>1
  <2>2. \A i \in 1..Len(cs) : i # Len(cs) => calls'[c][i] = cs[i]
    BY <1>2, <1>5, <1>6
  <2>3. Fits(calls'[c], trail'[c], inherited[c])
    BY <1>2, <1>5, <1>6, <1>7, <2>1, <2>2, <2>4, FitsChoose
  <2> QED
    BY <1>1, <2>3
<1>10. Disciplined(f, on)
  BY <1>4 DEF Disciplined
<1>11. \A i \in 1..Len(calls'[c]) : Disciplined(calls'[c][i], enabled["native"])
  BY <1>2, <1>4, <1>6, <1>10, DisciplinedAppend DEF IInv
<1> QED
  BY <1>1, <1>7, <1>8, <1>9, <1>11, OneContext DEF IInv, TypeOK

LEMMA RaiseStep ==
    ASSUME IInv, NEW c \in Contexts, Raise(c)
    PROVE  IInv'
<1>1. InCall(c) /\ UNCHANGED <<enabled, debugFlag, started, inherited, trail>>
  BY DEF Raise
<1>2. PICK k \in 1..Len(calls[c]) :
         calls' = [calls EXCEPT ![c] = [i \in 1..k - 1 |-> [calls[c][i] EXCEPT !.clean = FALSE]]]
  BY DEF Raise, IInv, TypeOK
<1>3. /\ calls[c] \in Seq(Call) /\ trail[c] \in Seq(Tokens) /\ inherited[c] \in Seq(Tokens)
      /\ Len(calls[c]) \in Nat /\ k - 1 \in Nat
  BY <1>1, ContextTypes DEF IInv
<1>4. calls'[c] = [i \in 1..k - 1 |-> [calls[c][i] EXCEPT !.clean = FALSE]]
  BY <1>2 DEF IInv, TypeOK
<1>5. \A i \in 1..k - 1 : i \in 1..Len(calls[c]) /\ calls[c][i] \in Call
  BY <1>3, ElementOfSeq
<1>6. \A i \in 1..k - 1 :
         /\ calls'[c][i] \in Call /\ ~calls'[c][i].clean
         /\ calls'[c][i].at = calls[c][i].at /\ calls'[c][i].pushed = calls[c][i].pushed
         /\ calls'[c][i].token = calls[c][i].token /\ calls'[c][i].st = calls[c][i].st
         /\ calls'[c][i].codec = calls[c][i].codec
         /\ calls'[c][i].debugging = calls[c][i].debugging
  <2>1. ASSUME NEW d \in Call
        PROVE  LET e == [d EXCEPT !.clean = FALSE]
               IN  /\ e \in Call /\ ~e.clean
                   /\ e.at = d.at /\ e.pushed = d.pushed /\ e.token = d.token
                   /\ e.st = d.st /\ e.codec = d.codec /\ e.debugging = d.debugging
    BY DEF Call
  <2>2. \A i \in 1..k - 1 : calls'[c][i] = [calls[c][i] EXCEPT !.clean = FALSE]
    BY <1>4
  <2> QED
    BY <1>5, <2>1, <2>2
<1>7. calls'[c] \in Seq(Call) /\ Len(calls'[c]) = k - 1
  <2> DEFINE m == k - 1
             ds == calls'[c]
  <2>1. m \in Nat /\ ds \in [1..m -> Call]
    BY <1>3, <1>4, <1>6
  <2> HIDE DEF m, ds
  <2>2. ds \in Seq(Call) /\ Len(ds) = m
    BY <2>1
  <2> QED
    BY <2>2 DEF m, ds
<1>8. TypeOK'
  BY <1>1, <1>2, <1>4, <1>7 DEF IInv, TypeOK
<1>9. Fits(calls'[c], trail'[c], inherited'[c])
  <2>1. Fits(calls[c], trail[c], inherited[c]) /\ Len(calls'[c]) <= Len(calls[c])
    BY <1>3, <1>7 DEF IInv
  <2>2. Fits(calls'[c], trail[c], inherited[c])
    BY <1>3, <1>6, <1>7, <2>1, FitsUnwind
  <2> QED
    BY <1>1, <2>2
<1>10. \A i \in 1..Len(calls'[c]) : Disciplined(calls'[c][i], enabled["native"])
  BY <1>5, <1>6, <1>7 DEF IInv, Disciplined
<1>11. c \in started
  BY <1>1 DEF IInv, InCall
<1> QED
  BY <1>1, <1>2, <1>8, <1>9, <1>10, <1>11, OneContext DEF IInv, TypeOK

\* A context comes into being, or a level moves.
LEMMA NewThreadStep ==
    ASSUME IInv, NEW c \in Contexts, NewThread(c)
    PROVE  IInv'
  BY DEF IInv, TypeOK, NewThread, Disciplined

LEMMA NewTaskStep ==
    ASSUME IInv, NEW c \in Contexts, NEW d \in Contexts, NewTask(c, d)
    PROVE  IInv'
<1>1. /\ calls[d] = <<>> /\ UNCHANGED <<enabled, debugFlag, calls>>
      /\ started' = started \cup {d}
      /\ trail' = [trail EXCEPT ![d] = trail[c]]
      /\ inherited' = [inherited EXCEPT ![d] = trail[c]]
  BY DEF NewTask, IInv
<1>2. trail[c] \in Seq(Tokens) /\ Len(trail[c]) \in Nat
  BY ContextTypes DEF IInv
<1>3. TypeOK'
  BY <1>1, <1>2 DEF IInv, TypeOK
<1>4. trail'[d] = trail[c] /\ inherited'[d] = trail[c] /\ calls'[d] = <<>> /\ Len(calls'[d]) = 0
  BY <1>1, EmptySeq DEF IInv, TypeOK
<1>5. Fits(calls'[d], trail'[d], inherited'[d])
  BY <1>2, <1>4 DEF Fits, Stacked, Clean
<1>6. \A i \in 1..Len(calls'[d]) : Disciplined(calls'[d][i], enabled["native"])
  BY <1>4
<1> QED
  BY <1>1, <1>3, <1>4, <1>5, <1>6, OneContext DEF IInv, TypeOK

LEMMA LevelStepLemma ==
    ASSUME IInv, SettledLevelStep
    PROVE  IInv'
<1>1. PICK codec \in Codecs, on \in BOOLEAN :
         (codec = "native" => NativeQuiet) /\ SetLevel(codec, on)
  BY DEF SettledLevelStep
<1>2. TypeOK' /\ UNCHANGED <<started, inherited, trail, calls>>
  BY <1>1 DEF SetLevel, IInv, TypeOK
<1>3. ASSUME NEW c \in Contexts, NEW i \in 1..Len(calls[c])
      PROVE  Disciplined(calls[c][i], enabled'["native"])
  <2>1. CASE codec = "native"
    BY <1>1, <2>1 DEF NativeQuiet, IInv, Disciplined
  <2>2. CASE codec = "ber"
    BY <1>1, <2>2 DEF SetLevel, IInv, TypeOK
  <2> QED
    BY <2>1, <2>2 DEF Codecs
<1> QED
  BY <1>2, <1>3 DEF IInv

LEMMA InitStep == Init => IInv
<1> SUFFICES ASSUME Init PROVE IInv
  OBVIOUS
<1>1. <<>> \in Seq(Call) /\ <<>> \in Seq(Tokens) /\ Len(<<>>) = 0
  BY EmptySeq
<1>2. TypeOK
  BY <1>1 DEF Init, TypeOK
<1>3. Fits(<<>>, <<>>, <<>>)
  BY DEF Fits, Stacked, Clean
<1> QED
  BY <1>1, <1>2, <1>3 DEF Init, IInv

LEMMA NextStep ==
    ASSUME IInv, [CodecStep \/ SettledLevelStep]_vars
    PROVE  IInv'
<1>1. CASE UNCHANGED vars
  BY <1>1 DEF vars, IInv, TypeOK, Disciplined
<1>2. CASE SettledLevelStep
  BY <1>2, LevelStepLemma
<1>3. ASSUME NEW c \in Contexts, NewThread(c) PROVE IInv'
  BY <1>3, NewThreadStep
<1>4. ASSUME NEW c \in Contexts, NEW d \in Contexts, NewTask(c, d) PROVE IInv'
  BY <1>4, NewTaskStep
<1>5. ASSUME NEW c \in Contexts, Decode(c) \/ DecodeComponent(c) PROVE IInv'
  BY <1>5, DecodeStep
<1>6. ASSUME NEW c \in Contexts, RefreshDebug(c) \/ SnapshotDebug(c) PROVE IInv'
  BY <1>6, DebugStep
<1>7. ASSUME NEW c \in Contexts, EndOfOctets(c) \/ Return(c) \/ NativeReturn(c) PROVE IInv'
  BY <1>7, LeaveStep
<1>8. ASSUME NEW c \in Contexts, Raise(c) PROVE IInv'
  BY <1>8, RaiseStep
<1>9. ASSUME NEW c \in Contexts, NEW token \in Tokens, ChooseCodec(c, token) PROVE IInv'
  BY <1>9, ChooseStep
<1>10. ASSUME NEW c \in Contexts, NEW token \in Tokens, NEW top \in BOOLEAN,
              NativeCall(c, token, top)
       PROVE  IInv'
  BY <1>10, NativeCallStep
<1> QED
  BY <1>1, <1>2, <1>3, <1>4, <1>5, <1>6, <1>7, <1>8, <1>9, <1>10 DEF CodecStep

LEMMA Invariant == SettledSpec => []IInv
<1>1. Init => IInv
  BY InitStep
<1>2. IInv /\ [CodecStep \/ SettledLevelStep]_vars => IInv'
  BY NextStep
<1> QED
  BY <1>1, <1>2, PTL DEF SettledSpec

-----------------------------------------------------------------------------
(* Type correctness of contexts, calls and trails.                         *)
THEOREM Typed == SettledSpec => []TypeOK
<1>1. IInv => TypeOK
  BY DEF IInv
<1> QED
  BY <1>1, Invariant, PTL

(***************************************************************************)
(* No call of any context ever loses the token it pushed, and no task what *)
(* it inherited: the snapshot of _DEBUG in Decoder.__call__ balances every *)
(* push with its own pop, for any number of threads and tasks and however  *)
(* the BER decoder's level moves.                                          *)
(***************************************************************************)
THEOREM CallsKeepTheirTokens == SettledSpec => []TokensKept
<1>1. IInv => TokensKept
  <2> SUFFICES ASSUME IInv, NEW c \in Contexts
               PROVE  /\ \A i \in 1..Len(calls[c]) :
                            calls[c][i].pushed =>
                               /\ calls[c][i].at < Len(trail[c])
                               /\ trail[c][calls[c][i].at + 1] = calls[c][i].token
                      /\ Len(inherited[c]) <= Len(trail[c])
                      /\ \A k \in 1..Len(inherited[c]) : trail[c][k] = inherited[c][k]
    BY DEF TokensKept
  <2>1. Stacked(calls[c], trail[c], inherited[c]) /\ calls[c] \in Seq(Call)
    BY DEF IInv, Fits, TypeOK
  <2>2. ASSUME NEW i \in 1..Len(calls[c]), calls[c][i].pushed
        PROVE  calls[c][i].at < Len(trail[c])
    <3>1. Extent(calls[c][i]) <= Len(trail[c]) /\ calls[c][i].at \in Nat
      BY <2>1, CallTypes DEF Stacked
    <3>2. Len(trail[c]) \in Nat
      BY ContextTypes DEF IInv
    <3> QED
      BY <2>2, <3>1, <3>2 DEF Extent
  <2> QED
    BY <2>1, <2>2 DEF Stacked
<1> QED
  BY <1>1, Invariant, PTL

(***************************************************************************)
(* A call that returns leaves the trail as it found it, unless something   *)
(* it called raised.                                                       *)
(***************************************************************************)
THEOREM ReturnsLeaveNoResidue == SettledSpec => []NoResidue
<1>1. IInv => NoResidue
  BY DEF IInv, Fits, Clean, Extent, NoResidue
<1> QED
  BY <1>1, Invariant, PTL
=============================================================================
