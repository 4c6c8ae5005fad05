------------------------------- MODULE RelayProofs -------------------------------
(***************************************************************************)
(* Proofs about Relay, for any values and any octets on the wire, of any   *)
(* size, and any maxChunkSize: all simple types but REAL.                  *)
(*                                                                         *)
(* The recursive functions of Octets (Quotients, Digits, Positional,       *)
(* Width) are unfolded once, from the well-foundedness of the naturals     *)
(* (Recursion); what they compute is then proved by induction over sets    *)
(* (Induction).  From it come, type by type, that what is written is read  *)
(* and that what is read is written back.                                  *)
(*                                                                         *)
(* The invariant is Followed (FollowedTime for the times): what is on the  *)
(* wire was written of the value that is held, or the value was read from  *)
(* what is on the wire.  The four properties follow from it step by step.  *)
(***************************************************************************)
EXTENDS Relay, SequenceTheorems, WellFoundedInduction, TLAPS

-----------------------------------------------------------------------------
(* Induction, and functions defined by recursion.                          *)

\* Every non-empty set of naturals has a least element.
LEMMA LeastElement ==
    ASSUME NEW T, T \subseteq Nat, T # {}
    PROVE  \E x \in T : \A y \in T : x <= y
<1>1. \E x \in T : \A y \in T : ~ (<<y, x>> \in OpToRel(<, Nat))
  BY NatLessThanWellFounded, WFMin
<1>2. ASSUME NEW x \in T, NEW y \in T, ~ (<<y, x>> \in OpToRel(<, Nat))
      PROVE  x <= y
  BY <1>2 DEF OpToRel
<1> QED
  BY <1>1, <1>2

\* What holds of 0 and of the successor of what it holds of, holds of all.
Inductive(P) == 0 \in P /\ \A n \in Nat : n \in P => n + 1 \in P

\* NatInduction, of a set instead of an operator.
LEMMA Induction ==
    ASSUME NEW P, Inductive(P)
    PROVE  Nat \subseteq P
<1> DEFINE T == Nat \ P
<1>1. SUFFICES ASSUME T # {}
               PROVE  FALSE
  OBVIOUS
<1>2. PICK n \in T : \A m \in T : n <= m
  <2>1. T \subseteq Nat
    OBVIOUS
  <2> HIDE DEF T
  <2> QED
    BY <1>1, <2>1, LeastElement
<1>3. n \in Nat /\ n # 0
  BY DEF Inductive
<1>4. n - 1 \in Nat /\ n - 1 \notin T
  <2>1. ~ (n <= n - 1) /\ n - 1 \in Nat
    BY <1>3
  <2> HIDE DEF T
  <2> QED
    BY <1>2, <2>1
<1>5. n - 1 \in P /\ (n - 1) + 1 = n
  BY <1>3, <1>4
<1> QED
  BY <1>4, <1>5 DEF Inductive

\* A recursion in S that starts with a and whose i-th step is step[i].
Steps(S, a, step) == a \in S /\ \A i \in Nat \ {0} : \A x \in S : step[i][x] \in S

Follows(S, a, step, f, n) ==
    /\ f = [i \in 0..n |-> IF i = 0 THEN a ELSE step[i][f[i - 1]]]
    /\ \A i \in 0..n : f[i] \in S

FollowsForEver(S, a, step, f) ==
    /\ f = [i \in Nat |-> IF i = 0 THEN a ELSE step[i][f[i - 1]]]
    /\ \A i \in Nat : f[i] \in S

\* A function that follows the recursion up to n can be taken one further.
LEMMA FollowsOneMore ==
    ASSUME NEW S, NEW a, NEW step, Steps(S, a, step),
           NEW n \in Nat, NEW f, Follows(S, a, step, f, n)
    PROVE  \E g : Follows(S, a, step, g, n + 1)
<1> DEFINE g == [i \in 0..n + 1 |-> IF i = n + 1 THEN step[n + 1][f[n]] ELSE f[i]]
<1>1. /\ \A i \in 0..n : f[i] = (IF i = 0 THEN a ELSE step[i][f[i - 1]])
      /\ \A i \in 0..n : f[i] \in S
  BY DEF Follows
<1>2. ASSUME NEW i \in 0..n + 1
      PROVE  g[i] = (IF i = 0 THEN a ELSE step[i][g[i - 1]]) /\ g[i] \in S
  <2>1. CASE i = n + 1
    <3>1. n \in 0..n + 1 /\ n # n + 1 /\ g[n] = f[n] /\ f[n] \in S /\ i # 0 /\ i - 1 = n
      BY <1>1, <2>1
    <3>2. step[n + 1][f[n]] \in S
      BY <3>1 DEF Steps
    <3>3. g[i] = step[n + 1][f[n]]
      BY <2>1
    <3> HIDE DEF g
    <3> QED
      BY <2>1, <3>1, <3>2, <3>3
  <2>2. CASE i # n + 1
    <3>1. i \in 0..n /\ g[i] = f[i]
      BY <2>2
    <3>2. i # 0 => i - 1 \in 0..n + 1 /\ i - 1 # n + 1
      OBVIOUS
    <3>3. i # 0 => g[i - 1] = f[i - 1]
      BY <3>2
    <3> HIDE DEF g
    <3> QED
      BY <1>1, <3>1, <3>3
  <2> QED
    BY <2>1, <2>2
<1>3. g = [i \in 0..n + 1 |-> g[i]]
  OBVIOUS
<1> HIDE DEF g
<1>4. Follows(S, a, step, g, n + 1)
  BY <1>2, <1>3 DEF Follows
<1> QED
  BY <1>4

\* There is one as far as any n.
LEMMA FollowsAsFar ==
    ASSUME NEW S, NEW a, NEW step, Steps(S, a, step)
    PROVE  \A n \in Nat : \E f : Follows(S, a, step, f, n)
<1> DEFINE P == {n \in Nat : \E f : Follows(S, a, step, f, n)}
<1>1. 0 \in P
  <2> DEFINE f == [i \in 0..0 |-> a]
  <2>1. Follows(S, a, step, f, 0)
    BY DEF Follows, Steps
  <2> QED
    BY <2>1
<1>2. \A n \in Nat : n \in P => n + 1 \in P
  BY FollowsOneMore
<1>3. Inductive(P)
  BY <1>1, <1>2, Zenon DEF Inductive
<1>4. Nat \subseteq P
  <2> HIDE DEF P
  <2> QED
    BY <1>3, Induction
<1> QED
  BY <1>4

\* Two that follow it agree as far as both go.
LEMMA FollowsAlike ==
    ASSUME NEW S, NEW a, NEW step, NEW n \in Nat, NEW m \in Nat, NEW f, NEW g,
           Follows(S, a, step, f, n), Follows(S, a, step, g, m)
    PROVE  \A i \in Nat : i <= n /\ i <= m => f[i] = g[i]
<1> DEFINE P == {i \in Nat : i <= n /\ i <= m => f[i] = g[i]}
<1>1. /\ \A i \in 0..n : f[i] = (IF i = 0 THEN a ELSE step[i][f[i - 1]])
      /\ \A i \in 0..m : g[i] = (IF i = 0 THEN a ELSE step[i][g[i - 1]])
  BY DEF Follows
<1>2. 0 \in P
  BY <1>1
<1>3. ASSUME NEW i \in Nat, i \in P
      PROVE  i + 1 \in P
  <2>1. SUFFICES ASSUME i + 1 <= n, i + 1 <= m
                 PROVE  f[i + 1] = g[i + 1]
    OBVIOUS
  <2>2. i + 1 \in 0..n /\ i + 1 \in 0..m /\ (i + 1) - 1 = i /\ i <= n /\ i <= m /\ i + 1 # 0
    BY <2>1
  <2>3. f[i] = g[i]
    BY <1>3, <2>2
  <2> QED
    BY <1>1, <2>2, <2>3
<1>4. Inductive(P)
  BY <1>2, <1>3, Zenon DEF Inductive
<1>5. Nat \subseteq P
  <2> HIDE DEF P
  <2> QED
    BY <1>4, Induction
<1> QED
  BY <1>5

\* There is a function that is defined by such a recursion.
LEMMA Recursion ==
    ASSUME NEW S, NEW a, NEW step, Steps(S, a, step)
    PROVE  \E f : FollowsForEver(S, a, step, f)
<1> DEFINE G(n) == CHOOSE f : Follows(S, a, step, f, n)
           f == [n \in Nat |-> G(n)[n]]
<1>1. \A n \in Nat : Follows(S, a, step, G(n), n)
  BY FollowsAsFar
<1> HIDE DEF G
<1>2. ASSUME NEW n \in Nat
      PROVE  f[n] = (IF n = 0 THEN a ELSE step[n][f[n - 1]]) /\ f[n] \in S
  <2>1. Follows(S, a, step, G(n), n)
    BY <1>1
  <2>2. G(n)[n] \in S /\ G(n)[n] = (IF n = 0 THEN a ELSE step[n][G(n)[n - 1]])
    BY <2>1 DEF Follows
  <2>3. ASSUME n # 0
        PROVE  G(n)[n - 1] = f[n - 1]
    <3>1. n - 1 \in Nat /\ n - 1 <= n
      BY <2>3
    <3>2. Follows(S, a, step, G(n - 1), n - 1)
      BY <1>1, <3>1
    <3>3. G(n)[n - 1] = G(n - 1)[n - 1]
      BY <2>1, <3>1, <3>2, FollowsAlike
    <3> QED
      BY <3>1, <3>3
  <2> QED
    BY <2>2, <2>3
<1>3. f = [n \in Nat |-> f[n]]
  OBVIOUS
<1> HIDE DEF f
<1>4. FollowsForEver(S, a, step, f)
  BY <1>2, <1>3 DEF FollowsForEver
<1> QED
  BY <1>4

-----------------------------------------------------------------------------
(* Numbers in positional notation.                                         *)

\* The quotient and the remainder make up the number.
LEMMA Division ==
    ASSUME NEW n \in Int, NEW base \in Nat \ {0}
    PROVE  /\ n \div base \in Int /\ n % base \in 0..base - 1
           /\ n = base * (n \div base) + (n % base)
  OBVIOUS

\* A quotient and a digit come apart as they were put together.
LEMMA QuotientAndDigit ==
    ASSUME NEW q \in Int, NEW base \in Nat \ {0}, NEW r \in 0..base - 1
    PROVE  /\ base * q + r \in Int
           /\ (base * q + r) \div base = q /\ (base * q + r) % base = r
  OBVIOUS

\* The quotient of a natural number is one.
LEMMA NaturalQuotient ==
    ASSUME NEW n \in Nat, NEW base \in Nat \ {0}
    PROVE  n \div base \in Nat
  OBVIOUS

\* A base of 2 or more makes every number but 0 smaller.
LEMMA SmallerQuotient ==
    ASSUME NEW n \in Nat, NEW base \in Nat \ {0, 1}
    PROVE  n \div base <= n /\ (n # 0 => n \div base < n)
  OBVIOUS

\* What Quotients(n, base) is.
AreQuotients(q, n, base) ==
    q[0] = n /\ \A k \in Nat : q[k] \in Int /\ q[k + 1] = q[k] \div base

\* The recursion of Quotients, step by step.
LEMMA QuotientsUnfold ==
    ASSUME NEW n \in Int, NEW base \in Nat \ {0}
    PROVE  AreQuotients(Quotients(n, base), n, base)
<1> DEFINE step == [i \in Nat \ {0} |-> [x \in Int |-> x \div base]]
           D(f) == [k \in Nat |-> IF k = 0 THEN n ELSE f[k - 1] \div base]
<1>1. Steps(Int, n, step)
  BY Division DEF Steps
<1>2. PICK f : FollowsForEver(Int, n, step, f)
  <2> HIDE DEF step
  <2> QED
    BY <1>1, Recursion
<1>3. f = D(f)
  <2>1. \A k \in Nat : f[k] \in Int
    BY <1>2 DEF FollowsForEver
  <2>2. \A k \in Nat \ {0} : step[k][f[k - 1]] = f[k - 1] \div base
    BY <2>1
  <2> HIDE DEF step
  <2>3. \A k \in Nat : (IF k = 0 THEN n ELSE step[k][f[k - 1]])
                       = (IF k = 0 THEN n ELSE f[k - 1] \div base)
    BY <2>2
  <2> QED
    BY <1>2, <2>3 DEF FollowsForEver
<1> DEFINE q == CHOOSE g : g = D(g)
<1>4. q = D(q)
  <2> HIDE DEF D
  <2> QED
    BY <1>3
<1>5. Quotients(n, base) = q
  BY DEF Quotients
<1> HIDE DEF q
<1>6. \A k \in Nat : q[k] = (IF k = 0 THEN n ELSE q[k - 1] \div base)
  BY <1>4
<1> DEFINE P == {k \in Nat : q[k] \in Int}
<1>7. 0 \in P /\ \A k \in Nat : k \in P => k + 1 \in P
  <2>1. 0 \in P
    BY <1>6
  <2>2. ASSUME NEW k \in Nat, k \in P
        PROVE  k + 1 \in P
    <3>1. k + 1 \in Nat /\ k + 1 # 0 /\ (k + 1) - 1 = k
      OBVIOUS
    <3>2. q[k + 1] = q[k] \div base
      BY <1>6, <3>1
    <3>3. q[k] \in Int
      BY <2>2
    <3>4. q[k] \div base \in Int
      BY <3>3, Division
    <3> QED
      BY <3>1, <3>2, <3>4
  <2> QED
    BY <2>1, <2>2
<1>8. Nat \subseteq P
  <2>1. Inductive(P)
    BY <1>7, Zenon DEF Inductive
  <2> HIDE DEF P
  <2> QED
    BY <2>1, Induction
<1>9. ASSUME NEW k \in Nat
      PROVE  q[k] \in Int /\ q[k + 1] = q[k] \div base
  <2>1. k + 1 \in Nat /\ k + 1 # 0 /\ (k + 1) - 1 = k
    OBVIOUS
  <2> QED
    BY <1>6, <1>8, <2>1
<1> QED
  BY <1>5, <1>6, <1>9 DEF AreQuotients

\* All quotients of a natural number are natural numbers.
LEMMA NaturalQuotients ==
    ASSUME NEW n \in Nat, NEW base \in Nat \ {0}, NEW q, AreQuotients(q, n, base)
    PROVE  \A k \in Nat : q[k] \in Nat
<1> DEFINE P == {k \in Nat : q[k] \in Nat}
<1>1. 0 \in P
  BY DEF AreQuotients
<1>2. ASSUME NEW k \in Nat, k \in P
      PROVE  k + 1 \in P
  <2>1. q[k + 1] = q[k] \div base /\ q[k] \in Nat
    BY <1>2 DEF AreQuotients
  <2>2. q[k] \div base \in Nat
    BY <2>1, NaturalQuotient
  <2> QED
    BY <2>1, <2>2
<1>3. Inductive(P)
  BY <1>1, <1>2, Zenon DEF Inductive
<1>4. Nat \subseteq P
  <2> HIDE DEF P
  <2> QED
    BY <1>3, Induction
<1> QED
  BY <1>4

\* The quotients of a quotient come later among those of the number.
LEMMA LaterQuotients ==
    ASSUME NEW n \in Int, NEW base \in Nat \ {0}, NEW q, AreQuotients(q, n, base),
           NEW p, AreQuotients(p, n \div base, base)
    PROVE  \A k \in Nat : p[k] = q[k + 1]
<1> DEFINE P == {k \in Nat : p[k] = q[k + 1]}
<1>1. 0 \in P
  <2>1. 0 \in Nat /\ 0 + 1 = 1
    OBVIOUS
  <2>2. q[0 + 1] = q[0] \div base
    BY <2>1, Zenon DEF AreQuotients
  <2> QED
    BY <2>1, <2>2 DEF AreQuotients
<1>2. ASSUME NEW k \in Nat, k \in P
      PROVE  k + 1 \in P
  <2>1. k + 1 \in Nat
    OBVIOUS
  <2>2. p[k + 1] = p[k] \div base /\ q[(k + 1) + 1] = q[k + 1] \div base
    BY <2>1 DEF AreQuotients
  <2> QED
    BY <1>2, <2>2
<1>3. Inductive(P)
  BY <1>1, <1>2, Zenon DEF Inductive
<1>4. Nat \subseteq P
  <2> HIDE DEF P
  <2> QED
    BY <1>3, Induction
<1> QED
  BY <1>4

\* A quotient that is 0 stays 0.
LEMMA ZeroStays ==
    ASSUME NEW n \in Int, NEW base \in Nat \ {0}, NEW q, AreQuotients(q, n, base),
           NEW k \in Nat, q[k] = 0
    PROVE  \A j \in Nat : j >= k => q[j] = 0
<1> DEFINE P == {j \in Nat : j >= k => q[j] = 0}
<1>1. 0 \in P
  <2>1. 0 >= k => k = 0
    OBVIOUS
  <2> QED
    BY <2>1
<1>2. ASSUME NEW j \in Nat, j \in P
      PROVE  j + 1 \in P
  <2>1. CASE j >= k
    <3>1. q[j] = 0 /\ q[j + 1] = q[j] \div base
      BY <1>2, <2>1 DEF AreQuotients
    <3>2. 0 \div base = 0
      OBVIOUS
    <3> QED
      BY <3>1, <3>2
  <2>2. CASE ~ (j >= k)
    <3>1. j + 1 >= k => j + 1 = k
      BY <2>2
    <3> QED
      BY <3>1
  <2> QED
    BY <2>1, <2>2
<1>3. Inductive(P)
  BY <1>1, <1>2, Zenon DEF Inductive
<1>4. Nat \subseteq P
  <2> HIDE DEF P
  <2> QED
    BY <1>3, Induction
<1> QED
  BY <1>4

\* What Positional(start, digits, base) is the last value of.
PutsTogether(upTo, start, digits, base) ==
    /\ upTo[0] = start
    /\ \A i \in 0..Len(digits) : upTo[i] \in Int
    /\ \A i \in 1..Len(digits) : upTo[i] = base * upTo[i - 1] + digits[i]

\* The recursion of Positional, step by step.
LEMMA PositionalUnfolds ==
    ASSUME NEW start \in Int, NEW digits \in Seq(Int), NEW base \in Nat
    PROVE  \E upTo : /\ PutsTogether(upTo, start, digits, base)
                     /\ Positional(start, digits, base) = upTo[Len(digits)]
<1>n. PICK n \in Nat : n = Len(digits)
  OBVIOUS
<1>d. \A i \in 1..n : digits[i] \in Int
  BY <1>n
<1> DEFINE step == [i \in Nat \ {0} |-> [x \in Int |-> IF i \in 1..n THEN base * x + digits[i]
                                                         ELSE x]]
           D(f) == [i \in 0..n |-> IF i = 0 THEN start ELSE base * f[i - 1] + digits[i]]
<1>1. Steps(Int, start, step)
  <2>1. ASSUME NEW i \in Nat \ {0}, NEW x \in Int
        PROVE  step[i][x] \in Int
    <3>1. step[i][x] = IF i \in 1..n THEN base * x + digits[i] ELSE x
      OBVIOUS
    <3> HIDE DEF step
    <3>2. CASE i \in 1..n
      BY <1>d, <3>1, <3>2
    <3>3. CASE i \notin 1..n
      BY <3>1, <3>3
    <3> QED
      BY <3>2, <3>3
  <2> HIDE DEF step
  <2> QED
    BY <2>1, Zenon DEF Steps
<1>2. PICK f : FollowsForEver(Int, start, step, f)
  <2> HIDE DEF step
  <2> QED
    BY <1>1, Recursion
<1> DEFINE h == [i \in 0..n |-> f[i]]
<1>3. h = D(h)
  <2>1. /\ \A k \in Nat : f[k] \in Int
        /\ \A k \in Nat : f[k] = (IF k = 0 THEN start ELSE step[k][f[k - 1]])
    <3> HIDE DEF step
    <3> QED
      BY <1>2 DEF FollowsForEver
  <2>2. ASSUME NEW k \in 1..n
        PROVE  f[k] = base * f[k - 1] + digits[k]
    <3>1. k \in Nat \ {0} /\ k - 1 \in Nat
      OBVIOUS
    <3>2. f[k - 1] \in Int
      BY <2>1, <3>1
    <3>3. step[k][f[k - 1]] = base * f[k - 1] + digits[k]
      BY <3>1, <3>2
    <3> HIDE DEF step
    <3> QED
      BY <2>1, <3>1, <3>3
  <2> HIDE DEF step
  <2>3. ASSUME NEW i \in 0..n
        PROVE  h[i] = IF i = 0 THEN start ELSE base * h[i - 1] + digits[i]
    <3>1. i # 0 => i \in 1..n /\ i - 1 \in 0..n
      OBVIOUS
    <3>2. h[i] = f[i] /\ (i # 0 => h[i - 1] = f[i - 1])
      BY <3>1
    <3>3. f[0] = start
      BY <2>1
    <3> HIDE DEF h
    <3> QED
      BY <2>2, <3>1, <3>2, <3>3
  <2>4. h = [i \in 0..n |-> h[i]]
    OBVIOUS
  <2> HIDE DEF h
  <2> QED
    BY <2>3, <2>4
<1> DEFINE g == CHOOSE x : x = D(x)
<1>4. g = D(g)
  <2> HIDE DEF D, h
  <2> QED
    BY <1>3
<1>5. Positional(start, digits, base) = g[n]
  BY <1>n DEF Positional
<1> HIDE DEF g
<1>6. \A i \in 0..n : g[i] = (IF i = 0 THEN start ELSE base * g[i - 1] + digits[i])
  BY <1>4
<1>7. \A i \in 1..n : g[i] = base * g[i - 1] + digits[i]
  <2>1. \A i \in 1..n : i \in 0..n /\ i # 0
    OBVIOUS
  <2> QED
    BY <1>6, <2>1
<1>8. g[0] = start
  BY <1>6
<1> DEFINE P == {i \in Nat : i <= n => g[i] \in Int}
<1>9. Inductive(P)
  <2>1. 0 \in P
    BY <1>8
  <2>2. ASSUME NEW i \in Nat, i \in P
        PROVE  i + 1 \in P
    <3>1. SUFFICES ASSUME i + 1 <= n
                   PROVE  g[i + 1] \in Int
      OBVIOUS
    <3>2. i + 1 \in 1..n /\ (i + 1) - 1 = i /\ i <= n
      BY <3>1
    <3>3. g[i] \in Int /\ digits[i + 1] \in Int
      BY <1>d, <2>2, <3>2
    <3> QED
      BY <1>7, <3>2, <3>3
  <2> QED
    BY <2>1, <2>2, Zenon DEF Inductive
<1>10. Nat \subseteq P
  <2> HIDE DEF P
  <2> QED
    BY <1>9, Induction
<1>11. \A i \in 0..n : g[i] \in Int
  BY <1>10
<1>12. PutsTogether(g, start, digits, base)
  BY <1>n, <1>7, <1>8, <1>11 DEF PutsTogether
<1> QED
  BY <1>n, <1>5, <1>12

\* What Digits(n, base, size) are.
AreDigits(digits, q, base, size) ==
    /\ digits \in [1..size -> 0..base - 1]
    /\ \A i \in 1..size : digits[i] = q[size - i] % base

\* Each digit is the remainder of a quotient.
LEMMA DigitsUnfold ==
    ASSUME NEW n \in Int, NEW base \in Nat \ {0}, NEW size \in Nat
    PROVE  AreDigits(Digits(n, base, size), Quotients(n, base), base, size)
<1>1. PICK q : q = Quotients(n, base)
  OBVIOUS
<1>2. Digits(n, base, size) = [i \in 1..size |-> q[size - i] % base]
  BY <1>1, Zenon DEF Digits
<1>3. ASSUME NEW i \in 1..size
      PROVE  q[size - i] % base \in 0..base - 1
  <2>1. size - i \in Nat
    OBVIOUS
  <2>2. q[size - i] \in Int
    BY <1>1, <2>1, QuotientsUnfold DEF AreQuotients
  <2> QED
    BY <2>2, Division
<1>4. Digits(n, base, size) \in [1..size -> 0..base - 1]
  BY <1>2, <1>3
<1>5. \A i \in 1..size : Digits(n, base, size)[i] = q[size - i] % base
  BY <1>2
<1> QED
  BY <1>1, <1>4, <1>5 DEF AreDigits

\* A number is put together again from its digits and the quotient they leave.
LEMMA Reassembled ==
    ASSUME NEW n \in Int, NEW base \in Nat \ {0}, NEW size \in Nat
    PROVE  Positional(Quotients(n, base)[size], Digits(n, base, size), base) = n
<1>1. PICK q : q = Quotients(n, base)
  OBVIOUS
<1>2. AreQuotients(q, n, base)
  BY <1>1, QuotientsUnfold
<1>3. PICK d : d = Digits(n, base, size)
  OBVIOUS
<1>4. d \in Seq(Int) /\ Len(d) = size /\ \A i \in 1..size : d[i] = q[size - i] % base
  <2>1. AreDigits(d, q, base, size)
    BY <1>1, <1>3, DigitsUnfold
  <2>2. /\ d \in [1..size -> 0..base - 1]
        /\ \A i \in 1..size : d[i] = q[size - i] % base
    BY <2>1 DEF AreDigits
  <2>3. d \in [1..size -> Int]
    BY <2>2
  <2> QED
    BY <2>2, <2>3
<1>5. q[size] \in Int
  BY <1>2 DEF AreQuotients
<1>6. PICK upTo : /\ PutsTogether(upTo, q[size], d, base)
                  /\ Positional(q[size], d, base) = upTo[size]
  BY <1>4, <1>5, PositionalUnfolds
<1>7. /\ upTo[0] = q[size]
      /\ \A i \in 1..size : upTo[i] = base * upTo[i - 1] + d[i]
  BY <1>4, <1>6 DEF PutsTogether
<1> DEFINE P == {i \in Nat : i <= size => upTo[i] = q[size - i]}
<1>8. 0 \in P
  BY <1>7
<1>9. ASSUME NEW i \in Nat, i \in P
      PROVE  i + 1 \in P
  <2>1. SUFFICES ASSUME i + 1 <= size
                 PROVE  upTo[i + 1] = q[size - (i + 1)]
    OBVIOUS
  <2>2. PICK k \in Nat : k = size - (i + 1)
    BY <2>1
  <2>3. k + 1 = size - i /\ i + 1 \in 1..size /\ (i + 1) - 1 = i /\ i <= size
    BY <2>1, <2>2
  <2>4. q[k] \in Int /\ q[k + 1] = q[k] \div base
    BY <1>2 DEF AreQuotients
  <2>5. upTo[i] = q[k] \div base
    BY <1>9, <2>3, <2>4
  <2>6. d[i + 1] = q[k] % base
    BY <1>4, <2>2, <2>3
  <2>7. upTo[i + 1] = base * (q[k] \div base) + (q[k] % base)
    BY <1>7, <2>3, <2>5, <2>6
  <2> QED
    BY <2>2, <2>4, <2>7, Division
<1>10. Nat \subseteq P
  <2>1. Inductive(P)
    BY <1>8, <1>9, Zenon DEF Inductive
  <2> HIDE DEF P
  <2> QED
    BY <2>1, Induction
<1>11. upTo[size] = q[size - size] /\ size - size = 0
  BY <1>10
<1> QED
  BY <1>1, <1>2, <1>3, <1>6, <1>11 DEF AreQuotients

\* A number is taken apart into what it was put together from.
LEMMA TakenApart ==
    ASSUME NEW start \in Int, NEW base \in Nat \ {0}, NEW digits \in Seq(0..base - 1)
    PROVE  /\ Positional(start, digits, base) \in Int
           /\ Digits(Positional(start, digits, base), base, Len(digits)) = digits
           /\ Quotients(Positional(start, digits, base), base)[Len(digits)] = start
<1>1. PICK size \in Nat : size = Len(digits)
  OBVIOUS
<1>2. digits \in [1..size -> 0..base - 1]
  BY <1>1
<1>3. digits \in Seq(Int)
  <2>1. \A i \in 1..size : digits[i] \in 0..base - 1
    BY <1>2
  <2>2. digits \in [1..size -> Int]
    BY <1>2, <2>1
  <2> QED
    BY <2>2
<1>4. PICK upTo : /\ PutsTogether(upTo, start, digits, base)
                  /\ Positional(start, digits, base) = upTo[size]
  BY <1>1, <1>3, PositionalUnfolds
<1>5. /\ upTo[0] = start
      /\ \A i \in 0..size : upTo[i] \in Int
      /\ \A i \in 1..size : upTo[i] = base * upTo[i - 1] + digits[i]
  BY <1>1, <1>4 DEF PutsTogether
<1>6. PICK n \in Int : n = upTo[size]
  BY <1>5
<1>7. PICK q : q = Quotients(n, base)
  OBVIOUS
<1>8. AreQuotients(q, n, base)
  BY <1>7, QuotientsUnfold
<1>9. ASSUME NEW i \in 1..size
      PROVE  upTo[i] \div base = upTo[i - 1] /\ upTo[i] % base = digits[i]
  <2>1. upTo[i - 1] \in Int /\ digits[i] \in 0..base - 1
    BY <1>2, <1>5
  <2>2. upTo[i] = base * upTo[i - 1] + digits[i]
    BY <1>5
  <2>3. PICK x \in Int : x = upTo[i - 1]
    BY <2>1
  <2>4. PICK r \in 0..base - 1 : r = digits[i]
    BY <2>1
  <2>5. (base * x + r) \div base = x /\ (base * x + r) % base = r
    BY QuotientAndDigit
  <2> QED
    BY <2>2, <2>3, <2>4, <2>5
<1> DEFINE P == {k \in Nat : k <= size => q[k] = upTo[size - k]}
<1>10. 0 \in P
  BY <1>6, <1>8 DEF AreQuotients
<1>11. ASSUME NEW k \in Nat, k \in P
       PROVE  k + 1 \in P
  <2>1. SUFFICES ASSUME k + 1 <= size
                 PROVE  q[k + 1] = upTo[size - (k + 1)]
    OBVIOUS
  <2>2. PICK i \in 1..size : i = size - k
    BY <2>1
  <2>3. q[k] = upTo[i] /\ i - 1 = size - (k + 1)
    BY <1>11, <2>1, <2>2
  <2>4. q[k + 1] = q[k] \div base
    BY <1>8 DEF AreQuotients
  <2> QED
    BY <1>9, <2>3, <2>4
<1>12. Nat \subseteq P
  <2>1. Inductive(P)
    BY <1>10, <1>11, Zenon DEF Inductive
  <2> HIDE DEF P
  <2> QED
    BY <2>1, Induction
<1>13. q[size] = start
  <2>1. q[size] = upTo[size - size] /\ size - size = 0
    BY <1>12
  <2> QED
    BY <1>5, <2>1
<1>14. ASSUME NEW i \in 1..size
       PROVE  q[size - i] % base = digits[i]
  <2>1. size - i \in Nat /\ size - i <= size /\ size - (size - i) = i
    OBVIOUS
  <2>2. q[size - i] = upTo[i]
    BY <1>12, <2>1
  <2> QED
    BY <1>9, <2>2
<1>15. Digits(n, base, size) = digits
  <2>1. PICK d : d = Digits(n, base, size)
    OBVIOUS
  <2>2. AreDigits(d, q, base, size)
    BY <1>7, <2>1, DigitsUnfold
  <2>3. d \in [1..size -> 0..base - 1] /\ \A i \in 1..size : d[i] = digits[i]
    BY <1>14, <2>2 DEF AreDigits
  <2>4. d = digits
    BY <1>2, <2>3
  <2> QED
    BY <2>1, <2>4
<1> QED
  BY <1>1, <1>4, <1>6, <1>7, <1>13, <1>15

\* Natural digits make a natural number.
LEMMA NaturalPositional ==
    ASSUME NEW start \in Nat, NEW base \in Nat, NEW digits \in Seq(Nat)
    PROVE  Positional(start, digits, base) \in Nat
<1>1. PICK size \in Nat : size = Len(digits)
  OBVIOUS
<1>2. digits \in [1..size -> Nat]
  BY <1>1
<1>3. digits \in Seq(Int)
  <2>1. digits \in [1..size -> Int]
    BY <1>2
  <2> QED
    BY <2>1
<1>4. PICK upTo : /\ PutsTogether(upTo, start, digits, base)
                  /\ Positional(start, digits, base) = upTo[size]
  BY <1>1, <1>3, PositionalUnfolds
<1>5. /\ upTo[0] = start
      /\ \A i \in 1..size : upTo[i] = base * upTo[i - 1] + digits[i]
  BY <1>1, <1>4 DEF PutsTogether
<1> DEFINE P == {i \in Nat : i <= size => upTo[i] \in Nat}
<1>6. 0 \in P
  BY <1>5
<1>7. ASSUME NEW i \in Nat, i \in P
      PROVE  i + 1 \in P
  <2>1. SUFFICES ASSUME i + 1 <= size
                 PROVE  upTo[i + 1] \in Nat
    OBVIOUS
  <2>2. i + 1 \in 1..size /\ (i + 1) - 1 = i /\ i <= size
    BY <2>1
  <2>3. upTo[i] \in Nat /\ digits[i + 1] \in Nat
    BY <1>2, <1>7, <2>2
  <2>4. PICK x \in Nat, d \in Nat : x = upTo[i] /\ d = digits[i + 1]
    BY <2>3
  <2>5. base * x + d \in Nat
    OBVIOUS
  <2>6. upTo[i + 1] = base * x + d
    BY <1>5, <2>2, <2>4
  <2> QED
    BY <2>5, <2>6
<1>8. Nat \subseteq P
  <2>1. Inductive(P)
    BY <1>6, <1>7, Zenon DEF Inductive
  <2> HIDE DEF P
  <2> QED
    BY <2>1, Induction
<1> QED
  BY <1>4, <1>8

\* k is the number of digits of n.
IsWidth(k, q) == k \in Nat /\ q[k] = 0 /\ \A j \in 0..k - 1 : q[j] # 0

\* A number has one width.
LEMMA OneWidth ==
    ASSUME NEW k, NEW l, NEW q, IsWidth(k, q), IsWidth(l, q)
    PROVE  k = l
<1>1. ~ (k < l) /\ ~ (l < k)
  BY DEF IsWidth
<1> QED
  BY <1>1 DEF IsWidth

\* One digit more than what is left without the last.
LEMMA WiderByOne ==
    ASSUME NEW n \in Nat \ {0}, NEW base \in Nat \ {0, 1}, NEW k,
           IsWidth(k, Quotients(n \div base, base))
    PROVE  IsWidth(1 + k, Quotients(n, base))
<1>1. n \div base \in Nat
  BY NaturalQuotient
<1>2. PICK q, p : q = Quotients(n, base) /\ p = Quotients(n \div base, base)
  OBVIOUS
<1>3. AreQuotients(q, n, base) /\ AreQuotients(p, n \div base, base)
  BY <1>1, <1>2, QuotientsUnfold
<1>4. \A j \in Nat : p[j] = q[j + 1]
  BY <1>3, LaterQuotients
<1>5. q[0] = n
  BY <1>3 DEF AreQuotients
<1>6. k \in Nat /\ p[k] = 0 /\ \A j \in 0..k - 1 : p[j] # 0
  BY <1>2 DEF IsWidth
<1>7. q[1 + k] = 0
  BY <1>4, <1>6
<1>8. ASSUME NEW j \in 0..(1 + k) - 1
      PROVE  q[j] # 0
  <2>1. CASE j = 0
    BY <1>5, <2>1
  <2>2. CASE j # 0
    <3>1. j - 1 \in Nat /\ j - 1 \in 0..k - 1 /\ (j - 1) + 1 = j
      BY <1>6, <2>2
    <3> QED
      BY <1>4, <1>6, <3>1
  <2> QED
    BY <2>1, <2>2
<1> QED
  BY <1>2, <1>6, <1>7, <1>8 DEF IsWidth

\* 0 has no digits.
LEMMA NoWidth ==
    ASSUME NEW base \in Nat \ {0}
    PROVE  IsWidth(0, Quotients(0, base))
<1>1. AreQuotients(Quotients(0, base), 0, base)
  BY QuotientsUnfold
<1> QED
  BY <1>1 DEF AreQuotients, IsWidth

\* Every other number has a first digit.
LEMMA EveryNumberHasAWidth ==
    ASSUME NEW base \in Nat \ {0, 1}
    PROVE  \A n \in Nat : \E k : IsWidth(k, Quotients(n, base))
<1> DEFINE T == {n \in Nat : ~ \E k : IsWidth(k, Quotients(n, base))}
<1>1. SUFFICES ASSUME T # {}
               PROVE  FALSE
  OBVIOUS
<1>2. PICK n \in T : \A m \in T : n <= m
  <2>1. T \subseteq Nat
    OBVIOUS
  <2> HIDE DEF T
  <2> QED
    BY <1>1, <2>1, LeastElement
<1>3. n \in Nat /\ n # 0
  BY NoWidth
<1>4. n \div base \in Nat /\ n \div base < n
  BY <1>3, NaturalQuotient, SmallerQuotient
<1>5. n \div base \notin T
  <2> HIDE DEF T
  <2> QED
    BY <1>2, <1>3, <1>4
<1>6. PICK k : IsWidth(k, Quotients(n \div base, base))
  BY <1>4, <1>5
<1>7. IsWidth(1 + k, Quotients(n, base))
  BY <1>3, <1>6, WiderByOne
<1> QED
  BY <1>7

\* Width is that number of digits.
LEMMA WidthUnfolds ==
    ASSUME NEW base \in Nat \ {0, 1}, NEW n \in Nat
    PROVE  IsWidth(Width(n, base), Quotients(n, base))
<1> DEFINE D(f) == [m \in Nat |-> IF m = 0 THEN 0 ELSE 1 + f[m \div base]]
           W(m) == CHOOSE k : IsWidth(k, Quotients(m, base))
           f == [m \in Nat |-> W(m)]
<1>1. \A m \in Nat : IsWidth(W(m), Quotients(m, base))
  BY EveryNumberHasAWidth
<1> HIDE DEF W
<1>2. f = D(f)
  <2>1. ASSUME NEW m \in Nat
        PROVE  W(m) = (IF m = 0 THEN 0 ELSE 1 + W(m \div base))
    <3>1. CASE m = 0
      BY <1>1, <3>1, NoWidth, OneWidth
    <3>2. CASE m # 0
      <4>1. m \div base \in Nat
        BY NaturalQuotient
      <4>2. IsWidth(1 + W(m \div base), Quotients(m, base))
        BY <1>1, <3>2, <4>1, WiderByOne
      <4>3. W(m) = 1 + W(m \div base)
        BY <1>1, <4>2, OneWidth
      <4> QED
        BY <3>2, <4>3
    <3> QED
      BY <3>1, <3>2
  <2>2. \A m \in Nat : m \div base \in Nat
    BY NaturalQuotient
  <2>3. ASSUME NEW m \in Nat
        PROVE  W(m) = (IF m = 0 THEN 0 ELSE 1 + f[m \div base])
    <3>1. m \div base \in Nat
      BY NaturalQuotient
    <3>2. f[m \div base] = W(m \div base)
      BY <3>1
    <3> QED
      BY <2>1, <3>2
  <2> QED
    BY <2>3
<1> DEFINE g == CHOOSE x : x = D(x)
<1>3. g = D(g)
  <2> HIDE DEF D, f
  <2> QED
    BY <1>2
<1>4. Width(n, base) = g[n]
  BY DEF Width
<1> HIDE DEF g
<1>5. \A m \in Nat : g[m] = (IF m = 0 THEN 0 ELSE 1 + g[m \div base])
  BY <1>3
<1> DEFINE T == {m \in Nat : ~ IsWidth(g[m], Quotients(m, base))}
<1>6. T = {}
  <2>1. SUFFICES ASSUME T # {}
                 PROVE  FALSE
    OBVIOUS
  <2>2. PICK m \in T : \A l \in T : m <= l
    <3>1. T \subseteq Nat
      OBVIOUS
    <3> HIDE DEF T
    <3> QED
      BY <2>1, <3>1, LeastElement
  <2>3. m \in Nat /\ m # 0
    BY <1>5, NoWidth
  <2>4. m \div base \in Nat /\ m \div base < m
    BY <2>3, NaturalQuotient, SmallerQuotient
  <2>5. m \div base \notin T
    <3> HIDE DEF T
    <3> QED
      BY <2>2, <2>3, <2>4
  <2>6. IsWidth(g[m \div base], Quotients(m \div base, base))
    BY <2>4, <2>5
  <2>7. IsWidth(1 + g[m \div base], Quotients(m, base))
    BY <2>3, <2>6, WiderByOne
  <2> QED
    BY <1>5, <2>3, <2>7
<1> QED
  BY <1>4, <1>6

-----------------------------------------------------------------------------
(* INTEGER.                                                                *)

\* Eight halvings are a division by 256, seven one by 128.
LEMMA SevenHalvings ==
    ASSUME NEW n \in Int
    PROVE  ((((((n \div 2) \div 2) \div 2) \div 2) \div 2) \div 2) \div 2 = n \div 128
  OBVIOUS

\* The eighth halving.
LEMMA EighthHalving ==
    ASSUME NEW n \in Int
    PROVE  (n \div 128) \div 2 = n \div 256
  OBVIOUS

\* Every eighth quotient by 2 is a quotient by 256, and the one before its sign.
LEMMA Halvings ==
    ASSUME NEW n \in Int, NEW p, AreQuotients(p, n, 2), NEW q, AreQuotients(q, n, 256)
    PROVE  \A k \in Nat : q[k] = p[8 * k] /\ p[8 * k + 7] = q[k] \div 128
<1>1. ASSUME NEW k \in Nat
      PROVE  /\ p[k] \in Int
             /\ p[k + 7] = p[k] \div 128
             /\ p[k + 8] = p[k] \div 256
  <2>1. \A i \in 0..8 : k + i \in Nat /\ k + (i + 1) = (k + i) + 1
    OBVIOUS
  <2>2. \A i \in 0..8 : p[k + i] \in Int /\ p[k + (i + 1)] = p[k + i] \div 2
    BY <2>1 DEF AreQuotients
  <2>3. PICK x \in Int : x = p[k]
    BY DEF AreQuotients
  <2>4. k + 0 = k
    OBVIOUS
  <2>5. /\ p[k + 1] = p[k + 0] \div 2 /\ p[k + 2] = p[k + 1] \div 2 /\ p[k + 3] = p[k + 2] \div 2
        /\ p[k + 4] = p[k + 3] \div 2 /\ p[k + 5] = p[k + 4] \div 2 /\ p[k + 6] = p[k + 5] \div 2
        /\ p[k + 7] = p[k + 6] \div 2 /\ p[k + 8] = p[k + 7] \div 2
    BY <2>2
  <2>6. p[k + 7] = ((((((x \div 2) \div 2) \div 2) \div 2) \div 2) \div 2) \div 2
    BY <2>3, <2>4, <2>5
  <2>7. p[k + 7] = x \div 128
    BY <2>6, SevenHalvings, Zenon
  <2>8. p[k + 8] = x \div 256
    <3>1. p[k + 8] = (x \div 128) \div 2
      BY <2>5, <2>7, Zenon
    <3> QED
      BY <3>1, EighthHalving, Zenon
  <2> QED
    BY <2>3, <2>7, <2>8
<1> DEFINE P == {k \in Nat : q[k] = p[8 * k]}
<1>2. 0 \in P
  BY DEF AreQuotients
<1>3. ASSUME NEW k \in Nat, k \in P
      PROVE  k + 1 \in P
  <2>1. 8 * k \in Nat /\ 8 * (k + 1) = 8 * k + 8
    OBVIOUS
  <2>2. p[8 * k + 8] = p[8 * k] \div 256
    BY <1>1, <2>1
  <2>3. q[k + 1] = q[k] \div 256
    BY DEF AreQuotients
  <2> QED
    BY <1>3, <2>1, <2>2, <2>3
<1>4. Nat \subseteq P
  <2>1. Inductive(P)
    BY <1>2, <1>3, Zenon DEF Inductive
  <2> HIDE DEF P
  <2> QED
    BY <2>1, Induction
<1> SUFFICES ASSUME NEW k \in Nat
             PROVE  q[k] = p[8 * k] /\ p[8 * k + 7] = q[k] \div 128
  OBVIOUS
<1>5. q[k] = p[8 * k]
  BY <1>4
<1>6. PICK j \in Nat : j = 8 * k
  OBVIOUS
<1>7. p[j + 7] = p[j] \div 128
  BY <1>1
<1> HIDE DEF P
<1> QED
  BY <1>5, <1>6, <1>7, Zenon

\* Division rounds down, so the complement's quotient is the complement.
LEMMA ComplementQuotient ==
    ASSUME NEW n \in Int, NEW base \in Nat \ {0}
    PROVE  (-n - 1) \div base = -(n \div base) - 1
  OBVIOUS

\* The quotients of the complement are the complements of the quotients.
LEMMA Complements ==
    ASSUME NEW n \in Int, NEW base \in Nat \ {0}, NEW q, AreQuotients(q, n, base),
           NEW p, AreQuotients(p, -n - 1, base)
    PROVE  \A k \in Nat : p[k] = -q[k] - 1
<1> DEFINE P == {k \in Nat : p[k] = -q[k] - 1}
<1>1. 0 \in P
  BY DEF AreQuotients
<1>2. ASSUME NEW k \in Nat, k \in P
      PROVE  k + 1 \in P
  <2>1. PICK x \in Int : x = q[k]
    BY DEF AreQuotients
  <2>2. p[k + 1] = p[k] \div base /\ q[k + 1] = x \div base
    BY <2>1 DEF AreQuotients
  <2>3. p[k + 1] = (-x - 1) \div base
    BY <1>2, <2>1, <2>2
  <2>4. PICK y \in Int : y = x \div base
    BY Division
  <2>5. p[k + 1] = -y - 1
    BY <2>3, <2>4, ComplementQuotient, Zenon
  <2> QED
    BY <2>2, <2>4, <2>5
<1>3. Nat \subseteq P
  <2>1. Inductive(P)
    BY <1>1, <1>2, Zenon DEF Inductive
  <2> HIDE DEF P
  <2> QED
    BY <2>1, Induction
<1> QED
  BY <1>3

OneOctet == -128..127

\* size octets hold the number, and fewer do not.
Shortest(q, size) ==
    /\ size \in Nat \ {0}
    /\ q[size - 1] \in OneOctet
    /\ size > 1 => q[size - 2] \notin OneOctet

\* Once a quotient is 0 or -1, the octets to the left only repeat the sign.
LEMMA StaysInOneOctet ==
    ASSUME NEW n \in Int, NEW q, AreQuotients(q, n, 256), NEW k \in Nat, q[k] \in OneOctet
    PROVE  \A j \in Nat : j >= k => q[j] \in OneOctet
<1> DEFINE P == {j \in Nat : j >= k => q[j] \in OneOctet}
<1>1. 0 \in P
  <2>1. 0 >= k => k = 0
    OBVIOUS
  <2> QED
    BY <2>1
<1>2. ASSUME NEW j \in Nat, j \in P
      PROVE  j + 1 \in P
  <2>1. CASE j >= k
    <3>1. q[j] \in OneOctet /\ q[j + 1] = q[j] \div 256
      BY <1>2, <2>1 DEF AreQuotients
    <3>2. q[j] \div 256 \in {0, -1}
      BY <3>1 DEF OneOctet
    <3> QED
      BY <3>1, <3>2 DEF OneOctet
  <2>2. CASE ~ (j >= k)
    <3>1. j + 1 >= k => j + 1 = k
      BY <2>2
    <3> QED
      BY <3>1
  <2> QED
    BY <2>1, <2>2
<1>3. Nat \subseteq P
  <2>1. Inductive(P)
    BY <1>1, <1>2, Zenon DEF Inductive
  <2> HIDE DEF P
  <2> QED
    BY <2>1, Induction
<1> QED
  BY <1>3

\* There is one fewest number of octets.
LEMMA OneShortest ==
    ASSUME NEW n \in Int, NEW q, AreQuotients(q, n, 256), NEW s, NEW t,
           Shortest(q, s), Shortest(q, t)
    PROVE  s = t
<1>1. ASSUME NEW x, NEW y, Shortest(q, x), Shortest(q, y), x < y
      PROVE  FALSE
  <2>1. x \in Nat \ {0} /\ y \in Nat \ {0} /\ q[x - 1] \in OneOctet
        /\ (y > 1 => q[y - 2] \notin OneOctet)
    BY <1>1 DEF Shortest
  <2>2. x - 1 \in Nat /\ y - 2 \in Nat /\ y - 2 >= x - 1 /\ y > 1
    BY <1>1, <2>1
  <2> QED
    BY <2>1, <2>2, StaysInOneOctet
<1>2. s \in Nat /\ t \in Nat
  BY DEF Shortest
<1> QED
  BY <1>1, <1>2

\* The octets that bit_length asks for are the fewest.
LEMMA BitLengthIsShortest ==
    ASSUME NEW v \in Int, v # 0, NEW m \in Nat, m = IF v >= 0 THEN v ELSE -v - 1
    PROVE  Shortest(Quotients(v, 256), BitLength(m) \div 8 + 1)
<1>1. PICK q, r, p : q = Quotients(v, 256) /\ r = Quotients(m, 256) /\ p = Quotients(m, 2)
  OBVIOUS
<1>2. AreQuotients(q, v, 256) /\ AreQuotients(r, m, 256) /\ AreQuotients(p, m, 2)
  BY <1>1, QuotientsUnfold
<1>3. \A k \in Nat : r[k] = p[8 * k] /\ p[8 * k + 7] = r[k] \div 128
  BY <1>2, Halvings
<1>4. \A k \in Nat : r[k] \in Nat
  BY <1>2, NaturalQuotients
<1>5. \A k \in Nat : q[k] \in Int /\ q[k] = (IF v >= 0 THEN r[k] ELSE -r[k] - 1)
  <2>1. CASE v >= 0
    BY <1>1, <1>2, <2>1 DEF AreQuotients
  <2>2. CASE ~ (v >= 0)
    <3>1. \A k \in Nat : r[k] = -q[k] - 1
      BY <1>2, <2>2, Complements
    <3>2. \A k \in Nat : q[k] \in Int
      BY <1>2 DEF AreQuotients
    <3> QED
      BY <2>2, <3>1, <3>2
  <2> QED
    BY <2>1, <2>2
<1>6. PICK l \in Nat : l = BitLength(m) /\ IsWidth(l, p)
  <2>1. IsWidth(Width(m, 2), p)
    BY <1>1, WidthUnfolds
  <2> QED
    BY <2>1, Zenon DEF BitLength, IsWidth
<1>7. PICK k \in Nat : k = l \div 8
  OBVIOUS
<1>8. 8 * k <= l /\ l <= 8 * k + 7
  BY <1>7
<1>9. r[k] \in 0..127
  <2>1. p[8 * k + 7] = 0
    BY <1>2, <1>6, <1>8, ZeroStays DEF IsWidth
  <2>2. r[k] \in Nat /\ r[k] \div 128 = 0
    BY <1>3, <1>4, <2>1
  <2> QED
    BY <2>2
<1>10. k > 0 => r[k - 1] > 127
  <2>1. SUFFICES ASSUME k > 0
                 PROVE  r[k - 1] > 127
    OBVIOUS
  <2>2. k - 1 \in Nat /\ 8 * (k - 1) + 7 \in 0..l - 1
    BY <1>8, <2>1
  <2>3. p[8 * (k - 1) + 7] # 0
    BY <1>6, <2>2 DEF IsWidth
  <2>4. r[k - 1] \in Nat /\ r[k - 1] \div 128 # 0
    BY <1>3, <1>4, <2>2, <2>3
  <2> QED
    BY <2>4
<1>11. q[k] \in OneOctet
  BY <1>5, <1>9 DEF OneOctet
<1>12. k > 0 => q[k - 1] \notin OneOctet
  <2>1. SUFFICES ASSUME k > 0
                 PROVE  q[k - 1] \notin OneOctet
    OBVIOUS
  <2>2. k - 1 \in Nat /\ r[k - 1] \in Nat
    BY <1>4, <2>1
  <2> QED
    BY <1>5, <1>10, <2>1, <2>2 DEF OneOctet
<1>13. (k + 1) - 1 = k /\ (k + 1) - 2 = k - 1 /\ (k + 1 > 1 => k > 0) /\ k + 1 \in Nat \ {0}
  OBVIOUS
<1>14. Shortest(q, k + 1)
  BY <1>11, <1>12, <1>13 DEF Shortest
<1> QED
  BY <1>1, <1>6, <1>7, <1>14

\* An integer is written in the fewest octets that hold it and its sign.
LEMMA IntegerIsWritten ==
    ASSUME NEW v \in Int
    PROVE  \E size : /\ Shortest(Quotients(v, 256), size)
                     /\ EncodeInteger(v) = Digits(v, 256, size)
<1>1. CASE v = 0
  <2>1. PICK q : q = Quotients(0, 256)
    OBVIOUS
  <2>2. AreQuotients(q, 0, 256)
    BY <2>1, QuotientsUnfold
  <2>3. q[0] = 0
    BY <2>2 DEF AreQuotients
  <2>4. Shortest(q, 1)
    BY <2>3 DEF Shortest, OneOctet
  <2>5. PICK d : d = Digits(0, 256, 1)
    OBVIOUS
  <2>6. AreDigits(d, q, 256, 1)
    BY <2>1, <2>5, DigitsUnfold
  <2>7. d \in [1..1 -> 0..255] /\ d[1] = q[1 - 1] % 256
    BY <2>6 DEF AreDigits
  <2>8. d = <<0>>
    BY <2>3, <2>7
  <2>9. EncodeInteger(v) = <<0>>
    BY <1>1 DEF EncodeInteger
  <2> QED
    BY <1>1, <2>1, <2>4, <2>5, <2>8, <2>9
<1>2. CASE v # 0
  <2>1. PICK m \in Nat : m = IF v >= 0 THEN v ELSE -v - 1
    OBVIOUS
  <2>2. Shortest(Quotients(v, 256), BitLength(m) \div 8 + 1)
    BY <1>2, <2>1, BitLengthIsShortest
  <2>3. EncodeInteger(v) = BigEndian(v, BitLength(m) \div 8 + 1)
    BY <1>2, <2>1, Zenon DEF EncodeInteger
  <2>4. EncodeInteger(v) = Digits(v, 256, BitLength(m) \div 8 + 1)
    BY <2>3, Zenon DEF BigEndian
  <2> QED
    BY <2>2, <2>4
<1> QED
  BY <1>1, <1>2

\* An integer is read as it was written: the first bit of its octets is its sign.
LEMMA IntegerIsRead ==
    ASSUME NEW v \in Int, NEW rules
    PROVE  /\ DecodeInteger(rules, EncodeInteger(v)) = {v}
           /\ EncodeInteger(v) \in Seq(Octet)
<1>1. PICK size : /\ Shortest(Quotients(v, 256), size)
                  /\ EncodeInteger(v) = Digits(v, 256, size)
  BY IntegerIsWritten
<1>2. PICK q, d : q = Quotients(v, 256) /\ d = Digits(v, 256, size)
  OBVIOUS
<1>3. /\ size \in Nat \ {0} /\ q[size - 1] \in OneOctet
      /\ size > 1 => q[size - 2] \notin OneOctet
  BY <1>1, <1>2 DEF Shortest
<1>4. AreQuotients(q, v, 256)
  BY <1>2, QuotientsUnfold
<1>5. d \in [1..size -> 0..255] /\ \A i \in 1..size : d[i] = q[size - i] % 256
  <2>1. AreDigits(d, q, 256, size)
    BY <1>2, <1>3, DigitsUnfold
  <2> QED
    BY <2>1 DEF AreDigits
<1>6. d \in Seq(Octet) /\ Len(d) = size /\ d # <<>>
  BY <1>3, <1>5 DEF Octet
<1>7. q[size] = q[size - 1] \div 256
  <2>1. size - 1 \in Nat /\ (size - 1) + 1 = size
    BY <1>3
  <2> QED
    BY <1>4, <2>1 DEF AreQuotients
<1>8. d[1] = q[size - 1] % 256
  BY <1>3, <1>5
<1>9. q[size] = IF d[1] >= 128 THEN -1 ELSE 0
  BY <1>3, <1>7, <1>8 DEF OneOctet
<1>10. Signed(d) = v
  <2>1. Positional(q[size], d, 256) = v
    BY <1>2, <1>3, Reassembled
  <2> QED
    BY <1>9, <2>1, Zenon DEF Signed
<1>11. ~ Redundant(d)
  <2>1. SUFFICES ASSUME size > 1
                 PROVE  ~ (d[1] = 0 /\ d[2] < 128) /\ ~ (d[1] = 255 /\ d[2] >= 128)
    BY <1>6 DEF Redundant
  <2>2. size - 2 \in Nat /\ (size - 2) + 1 = size - 1 /\ 2 \in 1..size
    BY <1>3, <2>1
  <2>3. PICK x \in Int : x = q[size - 2]
    BY <1>4, <2>2 DEF AreQuotients
  <2>4. x \notin OneOctet /\ q[size - 1] = x \div 256 /\ d[2] = x % 256
    BY <1>3, <1>4, <1>5, <2>1, <2>2, <2>3 DEF AreQuotients
  <2>5. d[1] = (x \div 256) % 256 /\ x \div 256 \in -128..127
    BY <1>3, <1>8, <2>4 DEF OneOctet
  <2>6. d[1] = 0 => x \div 256 = 0
    BY <2>5
  <2>7. d[1] = 255 => x \div 256 = -1
    BY <2>5
  <2>8. x \div 256 = 0 => x = x % 256
    OBVIOUS
  <2>9. x \div 256 = -1 => x = (x % 256) - 256
    OBVIOUS
  <2> QED
    BY <2>4, <2>6, <2>7, <2>8, <2>9 DEF OneOctet
<1>12. EncodeInteger(v) = d
  BY <1>1, <1>2
<1> QED
  BY <1>6, <1>10, <1>11, <1>12 DEF DecodeInteger

\* An integer without redundant octets is written as it was read.
LEMMA IntegerIsWrittenBack ==
    ASSUME NEW w \in Seq(Octet), w # <<>>
    PROVE  /\ Signed(w) \in Int
           /\ ~ Redundant(w) => EncodeInteger(Signed(w)) = w
<1>1. PICK size \in Nat \ {0} : size = Len(w)
  BY Z3
<1>2. w \in [1..size -> 0..255]
  <2>1. w \in [1..size -> Octet]
    BY <1>1
  <2> QED
    BY <2>1, Zenon DEF Octet
<1>3. PICK start \in {0, -1} : start = IF w[1] >= 128 THEN -1 ELSE 0
  BY Z3
<1>4. PICK v : v = Positional(start, w, 256)
  OBVIOUS
<1>5. /\ v \in Int /\ Digits(v, 256, size) = w
      /\ Quotients(v, 256)[size] = start
  <2>1. PICK base \in Nat \ {0} : base = 256
    OBVIOUS
  <2>2. 0..base - 1 = Octet
    BY <2>1 DEF Octet
  <2>3. start \in Int /\ w \in Seq(0..base - 1)
    BY <2>2
  <2>4. /\ Positional(start, w, base) \in Int
        /\ Digits(Positional(start, w, base), base, Len(w)) = w
        /\ Quotients(Positional(start, w, base), base)[Len(w)] = start
    BY <2>3, TakenApart
  <2> QED
    BY <1>1, <1>4, <2>1, <2>4, Zenon
<1>6. PICK q : q = Quotients(v, 256)
  OBVIOUS
<1>7. AreQuotients(q, v, 256)
  BY <1>5, <1>6, QuotientsUnfold
<1>8. \A i \in 1..size : w[i] = q[size - i] % 256
  <2>1. AreDigits(w, q, 256, size)
    BY <1>5, <1>6, DigitsUnfold
  <2> QED
    BY <2>1 DEF AreDigits
<1>9. PICK x \in Int : x = q[size - 1]
  <2>1. size - 1 \in Nat
    OBVIOUS
  <2> QED
    BY <1>7, <2>1 DEF AreQuotients
<1>10. x \div 256 = start
  <2>1. size - 1 \in Nat /\ (size - 1) + 1 = size
    OBVIOUS
  <2>2. q[(size - 1) + 1] = q[size - 1] \div 256
    BY <1>7, <2>1, Zenon DEF AreQuotients
  <2>3. q[size] = start
    BY <1>5, <1>6, Zenon
  <2> QED
    BY <1>9, <2>1, <2>2, <2>3, Zenon
<1>11. w[1] = x % 256
  BY <1>8, <1>9
<1>12. x \in OneOctet
  BY <1>3, <1>10, <1>11 DEF OneOctet
<1>13. ASSUME ~ Redundant(w)
       PROVE  Shortest(q, size)
  <2>1. SUFFICES ASSUME size > 1, q[size - 2] \in OneOctet
                 PROVE  FALSE
    BY <1>9, <1>12 DEF Shortest
  <2>2. size - 2 \in Nat /\ (size - 2) + 1 = size - 1 /\ 2 \in 1..size
    BY <2>1
  <2>3. PICK y \in OneOctet : y = q[size - 2]
    BY <2>1
  <2>4. x = y \div 256 /\ w[2] = y % 256
    BY <1>7, <1>8, <1>9, <2>2, <2>3 DEF AreQuotients
  <2>5. (w[1] = 0 /\ w[2] < 128) \/ (w[1] = 255 /\ w[2] >= 128)
    <3>1. y \in Int /\ -128 <= y /\ y <= 127
      BY DEF OneOctet
    <3>2. CASE y >= 0
      <4>1. y \div 256 = 0 /\ y % 256 = y
        BY <3>1, <3>2
      <4> QED
        BY <1>11, <2>4, <3>1, <4>1
    <3>3. CASE ~ (y >= 0)
      <4>1. y \div 256 = -1 /\ y % 256 = y + 256
        BY <3>1, <3>3
      <4>2. x % 256 = 255
        BY <2>4, <4>1
      <4> QED
        BY <1>11, <2>4, <3>1, <4>1, <4>2
    <3> QED
      BY <3>2, <3>3
  <2> QED
    BY <1>1, <1>13, <2>1, <2>5 DEF Redundant
<1>14. Signed(w) = v
  BY <1>3, <1>4, Zenon DEF Signed
<1>15. ASSUME ~ Redundant(w)
       PROVE  EncodeInteger(v) = w
  <2>1. PICK s : Shortest(q, s) /\ EncodeInteger(v) = Digits(v, 256, s)
    BY <1>5, <1>6, IntegerIsWritten
  <2>2. s = size
    BY <1>5, <1>7, <1>13, <1>15, <2>1, OneShortest
  <2> QED
    BY <1>5, <2>1, <2>2
<1> QED
  BY <1>5, <1>14, <1>15

-----------------------------------------------------------------------------
(* Sequences put together from pieces.                                     *)

\* flat[i] is what the first i of seqs are together.
Joins(flat, seqs, X) ==
    /\ flat[0] = <<>>
    /\ \A i \in 0..Len(seqs) : flat[i] \in Seq(X)
    /\ \A i \in 1..Len(seqs) : flat[i] = flat[i - 1] \o seqs[i]

\* FlattenSeq, piece by piece.
LEMMA FlattenUnfolds ==
    ASSUME NEW X, NEW seqs \in Seq(Seq(X))
    PROVE  \E flat : Joins(flat, seqs, X) /\ FlattenSeq(seqs) = flat[Len(seqs)]
<1>n. PICK n \in Nat : n = Len(seqs)
  OBVIOUS
<1>d. \A i \in 1..n : seqs[i] \in Seq(X)
  BY <1>n
<1> DEFINE step == [i \in Nat \ {0} |-> [x \in Seq(X) |-> IF i \in 1..n THEN x \o seqs[i] ELSE x]]
           D(f) == [i \in 1..n |-> IF i = 1 THEN seqs[i] ELSE f[i - 1] \o seqs[i]]
<1>1. Steps(Seq(X), <<>>, step)
  <2>1. ASSUME NEW i \in Nat \ {0}, NEW x \in Seq(X)
        PROVE  step[i][x] \in Seq(X)
    <3>1. step[i][x] = IF i \in 1..n THEN x \o seqs[i] ELSE x
      OBVIOUS
    <3> HIDE DEF step
    <3>2. CASE i \in 1..n
      <4>1. seqs[i] \in Seq(X)
        BY <1>d, <3>2
      <4> QED
        BY <3>1, <3>2, <4>1
    <3>3. CASE i \notin 1..n
      BY <3>1, <3>3
    <3> QED
      BY <3>2, <3>3
  <2> HIDE DEF step
  <2>2. <<>> \in Seq(X)
    OBVIOUS
  <2> QED
    BY <2>1, <2>2, Zenon DEF Steps
<1>2. PICK f : FollowsForEver(Seq(X), <<>>, step, f)
  <2> HIDE DEF step
  <2> QED
    BY <1>1, Recursion
<1>3. /\ \A i \in Nat : f[i] \in Seq(X)
      /\ \A i \in Nat : f[i] = (IF i = 0 THEN <<>> ELSE step[i][f[i - 1]])
  <2> HIDE DEF step
  <2> QED
    BY <1>2 DEF FollowsForEver
<1>4. f[0] = <<>>
  BY <1>3
<1>5. ASSUME NEW i \in 1..n
      PROVE  f[i] = f[i - 1] \o seqs[i]
  <2>1. i \in Nat \ {0} /\ i - 1 \in Nat
    OBVIOUS
  <2>2. f[i - 1] \in Seq(X)
    BY <1>3, <2>1
  <2>3. step[i][f[i - 1]] = f[i - 1] \o seqs[i]
    BY <2>1, <2>2
  <2> HIDE DEF step
  <2> QED
    BY <1>3, <2>1, <2>3
<1>6. Joins(f, seqs, X)
  <2>1. \A i \in 0..Len(seqs) : f[i] \in Seq(X)
    BY <1>n, <1>3
  <2>2. \A i \in 1..Len(seqs) : f[i] = f[i - 1] \o seqs[i]
    BY <1>n, <1>5, Zenon
  <2> QED
    BY <1>4, <2>1, <2>2, Zenon DEF Joins
<1>7. FlattenSeq(seqs) = f[n]
  <2>1. CASE n = 0
    <3>1. seqs = <<>>
      BY <1>n, <2>1, EmptySeq
    <3>2. FlattenSeq(seqs) = seqs
      BY <1>n, <2>1, Zenon DEF FlattenSeq
    <3> QED
      BY <1>4, <2>1, <3>1, <3>2
  <2>2. CASE n # 0
    <3> HIDE DEF step
    <3>1. n \in 1..n /\ 1 \in 1..n
      BY <2>2
    <3>2. f[1] = seqs[1]
      <4>1. f[1] = f[1 - 1] \o seqs[1]
        BY <1>5, <3>1, Zenon
      <4>2. 1 - 1 = 0 /\ seqs[1] \in Seq(X)
        BY <1>d, <3>1
      <4>3. f[1] = <<>> \o seqs[1]
        BY <1>4, <4>1, <4>2
      <4> QED
        BY <4>2, <4>3, ConcatEmptySeq
    <3> DEFINE h == [i \in 1..n |-> f[i]]
    <3>3. h = D(h)
      <4>1. ASSUME NEW i \in 1..n
            PROVE  h[i] = IF i = 1 THEN seqs[i] ELSE h[i - 1] \o seqs[i]
        <5>1. i # 1 => i - 1 \in 1..n
          OBVIOUS
        <5>2. h[i] = f[i] /\ (i # 1 => h[i - 1] = f[i - 1])
          BY <5>1
        <5> HIDE DEF h
        <5> QED
          BY <1>5, <3>2, <5>2
      <4>2. h = [i \in 1..n |-> h[i]]
        OBVIOUS
      <4> HIDE DEF h
      <4> QED
        BY <4>1, <4>2
    <3> DEFINE g == CHOOSE x : x = D(x)
    <3>4. g = D(g)
      <4> HIDE DEF D, h
      <4> QED
        BY <3>3
    <3>5. FlattenSeq(seqs) = g[n]
      BY <1>n, <2>2 DEF FlattenSeq
    <3> HIDE DEF g
    <3>6. \A i \in 1..n : g[i] = (IF i = 1 THEN seqs[i] ELSE g[i - 1] \o seqs[i])
      BY <3>4
    <3> DEFINE P == {i \in Nat : i + 1 <= n => g[i + 1] = f[i + 1]}
    <3>7. 0 \in P
      <4>1. 0 + 1 = 1
        OBVIOUS
      <4> QED
        BY <3>1, <3>2, <3>6, <4>1
    <3>8. ASSUME NEW i \in Nat, i \in P
          PROVE  i + 1 \in P
      <4>1. SUFFICES ASSUME (i + 1) + 1 <= n
                     PROVE  g[(i + 1) + 1] = f[(i + 1) + 1]
        OBVIOUS
      <4>2. PICK k \in 1..n : k = i + 1 /\ k + 1 \in 1..n /\ k + 1 # 1 /\ (k + 1) - 1 = k
        BY <4>1
      <4>3. g[k] = f[k]
        BY <3>8, <4>1, <4>2
      <4>4. g[k + 1] = g[k] \o seqs[k + 1]
        BY <3>6, <4>2
      <4>5. f[k + 1] = f[k] \o seqs[k + 1]
        BY <1>5, <4>2
      <4> QED
        BY <4>2, <4>3, <4>4, <4>5
    <3>9. Nat \subseteq P
      <4>1. Inductive(P)
        BY <3>7, <3>8, Zenon DEF Inductive
      <4> HIDE DEF P
      <4> QED
        BY <4>1, Induction
    <3>10. g[n] = f[n]
      <4>1. n - 1 \in Nat /\ (n - 1) + 1 = n /\ n <= n
        BY <2>2
      <4>2. n - 1 \in P
        BY <3>9, <4>1
      <4>3. (n - 1) + 1 <= n => g[(n - 1) + 1] = f[(n - 1) + 1]
        BY <4>2
      <4> QED
        BY <4>1, <4>3
    <3> QED
      BY <3>5, <3>10
  <2> QED
    BY <2>1, <2>2
<1> QED
  BY <1>n, <1>6, <1>7

\* Pieces of sequences over X make one.
LEMMA FlattenType ==
    ASSUME NEW X, NEW seqs \in Seq(Seq(X))
    PROVE  FlattenSeq(seqs) \in Seq(X)
<1>1. PICK flat : Joins(flat, seqs, X) /\ FlattenSeq(seqs) = flat[Len(seqs)]
  BY FlattenUnfolds
<1>2. Len(seqs) \in 0..Len(seqs)
  OBVIOUS
<1> QED
  BY <1>1, <1>2 DEF Joins

\* One piece is the whole.
LEMMA FlattenOne ==
    ASSUME NEW X, NEW s \in Seq(X)
    PROVE  FlattenSeq(<<s>>) = s
<1>1. <<s>> \in Seq(Seq(X)) /\ Len(<<s>>) = 1 /\ <<s>>[1] = s
  OBVIOUS
<1>2. PICK flat : Joins(flat, <<s>>, X) /\ FlattenSeq(<<s>>) = flat[1]
  BY <1>1, FlattenUnfolds
<1>3. 1 \in 1..Len(<<s>>) /\ 1 - 1 = 0
  BY <1>1
<1>4. flat[1] = flat[1 - 1] \o <<s>>[1] /\ flat[0] = <<>>
  BY <1>2, <1>3, Zenon DEF Joins
<1>5. flat[1] = <<>> \o s
  BY <1>1, <1>3, <1>4
<1> QED
  BY <1>2, <1>5, ConcatEmptySeq

\* Arithmetic that the provers do not do: i * size grows with i.
LEMMA TimesIsMonotonic ==
    ASSUME NEW i \in Nat, NEW j \in Nat, NEW size \in Nat, i <= j
    PROVE  i * size <= j * size
  OBVIOUS

\* Division that rounds up.
LEMMA RoundedUp ==
    ASSUME NEW n \in Nat, NEW size \in Nat \ {0}
    PROVE  /\ (n + size - 1) \div size \in Nat
           /\ n <= ((n + size - 1) \div size) * size
           /\ ((n + size - 1) \div size) * size < n + size
  OBVIOUS

\* Where the k-th of the pieces of size elements ends.
Stop(n, size, k) == IF k * size < n THEN k * size ELSE n

\* How many pieces there are.
Pieces(n, size) == (n + size - 1) \div size

\* Where the pieces of n elements start and stop.
LEMMA PieceBounds ==
    ASSUME NEW n \in Nat, NEW size \in Nat \ {0}
    PROVE  /\ Pieces(n, size) \in Nat
           /\ Stop(n, size, 0) = 0
           /\ Stop(n, size, Pieces(n, size)) = n
           /\ \A k \in 1..Pieces(n, size) :
                 /\ (k - 1) * size \in 0..n - 1
                 /\ Stop(n, size, k - 1) = (k - 1) * size
                 /\ Stop(n, size, k) \in (k - 1) * size + 1..(k - 1) * size + size
                 /\ Stop(n, size, k) <= n
                 /\ k < Pieces(n, size) => Stop(n, size, k) = (k - 1) * size + size
<1>1. PICK m \in Nat : m = Pieces(n, size)
  BY RoundedUp DEF Pieces
<1>2. n <= m * size /\ m * size < n + size
  BY <1>1, RoundedUp DEF Pieces
<1>3. Stop(n, size, m) = n
  BY <1>2 DEF Stop
<1>4. Stop(n, size, 0) = 0
  <2>1. 0 * size = 0
    OBVIOUS
  <2> QED
    BY <2>1 DEF Stop
<1>5. ASSUME NEW k \in 1..m
      PROVE  /\ (k - 1) * size \in 0..n - 1
             /\ Stop(n, size, k - 1) = (k - 1) * size
             /\ Stop(n, size, k) \in (k - 1) * size + 1..(k - 1) * size + size
             /\ Stop(n, size, k) <= n
             /\ k < m => Stop(n, size, k) = (k - 1) * size + size
  <2>1. PICK a \in Nat, b \in Nat : a = (k - 1) * size /\ b = k * size
    BY <1>5
  <2>2. b = a + size
    BY <2>1
  <2>3. k * size <= m * size
    BY TimesIsMonotonic
  <2>4. a < n
    BY <1>2, <2>1, <2>2, <2>3
  <2>5. k < m => b < n
    <3>1. SUFFICES ASSUME k < m
                   PROVE  b < n
      OBVIOUS
    <3>2. k + 1 <= m /\ k + 1 \in Nat
      BY <3>1
    <3>3. (k + 1) * size <= m * size
      BY <3>2, TimesIsMonotonic
    <3>4. (k + 1) * size = b + size
      BY <2>1
    <3> QED
      BY <1>2, <2>1, <3>3, <3>4
  <2>6. Stop(n, size, k - 1) = a
    BY <2>1, <2>4 DEF Stop
  <2>7. Stop(n, size, k) = IF b < n THEN b ELSE n
    BY <2>1 DEF Stop
  <2>8. /\ a \in 0..n - 1
        /\ Stop(n, size, k) \in a + 1..a + size
        /\ Stop(n, size, k) <= n
        /\ k < m => Stop(n, size, k) = a + size
    BY <2>2, <2>4, <2>5, <2>7
  <2> QED
    BY <2>1, <2>6, <2>8
<1> QED
  BY <1>1, <1>3, <1>4, <1>5

\* What Cut(s, size) is.
IsCut(cut, s, size, X) ==
    /\ cut \in [1..Pieces(Len(s), size) -> Seq(X)]
    /\ \A k \in 1..Pieces(Len(s), size) :
          cut[k] = SubSeq(s, (k - 1) * size + 1, Stop(Len(s), size, k))

\* Each piece is an interval of what is cut.
LEMMA CutUnfolds ==
    ASSUME NEW X, NEW s \in Seq(X), NEW size \in Nat \ {0}
    PROVE  IsCut(Cut(s, size), s, size, X)
<1>1. PICK n \in Nat : n = Len(s)
  OBVIOUS
<1>2. PICK m \in Nat : m = Pieces(n, size)
  BY PieceBounds
<1>3. Cut(s, size) = [k \in 1..m |-> SubSeq(s, (k - 1) * size + 1, Stop(n, size, k))]
  BY <1>1, <1>2, Zenon DEF Cut, Pieces, Stop
<1>4. ASSUME NEW k \in 1..m
      PROVE  SubSeq(s, (k - 1) * size + 1, Stop(n, size, k)) \in Seq(X)
  <2>1. /\ (k - 1) * size \in 0..n - 1
        /\ Stop(n, size, k) \in (k - 1) * size + 1..(k - 1) * size + size
        /\ Stop(n, size, k) <= n
    BY <1>2, PieceBounds
  <2>2. PICK a \in Int, b \in Int : a = (k - 1) * size + 1 /\ b = Stop(n, size, k)
    BY <2>1
  <2>3. \A i \in a..b : s[i] \in X
    BY <1>1, <2>1, <2>2
  <2>4. SubSeq(s, a, b) \in Seq(X)
    BY <2>3, SubSeqProperties
  <2> QED
    BY <2>2, <2>4
<1>5. Cut(s, size) \in [1..m -> Seq(X)]
  BY <1>3, <1>4
<1>6. \A k \in 1..m : Cut(s, size)[k] = SubSeq(s, (k - 1) * size + 1, Stop(n, size, k))
  BY <1>3
<1> QED
  BY <1>1, <1>2, <1>5, <1>6, Zenon DEF IsCut

\* The pieces are as long as they may be.
LEMMA CutSizes ==
    ASSUME NEW X, NEW s \in Seq(X), NEW size \in Nat \ {0}
    PROVE  /\ Cut(s, size) \in Seq(Seq(X))
           /\ Len(Cut(s, size)) = Pieces(Len(s), size)
           /\ \A k \in 1..Pieces(Len(s), size) :
                 /\ Len(Cut(s, size)[k]) \in 1..size
                 /\ k < Pieces(Len(s), size) => Len(Cut(s, size)[k]) = size
<1>1. PICK n \in Nat : n = Len(s)
  OBVIOUS
<1>2. PICK m \in Nat : m = Pieces(n, size)
  BY PieceBounds
<1>3. PICK cut : cut = Cut(s, size)
  OBVIOUS
<1>4. /\ cut \in [1..m -> Seq(X)]
      /\ \A k \in 1..m : cut[k] = SubSeq(s, (k - 1) * size + 1, Stop(n, size, k))
  <2>1. IsCut(cut, s, size, X)
    BY <1>3, CutUnfolds
  <2> QED
    BY <1>1, <1>2, <2>1, Zenon DEF IsCut
<1>5. ASSUME NEW k \in 1..m
      PROVE  Len(cut[k]) \in 1..size /\ (k < m => Len(cut[k]) = size)
  <2>1. /\ (k - 1) * size \in 0..n - 1
        /\ Stop(n, size, k) \in (k - 1) * size + 1..(k - 1) * size + size
        /\ Stop(n, size, k) <= n
        /\ k < m => Stop(n, size, k) = (k - 1) * size + size
    BY <1>2, PieceBounds
  <2>2. PICK a \in Int, b \in Int : a = (k - 1) * size /\ b = Stop(n, size, k)
    BY <2>1
  <2>3. \A i \in a + 1..b : s[i] \in X
    BY <1>1, <2>1, <2>2
  <2>4. Len(SubSeq(s, a + 1, b)) = IF a + 1 <= b THEN b - (a + 1) + 1 ELSE 0
    BY <2>3, SubSeqProperties
  <2>5. cut[k] = SubSeq(s, a + 1, b)
    BY <1>4, <2>2
  <2> QED
    BY <2>1, <2>2, <2>4, <2>5
<1>6. cut \in Seq(Seq(X)) /\ Len(cut) = m
  BY <1>4
<1> QED
  BY <1>1, <1>2, <1>3, <1>5, <1>6, Zenon

\* What is cut up comes together again.
LEMMA CutJoins ==
    ASSUME NEW X, NEW s \in Seq(X), NEW size \in Nat \ {0}
    PROVE  FlattenSeq(Cut(s, size)) = s
<1>1. PICK n \in Nat : n = Len(s)
  OBVIOUS
<1>2. PICK m \in Nat : m = Pieces(n, size)
  BY PieceBounds
<1>3. PICK cut : cut = Cut(s, size)
  OBVIOUS
<1>4. \A k \in 1..m : cut[k] = SubSeq(s, (k - 1) * size + 1, Stop(n, size, k))
  <2>1. IsCut(cut, s, size, X)
    BY <1>3, CutUnfolds
  <2> QED
    BY <1>1, <1>2, <2>1, Zenon DEF IsCut
<1>5. cut \in Seq(Seq(X)) /\ Len(cut) = m
  BY <1>1, <1>2, <1>3, CutSizes
<1>6. PICK flat : Joins(flat, cut, X) /\ FlattenSeq(cut) = flat[m]
  BY <1>5, FlattenUnfolds
<1>7. flat[0] = <<>> /\ \A i \in 1..m : flat[i] = flat[i - 1] \o cut[i]
  BY <1>5, <1>6, Zenon DEF Joins
<1> DEFINE P == {k \in Nat : k <= m => flat[k] = SubSeq(s, 1, Stop(n, size, k))}
<1>8. 0 \in P
  <2>1. Stop(n, size, 0) = 0
    BY PieceBounds
  <2>2. SubSeq(s, 1, 0) = <<>>
    BY SubSeqEmpty
  <2> QED
    BY <1>7, <2>1, <2>2
<1>9. ASSUME NEW k \in Nat, k \in P
      PROVE  k + 1 \in P
  <2>1. SUFFICES ASSUME k + 1 <= m
                 PROVE  flat[k + 1] = SubSeq(s, 1, Stop(n, size, k + 1))
    OBVIOUS
  <2>2. k + 1 \in 1..m /\ (k + 1) - 1 = k /\ k <= m
    BY <2>1
  <2>3. /\ k * size \in 0..n - 1
        /\ Stop(n, size, k) = k * size
        /\ Stop(n, size, k + 1) \in k * size + 1..k * size + size
        /\ Stop(n, size, k + 1) <= n
    <3>1. /\ ((k + 1) - 1) * size \in 0..n - 1
          /\ Stop(n, size, (k + 1) - 1) = ((k + 1) - 1) * size
          /\ Stop(n, size, k + 1) \in ((k + 1) - 1) * size + 1..((k + 1) - 1) * size + size
          /\ Stop(n, size, k + 1) <= n
      BY <1>2, <2>2, PieceBounds
    <3> QED
      BY <2>2, <3>1, Zenon
  <2>4. PICK a \in 0..n : a = k * size
    BY <2>3
  <2>b. PICK b \in a..n : b = Stop(n, size, k + 1)
    BY <2>3, <2>4
  <2>5. flat[k] = SubSeq(s, 1, a) /\ flat[k + 1] = flat[k] \o cut[k + 1]
    BY <1>7, <1>9, <2>2, <2>3, <2>4
  <2>6. cut[k + 1] = SubSeq(s, a + 1, b)
    BY <1>4, <2>2, <2>4, <2>b
  <2>7. SubSeq(s, 1, a) \o SubSeq(s, a + 1, b) = SubSeq(s, 1, b)
    <3>1. 1 \in 1..Len(s) + 1 /\ a \in 1 - 1..Len(s) /\ b \in a..Len(s)
      BY <1>1
    <3> QED
      BY <3>1, ConcatAdjacentSubSeq
  <2> QED
    BY <2>b, <2>5, <2>6, <2>7
<1>10. Nat \subseteq P
  <2>1. Inductive(P)
    BY <1>8, <1>9, Zenon DEF Inductive
  <2> HIDE DEF P
  <2> QED
    BY <2>1, Induction
<1>11. flat[m] = SubSeq(s, 1, Stop(n, size, m)) /\ Stop(n, size, m) = n
  <2>1. m <= m => flat[m] = SubSeq(s, 1, Stop(n, size, m))
    BY <1>10
  <2>2. m <= m
    OBVIOUS
  <2> QED
    BY <1>2, <2>1, <2>2, PieceBounds
<1>12. SubSeq(s, 1, n) = s
  BY <1>1, SubSeqFull
<1> QED
  BY <1>3, <1>6, <1>11, <1>12

\* seqs are all of size elements but the last, which is not longer.
Even(seqs, size) ==
    /\ seqs # <<>>
    /\ \A k \in 1..Len(seqs) : /\ Len(seqs[k]) \in 1..size
                               /\ k < Len(seqs) => Len(seqs[k]) = size

\* A piece is where it was when more follows.
LEMMA PieceStays ==
    ASSUME NEW X, NEW s \in Seq(X), NEW t \in Seq(X), NEW u \in Seq(X),
           NEW i \in Nat, NEW j \in Nat, i < j, j <= Len(s), SubSeq(s, i + 1, j) = u
    PROVE  SubSeq(s \o t, i + 1, j) = u
<1>1. i + 1 \in 1..Len(s) /\ j \in 1..Len(s)
  OBVIOUS
<1> QED
  BY <1>1, SubSeqOfConcat1

\* What is appended is the last piece.
LEMMA PieceAdded ==
    ASSUME NEW X, NEW s \in Seq(X), NEW t \in Seq(X), t # <<>>
    PROVE  SubSeq(s \o t, Len(s) + 1, Len(s) + Len(t)) = t
<1>1. PICK i \in Nat, j \in Nat : i = Len(s) /\ j = Len(t)
  OBVIOUS
<1>2. j # 0
  BY <1>1, EmptySeq
<1>3. i + 1 \in Len(s) + 1..Len(s) + Len(t) /\ i + j \in Len(s) + 1..Len(s) + Len(t)
  BY <1>1, <1>2
<1>4. SubSeq(s \o t, i + 1, i + j) = SubSeq(t, (i + 1) - Len(s), (i + j) - Len(s))
  BY <1>3, SubSeqOfConcat2
<1>5. (i + 1) - Len(s) = 1 /\ (i + j) - Len(s) = Len(t)
  BY <1>1
<1>6. SubSeq(t, 1, Len(t)) = t
  BY SubSeqFull
<1> QED
  BY <1>1, <1>4, <1>5, <1>6

\* Even pieces come apart again as they were.
LEMMA PiecesComeApart ==
    ASSUME NEW X, NEW seqs \in Seq(Seq(X)), NEW size \in Nat \ {0}, Even(seqs, size)
    PROVE  /\ Cut(FlattenSeq(seqs), size) = seqs
           /\ Len(FlattenSeq(seqs)) = (Len(seqs) - 1) * size + Len(seqs[Len(seqs)])
<1>1. PICK m \in Nat \ {0} : m = Len(seqs)
  BY EmptySeq DEF Even
<1>2. /\ seqs \in [1..m -> Seq(X)]
      /\ \A k \in 1..m : Len(seqs[k]) \in 1..size /\ (k < m => Len(seqs[k]) = size)
  BY <1>1 DEF Even
<1>3. PICK flat : Joins(flat, seqs, X) /\ FlattenSeq(seqs) = flat[m]
  BY <1>1, FlattenUnfolds
<1>4. flat[0] = <<>> /\ \A i \in 1..m : flat[i] = flat[i - 1] \o seqs[i]
  BY <1>1, <1>3, Zenon DEF Joins
<1>5. \A i \in 0..m : flat[i] \in Seq(X)
  BY <1>1, <1>3, Zenon DEF Joins
<1>6. \A k \in 1..m : Len(flat[k]) = Len(flat[k - 1]) + Len(seqs[k])
  <2>1. ASSUME NEW k \in 1..m
        PROVE  Len(flat[k]) = Len(flat[k - 1]) + Len(seqs[k])
    <3>1. flat[k - 1] \in Seq(X) /\ seqs[k] \in Seq(X)
      BY <1>2, <1>5
    <3>2. flat[k] = flat[k - 1] \o seqs[k]
      BY <1>4, Zenon
    <3> QED
      BY <3>1, <3>2, ConcatProperties
  <2> QED
    BY <2>1
<1> DEFINE P == {k \in Nat : k < m => Len(flat[k]) = k * size}
<1>7. Nat \subseteq P
  <2>1. 0 \in P
    <3>1. Len(flat[0]) = 0 /\ 0 * size = 0
      BY <1>4
    <3> QED
      BY <3>1
  <2>2. ASSUME NEW k \in Nat, k \in P
        PROVE  k + 1 \in P
    <3>1. SUFFICES ASSUME k + 1 < m
                   PROVE  Len(flat[k + 1]) = (k + 1) * size
      OBVIOUS
    <3>2. k + 1 \in 1..m /\ (k + 1) - 1 = k /\ k < m
      BY <3>1
    <3>3. Len(flat[k]) = k * size /\ Len(seqs[k + 1]) = size
      BY <1>2, <2>2, <3>1, <3>2
    <3>4. Len(flat[k + 1]) = k * size + size
      BY <1>6, <3>2, <3>3
    <3> QED
      BY <3>4
  <2>3. Inductive(P)
    BY <2>1, <2>2, Zenon DEF Inductive
  <2> HIDE DEF P
  <2> QED
    BY <2>3, Induction
<1>8. ASSUME NEW k \in 1..m
      PROVE  /\ Len(flat[k - 1]) = (k - 1) * size
             /\ Len(flat[k]) = (k - 1) * size + Len(seqs[k])
  <2>1. k - 1 \in Nat /\ k - 1 < m
    OBVIOUS
  <2>2. Len(flat[k - 1]) = (k - 1) * size
    BY <1>7, <2>1
  <2> QED
    BY <1>6, <2>2
<1>9. PICK n \in Nat : n = Len(flat[m])
  BY <1>5
<1>10. PICK r \in 1..size : r = Len(seqs[m])
  BY <1>2
<1>11. n = (m - 1) * size + r
  <2>1. m \in 1..m
    OBVIOUS
  <2>2. Len(flat[m]) = (m - 1) * size + Len(seqs[m])
    BY <1>8, <2>1, Zenon
  <2> QED
    BY <1>9, <1>10, <2>2
<1>12. Pieces(n, size) = m
  <2>1. n + size - 1 = size * m + (r - 1)
    BY <1>11
  <2>2. r - 1 \in 0..size - 1 /\ m \in Int
    OBVIOUS
  <2>3. (size * m + (r - 1)) \div size = m
    BY <2>2, QuotientAndDigit
  <2> QED
    BY <2>1, <2>3 DEF Pieces
<1>13. ASSUME NEW k \in 1..m
       PROVE  Stop(n, size, k) = (k - 1) * size + Len(seqs[k])
  <2>1. CASE k < m
    <3>1. Stop(n, size, k) = (k - 1) * size + size
      BY <1>12, <2>1, PieceBounds
    <3> QED
      BY <1>2, <2>1, <3>1
  <2>2. CASE ~ (k < m)
    <3>1. k = m
      BY <2>2
    <3>2. Stop(n, size, m) = n
      BY <1>12, PieceBounds
    <3> QED
      BY <1>10, <1>11, <3>1, <3>2
  <2> QED
    BY <2>1, <2>2
<1>14. ASSUME NEW k \in 1..m
       PROVE  SubSeq(flat[m], (k - 1) * size + 1, (k - 1) * size + Len(seqs[k])) = seqs[k]
  <2>1. PICK i \in Nat, j \in Nat : i = (k - 1) * size /\ j = i + Len(seqs[k])
    <3>1. (k - 1) * size \in Nat
      <4>1. k - 1 \in 0..m
        OBVIOUS
      <4>2. Len(flat[k - 1]) \in Nat
        BY <1>5, <4>1
      <4> QED
        BY <1>8, <4>2
    <3>2. PICK a \in Nat : a = (k - 1) * size
      BY <3>1
    <3>3. PICK b \in Nat : b = Len(seqs[k])
      BY <1>2
    <3>4. a + b \in Nat
      OBVIOUS
    <3> QED
      BY <3>2, <3>3, <3>4
  <2>2. i < j /\ Len(flat[k - 1]) = i /\ Len(flat[k]) = j
    BY <1>2, <1>8, <2>1
  <2> DEFINE Q == {x \in Nat : k + x <= m => SubSeq(flat[k + x], i + 1, j) = seqs[k]
                                            /\ Len(flat[k + x]) >= j}
  <2>3. 0 \in Q
    <3>1. flat[k - 1] \in Seq(X) /\ seqs[k] \in Seq(X) /\ seqs[k] # <<>>
      <4>1. k - 1 \in 0..m
        OBVIOUS
      <4>2. Len(seqs[k]) # 0
        BY <1>2
      <4> QED
        BY <1>2, <1>5, <4>1, <4>2, EmptySeq
    <3>2. SubSeq(flat[k - 1] \o seqs[k], Len(flat[k - 1]) + 1, Len(flat[k - 1]) + Len(seqs[k]))
          = seqs[k]
      BY <3>1, PieceAdded
    <3>3. flat[k] = flat[k - 1] \o seqs[k]
      BY <1>4
    <3>4. SubSeq(flat[k], i + 1, j) = seqs[k]
      BY <2>1, <2>2, <3>2, <3>3
    <3>5. k + 0 = k
      OBVIOUS
    <3> QED
      BY <2>2, <3>4, <3>5
  <2>4. ASSUME NEW x \in Nat, x \in Q
        PROVE  x + 1 \in Q
    <3>1. SUFFICES ASSUME k + (x + 1) <= m
                   PROVE  /\ SubSeq(flat[k + (x + 1)], i + 1, j) = seqs[k]
                          /\ Len(flat[k + (x + 1)]) >= j
      OBVIOUS
    <3>2. PICK y \in 0..m : y = k + x /\ y + 1 \in 1..m /\ (y + 1) - 1 = y /\ k + (x + 1) = y + 1
      BY <3>1
    <3>3. SubSeq(flat[y], i + 1, j) = seqs[k] /\ Len(flat[y]) >= j
      BY <2>4, <3>2
    <3>4. flat[y] \in Seq(X) /\ seqs[y + 1] \in Seq(X) /\ seqs[k] \in Seq(X)
      BY <1>2, <1>5, <3>2
    <3>5. flat[y + 1] = flat[y] \o seqs[y + 1]
      BY <1>4, <3>2
    <3>6. SubSeq(flat[y] \o seqs[y + 1], i + 1, j) = seqs[k]
      <4>1. PICK s \in Seq(X), t \in Seq(X), u \in Seq(X) :
                 s = flat[y] /\ t = seqs[y + 1] /\ u = seqs[k]
        BY <3>4
      <4>2. SubSeq(s, i + 1, j) = u /\ j <= Len(s)
        BY <3>3, <4>1
      <4>3. SubSeq(s \o t, i + 1, j) = u
        BY <2>2, <4>2, PieceStays
      <4> QED
        BY <4>1, <4>3, Zenon
    <3>7. Len(flat[y + 1]) = Len(flat[y]) + Len(seqs[y + 1])
      BY <1>6, <3>2
    <3>8. Len(flat[y + 1]) >= j
      <4>1. PICK a \in Nat, b \in Nat : a = Len(flat[y]) /\ b = Len(seqs[y + 1])
        BY <3>4
      <4>2. a >= j /\ Len(flat[y + 1]) = a + b
        BY <3>3, <3>7, <4>1
      <4> QED
        BY <4>2
    <3> QED
      BY <3>2, <3>5, <3>6, <3>8
  <2>5. Nat \subseteq Q
    <3>1. Inductive(Q)
      BY <2>3, <2>4, Zenon DEF Inductive
    <3> HIDE DEF Q
    <3> QED
      BY <3>1, Induction
  <2>6. m - k \in Nat /\ k + (m - k) = m
    OBVIOUS
  <2>7. k + (m - k) <= m => SubSeq(flat[k + (m - k)], i + 1, j) = seqs[k]
    BY <2>5, <2>6
  <2>8. SubSeq(flat[m], i + 1, j) = seqs[k]
    BY <2>6, <2>7
  <2> QED
    BY <2>1, <2>8
<1>15. PICK s \in Seq(X) : s = flat[m]
  BY <1>5
<1>16. PICK cut : cut = Cut(s, size)
  OBVIOUS
<1>17. /\ cut \in [1..m -> Seq(X)]
       /\ \A k \in 1..m : cut[k] = SubSeq(s, (k - 1) * size + 1, Stop(n, size, k))
  <2>1. IsCut(cut, s, size, X)
    BY <1>16, CutUnfolds
  <2>2. Len(s) = n
    BY <1>9, <1>15
  <2> QED
    BY <1>12, <2>1, <2>2, Zenon DEF IsCut
<1>18. \A k \in 1..m : cut[k] = seqs[k]
  BY <1>13, <1>14, <1>15, <1>17, Zenon
<1>19. cut = seqs
  BY <1>2, <1>17, <1>18
<1> QED
  BY <1>1, <1>3, <1>9, <1>10, <1>11, <1>15, <1>16, <1>19

-----------------------------------------------------------------------------
(* OCTET STRING.                                                           *)

Wire == {w \in [constructed : BOOLEAN, fragments : Seq(Seq(Octet))] :
            ~w.constructed => Len(w.fragments) = 1}

\* What an encoding consists of.
LEMMA WireFields ==
    ASSUME NEW w \in Wire
    PROVE  /\ w.constructed \in BOOLEAN /\ w.fragments \in Seq(Seq(Octet))
           /\ w = [constructed |-> w.constructed, fragments |-> w.fragments]
           /\ ~w.constructed => /\ w.fragments[1] \in Seq(Octet)
                                /\ w.fragments = <<w.fragments[1]>>
                                /\ w = Primitive(w.fragments[1])
<1>1. /\ w \in [constructed : BOOLEAN, fragments : Seq(Seq(Octet))]
      /\ ~w.constructed => Len(w.fragments) = 1
  BY DEF Wire
<1>2. /\ w.constructed \in BOOLEAN /\ w.fragments \in Seq(Seq(Octet))
      /\ w = [constructed |-> w.constructed, fragments |-> w.fragments]
  BY <1>1
<1>3. ASSUME ~w.constructed
      PROVE  /\ w.fragments[1] \in Seq(Octet) /\ w.fragments = <<w.fragments[1]>>
             /\ w = Primitive(w.fragments[1])
  <2>1. PICK f \in Seq(Seq(Octet)) : f = w.fragments
    BY <1>2
  <2>2. Len(f) = 1
    BY <1>1, <1>3, <2>1
  <2>3. f[1] \in Seq(Octet) /\ f = <<f[1]>>
    BY <2>2
  <2>4. w.constructed = FALSE
    BY <1>2, <1>3
  <2>5. w = [constructed |-> FALSE, fragments |-> <<f[1]>>]
    BY <1>2, <2>1, <2>3, <2>4, Zenon
  <2> QED
    BY <2>1, <2>3, <2>5, Zenon DEF Primitive
<1> QED
  BY <1>2, <1>3

\* A primitive encoding is one fragment.
LEMMA PrimitiveIsWire ==
    ASSUME NEW octets \in Seq(Octet)
    PROVE  /\ Primitive(octets) \in Wire
           /\ Primitive(octets).constructed = FALSE
           /\ Primitive(octets).fragments = <<octets>>
           /\ Primitive(octets).fragments[1] = octets
<1>1. <<octets>> \in Seq(Seq(Octet)) /\ Len(<<octets>>) = 1 /\ <<octets>>[1] = octets
  OBVIOUS
<1>2. /\ Primitive(octets).constructed = FALSE
      /\ Primitive(octets).fragments = <<octets>>
  BY Zenon DEF Primitive
<1>3. Primitive(octets) \in [constructed : BOOLEAN, fragments : Seq(Seq(Octet))]
  BY <1>1 DEF Primitive
<1>4. Len(Primitive(octets).fragments) = 1
  BY <1>1, <1>2, Zenon
<1>5. Primitive(octets) \in Wire
  BY <1>3, <1>4, Zenon DEF Wire
<1>6. Primitive(octets).fragments[1] = octets
  BY <1>1, <1>2, Zenon
<1> QED
  BY <1>2, <1>5, <1>6

\* A constructed one may have any number.
LEMMA InFragmentsIsWire ==
    ASSUME NEW f \in Seq(Seq(Octet)), NEW w, w = [constructed |-> TRUE, fragments |-> f]
    PROVE  w \in Wire /\ w.constructed = TRUE /\ w.fragments = f
<1>1. w.constructed = TRUE /\ w.fragments = f
  OBVIOUS
<1>2. w \in [constructed : BOOLEAN, fragments : Seq(Seq(Octet))]
  OBVIOUS
<1> QED
  BY <1>1, <1>2, Zenon DEF Wire

\* What is longer than a piece has more than one.
LEMMA MoreThanOnePiece ==
    ASSUME NEW n \in Nat, NEW size \in Nat \ {0}, n > size
    PROVE  Pieces(n, size) > 1
<1>1. PICK m \in Nat : m = Pieces(n, size) /\ n <= m * size
  BY RoundedUp DEF Pieces
<1>2. m # 0
  <2>1. m = 0 => m * size = 0
    OBVIOUS
  <2> QED
    BY <1>1, <2>1
<1>3. m # 1
  <2>1. m = 1 => m * size = size
    OBVIOUS
  <2> QED
    BY <1>1, <2>1
<1> QED
  BY <1>1, <1>2, <1>3

\* What an encoder is told about fragments, given its rules.
ChunksFor(rules, size) ==
    /\ size \in Nat
    /\ rules = "CER" => size = CerSize
    /\ rules = "DER" => size = 0

\* The fragments of a string that is too long for one.
LEMMA LongString ==
    ASSUME NEW X, NEW s \in Seq(X), NEW size \in Nat \ {0}, Len(s) > size
    PROVE  Cut(s, size) \in Seq(Seq(X)) /\ Len(Cut(s, size)) > 1 /\ Even(Cut(s, size), size)
<1>1. PICK cut : cut = Cut(s, size)
  OBVIOUS
<1>2. PICK m : m = Pieces(Len(s), size)
  OBVIOUS
<1>3. /\ cut \in Seq(Seq(X)) /\ Len(cut) = m
      /\ \A k \in 1..m : Len(cut[k]) \in 1..size /\ (k < m => Len(cut[k]) = size)
  BY <1>1, <1>2, CutSizes, Zenon
<1>4. m > 1
  BY <1>2, MoreThanOnePiece
<1>5. cut # <<>>
  BY <1>3, <1>4
<1>6. Even(cut, size)
  BY <1>3, <1>5, Zenon DEF Even
<1> QED
  BY <1>1, <1>3, <1>4, <1>6

\* The CER decoder accepts full fragments and a last one that is not empty.
LEMMA EvenIsAccepted ==
    ASSUME NEW f \in Seq(Seq(Octet)), Len(f) > 1, Even(f, CerSize)
    PROVE  ~ SizesRefused(f)
<1>1. PICK m \in Nat : m = Len(f)
  OBVIOUS
<1>2. DOMAIN f = 1..m /\ m > 1
  BY <1>1
<1>3. \A k \in 1..m : Len(f[k]) \in 1..CerSize /\ (k < m => Len(f[k]) = CerSize)
  BY <1>1, Zenon DEF Even
<1>4. Last(f) = f[m]
  BY <1>1 DEF Last
<1>5. m \in 1..m /\ ~ (m < 2)
  BY <1>2
<1>6. Len(Last(f)) \in 1..CerSize
  BY <1>3, <1>4, <1>5
<1> QED
  BY <1>1, <1>2, <1>3, <1>5, <1>6, Zenon DEF SizesRefused, fragmentSize

\* It accepts no others.
LEMMA AcceptedIsEven ==
    ASSUME NEW f \in Seq(Seq(Octet)), ~ SizesRefused(f)
    PROVE  Len(f) > 1 /\ Even(f, CerSize)
<1>1. PICK m \in Nat : m = Len(f)
  OBVIOUS
<1>2. DOMAIN f = 1..m
  BY <1>1
<1>3. /\ ~ (m < 2)
      /\ \A k \in 1..m : k < m => Len(f[k]) = CerSize
      /\ Len(Last(f)) \in 1..CerSize
  BY <1>1, <1>2, Zenon DEF SizesRefused, fragmentSize
<1>4. Last(f) = f[m]
  BY <1>1 DEF Last
<1>5. CerSize \in 1..CerSize
  BY CerSizeAssumption
<1>6. \A k \in 1..m : Len(f[k]) \in 1..CerSize /\ (k < m => Len(f[k]) = CerSize)
  <2>1. \A k \in 1..m : k < m \/ k = m
    OBVIOUS
  <2> QED
    BY <1>3, <1>4, <1>5, <2>1
<1>7. f # <<>>
  BY <1>1, <1>3
<1> QED
  BY <1>1, <1>3, <1>6, <1>7 DEF Even

\* An OCTET STRING is read as it was written, whatever the chunk size.
LEMMA OctetStringIsRead ==
    ASSUME NEW v \in Seq(Octet), NEW rules, NEW size, ChunksFor(rules, size)
    PROVE  /\ EncodeOctetString(size, v) \in Wire
           /\ DecodeOctetString(rules, EncodeOctetString(size, v)) = {v}
<1>1. size \in Nat /\ (rules = "CER" => size = CerSize) /\ (rules = "DER" => size = 0)
  BY DEF ChunksFor
<1>2. CASE size = 0 \/ Len(v) <= size
  <2>1. EncodeOctetString(size, v) = Primitive(v)
    BY <1>2, Zenon DEF EncodeOctetString
  <2>2. FlattenSeq(<<v>>) = v
    BY FlattenOne
  <2>3. DecodeOctetString(rules, Primitive(v)) = {v}
    BY <2>2, PrimitiveIsWire, Zenon DEF DecodeOctetString
  <2> QED
    BY <2>1, <2>3, PrimitiveIsWire
<1>3. CASE ~ (size = 0 \/ Len(v) <= size)
  <2>1. size \in Nat \ {0} /\ Len(v) > size
    BY <1>1, <1>3
  <2>2. PICK f : f = Cut(v, size)
    OBVIOUS
  <2>3. f \in Seq(Seq(Octet)) /\ Len(f) > 1 /\ Even(f, size)
    BY <2>1, <2>2, LongString
  <2>4. PICK w : w = [constructed |-> TRUE, fragments |-> f]
    OBVIOUS
  <2>5. EncodeOctetString(size, v) = w
    BY <1>3, <2>2, <2>4, Zenon DEF EncodeOctetString
  <2>6. w \in Wire /\ w.constructed = TRUE /\ w.fragments = f
    BY <2>3, <2>4, InFragmentsIsWire
  <2>7. FlattenSeq(f) = v
    BY <2>1, <2>2, CutJoins
  <2>8. rules # "DER" /\ (rules = "CER" => ~ SizesRefused(f))
    BY <1>1, <2>1, <2>3, EvenIsAccepted
  <2>9. DecodeOctetString(rules, w) = {v}
    BY <2>6, <2>7, <2>8, Zenon DEF DecodeOctetString
  <2> QED
    BY <2>5, <2>6, <2>9
<1> QED
  BY <1>2, <1>3

\* The fragments of an octet string are full.
LEMMA OctetStringFills ==
    ASSUME NEW v \in Seq(Octet), NEW size \in Nat, EncodeOctetString(size, v).constructed
    PROVE  /\ size # 0
           /\ EncodeOctetString(size, v).fragments \in Seq(Seq(Octet))
           /\ Len(EncodeOctetString(size, v).fragments) > 1
           /\ Even(EncodeOctetString(size, v).fragments, size)
<1>1. ~ (size = 0 \/ Len(v) <= size)
  <2>1. ASSUME size = 0 \/ Len(v) <= size
        PROVE  FALSE
    <3>1. EncodeOctetString(size, v) = Primitive(v)
      BY <2>1, Zenon DEF EncodeOctetString
    <3> QED
      BY <3>1, PrimitiveIsWire
  <2> QED
    BY <2>1
<1>2. size # 0 /\ Len(v) > size
  BY <1>1
<1>3. EncodeOctetString(size, v) = [constructed |-> TRUE, fragments |-> Cut(v, size)]
  BY <1>1, Zenon DEF EncodeOctetString
<1>4. EncodeOctetString(size, v).fragments = Cut(v, size)
  BY <1>3
<1> QED
  BY <1>2, <1>4, LongString

\* Under CER and DER it is written as it was read, but for one liberty of CER.
LEMMA OctetStringIsWrittenBack ==
    ASSUME NEW w \in Wire, NEW rules \in {"CER", "DER"}, NEW size, ChunksFor(rules, size),
           NEW v, DecodeOctetString(rules, w) = {v},
           ~ (~w.constructed /\ rules = "CER" /\ Len(w.fragments[1]) > CerSize)
    PROVE  EncodeOctetString(size, v) = w
<1>1. size \in Nat /\ (rules = "CER" => size = CerSize) /\ (rules = "DER" => size = 0)
  BY DEF ChunksFor
<1>2. PICK f \in Seq(Seq(Octet)) : f = w.fragments
  BY WireFields
<1>3. /\ ~ (w.constructed /\ (rules = "DER" \/ (rules = "CER" /\ SizesRefused(f))))
      /\ FlattenSeq(f) = v
  <2>1. w.constructed /\ (rules = "DER" \/ (rules = "CER" /\ SizesRefused(f)))
        => DecodeOctetString(rules, w) = {}
    BY <1>2, Zenon DEF DecodeOctetString
  <2>2. ~ (w.constructed /\ (rules = "DER" \/ (rules = "CER" /\ SizesRefused(f))))
        => DecodeOctetString(rules, w) = {FlattenSeq(f)}
    BY <1>2, Zenon DEF DecodeOctetString
  <2> QED
    BY <2>1, <2>2
<1>4. CASE w.constructed
  <2>1. rules = "CER" /\ ~ SizesRefused(f) /\ size = CerSize
    BY <1>1, <1>3, <1>4
  <2>2. Len(f) > 1 /\ Even(f, CerSize)
    BY <2>1, AcceptedIsEven
  <2>3. CerSize \in Nat \ {0}
    BY CerSizeAssumption
  <2>4. Cut(v, CerSize) = f /\ Len(v) = (Len(f) - 1) * CerSize + Len(f[Len(f)])
    BY <1>3, <2>2, <2>3, PiecesComeApart, Zenon
  <2>5. Len(v) > CerSize
    <3>1. PICK m \in Nat, r \in Nat \ {0} : m = Len(f) /\ r = Len(f[Len(f)])
      <4>1. Len(f) \in 1..Len(f)
        BY <2>2
      <4>2. Len(f[Len(f)]) \in 1..CerSize
        BY <2>2, <4>1 DEF Even
      <4> QED
        BY <2>3, <4>2
    <3>2. 1 * CerSize <= (m - 1) * CerSize
      <4>1. m - 1 \in Nat /\ 1 <= m - 1
        BY <2>2, <3>1
      <4> QED
        BY <2>3, <4>1, TimesIsMonotonic
    <3>3. 1 * CerSize = CerSize /\ (m - 1) * CerSize \in Int
      BY <2>3
    <3>4. Len(v) = (m - 1) * CerSize + r
      BY <2>4, <3>1, Zenon
    <3>5. PICK a \in Int : a = (m - 1) * CerSize
      BY <3>3
    <3>6. CerSize <= a
      BY <3>2, <3>3, <3>5, Zenon
    <3>7. Len(v) = a + r
      BY <3>4, <3>5, Zenon
    <3> QED
      BY <2>3, <3>1, <3>6, <3>7
  <2>6. ~ (size = 0 \/ Len(v) <= size)
    <3>1. v \in Seq(Octet)
      BY <1>3, FlattenType
    <3> QED
      BY <2>1, <2>3, <2>5, <3>1
  <2>7. EncodeOctetString(size, v) = [constructed |-> TRUE, fragments |-> f]
    BY <2>1, <2>4, <2>6, Zenon DEF EncodeOctetString
  <2>8. w.constructed = TRUE
    BY <1>4, WireFields
  <2>9. w = [constructed |-> w.constructed, fragments |-> w.fragments]
    BY WireFields
  <2> QED
    BY <1>2, <2>7, <2>8, <2>9, Zenon
<1>5. CASE ~ w.constructed
  <2>1. /\ f[1] \in Seq(Octet) /\ f = <<f[1]>> /\ w = Primitive(f[1])
    BY <1>2, <1>5, WireFields
  <2>2. v = f[1]
    <3>1. PICK o \in Seq(Octet) : o = f[1]
      BY <2>1
    <3>2. f = <<o>>
      BY <2>1, <3>1, Zenon
    <3>3. FlattenSeq(<<o>>) = o
      BY FlattenOne
    <3> QED
      BY <1>3, <3>1, <3>2, <3>3
  <2>3. size = 0 \/ Len(v) <= size
    <3>1. CASE rules = "DER"
      BY <1>1, <3>1
    <3>2. CASE rules = "CER"
      <4>1. ~ (Len(w.fragments[1]) > CerSize)
        BY <1>5, <3>2
      <4>2. w.fragments[1] = v
        BY <1>2, <2>2, Zenon
      <4>3. ~ (Len(v) > CerSize)
        BY <4>1, <4>2, Zenon
      <4>4. Len(v) \in Nat
        BY <2>1, <2>2
      <4> QED
        BY <1>1, <3>2, <4>3, <4>4, CerSizeAssumption
    <3> QED
      BY <3>1, <3>2
  <2>4. EncodeOctetString(size, v) = Primitive(v)
    BY <2>3, Zenon DEF EncodeOctetString
  <2> QED
    BY <2>1, <2>2, <2>4
<1> QED
  BY <1>4, <1>5, WireFields

-----------------------------------------------------------------------------
(* BIT STRING.                                                             *)

Bits == {0, 1}

\* Bits are the digits to the base 2.
LEMMA BitsAreDigits == 0..2 - 1 = Bits
  BY DEF Bits

\* What has no quotient by 256 is an octet.
LEMMA OctetFromQuotient ==
    ASSUME NEW n \in Int
    PROVE  n \div 256 = 0 <=> n \in Octet
  BY DEF Octet

\* Eight halvings are a division by 256.
LEMMA EighthQuotient ==
    ASSUME NEW n \in Int
    PROVE  Quotients(n, 2)[8] = n \div 256
<1>1. PICK p : p = Quotients(n, 2) /\ AreQuotients(p, n, 2)
  BY QuotientsUnfold
<1>2. PICK q : q = Quotients(n, 256) /\ AreQuotients(q, n, 256)
  BY QuotientsUnfold
<1>3. q[1] = p[8 * 1]
  BY <1>1, <1>2, Halvings
<1>4. q[0 + 1] = n \div 256
  BY <1>2, Zenon DEF AreQuotients
<1> QED
  BY <1>1, <1>3, <1>4

\* Eight bits make an octet, and the octet gives them back.
LEMMA EightBits ==
    ASSUME NEW b \in [1..8 -> Bits]
    PROVE  Positional(0, b, 2) \in Octet /\ Digits(Positional(0, b, 2), 2, 8) = b
<1>1. b \in Seq(Bits) /\ Len(b) = 8
  <2>1. DOMAIN b = 1..8 /\ \A i \in 1..8 : b[i] \in Bits
    OBVIOUS
  <2>2. 8 \in Nat
    OBVIOUS
  <2>3. b \in Seq(Bits)
    BY <2>2, SeqDef
  <2> QED
    BY <2>1, <2>3
<1>2. PICK n : n = Positional(0, b, 2)
  OBVIOUS
<1>3. n \in Int /\ Digits(n, 2, 8) = b /\ Quotients(n, 2)[8] = 0
  <2>1. PICK base \in Nat \ {0} : base = 2
    OBVIOUS
  <2>2. b \in Seq(0..base - 1)
    BY <1>1, <2>1, BitsAreDigits, Zenon
  <2>3. PICK zero \in Int : zero = 0
    OBVIOUS
  <2>4. /\ Positional(zero, b, base) \in Int
        /\ Digits(Positional(zero, b, base), base, Len(b)) = b
        /\ Quotients(Positional(zero, b, base), base)[Len(b)] = zero
    BY <2>2, TakenApart
  <2> QED
    BY <1>1, <1>2, <2>1, <2>3, <2>4, Zenon
<1> QED
  BY <1>2, <1>3, EighthQuotient, OctetFromQuotient

\* An octet's bits make it up.
LEMMA BitsOfOctet ==
    ASSUME NEW o \in Octet
    PROVE  Digits(o, 2, 8) \in [1..8 -> Bits] /\ Positional(0, Digits(o, 2, 8), 2) = o
<1>1. o \in Int /\ Quotients(o, 2)[8] = 0
  BY EighthQuotient, OctetFromQuotient DEF Octet
<1>2. Positional(Quotients(o, 2)[8], Digits(o, 2, 8), 2) = o
  BY <1>1, Reassembled
<1>3. AreDigits(Digits(o, 2, 8), Quotients(o, 2), 2, 8)
  BY <1>1, DigitsUnfold
<1> QED
  BY <1>1, <1>2, <1>3, BitsAreDigits DEF AreDigits

\* octets is a primitive encoding of bits, with the unused bits zero.
BitsIn(octets, bits) ==
    /\ octets \in Seq(Octet) /\ octets # <<>> /\ octets[1] \in 0..7
    /\ Len(bits) = 8 * (Len(octets) - 1) - octets[1]
    /\ \A k \in 1..Len(octets) - 1 : \A i \in 1..8 :
          Digits(octets[k + 1], 2, 8)[i]
              = IF 8 * (k - 1) + i <= Len(bits) THEN bits[8 * (k - 1) + i] ELSE 0

\* The k-th octet's bits.
EightOf(bits, k) ==
    [i \in 1..8 |-> IF 8 * (k - 1) + i <= Len(bits) THEN bits[8 * (k - 1) + i] ELSE 0]

\* The bits of an octet that the string does not fill are zero.
LEMMA EightOfBits ==
    ASSUME NEW bits \in Seq(Bits), NEW k \in Nat \ {0}
    PROVE  EightOf(bits, k) \in [1..8 -> Bits]
<1>1. ASSUME NEW i \in 1..8
      PROVE  (IF 8 * (k - 1) + i <= Len(bits) THEN bits[8 * (k - 1) + i] ELSE 0) \in Bits
  BY DEF Bits
<1> QED
  BY <1>1 DEF EightOf

\* The first octet counts the unused bits, the rest hold eight each.
LEMMA BitsPrimitiveUnfolds ==
    ASSUME NEW bits
    PROVE  BitsPrimitive(bits)
               = <<((Len(bits) + 7) \div 8) * 8 - Len(bits)>>
                 \o [k \in 1..(Len(bits) + 7) \div 8 |-> Positional(0, EightOf(bits, k), 2)]
  BY Zenon DEF BitsPrimitive, EightOf

\* A primitive encoding holds the bits.
LEMMA BitsAreWritten ==
    ASSUME NEW bits \in Seq(Bits)
    PROVE  /\ BitsIn(BitsPrimitive(bits), bits)
           /\ Len(BitsPrimitive(bits)) = 1 + (Len(bits) + 7) \div 8
<1>1. PICK size \in Nat : /\ size = (Len(bits) + 7) \div 8
                          /\ size * 8 - Len(bits) \in 0..7
  <2>1. Len(bits) \in Nat
    OBVIOUS
  <2>2. PICK n \in Nat : n = Len(bits)
    BY <2>1
  <2>3. (n + 7) \div 8 \in Nat /\ ((n + 7) \div 8) * 8 - n \in 0..7
    OBVIOUS
  <2> QED
    BY <2>2, <2>3, Zenon
<1> DEFINE first == size * 8 - Len(bits)
           rest == [k \in 1..size |-> Positional(0, EightOf(bits, k), 2)]
           octets == <<first>> \o rest
<1>2. octets = BitsPrimitive(bits)
  BY <1>1, BitsPrimitiveUnfolds, Zenon
<1>3. \A k \in 1..size : EightOf(bits, k) \in [1..8 -> Bits]
  BY EightOfBits
<1>4. \A k \in 1..size : rest[k] \in Octet /\ Digits(rest[k], 2, 8) = EightOf(bits, k)
  BY <1>3, EightBits
<1>5. rest \in Seq(Octet) /\ Len(rest) = size
  BY <1>4
<1>6. first \in 0..7 /\ first \in Octet
  BY <1>1 DEF Octet
<1> HIDE DEF rest, first
<1>7. /\ octets \in Seq(Octet) /\ Len(octets) = 1 + size /\ octets[1] = first
      /\ \A k \in 1..size : octets[k + 1] = rest[k]
  BY <1>5, <1>6
<1> HIDE DEF octets
<1>8. octets # <<>> /\ Len(bits) = 8 * (Len(octets) - 1) - octets[1]
  BY <1>7, <1>1 DEF first
<1>9. ASSUME NEW k \in 1..Len(octets) - 1, NEW i \in 1..8
      PROVE  Digits(octets[k + 1], 2, 8)[i]
              = IF 8 * (k - 1) + i <= Len(bits) THEN bits[8 * (k - 1) + i] ELSE 0
  <2>1. k \in 1..size
    BY <1>7
  <2>2. Digits(octets[k + 1], 2, 8) = EightOf(bits, k)
    BY <1>4, <1>7, <2>1, Zenon
  <2> QED
    BY <2>2, Zenon DEF EightOf
<1>10. BitsIn(octets, bits)
  BY <1>6, <1>7, <1>8, <1>9 DEF BitsIn
<1> QED
  BY <1>1, <1>2, <1>7, <1>10

\* What holds them is read as these bits and not refused.
LEMMA BitsAreRead ==
    ASSUME NEW bits \in Seq(Bits), NEW octets, BitsIn(octets, bits)
    PROVE  SegmentBits(octets) = bits /\ ~ SegmentRefused(octets) /\ ~ UnusedBitsSet(octets)
<1>1. PICK size \in Nat, first \in 0..7 : first = octets[1] /\ Len(octets) = size + 1
  <2>1. octets \in Seq(Octet) /\ octets # <<>> /\ octets[1] \in 0..7
    BY DEF BitsIn
  <2>2. Len(octets) - 1 \in Nat /\ Len(octets) = (Len(octets) - 1) + 1
    BY <2>1
  <2> QED
    BY <2>1, <2>2, Zenon
<1>2. Len(bits) = 8 * size - first
  BY <1>1 DEF BitsIn
<1>3. ~ SegmentRefused(octets)
  BY <1>1, <1>2 DEF SegmentRefused, BitsIn
<1>4. ASSUME NEW i \in 1..Len(bits)
      PROVE  Digits(octets[(i + 7) \div 8 + 1], 2, 8)[((i - 1) % 8) + 1] = bits[i]
  <2>1. PICK k \in 1..size, j \in 1..8 :
            k = (i + 7) \div 8 /\ j = ((i - 1) % 8) + 1 /\ 8 * (k - 1) + j = i
    BY <1>2
  <2>2. k \in 1..Len(octets) - 1
    BY <1>1
  <2>3. Digits(octets[k + 1], 2, 8)[j]
            = IF 8 * (k - 1) + j <= Len(bits) THEN bits[8 * (k - 1) + j] ELSE 0
    BY <2>2, Zenon DEF BitsIn
  <2> QED
    BY <2>1, <2>3
<1>5. SegmentBits(octets) = bits
  <2>1. 8 * (Len(octets) - 1) - octets[1] = Len(bits)
    BY <1>1, <1>2
  <2>2. SegmentBits(octets)
            = [i \in 1..Len(bits) |->
                  Digits(octets[(i + 7) \div 8 + 1], 2, 8)[((i - 1) % 8) + 1]]
    BY <2>1, Zenon DEF SegmentBits
  <2>3. SegmentBits(octets) = [i \in 1..Len(bits) |-> bits[i]]
    BY <1>4, <2>2, Zenon
  <2> QED
    BY <2>3
<1>6. ~ UnusedBitsSet(octets)
  <2> SUFFICES ASSUME UnusedBitsSet(octets) PROVE FALSE
    OBVIOUS
  <2>1. PICK i \in 8 - octets[1] + 1..8 : Digits(Last(octets), 2, 8)[i] = 1
    BY DEF UnusedBitsSet
  <2>2. size \in 1..Len(octets) - 1 /\ i \in 1..8 /\ Last(octets) = octets[size + 1]
    BY <1>1, <2>1 DEF UnusedBitsSet, Last
  <2>3. Digits(octets[size + 1], 2, 8)[i]
            = IF 8 * (size - 1) + i <= Len(bits) THEN bits[8 * (size - 1) + i] ELSE 0
    BY <2>2, Zenon DEF BitsIn
  <2>4. ~ (8 * (size - 1) + i <= Len(bits))
    BY <1>1, <1>2, <2>1, <2>2
  <2> QED
    BY <2>1, <2>2, <2>3, <2>4
<1> QED
  BY <1>3, <1>5, <1>6

\* A sequence has a length.
LEMMA LengthIsNatural == \A X : \A s \in Seq(X) : Len(s) \in Nat
  OBVIOUS

\* There is one primitive encoding of the bits with the unused ones zero.
LEMMA BitsAreWrittenBack ==
    ASSUME NEW bits \in Seq(Bits), NEW octets, BitsIn(octets, bits)
    PROVE  BitsPrimitive(bits) = octets
<1>1. BitsIn(BitsPrimitive(bits), bits)
  BY BitsAreWritten
<1>2. PICK other : other = BitsPrimitive(bits)
  OBVIOUS
<1>3. /\ Len(other) = Len(octets) /\ other[1] = octets[1]
      /\ other \in Seq(Octet) /\ octets \in Seq(Octet)
      /\ \A k \in 1..Len(octets) : octets[k] \in Octet /\ other[k] \in Octet
  <2>1. /\ octets \in Seq(Octet) /\ octets # <<>> /\ octets[1] \in 0..7
        /\ other \in Seq(Octet) /\ other # <<>> /\ other[1] \in 0..7
    BY <1>1, <1>2 DEF BitsIn
  <2>2. PICK x \in 0..7, y \in 0..7, m \in Nat, n \in Nat :
            x = octets[1] /\ y = other[1] /\ m = Len(octets) /\ n = Len(other)
    BY <2>1, Zenon, LengthIsNatural
  <2>3. 8 * (m - 1) - x = 8 * (n - 1) - y
    BY <1>1, <1>2, <2>2, Zenon DEF BitsIn
  <2>4. m = n /\ x = y
    BY <2>3
  <2>5. \A k \in 1..Len(octets) : octets[k] \in Octet
    BY <2>1
  <2>6. \A k \in 1..Len(other) : other[k] \in Octet
    BY <2>1
  <2> QED
    BY <2>1, <2>2, <2>4, <2>5, <2>6, Zenon
<1>4. ASSUME NEW k \in 1..Len(octets)
      PROVE  other[k] = octets[k]
  <2>1. CASE k = 1
    BY <1>3, <2>1
  <2>2. CASE k # 1
    <3>1. PICK j \in 1..Len(octets) - 1 : j + 1 = k
      BY <1>3, <2>2
    <3>2. \A i \in 1..8 : Digits(octets[j + 1], 2, 8)[i] = Digits(other[j + 1], 2, 8)[i]
      BY <1>1, <1>2, <1>3, Zenon DEF BitsIn
    <3>3. Digits(octets[k], 2, 8) \in [1..8 -> Bits] /\ Digits(other[k], 2, 8) \in [1..8 -> Bits]
      BY <1>3, BitsOfOctet
    <3>4. Digits(octets[k], 2, 8) = Digits(other[k], 2, 8)
      BY <3>1, <3>2, <3>3
    <3> QED
      BY <1>3, <3>4, BitsOfOctet
  <2> QED
    BY <2>1, <2>2
<1> QED
  BY <1>2, <1>3, <1>4

\* A segment that is not refused holds bits.
LEMMA BitsOfSegment ==
    ASSUME NEW octets \in Seq(Octet), ~ SegmentRefused(octets)
    PROVE  /\ SegmentBits(octets) \in Seq(Bits)
           /\ ~ UnusedBitsSet(octets) => BitsIn(octets, SegmentBits(octets))
<1>1. PICK size \in Nat, first \in 0..7 :
          /\ first = octets[1] /\ Len(octets) = size + 1
          /\ 8 * (Len(octets) - 1) - octets[1] = 8 * size - first
          /\ 8 * size - first \in Nat
  <2>1. /\ octets # <<>> /\ octets[1] \in 0..7 /\ Len(octets) \in Nat \ {0}
        /\ Len(octets) = 1 => octets[1] = 0
    <3>1. octets # <<>> /\ ~ (octets[1] > 7) /\ ~ (Len(octets) = 1 /\ octets[1] # 0)
      BY Zenon DEF SegmentRefused
    <3>2. Len(octets) \in Nat \ {0} /\ 1 \in 1..Len(octets)
      BY <3>1
    <3>3. octets[1] \in Octet
      BY <3>2
    <3>4. octets[1] \in 0..7
      <4>1. PICK n \in Octet : n = octets[1]
        BY <3>3
      <4>2. ~ (n > 7)
        BY <3>1, <4>1, Zenon
      <4>3. n \in 0..7
        BY <4>2 DEF Octet
      <4> QED
        BY <4>1, <4>3, Zenon
    <3> QED
      BY <3>1, <3>2, <3>4
  <2>2. PICK n \in Nat \ {0}, first \in 0..7 : n = Len(octets) /\ first = octets[1]
    BY <2>1
  <2>3. PICK size \in Nat : n = size + 1
    <3>1. n - 1 \in Nat /\ n = (n - 1) + 1
      OBVIOUS
    <3> QED
      BY <3>1
  <2>4. /\ 8 * (n - 1) - first = 8 * size - first /\ 8 * size - first \in Nat
    BY <2>1, <2>2, <2>3
  <2> QED
    BY <2>2, <2>3, <2>4, Zenon
<1>2. PICK length \in Nat : length = 8 * size - first
  BY <1>1
<1> DEFINE bits == SegmentBits(octets)
<1>3. bits = [i \in 1..length |->
                 Digits(octets[(i + 7) \div 8 + 1], 2, 8)[((i - 1) % 8) + 1]]
  BY <1>1, <1>2, Zenon DEF SegmentBits
<1>4. \A k \in 1..Len(octets) : Digits(octets[k], 2, 8) \in [1..8 -> Bits]
  BY BitsOfOctet
<1>5. ASSUME NEW i \in 1..length
      PROVE  Digits(octets[(i + 7) \div 8 + 1], 2, 8)[((i - 1) % 8) + 1] \in Bits
  <2>1. (i + 7) \div 8 + 1 \in 1..Len(octets) /\ ((i - 1) % 8) + 1 \in 1..8
    BY <1>1, <1>2
  <2> QED
    BY <1>4, <2>1
<1>6. bits \in Seq(Bits) /\ Len(bits) = length
  BY <1>3, <1>5
<1>7. ASSUME ~ UnusedBitsSet(octets), NEW k \in 1..Len(octets) - 1, NEW i \in 1..8
      PROVE  Digits(octets[k + 1], 2, 8)[i]
                 = IF 8 * (k - 1) + i <= Len(bits) THEN bits[8 * (k - 1) + i] ELSE 0
  <2>1. PICK j \in Nat : j = 8 * (k - 1) + i
    OBVIOUS
  <2>2. CASE j <= length
    <3>1. j \in 1..length /\ (j + 7) \div 8 = k /\ ((j - 1) % 8) + 1 = i
      BY <2>1, <2>2
    <3>2. bits[j] = Digits(octets[(j + 7) \div 8 + 1], 2, 8)[((j - 1) % 8) + 1]
      BY <1>3, <3>1, Zenon
    <3> QED
      BY <1>6, <2>1, <2>2, <3>1, <3>2
  <2>3. CASE ~ (j <= length)
    <3>1. k = size /\ i \in 8 - first + 1..8 /\ Len(octets) > 1
      BY <1>1, <1>2, <2>1, <2>3
    <3>2. Last(octets) = octets[k + 1]
      BY <1>1, <3>1 DEF Last
    <3>3. Digits(Last(octets), 2, 8)[i] # 1
      BY <1>1, <1>7, <3>1 DEF UnusedBitsSet
    <3>4. k + 1 \in 1..Len(octets)
      BY <1>1
    <3>5. Digits(octets[k + 1], 2, 8)[i] \in Bits
      BY <1>4, <3>4
    <3> QED
      BY <1>6, <2>1, <2>3, <3>2, <3>3, <3>5 DEF Bits
  <2> QED
    BY <2>2, <2>3
<1>8. octets # <<>> /\ octets[1] \in 0..7 /\ Len(bits) = 8 * (Len(octets) - 1) - octets[1]
  BY <1>1, <1>2, <1>6
<1> HIDE DEF bits
<1>9. ~ UnusedBitsSet(octets) => BitsIn(octets, bits)
  BY <1>7, <1>8 DEF BitsIn
<1> QED
  BY <1>6, <1>9 DEF bits

\* How many octets of bits a fragment of size octets has.
ChunkOctets(size) == IF size > 2 THEN size - 1 ELSE 1

\* A fragment has room for whole octets.
LEMMA ChunkBitsAreOctets ==
    ASSUME NEW size \in Nat
    PROVE  /\ ChunkBits(size) = ChunkOctets(size) * 8
           /\ ChunkOctets(size) \in Nat \ {0} /\ ChunkBits(size) \in Nat \ {0}
           /\ size > 1 => ChunkOctets(size) = size - 1
  BY DEF ChunkBits, ChunkOctets

\* A string needs more than c octets if it has more than c * 8 bits.
LEMMA Aligned ==
    ASSUME NEW n \in Nat, NEW c \in Nat
    PROVE  8 * ((n + 7) \div 8) <= c * 8 <=> n <= c * 8
  OBVIOUS

\* The form EncodeBitString takes.
LEMMA BitStringIsWritten ==
    ASSUME NEW bits \in Seq(Bits), NEW size \in Nat
    PROVE  IF size = 0 \/ Len(bits) <= ChunkBits(size)
           THEN EncodeBitString(size, bits) = Primitive(BitsPrimitive(bits))
           ELSE EncodeBitString(size, bits)
                    = [constructed |-> TRUE,
                       fragments |-> [k \in DOMAIN Cut(bits, ChunkBits(size)) |->
                                         BitsPrimitive(Cut(bits, ChunkBits(size))[k])]]
<1>1. PICK n \in Nat : n = Len(bits)
  BY LengthIsNatural
<1>2. PICK c \in Nat : c = ChunkOctets(size) /\ ChunkBits(size) = c * 8
  BY ChunkBitsAreOctets
<1>3. 8 * ((n + 7) \div 8) <= c * 8 <=> n <= c * 8
  BY Aligned
<1>4. 8 * ((Len(bits) + 7) \div 8) <= ChunkBits(size) <=> Len(bits) <= ChunkBits(size)
  BY <1>1, <1>2, <1>3, Zenon
<1> QED
  BY <1>4, Zenon DEF EncodeBitString

\* The fragments of a BIT STRING that is too long for one.
LEMMA LongBitString ==
    ASSUME NEW bits \in Seq(Bits), NEW size \in Nat, Len(bits) > ChunkBits(size),
           NEW f, f = [k \in DOMAIN Cut(bits, ChunkBits(size)) |->
                          BitsPrimitive(Cut(bits, ChunkBits(size))[k])]
    PROVE  /\ f \in Seq(Seq(Octet)) /\ Len(f) > 1
           /\ Cut(bits, ChunkBits(size)) \in Seq(Seq(Bits))
           /\ Len(f) = Len(Cut(bits, ChunkBits(size)))
           /\ \A k \in 1..Len(f) :
                 /\ Cut(bits, ChunkBits(size))[k] \in Seq(Bits)
                 /\ f[k] = BitsPrimitive(Cut(bits, ChunkBits(size))[k])
                 /\ BitsIn(f[k], Cut(bits, ChunkBits(size))[k])
                 /\ Len(f[k]) \in 2..ChunkOctets(size) + 1
                 /\ k < Len(f) => Len(f[k]) = ChunkOctets(size) + 1
<1>1. PICK c \in Nat \ {0} : c = ChunkOctets(size) /\ ChunkBits(size) = c * 8
  BY ChunkBitsAreOctets
<1>2. PICK chunk \in Nat \ {0} : chunk = ChunkBits(size) /\ chunk = c * 8
  BY <1>1, ChunkBitsAreOctets
<1>3. PICK cut : cut = Cut(bits, chunk)
  OBVIOUS
<1>4. /\ cut \in Seq(Seq(Bits)) /\ Len(cut) > 1 /\ Even(cut, chunk)
  BY <1>2, <1>3, LongString
<1>5. PICK n \in Nat : n = Len(cut) /\ n > 1 /\ DOMAIN cut = 1..n
  BY <1>4
<1>6. f = [k \in 1..n |-> BitsPrimitive(cut[k])]
  BY <1>2, <1>3, <1>5, Zenon
<1>7. ASSUME NEW k \in 1..n
      PROVE  /\ cut[k] \in Seq(Bits) /\ BitsIn(BitsPrimitive(cut[k]), cut[k])
             /\ BitsPrimitive(cut[k]) \in Seq(Octet)
             /\ Len(BitsPrimitive(cut[k])) \in 2..c + 1
             /\ k < n => Len(BitsPrimitive(cut[k])) = c + 1
  <2>1. PICK s \in Seq(Bits) : s = cut[k]
    BY <1>4, <1>5
  <2>2. BitsIn(BitsPrimitive(s), s) /\ Len(BitsPrimitive(s)) = 1 + (Len(s) + 7) \div 8
    BY BitsAreWritten
  <2>3. PICK m \in Nat : m = Len(s)
    BY LengthIsNatural
  <2>4. m \in 1..chunk /\ (k < n => m = chunk)
    BY <1>4, <1>5, <2>1, <2>3 DEF Even
  <2>5. 1 + (m + 7) \div 8 \in 2..c + 1 /\ (k < n => 1 + (m + 7) \div 8 = c + 1)
    BY <1>2, <2>4
  <2>6. BitsPrimitive(s) \in Seq(Octet)
    BY <2>2 DEF BitsIn
  <2> QED
    BY <2>1, <2>2, <2>3, <2>5, <2>6
<1>8. f \in Seq(Seq(Octet)) /\ Len(f) = n
  <2>1. \A k \in 1..n : BitsPrimitive(cut[k]) \in Seq(Octet)
    BY <1>7
  <2>2. f \in [1..n -> Seq(Octet)]
    BY <1>6, <2>1, Zenon
  <2> QED
    BY <2>2
<1>9. \A k \in 1..n : f[k] = BitsPrimitive(cut[k])
  BY <1>6
<1> HIDE DEF Even
<1> QED
  BY <1>1, <1>2, <1>3, <1>4, <1>5, <1>7, <1>8, <1>9, Zenon

\* What is read of fragments none of which is refused.
LEMMA FragmentsAreRead ==
    ASSUME NEW f \in Seq(Seq(Octet)), \A k \in 1..Len(f) : ~ SegmentRefused(f[k]),
           NEW cut \in Seq(Seq(Bits)), Len(cut) = Len(f),
           \A k \in 1..Len(f) : SegmentBits(f[k]) = cut[k]
    PROVE  [k \in DOMAIN f |-> SegmentBits(f[k])] = cut
  OBVIOUS

\* A BIT STRING is read as it was written, whatever the chunk size.
LEMMA BitStringIsRead ==
    ASSUME NEW v \in Seq(Bits), NEW rules, NEW size, ChunksFor(rules, size)
    PROVE  /\ EncodeBitString(size, v) \in Wire
           /\ DecodeBitString(rules, EncodeBitString(size, v)) = {v}
<1>1. size \in Nat /\ (rules = "DER" => size = 0)
  BY DEF ChunksFor
<1>2. PICK w : w = EncodeBitString(size, v)
  OBVIOUS
<1>3. CASE size = 0 \/ Len(v) <= ChunkBits(size)
  <2>1. PICK o : o = BitsPrimitive(v)
    OBVIOUS
  <2>2. BitsIn(o, v) /\ o \in Seq(Octet)
    BY <2>1, BitsAreWritten DEF BitsIn
  <2>3. SegmentBits(o) = v /\ ~ SegmentRefused(o) /\ ~ UnusedBitsSet(o)
    BY <2>2, BitsAreRead
  <2>4. w = Primitive(o)
    BY <1>1, <1>2, <1>3, <2>1, BitStringIsWritten, Zenon
  <2>5. w \in Wire /\ w.constructed = FALSE /\ w.fragments = <<o>> /\ w.fragments[1] = o
    BY <2>2, <2>4, PrimitiveIsWire, Zenon
  <2>6. DOMAIN w.fragments = {1}
    BY <2>5
  <2>7. [k \in DOMAIN w.fragments |-> SegmentBits(w.fragments[k])] = <<v>>
    <3>1. [k \in DOMAIN w.fragments |-> SegmentBits(w.fragments[k])] = [k \in {1} |-> v]
      BY <2>3, <2>5, <2>6
    <3>2. [k \in {1} |-> v] = <<v>>
      OBVIOUS
    <3> QED
      BY <3>1, <3>2
  <2>8. ~ \E k \in DOMAIN w.fragments : SegmentRefused(w.fragments[k])
    BY <2>3, <2>5, <2>6, Zenon
  <2>9. DecodeBitString(rules, w) = {FlattenSeq(<<v>>)}
    BY <2>3, <2>5, <2>7, <2>8, Zenon DEF DecodeBitString
  <2> QED
    BY <1>2, <2>5, <2>9, FlattenOne
<1>4. CASE ~ (size = 0 \/ Len(v) <= ChunkBits(size))
  <2>1. PICK cut, f : /\ cut = Cut(v, ChunkBits(size))
                      /\ f = [k \in DOMAIN Cut(v, ChunkBits(size)) |->
                                 BitsPrimitive(Cut(v, ChunkBits(size))[k])]
    OBVIOUS
  <2>2. Len(v) > ChunkBits(size) /\ ChunkBits(size) \in Nat \ {0}
    BY <1>1, <1>4, ChunkBitsAreOctets, LengthIsNatural
  <2>3. /\ f \in Seq(Seq(Octet)) /\ cut \in Seq(Seq(Bits)) /\ Len(f) = Len(cut)
        /\ \A k \in 1..Len(f) : cut[k] \in Seq(Bits) /\ BitsIn(f[k], cut[k])
    BY <1>1, <2>1, <2>2, LongBitString, Zenon
  <2>4. \A k \in 1..Len(f) : SegmentBits(f[k]) = cut[k] /\ ~ SegmentRefused(f[k])
    BY <2>3, BitsAreRead, Zenon
  <2>5. [k \in DOMAIN f |-> SegmentBits(f[k])] = cut
    BY <2>3, <2>4, FragmentsAreRead, Zenon
  <2>6. w = [constructed |-> TRUE, fragments |-> f]
    BY <1>1, <1>2, <1>4, <2>1, BitStringIsWritten, Zenon
  <2>7. w \in Wire /\ w.constructed = TRUE /\ w.fragments = f
    BY <2>3, <2>6, InFragmentsIsWire, Zenon
  <2>8. ~ \E k \in DOMAIN f : SegmentRefused(f[k])
    <3>1. DOMAIN f = 1..Len(f)
      BY <2>3
    <3> QED
      BY <2>4, <3>1, Zenon
  <2>9. rules # "DER"
    BY <1>1, <1>4
  <2>10. DecodeBitString(rules, w) = {FlattenSeq(cut)}
    BY <2>5, <2>7, <2>8, <2>9, Zenon DEF DecodeBitString
  <2> QED
    BY <1>2, <2>1, <2>2, <2>7, <2>10, CutJoins, Zenon
<1> QED
  BY <1>3, <1>4

\* Its fragments are full, but the last, with the octet that counts the unused bits.
LEMMA BitStringFills ==
    ASSUME NEW v \in Seq(Bits), NEW size \in Nat, EncodeBitString(size, v).constructed
    PROVE  LET f == EncodeBitString(size, v).fragments
           IN  /\ f \in Seq(Seq(Octet)) /\ Len(f) > 1
               /\ size > 1 => \A k \in 1..Len(f) : /\ Len(f[k]) \in 2..size
                                                   /\ k < Len(f) => Len(f[k]) = size
<1>1. PICK w : w = EncodeBitString(size, v)
  OBVIOUS
<1>2. ~ (size = 0 \/ Len(v) <= ChunkBits(size))
  <2> SUFFICES ASSUME size = 0 \/ Len(v) <= ChunkBits(size) PROVE FALSE
    OBVIOUS
  <2>1. w = Primitive(BitsPrimitive(v))
    BY <1>1, BitStringIsWritten, Zenon
  <2>2. BitsPrimitive(v) \in Seq(Octet)
    BY BitsAreWritten DEF BitsIn
  <2>3. w.constructed = FALSE
    BY <2>1, <2>2, PrimitiveIsWire, Zenon
  <2> QED
    BY <1>1, <2>3
<1>3. PICK cut, f : /\ cut = Cut(v, ChunkBits(size))
                    /\ f = [k \in DOMAIN Cut(v, ChunkBits(size)) |->
                               BitsPrimitive(Cut(v, ChunkBits(size))[k])]
  OBVIOUS
<1>4. Len(v) > ChunkBits(size) /\ ChunkBits(size) \in Nat \ {0}
  BY <1>2, ChunkBitsAreOctets, LengthIsNatural
<1>5. /\ f \in Seq(Seq(Octet)) /\ Len(f) > 1
      /\ \A k \in 1..Len(f) : /\ Len(f[k]) \in 2..ChunkOctets(size) + 1
                              /\ k < Len(f) => Len(f[k]) = ChunkOctets(size) + 1
  <2>1. f \in Seq(Seq(Octet)) /\ Len(f) > 1
    BY <1>3, <1>4, LongBitString, Zenon
  <2>2. ASSUME NEW k \in 1..Len(f)
        PROVE  Len(f[k]) \in 2..ChunkOctets(size) + 1
    BY <1>3, <1>4, LongBitString, Zenon
  <2>3. ASSUME NEW k \in 1..Len(f), k < Len(f)
        PROVE  Len(f[k]) = ChunkOctets(size) + 1
    <3>1. \A j \in 1..Len(f) : j < Len(f) => Len(f[j]) = ChunkOctets(size) + 1
      BY <1>3, <1>4, LongBitString
    <3> QED
      BY <2>3, <3>1, Zenon
  <2> QED
    BY <2>1, <2>2, <2>3, Zenon
<1>6. w = [constructed |-> TRUE, fragments |-> f]
  BY <1>1, <1>2, <1>3, BitStringIsWritten, Zenon
<1>7. w.fragments = f
  BY <1>6
<1>8. size > 1 => ChunkOctets(size) + 1 = size
  BY ChunkBitsAreOctets
<1>9. size > 1 => \A k \in 1..Len(f) : /\ Len(f[k]) \in 2..size
                                       /\ k < Len(f) => Len(f[k]) = size
  BY <1>5, <1>8, Zenon
<1> QED
  BY <1>1, <1>5, <1>7, <1>9, Zenon

\* A primitive one is written as it was read, but for one liberty of CER.
LEMMA BitStringIsWrittenBack ==
    ASSUME NEW w \in Wire, NEW rules \in {"CER", "DER"}, NEW size, ChunksFor(rules, size),
           NEW v, DecodeBitString(rules, w) = {v}, ~ w.constructed,
           rules = "CER" => Len(w.fragments[1]) <= CerSize
    PROVE  EncodeBitString(size, v) = w
<1>1. size \in Nat /\ (rules = "CER" => size = CerSize) /\ (rules = "DER" => size = 0)
  BY DEF ChunksFor
<1>2. PICK o \in Seq(Octet) : /\ o = w.fragments[1] /\ w.fragments = <<o>> /\ w = Primitive(o)
  BY WireFields, Zenon
<1>3. DOMAIN w.fragments = {1} /\ 1 \in DOMAIN w.fragments
  BY <1>2
<1>4. ~ SegmentRefused(o) /\ ~ UnusedBitsSet(o)
  <2>1. rules # "BER"
    OBVIOUS
  <2> QED
    BY <1>2, <1>3, <2>1, Zenon DEF DecodeBitString
<1>5. SegmentBits(o) \in Seq(Bits) /\ BitsIn(o, SegmentBits(o))
  BY <1>4, BitsOfSegment
<1>6. v = SegmentBits(o)
  <2>1. [k \in DOMAIN w.fragments |-> SegmentBits(w.fragments[k])] = <<SegmentBits(o)>>
    <3>1. [k \in DOMAIN w.fragments |-> SegmentBits(w.fragments[k])]
              = [k \in {1} |-> SegmentBits(o)]
      BY <1>2, <1>3
    <3>2. [k \in {1} |-> SegmentBits(o)] = <<SegmentBits(o)>>
      OBVIOUS
    <3> QED
      BY <3>1, <3>2
  <2>2. FlattenSeq(<<SegmentBits(o)>>) = SegmentBits(o)
    BY <1>5, FlattenOne
  <2>3. DecodeBitString(rules, w) = {SegmentBits(o)}
    <3>1. ~ \E k \in DOMAIN w.fragments : SegmentRefused(w.fragments[k])
      BY <1>2, <1>3, <1>4, Zenon
    <3> QED
      BY <1>2, <1>4, <2>1, <2>2, <3>1, Zenon DEF DecodeBitString
  <2> QED
    BY <2>3
<1>7. size = 0 \/ Len(v) <= ChunkBits(size)
  <2>1. CASE rules = "DER"
    BY <1>1, <2>1
  <2>2. CASE rules = "CER"
    <3>1. o # <<>> /\ o[1] \in 0..7 /\ Len(v) = 8 * (Len(o) - 1) - o[1]
      BY <1>5, <1>6, Zenon DEF BitsIn
    <3>2. PICK n \in Nat, first \in 0..7 : n = Len(o) /\ first = o[1]
      BY <3>1, LengthIsNatural
    <3>3. n <= size
      BY <1>1, <1>2, <2>2, <3>2
    <3>4. PICK c \in Nat : c = ChunkOctets(size) /\ ChunkBits(size) = c * 8
      BY <1>1, ChunkBitsAreOctets
    <3>5. size > 1 => c = size - 1
      BY <1>1, <3>4, ChunkBitsAreOctets
    <3>6. size > 1
      BY <1>1, <2>2, CerSizeAssumption
    <3>7. Len(v) = 8 * (n - 1) - first
      BY <3>1, <3>2, Zenon
    <3>8. 8 * (n - 1) - first <= c * 8
      BY <1>1, <3>3, <3>5, <3>6
    <3> QED
      BY <3>4, <3>7, <3>8, Zenon
  <2> QED
    BY <2>1, <2>2
<1>8. EncodeBitString(size, v) = Primitive(BitsPrimitive(v))
  BY <1>1, <1>5, <1>6, <1>7, BitStringIsWritten, Zenon
<1>9. BitsPrimitive(v) = o
  BY <1>5, <1>6, BitsAreWrittenBack
<1> QED
  BY <1>2, <1>8, <1>9

-----------------------------------------------------------------------------
(* RELATIVE-OID: the decoder's loop over the octets.                       *)

States == [arcs : Seq(Nat), subId : Nat]

\* One octet more.
ReadOn(s, octet) ==
    IF octet >= 128
    THEN [s EXCEPT !.subId = 128 * @ + (octet - 128)]
    ELSE [arcs |-> Append(s.arcs, 128 * s.subId + octet), subId |-> 0]

Unread == [arcs |-> <<>>, subId |-> 0]

\* Where the loop of Unpacked stands at the end of the octets.
After(octets) ==
    LET after[i \in 0..Len(octets)] ==
            IF i = 0 THEN [arcs |-> <<>>, subId |-> 0]
            ELSE LET s == after[i - 1]
                 IN  IF octets[i] >= 128
                     THEN [s EXCEPT !.subId = 128 * @ + (octets[i] - 128)]
                     ELSE [arcs |-> Append(s.arcs, 128 * s.subId + octets[i]), subId |-> 0]
    IN  after[Len(octets)]

\* The arcs are those of the loop's state at the end.
LEMMA UnpackedIsAfter ==
    ASSUME NEW octets
    PROVE  Unpacked(octets) = After(octets).arcs
  BY Zenon DEF Unpacked, After

\* What one octet does to the state.
LEMMA ReadOnFields ==
    ASSUME NEW s \in States, NEW octet \in Octet
    PROVE  /\ ReadOn(s, octet) \in States
           /\ octet >= 128 => /\ ReadOn(s, octet).arcs = s.arcs
                              /\ ReadOn(s, octet).subId = 128 * s.subId + (octet - 128)
           /\ ~ (octet >= 128) => /\ ReadOn(s, octet).arcs = Append(s.arcs, 128 * s.subId + octet)
                                  /\ ReadOn(s, octet).subId = 0
<1>1. s.arcs \in Seq(Nat) /\ s.subId \in Nat
  BY DEF States
<1>2. CASE octet >= 128
  <2>1. ReadOn(s, octet) = [s EXCEPT !.subId = 128 * @ + (octet - 128)]
    BY <1>2 DEF ReadOn
  <2>2. 128 * s.subId + (octet - 128) \in Nat
    BY <1>1, <1>2 DEF Octet
  <2>3. PICK n \in Nat : n = 128 * s.subId + (octet - 128)
    BY <2>2
  <2>4. ReadOn(s, octet) = [s EXCEPT !.subId = n]
    BY <2>1, <2>3
  <2> QED
    BY <1>2, <2>3, <2>4 DEF States
<1>3. CASE ~ (octet >= 128)
  <2>1. ReadOn(s, octet) = [arcs |-> Append(s.arcs, 128 * s.subId + octet), subId |-> 0]
    BY <1>3 DEF ReadOn
  <2>2. PICK n \in Nat : n = 128 * s.subId + octet
    <3>1. PICK k \in Nat, m \in Nat : k = s.subId /\ m = octet
      BY <1>1 DEF Octet
    <3>2. 128 * k + m \in Nat
      OBVIOUS
    <3> QED
      BY <3>1, <3>2
  <2>3. ReadOn(s, octet) = [arcs |-> Append(s.arcs, n), subId |-> 0]
    BY <2>1, <2>2
  <2>4. Append(s.arcs, n) \in Seq(Nat)
    BY <1>1
  <2> QED
    BY <1>3, <2>2, <2>3, <2>4 DEF States
<1> QED
  BY <1>2, <1>3

\* after[i] is where the loop stands after i octets.
Loops(after, octets) ==
    /\ after[0] = Unread
    /\ \A i \in 0..Len(octets) : after[i] \in States
    /\ \A i \in 1..Len(octets) : after[i] = ReadOn(after[i - 1], octets[i])

\* The loop, octet by octet.
LEMMA AfterUnfolds ==
    ASSUME NEW octets \in Seq(Octet)
    PROVE  \E after : Loops(after, octets) /\ After(octets) = after[Len(octets)]
<1>n. PICK n \in Nat : n = Len(octets)
  BY LengthIsNatural
<1>d. \A i \in 1..n : octets[i] \in Octet
  BY <1>n
<1>0. Unread \in States
  BY DEF Unread, States
<1> DEFINE step == [i \in Nat \ {0} |-> [x \in States |->
                        IF i \in 1..n THEN ReadOn(x, octets[i]) ELSE x]]
           D(f) == [i \in 0..n |-> IF i = 0 THEN Unread ELSE ReadOn(f[i - 1], octets[i])]
<1>1. Steps(States, Unread, step)
  <2>1. ASSUME NEW i \in Nat \ {0}, NEW x \in States
        PROVE  step[i][x] \in States
    <3>1. step[i][x] = IF i \in 1..n THEN ReadOn(x, octets[i]) ELSE x
      OBVIOUS
    <3> HIDE DEF step
    <3>2. CASE i \in 1..n
      <4>1. octets[i] \in Octet
        BY <1>d, <3>2
      <4>2. ReadOn(x, octets[i]) \in States
        BY <4>1, ReadOnFields
      <4> QED
        BY <3>1, <3>2, <4>2, Zenon
    <3>3. CASE i \notin 1..n
      BY <3>1, <3>3
    <3> QED
      BY <3>2, <3>3
  <2> HIDE DEF step
  <2> QED
    BY <1>0, <2>1, Zenon DEF Steps
<1>2. PICK f : FollowsForEver(States, Unread, step, f)
  <2> HIDE DEF step
  <2> QED
    BY <1>1, Recursion
<1>3. /\ \A i \in Nat : f[i] \in States
      /\ \A i \in Nat : f[i] = (IF i = 0 THEN Unread ELSE step[i][f[i - 1]])
  <2> HIDE DEF step
  <2> QED
    BY <1>2 DEF FollowsForEver
<1>4. f[0] = Unread
  <2> HIDE DEF step
  <2> QED
    BY <1>3
<1>5. ASSUME NEW i \in 1..n
      PROVE  f[i] = ReadOn(f[i - 1], octets[i])
  <2>1. i \in Nat \ {0} /\ i - 1 \in Nat /\ i \in Nat /\ i # 0
    OBVIOUS
  <2>2. f[i - 1] \in States
    BY <1>3, <2>1
  <2>3. step[i][f[i - 1]] = ReadOn(f[i - 1], octets[i])
    BY <2>1, <2>2
  <2> HIDE DEF step
  <2>4. f[i] = step[i][f[i - 1]]
    BY <1>3, <2>1, Zenon
  <2> QED
    BY <2>3, <2>4, Zenon
<1> HIDE DEF step
<1>6. Loops(f, octets)
  <2>1. \A i \in 0..Len(octets) : f[i] \in States
    BY <1>n, <1>3
  <2>2. \A i \in 1..Len(octets) : f[i] = ReadOn(f[i - 1], octets[i])
    BY <1>n, <1>5, Zenon
  <2> QED
    BY <1>4, <2>1, <2>2, Zenon DEF Loops
<1> DEFINE h == [i \in 0..n |-> f[i]]
<1>7. h = D(h)
  <2>1. ASSUME NEW i \in 0..n
        PROVE  h[i] = IF i = 0 THEN Unread ELSE ReadOn(h[i - 1], octets[i])
    <3>1. i # 0 => i \in 1..n /\ i - 1 \in 0..n
      OBVIOUS
    <3>2. h[i] = f[i] /\ (i # 0 => h[i - 1] = f[i - 1])
      BY <3>1
    <3> HIDE DEF h
    <3> QED
      BY <1>4, <1>5, <3>1, <3>2, Zenon
  <2>2. h = [i \in 0..n |-> h[i]]
    OBVIOUS
  <2> HIDE DEF h
  <2> QED
    BY <2>1, <2>2, Zenon
<1> DEFINE g == CHOOSE x : x = D(x)
<1>8. g = D(g)
  <2> HIDE DEF D, h
  <2> QED
    BY <1>7, Zenon
<1>9. After(octets) = g[n]
  BY <1>n, Zenon DEF After, Unread, ReadOn
<1> HIDE DEF g
<1>10. \A i \in 0..n : g[i] = (IF i = 0 THEN Unread ELSE ReadOn(g[i - 1], octets[i]))
  BY <1>8, Zenon
<1> DEFINE P == {i \in Nat : i <= n => g[i] = f[i]}
<1>11. Inductive(P)
  <2>1. 0 \in P
    <3>1. 0 \in 0..n /\ 0 \in Nat
      OBVIOUS
    <3>2. g[0] = Unread
      BY <1>10, <3>1, Zenon
    <3> QED
      BY <1>4, <3>1, <3>2
  <2>2. ASSUME NEW i \in Nat, i \in P
        PROVE  i + 1 \in P
    <3>1. SUFFICES ASSUME i + 1 <= n
                   PROVE  g[i + 1] = f[i + 1]
      OBVIOUS
    <3>2. i + 1 \in 1..n /\ i + 1 \in 0..n /\ i + 1 # 0 /\ (i + 1) - 1 = i /\ i <= n
      BY <3>1
    <3>3. g[i + 1] = ReadOn(g[i], octets[i + 1])
      BY <1>10, <3>2, Zenon
    <3>4. f[i + 1] = ReadOn(f[i], octets[i + 1])
      BY <1>5, <3>2, Zenon
    <3> QED
      BY <2>2, <3>2, <3>3, <3>4, Zenon
  <2> QED
    BY <2>1, <2>2, Zenon DEF Inductive
<1>12. Nat \subseteq P
  <2> HIDE DEF P
  <2> QED
    BY <1>11, Induction
<1>13. g[n] = f[n]
  BY <1>12
<1> QED
  BY <1>n, <1>6, <1>9, <1>13, Zenon

\* The state's type.
LEMMA AfterType ==
    ASSUME NEW octets \in Seq(Octet)
    PROVE  After(octets) \in States /\ Unpacked(octets) \in Seq(Nat)
<1>1. PICK after : Loops(after, octets) /\ After(octets) = after[Len(octets)]
  BY AfterUnfolds
<1>2. Len(octets) \in 0..Len(octets)
  BY LengthIsNatural
<1>3. After(octets) \in States
  BY <1>1, <1>2, Zenon DEF Loops
<1> QED
  BY <1>3, UnpackedIsAfter DEF States

\* The state before the first octet.
LEMMA AfterNothing == After(<<>>) = Unread
<1>1. <<>> \in Seq(Octet) /\ Len(<<>>) = 0
  OBVIOUS
<1>2. PICK after : Loops(after, <<>>) /\ After(<<>>) = after[Len(<<>>)]
  BY <1>1, AfterUnfolds
<1> QED
  BY <1>1, <1>2, Zenon DEF Loops

\* The loop reads one octet after the other.
LEMMA AfterOneMore ==
    ASSUME NEW octets \in Seq(Octet), NEW octet \in Octet
    PROVE  After(Append(octets, octet)) = ReadOn(After(octets), octet)
<1>1. PICK n \in Nat : n = Len(octets)
  BY LengthIsNatural
<1>2. PICK more \in Seq(Octet) : more = Append(octets, octet)
  BY AppendProperties
<1>3. Len(more) = n + 1 /\ more[n + 1] = octet /\ \A i \in 1..n : more[i] = octets[i]
  BY <1>1, <1>2
<1>4. PICK f : Loops(f, octets) /\ After(octets) = f[n]
  BY <1>1, AfterUnfolds, Zenon
<1>5. PICK g : Loops(g, more) /\ After(more) = g[n + 1]
  BY <1>3, AfterUnfolds, Zenon
<1> DEFINE P == {i \in Nat : i <= n => g[i] = f[i]}
<1>6. Inductive(P)
  <2>1. 0 \in P
    BY <1>4, <1>5 DEF Loops
  <2>2. ASSUME NEW i \in Nat, i \in P
        PROVE  i + 1 \in P
    <3>1. SUFFICES ASSUME i + 1 <= n
                   PROVE  g[i + 1] = f[i + 1]
      OBVIOUS
    <3>2. i + 1 \in 1..n /\ i + 1 \in 1..n + 1 /\ (i + 1) - 1 = i /\ i <= n
      BY <3>1
    <3>3. g[(i + 1) - 1] = f[(i + 1) - 1]
      BY <2>2, <3>2
    <3>4. g[i + 1] = ReadOn(g[(i + 1) - 1], more[i + 1])
      BY <1>3, <1>5, <3>2, Zenon DEF Loops
    <3>5. f[i + 1] = ReadOn(f[(i + 1) - 1], octets[i + 1])
      BY <1>1, <1>4, <3>2, Zenon DEF Loops
    <3> QED
      BY <1>3, <3>2, <3>3, <3>4, <3>5, Zenon
  <2> QED
    BY <2>1, <2>2, Zenon DEF Inductive
<1>7. Nat \subseteq P
  <2> HIDE DEF P
  <2> QED
    BY <1>6, Induction
<1>8. g[n] = f[n] /\ (n + 1) - 1 = n /\ n + 1 \in 1..n + 1
  BY <1>7
<1>9. g[n + 1] = ReadOn(g[(n + 1) - 1], more[n + 1])
  BY <1>3, <1>5, <1>8, Zenon DEF Loops
<1> QED
  BY <1>2, <1>3, <1>4, <1>5, <1>8, <1>9, Zenon

-----------------------------------------------------------------------------
(* Sub-identifiers as they are packed.                                     *)

\* One piece more at the end.
LEMMA FlattenAppend ==
    ASSUME NEW X, NEW seqs \in Seq(Seq(X)), NEW s \in Seq(X)
    PROVE  FlattenSeq(Append(seqs, s)) = FlattenSeq(seqs) \o s
<1>1. PICK n \in Nat : n = Len(seqs)
  BY LengthIsNatural
<1>2. PICK more \in Seq(Seq(X)) : more = Append(seqs, s)
  BY AppendProperties
<1>3. Len(more) = n + 1 /\ more[n + 1] = s /\ \A i \in 1..n : more[i] = seqs[i]
  BY <1>1, <1>2
<1>4. PICK f : Joins(f, seqs, X) /\ FlattenSeq(seqs) = f[n]
  BY <1>1, FlattenUnfolds, Zenon
<1>5. PICK g : Joins(g, more, X) /\ FlattenSeq(more) = g[n + 1]
  BY <1>3, FlattenUnfolds, Zenon
<1> DEFINE P == {i \in Nat : i <= n => g[i] = f[i]}
<1>6. Inductive(P)
  <2>1. 0 \in P
    BY <1>4, <1>5 DEF Joins
  <2>2. ASSUME NEW i \in Nat, i \in P
        PROVE  i + 1 \in P
    <3>1. SUFFICES ASSUME i + 1 <= n
                   PROVE  g[i + 1] = f[i + 1]
      OBVIOUS
    <3>2. i + 1 \in 1..n /\ i + 1 \in 1..n + 1 /\ (i + 1) - 1 = i /\ i <= n
      BY <3>1
    <3>3. g[(i + 1) - 1] = f[(i + 1) - 1]
      BY <2>2, <3>2
    <3>4. g[i + 1] = g[(i + 1) - 1] \o more[i + 1]
      BY <1>3, <1>5, <3>2, Zenon DEF Joins
    <3>5. f[i + 1] = f[(i + 1) - 1] \o seqs[i + 1]
      BY <1>1, <1>4, <3>2, Zenon DEF Joins
    <3> QED
      BY <1>3, <3>2, <3>3, <3>4, <3>5, Zenon
  <2> QED
    BY <2>1, <2>2, Zenon DEF Inductive
<1>7. Nat \subseteq P
  <2> HIDE DEF P
  <2> QED
    BY <1>6, Induction
<1>8. g[n] = f[n] /\ (n + 1) - 1 = n /\ n + 1 \in 1..n + 1
  <2>1. n \in P /\ n <= n
    BY <1>7
  <2>2. g[n] = f[n]
    BY <2>1
  <2> QED
    BY <2>2
<1>9. g[n + 1] = g[(n + 1) - 1] \o more[n + 1]
  BY <1>3, <1>5, <1>8, Zenon DEF Joins
<1> QED
  BY <1>2, <1>3, <1>4, <1>5, <1>8, <1>9, Zenon

\* No pieces.
LEMMA FlattenNothing == FlattenSeq(<<>>) = <<>>
  BY DEF FlattenSeq

\* The octets of one sub-identifier.
IsPacked(p, arc, size) ==
    /\ size \in Nat \ {0} /\ p \in Seq(Octet) /\ Len(p) = size
    /\ Quotients(arc, 128)[size] = 0
    /\ size > 1 => Quotients(arc, 128)[size - 1] # 0
    /\ \A i \in 1..size :
          p[i] = IF i < size THEN 128 + (Quotients(arc, 128)[size - i] % 128)
                 ELSE Quotients(arc, 128)[size - i] % 128

\* Seven bits, with and without the bit that says that more follow.
LEMMA Digit128 ==
    ASSUME NEW n \in Nat
    PROVE  n % 128 \in Octet /\ 128 + (n % 128) \in Octet /\ n % 128 < 128
  BY DEF Octet

\* The quotients by 128 of an arc.
LEMMA Quotients128 ==
    ASSUME NEW arc \in Nat
    PROVE  /\ AreQuotients(Quotients(arc, 128), arc, 128)
           /\ \A k \in Nat : Quotients(arc, 128)[k] \in Nat
<1>1. PICK base \in Nat \ {0} : base = 128
  OBVIOUS
<1>2. AreQuotients(Quotients(arc, base), arc, base)
  BY QuotientsUnfold
<1>3. \A k \in Nat : Quotients(arc, base)[k] \in Nat
  BY <1>2, NaturalQuotients, Zenon
<1> QED
  BY <1>1, <1>2, <1>3, Zenon

\* An arc is packed into its digits to the base 128.
LEMMA ArcIsPacked ==
    ASSUME NEW arc \in Nat
    PROVE  \E size : IsPacked(Packed(arc), arc, size)
<1>1. PICK q : q = Quotients(arc, 128) /\ AreQuotients(q, arc, 128) /\ \A k \in Nat : q[k] \in Nat
  BY Quotients128
<1>2. PICK size \in Nat \ {0} :
          /\ size = (IF arc = 0 THEN 1 ELSE Width(arc, 128))
          /\ q[size] = 0 /\ (size > 1 => q[size - 1] # 0)
  <2>1. IsWidth(Width(arc, 128), q)
    BY <1>1, WidthUnfolds
  <2>2. PICK k \in Nat : k = Width(arc, 128) /\ q[k] = 0 /\ \A j \in 0..k - 1 : q[j] # 0
    BY <2>1 DEF IsWidth
  <2>3. q[0] = arc /\ q[0 + 1] = q[0] \div 128
    BY <1>1 DEF AreQuotients
  <2>4. CASE arc = 0
    BY <2>3, <2>4
  <2>5. CASE arc # 0
    <3>1. k # 0
      BY <2>2, <2>3, <2>5
    <3>2. k > 1 => k - 1 \in 0..k - 1
      BY <2>2
    <3> QED
      BY <2>2, <2>5, <3>1, <3>2
  <2> QED
    BY <2>4, <2>5
<1>3. PICK digits : digits = Digits(arc, 128, size)
  OBVIOUS
<1>4. AreDigits(digits, q, 128, size)
  <2>1. PICK base \in Nat \ {0} : base = 128
    OBVIOUS
  <2>2. AreDigits(Digits(arc, base, size), Quotients(arc, base), base, size)
    BY DigitsUnfold
  <2> QED
    BY <1>1, <1>3, <2>1, <2>2, Zenon
<1>5. \A i \in 1..size : digits[i] = q[size - i] % 128
  BY <1>4, Zenon DEF AreDigits
<1>6. Packed(arc) = [i \in 1..size |-> IF i < size THEN 128 + digits[i] ELSE digits[i]]
  BY <1>2, <1>3, Zenon DEF Packed
<1>7. ASSUME NEW i \in 1..size
      PROVE  /\ (IF i < size THEN 128 + digits[i] ELSE digits[i]) \in Octet
             /\ (IF i < size THEN 128 + digits[i] ELSE digits[i])
                    = IF i < size THEN 128 + (q[size - i] % 128) ELSE q[size - i] % 128
  <2>1. PICK n \in Nat : n = q[size - i]
    BY <1>1
  <2>2. digits[i] = n % 128
    BY <1>5, <2>1
  <2> QED
    BY <2>1, <2>2, Digit128
<1>8. Packed(arc) \in [1..size -> Octet]
  BY <1>6, <1>7, Zenon
<1>9. Packed(arc) \in Seq(Octet) /\ Len(Packed(arc)) = size
  BY <1>8
<1>10. \A i \in 1..size : Packed(arc)[i]
                 = IF i < size THEN 128 + (q[size - i] % 128) ELSE q[size - i] % 128
  BY <1>6, <1>7, Zenon
<1>11. IsPacked(Packed(arc), arc, size)
  <2>1. \A i \in 1..size : Packed(arc)[i]
            = IF i < size THEN 128 + (Quotients(arc, 128)[size - i] % 128)
              ELSE Quotients(arc, 128)[size - i] % 128
    BY <1>1, <1>10, Zenon
  <2>2. Quotients(arc, 128)[size] = 0 /\ (size > 1 => Quotients(arc, 128)[size - 1] # 0)
    BY <1>1, <1>2, Zenon
  <2> QED
    BY <1>9, <2>1, <2>2, Zenon DEF IsPacked
<1> QED
  BY <1>11

\* There is one way to pack it.
LEMMA PackedTwice ==
    ASSUME NEW arc \in Nat, NEW p, NEW size, IsPacked(p, arc, size),
           NEW r, NEW other, IsPacked(r, arc, other)
    PROVE  p = r
<1>1. PICK q : q = Quotients(arc, 128) /\ AreQuotients(q, arc, 128)
  BY Quotients128
<1>2. /\ size \in Nat \ {0} /\ q[size] = 0 /\ (size > 1 => q[size - 1] # 0)
      /\ other \in Nat \ {0} /\ q[other] = 0 /\ (other > 1 => q[other - 1] # 0)
  BY <1>1 DEF IsPacked
<1>3. PICK base \in Nat \ {0} : base = 128
  OBVIOUS
<1>4. \A k \in Nat : q[k] = 0 => \A j \in Nat : j >= k => q[j] = 0
  <2>1. AreQuotients(q, arc, base) /\ arc \in Int
    BY <1>1, <1>3
  <2> QED
    BY <2>1, ZeroStays
<1>5. size = other
  <2>1. CASE size < other
    <3>1. other > 1 /\ other - 1 \in Nat /\ other - 1 >= size
      BY <1>2, <2>1
    <3> QED
      BY <1>2, <1>4, <3>1
  <2>2. CASE other < size
    <3>1. size > 1 /\ size - 1 \in Nat /\ size - 1 >= other
      BY <1>2, <2>2
    <3> QED
      BY <1>2, <1>4, <3>1
  <2> QED
    BY <1>2, <2>1, <2>2
<1>6. p \in Seq(Octet) /\ r \in Seq(Octet) /\ Len(p) = size /\ Len(r) = size
  BY <1>5 DEF IsPacked
<1>7. \A i \in 1..size : p[i] = r[i]
  <2>1. IsPacked(r, arc, size)
    BY <1>5
  <2>2. TAKE i \in 1..size
  <2>3. PICK x : x = IF i < size THEN 128 + (Quotients(arc, 128)[size - i] % 128)
                     ELSE Quotients(arc, 128)[size - i] % 128
    OBVIOUS
  <2>4. p[i] = x
    BY <2>3, Zenon DEF IsPacked
  <2>5. r[i] = x
    BY <2>1, <2>3, Zenon DEF IsPacked
  <2> QED
    BY <2>4, <2>5
<1> QED
  BY <1>6, <1>7

\* The digits are octets.
LEMMA PackedOctets ==
    ASSUME NEW arc \in Nat
    PROVE  Packed(arc) \in Seq(Octet)
  BY ArcIsPacked DEF IsPacked

\* So are those of many arcs.
LEMMA PacksOfArcs ==
    ASSUME NEW arcs \in Seq(Nat)
    PROVE  [i \in DOMAIN arcs |-> Packed(arcs[i])] \in Seq(Seq(Octet))
<1>1. PICK n \in Nat : n = Len(arcs) /\ DOMAIN arcs = 1..n
  OBVIOUS
<1>2. \A i \in 1..n : Packed(arcs[i]) \in Seq(Octet)
  BY <1>1, PackedOctets
<1>3. [i \in DOMAIN arcs |-> Packed(arcs[i])] \in [1..n -> Seq(Octet)]
  BY <1>1, <1>2, Zenon
<1> QED
  BY <1>3

\* And all of them in a row.
LEMMA EncodeArcsType ==
    ASSUME NEW arcs \in Seq(Nat)
    PROVE  EncodeArcs(arcs) \in Seq(Octet)
  BY PacksOfArcs, FlattenType, Zenon DEF EncodeArcs

\* Of no arcs there are no octets.
LEMMA EncodeNoArcs == EncodeArcs(<<>>) = <<>>
<1>1. [i \in DOMAIN <<>> |-> Packed(<<>>[i])] = <<>>
  OBVIOUS
<1> QED
  BY <1>1, FlattenNothing, Zenon DEF EncodeArcs

\* One arc more adds its octets.
LEMMA EncodeOneMoreArc ==
    ASSUME NEW arcs \in Seq(Nat), NEW arc \in Nat
    PROVE  EncodeArcs(Append(arcs, arc)) = EncodeArcs(arcs) \o Packed(arc)
<1>1. PICK n \in Nat : n = Len(arcs) /\ DOMAIN arcs = 1..n
  OBVIOUS
<1>2. PICK more \in Seq(Nat) : more = Append(arcs, arc)
  BY AppendProperties
<1>3. /\ DOMAIN more = 1..n + 1 /\ more[n + 1] = arc /\ Len(more) = n + 1
      /\ \A i \in 1..n : more[i] = arcs[i]
  BY <1>1, <1>2
<1>4. PICK packs \in Seq(Seq(Octet)) : packs = [i \in DOMAIN arcs |-> Packed(arcs[i])]
  BY PacksOfArcs
<1>5. PICK others \in Seq(Seq(Octet)) : others = [i \in DOMAIN more |-> Packed(more[i])]
  BY PacksOfArcs
<1>6. PICK p \in Seq(Octet) : p = Packed(arc)
  BY PackedOctets
<1>7. others = Append(packs, p)
  <2>1. Len(packs) = n /\ \A i \in 1..n : packs[i] = Packed(arcs[i])
    BY <1>1, <1>4
  <2>2. Len(others) = n + 1 /\ \A i \in 1..n + 1 : others[i] = Packed(more[i])
    BY <1>3, <1>5
  <2>3. PICK s \in Seq(Seq(Octet)) : s = Append(packs, p)
    BY AppendProperties
  <2>4. Len(s) = n + 1 /\ s[n + 1] = p /\ \A i \in 1..n : s[i] = packs[i]
    BY <2>1, <2>3
  <2>5. ASSUME NEW i \in 1..n + 1
        PROVE  others[i] = s[i]
    <3>1. CASE i \in 1..n
      BY <1>3, <2>1, <2>2, <2>4, <3>1, Zenon
    <3>2. CASE i = n + 1
      BY <1>3, <1>6, <2>2, <2>4, <3>2, Zenon
    <3> QED
      BY <3>1, <3>2
  <2> QED
    BY <2>2, <2>3, <2>4, <2>5
<1>8. FlattenSeq(others) = FlattenSeq(packs) \o p
  BY <1>7, FlattenAppend, Zenon
<1> QED
  BY <1>2, <1>4, <1>5, <1>6, <1>8, Zenon DEF EncodeArcs

\* The beginning of a sequence, one element longer.
LEMMA PrefixOneMore ==
    ASSUME NEW X, NEW s \in Seq(X), NEW j \in Nat, j < Len(s)
    PROVE  /\ SubSeq(s, 1, j) \in Seq(X) /\ Len(SubSeq(s, 1, j)) = j
           /\ \A i \in 1..j : SubSeq(s, 1, j)[i] = s[i]
           /\ SubSeq(s, 1, j + 1) = Append(SubSeq(s, 1, j), s[j + 1])
<1>1. PICK n \in Nat : n = Len(s) /\ j < n
  BY LengthIsNatural
<1>2. /\ SubSeq(s, 1, j) \in Seq(X) /\ Len(SubSeq(s, 1, j)) = j
      /\ \A i \in 1..j : SubSeq(s, 1, j)[i] = s[i]
  BY <1>1
<1>3. /\ SubSeq(s, 1, j + 1) \in Seq(X) /\ Len(SubSeq(s, 1, j + 1)) = j + 1
      /\ \A i \in 1..j + 1 : SubSeq(s, 1, j + 1)[i] = s[i]
  BY <1>1
<1>4. s[j + 1] \in X
  BY <1>1
<1>5. PICK t \in Seq(X) : t = Append(SubSeq(s, 1, j), s[j + 1])
  BY <1>2, <1>4, AppendProperties
<1>6. Len(t) = j + 1 /\ t[j + 1] = s[j + 1] /\ \A i \in 1..j : t[i] = s[i]
  BY <1>2, <1>4, <1>5
<1>7. \A i \in 1..j + 1 : t[i] = s[i]
  <2>1. \A i \in 1..j + 1 : i \in 1..j \/ i = j + 1
    OBVIOUS
  <2> QED
    BY <1>6, <2>1, Zenon
<1> QED
  BY <1>2, <1>3, <1>5, <1>6, <1>7

\* An element appended to what is appended.
LEMMA ConcatAppend ==
    ASSUME NEW X, NEW s \in Seq(X), NEW t \in Seq(X), NEW e \in X
    PROVE  s \o Append(t, e) = Append(s \o t, e)
  OBVIOUS

\* A number from its quotient and its last digit, base 128.
Recompose(q) == \A k \in Nat : 128 * q[k + 1] + (q[k] % 128) = q[k]

\* Each quotient is the next one with a digit appended.
LEMMA NextSubId ==
    ASSUME NEW arc \in Nat
    PROVE  Recompose(Quotients(arc, 128))
<1> DEFINE q == Quotients(arc, 128)
<1>0. AreQuotients(q, arc, 128) /\ \A k \in Nat : q[k] \in Nat
  BY Quotients128
<1> HIDE DEF q
<1> SUFFICES ASSUME NEW k \in Nat PROVE 128 * q[k + 1] + (q[k] % 128) = q[k]
  BY DEF Recompose, q
<1>1. q[k] \in Nat /\ q[k + 1] = q[k] \div 128
  BY <1>0 DEF AreQuotients
<1>2. PICK n \in Nat : n = q[k] /\ q[k + 1] = n \div 128
  BY <1>1
<1>3. 128 * (n \div 128) + (n % 128) = n
  OBVIOUS
<1> QED
  BY <1>2, <1>3, Zenon

\* A sub-identifier is read after whole ones as the arc that was packed.
LEMMA PackedIsRead ==
    ASSUME NEW o \in Seq(Octet), After(o).subId = 0, NEW arc \in Nat
    PROVE  /\ After(o \o Packed(arc)).arcs = Append(After(o).arcs, arc)
           /\ After(o \o Packed(arc)).subId = 0
<1>0. PICK size \in Nat \ {0} : IsPacked(Packed(arc), arc, size)
  <2>1. PICK size : IsPacked(Packed(arc), arc, size)
    BY ArcIsPacked
  <2>2. size \in Nat \ {0}
    BY <2>1 DEF IsPacked
  <2> QED
    BY <2>1, <2>2
<1>1. PICK p : p = Packed(arc) /\ IsPacked(p, arc, size)
  BY <1>0
<1>2. PICK q : q = Quotients(arc, 128) /\ AreQuotients(q, arc, 128) /\ \A k \in Nat : q[k] \in Nat
  BY Quotients128
<1>d. \A k \in Nat : 128 * q[k + 1] + (q[k] % 128) = q[k]
  <2>1. Recompose(q)
    BY <1>2, NextSubId, Zenon
  <2> QED
    BY <2>1, Zenon DEF Recompose
<1>3. p \in Seq(Octet) /\ Len(p) = size /\ q[size] = 0
  BY <1>1, <1>2, Zenon DEF IsPacked
<1>4. \A i \in 1..size : p[i] = IF i < size THEN 128 + (q[size - i] % 128)
                                ELSE q[size - i] % 128
  BY <1>1, <1>2, Zenon DEF IsPacked
<1>5. PICK a \in Seq(Nat) : a = After(o).arcs
  BY AfterType DEF States
<1> DEFINE upTo(j) == o \o SubSeq(p, 1, j)
           P == {j \in Nat : j < size => /\ After(upTo(j)).arcs = a
                                         /\ After(upTo(j)).subId = q[size - j]}
<1>6. ASSUME NEW j \in Nat, j < size
      PROVE  /\ upTo(j) \in Seq(Octet)
             /\ p[j + 1] \in Octet
             /\ upTo(j + 1) = Append(upTo(j), p[j + 1])
             /\ After(upTo(j)) \in States
             /\ After(upTo(j + 1)) = ReadOn(After(upTo(j)), p[j + 1])
  <2>1. /\ SubSeq(p, 1, j) \in Seq(Octet)
        /\ SubSeq(p, 1, j + 1) = Append(SubSeq(p, 1, j), p[j + 1])
    BY <1>3, <1>6, PrefixOneMore, Zenon
  <2>2. p[j + 1] \in Octet
    <3>1. j + 1 \in 1..Len(p)
      BY <1>3, <1>6
    <3> QED
      BY <1>3, <3>1
  <2>3. upTo(j) \in Seq(Octet)
    BY <2>1
  <2>4. upTo(j + 1) = Append(upTo(j), p[j + 1])
    <3>1. PICK t \in Seq(Octet), e \in Octet : t = SubSeq(p, 1, j) /\ e = p[j + 1]
      BY <2>1, <2>2
    <3>2. o \o Append(t, e) = Append(o \o t, e)
      BY ConcatAppend
    <3> QED
      BY <2>1, <3>1, <3>2, Zenon
  <2> HIDE DEF upTo
  <2> QED
    BY <2>2, <2>3, <2>4, AfterType, AfterOneMore, Zenon
<1>7. upTo(0) = o /\ upTo(size) = o \o p
  <2>1. SubSeq(p, 1, 0) = <<>> /\ SubSeq(p, 1, size) = p
    BY <1>3
  <2>2. o \o <<>> = o
    OBVIOUS
  <2> QED
    BY <2>1, <2>2, Zenon
<1> HIDE DEF upTo
<1>8. Inductive(P)
  <2>1. 0 \in P
    <3>1. size - 0 = size
      OBVIOUS
    <3> QED
      BY <1>3, <1>5, <1>7, <3>1
  <2>2. ASSUME NEW j \in Nat, j \in P
        PROVE  j + 1 \in P
    <3>1. SUFFICES ASSUME j + 1 < size
                   PROVE  /\ After(upTo(j + 1)).arcs = a
                          /\ After(upTo(j + 1)).subId = q[size - (j + 1)]
      OBVIOUS
    <3>2. j < size /\ j + 1 \in 1..size /\ size - (j + 1) \in Nat
          /\ size - j = (size - (j + 1)) + 1
      BY <3>1
    <3>3. PICK k \in Nat : k = size - (j + 1) /\ size - j = k + 1
      BY <3>2
    <3>4. After(upTo(j)).arcs = a /\ After(upTo(j)).subId = q[k + 1]
      BY <2>2, <3>2, <3>3
    <3>5. p[j + 1] = 128 + (q[k] % 128)
      BY <1>4, <3>1, <3>2, <3>3, Zenon
    <3>6. PICK m \in Nat : m = q[k]
      BY <1>2
    <3>7. p[j + 1] >= 128 /\ p[j + 1] - 128 = m % 128 /\ m % 128 \in Nat
      BY <3>5, <3>6
    <3>8. /\ After(upTo(j + 1)).arcs = After(upTo(j)).arcs
          /\ After(upTo(j + 1)).subId = 128 * After(upTo(j)).subId + (p[j + 1] - 128)
      <4>1. PICK t \in States, x \in Octet :
                t = After(upTo(j)) /\ x = p[j + 1] /\ After(upTo(j + 1)) = ReadOn(t, x)
        BY <1>6, <3>2, Zenon
      <4>2. x >= 128
        BY <3>7, <4>1, Zenon
      <4>3. ReadOn(t, x).arcs = t.arcs /\ ReadOn(t, x).subId = 128 * t.subId + (x - 128)
        BY <4>2, ReadOnFields
      <4> QED
        BY <4>1, <4>3, Zenon
    <3>9. 128 * q[k + 1] + (q[k] % 128) = q[k]
      BY <1>d
    <3> QED
      BY <3>3, <3>4, <3>6, <3>7, <3>8, <3>9, Zenon
  <2> QED
    BY <2>1, <2>2, Zenon DEF Inductive
<1>9. Nat \subseteq P
  <2> HIDE DEF P
  <2> QED
    BY <1>8, Induction
<1>10. PICK j \in Nat : j + 1 = size /\ j < size /\ size - j = 1 /\ size - (j + 1) = 0
                        /\ j + 1 \in 1..size /\ ~ (j + 1 < size)
  <2>1. size - 1 \in Nat /\ (size - 1) + 1 = size /\ size - 1 < size
        /\ size - (size - 1) = 1 /\ size - ((size - 1) + 1) = 0
        /\ (size - 1) + 1 \in 1..size /\ ~ ((size - 1) + 1 < size)
    OBVIOUS
  <2> QED
    BY <2>1, Zenon
<1>11. After(upTo(j)).arcs = a /\ After(upTo(j)).subId = q[1]
  <2>1. j \in P
    BY <1>9
  <2> QED
    BY <1>10, <2>1
<1>12. PICK m \in Nat : m = q[0] /\ m = arc
  BY <1>2 DEF AreQuotients
<1>13. p[j + 1] = m % 128
  <2>1. p[j + 1] = IF j + 1 < size THEN 128 + (q[size - (j + 1)] % 128)
                   ELSE q[size - (j + 1)] % 128
    BY <1>4, <1>10, Zenon
  <2>2. p[j + 1] = q[size - (j + 1)] % 128
    BY <1>10, <2>1, Zenon
  <2> QED
    BY <1>10, <1>12, <2>2, Zenon
<1>14. ~ (p[j + 1] >= 128)
  <2>1. m % 128 < 128 /\ m % 128 \in Nat
    OBVIOUS
  <2> QED
    BY <1>13, <2>1
<1>15. /\ After(upTo(j + 1)).arcs
            = Append(After(upTo(j)).arcs, 128 * After(upTo(j)).subId + p[j + 1])
       /\ After(upTo(j + 1)).subId = 0
  <2>1. PICK t \in States, x \in Octet :
            t = After(upTo(j)) /\ x = p[j + 1] /\ After(upTo(j + 1)) = ReadOn(t, x)
    BY <1>6, <1>10, Zenon
  <2>2. ~ (x >= 128)
    BY <1>14, <2>1, Zenon
  <2>3. ReadOn(t, x).arcs = Append(t.arcs, 128 * t.subId + x) /\ ReadOn(t, x).subId = 0
    BY <2>2, ReadOnFields
  <2> QED
    BY <2>1, <2>3, Zenon
<1>16. 128 * q[0 + 1] + (q[0] % 128) = q[0] /\ 0 + 1 = 1
  <2>1. 0 \in Nat /\ 0 + 1 = 1
    OBVIOUS
  <2>2. 128 * q[0 + 1] + (q[0] % 128) = q[0]
    BY <1>d, <2>1, Zenon
  <2> QED
    BY <2>1, <2>2
<1>17. 128 * After(upTo(j)).subId + p[j + 1] = arc
  BY <1>11, <1>12, <1>13, <1>16, Zenon
<1> QED
  BY <1>1, <1>5, <1>7, <1>10, <1>11, <1>15, <1>17, Zenon

\* No sub-identifier starts with 0x80 or is too long.
WellFormed(octets) ==
    \A i \in 1..Len(octets) : StartsArc(octets, i) =>
        /\ octets[i] # 128
        /\ \E j \in i..i + MaxArcOctets : ~ (j \in 1..Len(octets) /\ octets[j] >= 128)

\* The last sub-identifier is finished.
Finished(octets) == octets # <<>> => octets[Len(octets)] < 128

\* What the decoder does not refuse.
LEMMA RefusedArcs ==
    ASSUME NEW octets \in Seq(Octet)
    PROVE  ~ ArcsRefused(octets)
               <=> octets # <<>> /\ WellFormed(octets) /\ Finished(octets)
<1>1. DOMAIN octets = 1..Len(octets)
  OBVIOUS
<1>2. octets # <<>> => Last(octets) \in Octet /\ Last(octets) = octets[Len(octets)]
  BY DEF Last
<1>3. octets # <<>> => (~ (Last(octets) >= 128) <=> octets[Len(octets)] < 128)
  <2> SUFFICES ASSUME octets # <<>>
               PROVE  ~ (Last(octets) >= 128) <=> octets[Len(octets)] < 128
    OBVIOUS
  <2>1. PICK n \in Octet : n = Last(octets) /\ n = octets[Len(octets)]
    BY <1>2
  <2>2. ~ (n >= 128) <=> n < 128
    BY DEF Octet
  <2> QED
    BY <2>1, <2>2, Zenon
<1>4. ArcsRefused(octets) <=>
        \/ octets = <<>> \/ Last(octets) >= 128
        \/ ~ WellFormed(octets)
  <2>1. PICK D : D = DOMAIN octets /\ D = 1..Len(octets)
    BY <1>1
  <2>2. WellFormed(octets) <=>
            \A i \in D : StartsArc(octets, i) =>
                /\ octets[i] # 128
                /\ ~ \A j \in i..i + MaxArcOctets : j \in D /\ octets[j] >= 128
    BY <2>1, Zenon DEF WellFormed
  <2>3. ArcsRefused(octets) <=>
            \/ octets = <<>> \/ Last(octets) >= 128
            \/ \E i \in D : /\ StartsArc(octets, i)
                            /\ \/ octets[i] = 128
                               \/ \A j \in i..i + MaxArcOctets : j \in D /\ octets[j] >= 128
    BY <2>1, Zenon DEF ArcsRefused
  <2> QED
    BY <2>2, <2>3, Zenon
<1> QED
  BY <1>3, <1>4, Zenon DEF Finished

ArcFits(arc) == Quotients(arc, 128)[MaxArcOctets + 1] = 0

\* An arc within MaxArcOctets is packed into what it does not refuse.
LEMMA PackedIsWellFormed ==
    ASSUME NEW arc \in Nat, ArcFits(arc)
    PROVE  Packed(arc) # <<>> /\ WellFormed(Packed(arc)) /\ Finished(Packed(arc))
<1>0. PICK size \in Nat \ {0} : IsPacked(Packed(arc), arc, size)
  <2>1. PICK size : IsPacked(Packed(arc), arc, size)
    BY ArcIsPacked
  <2>2. size \in Nat \ {0}
    BY <2>1 DEF IsPacked
  <2> QED
    BY <2>1, <2>2
<1>1. PICK p : p = Packed(arc) /\ IsPacked(p, arc, size)
  BY <1>0
<1>2. PICK q : q = Quotients(arc, 128) /\ AreQuotients(q, arc, 128) /\ \A k \in Nat : q[k] \in Nat
  BY Quotients128
<1>3. /\ p \in Seq(Octet) /\ Len(p) = size /\ q[size] = 0 /\ (size > 1 => q[size - 1] # 0)
      /\ p # <<>>
  BY <1>1, <1>2 DEF IsPacked
<1>4. \A i \in 1..size : p[i] = IF i < size THEN 128 + (q[size - i] % 128)
                                ELSE q[size - i] % 128
  BY <1>1, <1>2, Zenon DEF IsPacked
<1>5. MaxArcOctets \in Nat \ {0} /\ q[MaxArcOctets + 1] = 0
  BY <1>2, MaxArcOctetsAssumption DEF ArcFits
<1>6. size <= MaxArcOctets + 1
  <2> SUFFICES ASSUME ~ (size <= MaxArcOctets + 1) PROVE FALSE
    OBVIOUS
  <2>1. size > 1 /\ size - 1 \in Nat /\ size - 1 >= MaxArcOctets + 1 /\ MaxArcOctets + 1 \in Nat
    BY <1>5
  <2>2. PICK base \in Nat \ {0} : base = 128
    OBVIOUS
  <2>3. AreQuotients(q, arc, base) /\ arc \in Int
    BY <1>2, <2>2
  <2>4. \A j \in Nat : j >= MaxArcOctets + 1 => q[j] = 0
    BY <1>5, <2>1, <2>3, ZeroStays
  <2> QED
    BY <1>3, <2>1, <2>4
<1>7. p[size] < 128 /\ p[size] \in Nat
  <2>1. size \in 1..size /\ size - size = 0 /\ ~ (size < size)
    OBVIOUS
  <2>2. PICK n \in Nat : n = q[0]
    BY <1>2
  <2>3. p[size] = n % 128
    BY <1>4, <2>1, <2>2, Zenon
  <2> QED
    BY <2>2, <2>3
<1>8. \A i \in 1..size - 1 : p[i] >= 128
  <2> TAKE i \in 1..size - 1
  <2>1. i \in 1..size /\ i < size /\ size - i \in Nat
    OBVIOUS
  <2>2. PICK n \in Nat : n = q[size - i]
    BY <1>2, <2>1
  <2>3. p[i] = 128 + (n % 128)
    BY <1>4, <2>1, <2>2, Zenon
  <2> QED
    BY <2>3
<1>9. p[1] # 128
  <2>1. CASE size = 1
    BY <1>7, <2>1
  <2>2. CASE size # 1
    <3>1. size > 1 /\ 1 \in 1..size /\ 1 < size /\ size - 1 \in Nat /\ size = (size - 1) + 1
      BY <2>2
    <3>2. PICK n \in Nat : n = q[size - 1]
      BY <1>2, <3>1
    <3>3. n # 0 /\ n \div 128 = 0
      <4>1. q[(size - 1) + 1] = q[size - 1] \div 128
        BY <1>2, <3>1, Zenon DEF AreQuotients
      <4> QED
        BY <1>3, <3>1, <3>2, <4>1
    <3>4. p[1] = 128 + (n % 128)
      BY <1>4, <3>1, <3>2, Zenon
    <3>5. n % 128 = n
      BY <3>3
    <3> QED
      BY <3>3, <3>4, <3>5
  <2> QED
    BY <2>1, <2>2
<1>10. WellFormed(p)
  <2> SUFFICES ASSUME NEW i \in 1..size, StartsArc(p, i)
               PROVE  /\ p[i] # 128
                      /\ \E j \in i..i + MaxArcOctets : ~ (j \in 1..size /\ p[j] >= 128)
    BY <1>3, Zenon DEF WellFormed
  <2>1. i = 1
    <3> SUFFICES ASSUME i # 1 PROVE FALSE
      OBVIOUS
    <3>1. p[i - 1] < 128 /\ i - 1 \in 1..size - 1
      BY DEF StartsArc
    <3>2. PICK x : x = p[i - 1]
      OBVIOUS
    <3>3. x \in Octet
      BY <1>3, <3>1, <3>2
    <3>4. x >= 128 /\ x < 128
      BY <1>8, <3>1, <3>2
    <3> QED
      BY <3>3, <3>4 DEF Octet
  <2>2. size \in i..i + MaxArcOctets
    BY <1>5, <1>6, <2>1
  <2>3. ~ (p[size] >= 128)
    BY <1>7
  <2> QED
    BY <1>9, <2>1, <2>2, <2>3
<1> QED
  BY <1>1, <1>3, <1>7, <1>10 DEF Finished

\* Nor does it refuse two such sequences in a row.
LEMMA WellFormedTogether ==
    ASSUME NEW o \in Seq(Octet), WellFormed(o), Finished(o),
           NEW p \in Seq(Octet), WellFormed(p), Finished(p)
    PROVE  WellFormed(o \o p) /\ Finished(o \o p)
<1>1. PICK m \in Nat, n \in Nat : m = Len(o) /\ n = Len(p)
  BY LengthIsNatural
<1>2. PICK s \in Seq(Octet) : s = o \o p
  BY ConcatProperties
<1>3. /\ Len(s) = m + n /\ \A i \in 1..m : s[i] = o[i]
      /\ \A i \in 1..n : s[m + i] = p[i]
  BY <1>1, <1>2
<1>4. m > 0 => o[m] < 128 /\ ~ (o[m] >= 128)
  <2> SUFFICES ASSUME m > 0 PROVE o[m] < 128 /\ ~ (o[m] >= 128)
    OBVIOUS
  <2>1. o # <<>> /\ m \in 1..m
    BY <1>1
  <2>2. PICK x \in Octet : x = o[m]
    BY <1>1, <2>1
  <2>3. x < 128
    BY <1>1, <2>1, <2>2 DEF Finished
  <2> QED
    BY <2>2, <2>3 DEF Octet
<1>5. MaxArcOctets \in Nat
  BY MaxArcOctetsAssumption
<1>6. ASSUME NEW i \in 1..m + n, StartsArc(s, i)
      PROVE  /\ s[i] # 128
             /\ \E j \in i..i + MaxArcOctets : ~ (j \in 1..m + n /\ s[j] >= 128)
  <2>1. CASE i \in 1..m
    <3>1. StartsArc(o, i)
      <4>1. i # 1 => i - 1 \in 1..m
        BY <2>1
      <4> QED
        BY <1>3, <1>6, <4>1 DEF StartsArc
    <3>2. /\ o[i] # 128
          /\ \E j \in i..i + MaxArcOctets : ~ (j \in 1..m /\ o[j] >= 128)
      BY <1>1, <2>1, <3>1, Zenon DEF WellFormed
    <3>3. PICK j \in i..i + MaxArcOctets : ~ (j \in 1..m /\ o[j] >= 128)
      BY <3>2
    <3>4. CASE j \in 1..m
      BY <1>3, <2>1, <3>2, <3>3, <3>4
    <3>5. CASE j \notin 1..m
      <4>1. m \in i..i + MaxArcOctets /\ m \in 1..m /\ m > 0
        BY <1>5, <2>1, <3>5
      <4>2. ~ (s[m] >= 128)
        BY <1>3, <1>4, <4>1, Zenon
      <4> QED
        BY <1>3, <2>1, <3>2, <4>1, <4>2, Zenon
    <3> QED
      BY <3>4, <3>5
  <2>2. CASE i \notin 1..m
    <3>1. PICK k \in 1..n : i = m + k
      <4>1. i - m \in 1..n /\ i = m + (i - m)
        BY <2>2
      <4> QED
        BY <4>1
    <3>2. StartsArc(p, k)
      <4> SUFFICES ASSUME k # 1 PROVE p[k - 1] < 128
        BY DEF StartsArc
      <4>1. k - 1 \in 1..n /\ i - 1 = m + (k - 1) /\ i # 1
        BY <3>1
      <4>2. s[i - 1] < 128
        BY <1>6, <4>1 DEF StartsArc
      <4> QED
        BY <1>3, <4>1, <4>2
    <3>3. /\ p[k] # 128
          /\ \E j \in k..k + MaxArcOctets : ~ (j \in 1..n /\ p[j] >= 128)
      BY <1>1, <3>2, Zenon DEF WellFormed
    <3>4. PICK j \in k..k + MaxArcOctets : ~ (j \in 1..n /\ p[j] >= 128)
      BY <3>3
    <3>5. m + j \in i..i + MaxArcOctets /\ (m + j \in 1..m + n => j \in 1..n)
      BY <1>5, <3>1
    <3>6. ~ (m + j \in 1..m + n /\ s[m + j] >= 128)
      BY <1>3, <3>4, <3>5
    <3>7. s[i] # 128
      BY <1>3, <3>1, <3>3
    <3> QED
      BY <3>5, <3>6, <3>7
  <2> QED
    BY <2>1, <2>2
<1>7. WellFormed(s)
  BY <1>3, <1>6, Zenon DEF WellFormed
<1>8. Finished(s)
  <2> SUFFICES ASSUME s # <<>> PROVE s[m + n] < 128
    BY <1>3 DEF Finished
  <2>1. CASE n = 0
    <3>1. m > 0 /\ m + n = m /\ m \in 1..m
      BY <1>3, <2>1
    <3> QED
      BY <1>3, <1>4, <3>1
  <2>2. CASE n # 0
    <3>1. p # <<>> /\ n \in 1..n
      BY <1>1, <2>2
    <3>2. p[n] < 128
      BY <1>1, <3>1 DEF Finished
    <3> QED
      BY <1>3, <3>1, <3>2
  <2> QED
    BY <2>1, <2>2
<1> QED
  BY <1>2, <1>7, <1>8

\* What holds of arcs that are written.
ArcsReadable(arcs) ==
    /\ After(EncodeArcs(arcs)).arcs = arcs
    /\ After(EncodeArcs(arcs)).subId = 0
    /\ WellFormed(EncodeArcs(arcs)) /\ Finished(EncodeArcs(arcs))
    /\ arcs # <<>> => EncodeArcs(arcs) # <<>>

ArcsFit(arcs) == \A i \in 1..Len(arcs) : ArcFits(arcs[i])

\* Arcs that can be read can be so with one more.
LEMMA OneMoreReadable ==
    ASSUME NEW arcs \in Seq(Nat), ArcsReadable(arcs), NEW arc \in Nat, ArcFits(arc)
    PROVE  ArcsReadable(Append(arcs, arc))
<1>1. PICK o \in Seq(Octet) : o = EncodeArcs(arcs)
  BY EncodeArcsType
<1>2. PICK p \in Seq(Octet) : p = Packed(arc)
  BY PackedOctets
<1>3. p # <<>> /\ WellFormed(p) /\ Finished(p)
  BY <1>2, PackedIsWellFormed
<1>4. /\ After(o).arcs = arcs /\ After(o).subId = 0 /\ WellFormed(o) /\ Finished(o)
  BY <1>1 DEF ArcsReadable
<1>5. EncodeArcs(Append(arcs, arc)) = o \o p
  BY <1>1, <1>2, EncodeOneMoreArc
<1>6. After(o \o p).arcs = Append(arcs, arc) /\ After(o \o p).subId = 0
  BY <1>2, <1>4, PackedIsRead, Zenon
<1>7. WellFormed(o \o p) /\ Finished(o \o p)
  BY <1>3, <1>4, WellFormedTogether
<1>8. o \o p # <<>>
  BY <1>3
<1> QED
  BY <1>5, <1>6, <1>7, <1>8, Zenon DEF ArcsReadable

\* No arcs.
LEMMA NoArcsReadable == ArcsReadable(<<>>)
<1>1. WellFormed(<<>>) /\ Finished(<<>>)
  BY DEF WellFormed, Finished
<1>2. After(<<>>).arcs = <<>> /\ After(<<>>).subId = 0
  BY AfterNothing DEF Unread
<1> QED
  BY <1>1, <1>2, EncodeNoArcs, Zenon DEF ArcsReadable

\* By induction, all arcs within the limit.
LEMMA ArcsAreReadable ==
    ASSUME NEW arcs \in Seq(Nat), ArcsFit(arcs)
    PROVE  ArcsReadable(arcs)
<1>1. PICK n \in Nat : n = Len(arcs)
  BY LengthIsNatural
<1> DEFINE P == {j \in Nat : j <= n => ArcsReadable(SubSeq(arcs, 1, j))}
<1>2. Inductive(P)
  <2>1. 0 \in P
    <3>1. SubSeq(arcs, 1, 0) = <<>>
      OBVIOUS
    <3> QED
      BY <3>1, NoArcsReadable
  <2>2. ASSUME NEW j \in Nat, j \in P
        PROVE  j + 1 \in P
    <3>1. SUFFICES ASSUME j + 1 <= n
                   PROVE  ArcsReadable(SubSeq(arcs, 1, j + 1))
      OBVIOUS
    <3>2. j < n /\ j <= n /\ j + 1 \in 1..n
      BY <3>1
    <3>3. PICK a \in Seq(Nat), arc \in Nat : a = SubSeq(arcs, 1, j) /\ arc = arcs[j + 1]
                                            /\ SubSeq(arcs, 1, j + 1) = Append(a, arc)
      <4>1. SubSeq(arcs, 1, j) \in Seq(Nat)
            /\ SubSeq(arcs, 1, j + 1) = Append(SubSeq(arcs, 1, j), arcs[j + 1])
        BY <1>1, <3>2, PrefixOneMore, Zenon
      <4>2. arcs[j + 1] \in Nat
        BY <1>1, <3>2
      <4> QED
        BY <4>1, <4>2
    <3>4. ArcsReadable(a)
      BY <2>2, <3>2, <3>3
    <3>5. ArcFits(arc)
      BY <1>1, <3>2, <3>3 DEF ArcsFit
    <3>6. ArcsReadable(Append(a, arc))
      BY <3>4, <3>5, OneMoreReadable
    <3> QED
      BY <3>3, <3>6, Zenon
  <2> QED
    BY <2>1, <2>2, Zenon DEF Inductive
<1>3. Nat \subseteq P
  <2> HIDE DEF P
  <2> QED
    BY <1>2, Induction
<1>4. ArcsReadable(SubSeq(arcs, 1, n))
  <2>1. n \in P /\ n <= n
    BY <1>3
  <2> QED
    BY <2>1
<1>5. SubSeq(arcs, 1, n) = arcs
  BY <1>1
<1> QED
  BY <1>4, <1>5, Zenon

\* Arcs that fit are read as they were written.
LEMMA ArcsAreRead ==
    ASSUME NEW arcs \in Seq(Nat), arcs # <<>>, ArcsFit(arcs)
    PROVE  /\ DecodeArcs(EncodeArcs(arcs)) = {arcs}
           /\ EncodeArcs(arcs) \in Seq(Octet)
<1>1. PICK o \in Seq(Octet) : o = EncodeArcs(arcs)
  BY EncodeArcsType
<1>2. ArcsReadable(arcs)
  BY ArcsAreReadable
<1>3. o # <<>> /\ WellFormed(o) /\ Finished(o) /\ Unpacked(o) = arcs
  BY <1>1, <1>2, UnpackedIsAfter, Zenon DEF ArcsReadable
<1>4. ~ ArcsRefused(o)
  BY <1>3, RefusedArcs
<1> QED
  BY <1>1, <1>3, <1>4, Zenon DEF DecodeArcs

-----------------------------------------------------------------------------
(* The decoder's loop again: what it has accepted is what is packed.       *)

\* m octets are whole sub-identifiers, and c more the beginning of one.
Pending(o, m, c, s) ==
    /\ m \in Nat /\ c \in Nat /\ m + c <= Len(o) /\ c <= MaxArcOctets
    /\ SubSeq(o, 1, m) = EncodeArcs(s.arcs)
    /\ ArcsFit(s.arcs)
    /\ StartsArc(o, m + 1)
    /\ Quotients(s.subId, 128)[c] = 0
    /\ \A j \in 1..c : o[m + j] = 128 + (Quotients(s.subId, 128)[c - j] % 128)

\* r is the number next, whose last digit is d, taken apart, and q the rest of it.
Extends(r, q, next, d) ==
    /\ next \in Nat /\ next % 128 = d /\ r[0] = next
    /\ \A k \in Nat : r[k + 1] = q[k]

\* The quotients of a number with one digit more.
LEMMA OneDigitMore ==
    ASSUME NEW subId \in Nat, NEW d \in 0..127, NEW next, next = 128 * subId + d
    PROVE  Extends(Quotients(next, 128), Quotients(subId, 128), next, d)
<1>1. PICK base \in Nat \ {0} : base = 128
  OBVIOUS
<1>2. next \in Nat /\ next % 128 = d /\ next \div 128 = subId
  OBVIOUS
<1>3. PICK q, p : q = Quotients(next, 128) /\ p = Quotients(subId, 128)
  OBVIOUS
<1>4. AreQuotients(q, next, base) /\ AreQuotients(p, next \div base, base)
  BY <1>1, <1>2, <1>3, Quotients128, Zenon
<1>5. next \in Int
  BY <1>2
<1>6. \A k \in Nat : p[k] = q[k + 1]
  BY <1>4, <1>5, LaterQuotients
<1>7. q[0] = next
  BY <1>4 DEF AreQuotients
<1> QED
  BY <1>2, <1>3, <1>6, <1>7, Zenon DEF Extends

\* An octet that says that more follow continues a sub-identifier.
LEMMA ContinuesArc ==
    ASSUME NEW o \in Seq(Octet), WellFormed(o), NEW m, NEW c, NEW s \in States,
           Pending(o, m, c, s), m + c < Len(o), o[m + c + 1] >= 128
    PROVE  Pending(o, m, c + 1, ReadOn(s, o[m + c + 1]))
<1>1. /\ m \in Nat /\ c \in Nat /\ c <= MaxArcOctets
      /\ SubSeq(o, 1, m) = EncodeArcs(s.arcs) /\ ArcsFit(s.arcs) /\ StartsArc(o, m + 1)
      /\ MaxArcOctets \in Nat /\ s.subId \in Nat
  BY MaxArcOctetsAssumption DEF Pending, States
<1>k. PICK k \in Nat : k = s.subId
  BY <1>1
<1>2. PICK q : q = Quotients(s.subId, 128) /\ q = Quotients(k, 128) /\ k = s.subId
  BY <1>k
<1>3. q[c] = 0 /\ \A j \in 1..c : o[m + j] = 128 + (q[c - j] % 128)
  BY <1>2, Zenon DEF Pending
<1>n. \A j \in Nat : q[j] \in Nat
  BY <1>2, Quotients128, Zenon
<1>4. PICK x \in Octet : x = o[m + c + 1]
  <2>1. m + c + 1 \in 1..Len(o)
    BY <1>1
  <2> QED
    BY <2>1
<1>5. PICK d \in 0..127 : d = x - 128 /\ x = 128 + d
  <2>1. x >= 128
    BY <1>4, Zenon
  <2>2. x - 128 \in 0..127 /\ x = 128 + (x - 128)
    BY <2>1 DEF Octet
  <2> QED
    BY <2>2
<1>6. ReadOn(s, x).arcs = s.arcs /\ ReadOn(s, x).subId = 128 * k + d
  <2>1. x >= 128
    BY <1>4, Zenon
  <2>2. ReadOn(s, x).arcs = s.arcs /\ ReadOn(s, x).subId = 128 * s.subId + (x - 128)
    BY <2>1, ReadOnFields
  <2> QED
    BY <1>2, <1>5, <2>2, Zenon
<1>7. PICK next : next = 128 * k + d
  OBVIOUS
<1>8. /\ next \in Nat /\ next % 128 = d /\ Quotients(next, 128)[0] = next
      /\ \A j \in Nat : Quotients(next, 128)[j + 1] = q[j]
  <2>1. Extends(Quotients(next, 128), Quotients(k, 128), next, d)
    BY <1>7, OneDigitMore
  <2> QED
    BY <1>2, <2>1, Zenon DEF Extends
<1>9. PICK r : r = Quotients(next, 128)
  OBVIOUS
<1>10. r[c + 1] = 0
  BY <1>1, <1>3, <1>8, <1>9, Zenon
<1>11. ASSUME NEW j \in 1..c + 1
       PROVE  o[m + j] = 128 + (r[(c + 1) - j] % 128)
  <2>1. CASE j \in 1..c
    <3>1. c - j \in Nat /\ (c + 1) - j = (c - j) + 1
      BY <1>1, <2>1
    <3>2. r[(c - j) + 1] = q[c - j]
      BY <1>8, <1>9, <3>1, Zenon
    <3>3. o[m + j] = 128 + (q[c - j] % 128)
      BY <1>3, <2>1, Zenon
    <3>4. r[(c + 1) - j] = q[c - j]
      BY <3>1, <3>2
    <3> QED
      BY <3>3, <3>4, Zenon
  <2>2. CASE j = c + 1
    <3>1. (c + 1) - j = 0 /\ m + j = m + c + 1
      BY <1>1, <2>2
    <3> QED
      BY <1>4, <1>5, <1>8, <1>9, <3>1, Zenon
  <2> QED
    BY <1>1, <2>1, <2>2
<1>12. c + 1 <= MaxArcOctets
  <2> SUFFICES ASSUME ~ (c + 1 <= MaxArcOctets) PROVE FALSE
    OBVIOUS
  <2>1. c = MaxArcOctets
    BY <1>1
  <2>2. m + 1 \in 1..Len(o)
    BY <1>1
  <2>3. PICK j \in m + 1..(m + 1) + MaxArcOctets : ~ (j \in 1..Len(o) /\ o[j] >= 128)
    BY <1>1, <2>2, Zenon DEF WellFormed
  <2>4. j \in 1..Len(o)
    BY <1>1, <2>1
  <2>5. PICK i \in 1..c + 1 : j = m + i
    <3>1. j - m \in 1..c + 1 /\ j = m + (j - m)
      BY <1>1, <2>1
    <3> QED
      BY <3>1
  <2>6. CASE i = c + 1
    <3>1. j = m + c + 1
      BY <1>1, <2>5, <2>6
    <3> QED
      BY <2>3, <2>4, <3>1
  <2>7. CASE i \in 1..c
    <3>1. c - i \in Nat
      BY <1>1, <2>7
    <3>2. PICK y \in Nat : y = q[c - i]
      BY <1>n, <3>1
    <3>3. o[j] = 128 + (y % 128)
      BY <1>3, <2>5, <2>7, <3>2, Zenon
    <3>4. o[j] >= 128
      BY <3>3
    <3> QED
      BY <2>3, <2>4, <3>4
  <2> QED
    BY <1>1, <2>6, <2>7
<1>13. PICK t : t = ReadOn(s, x) /\ t.arcs = s.arcs /\ t.subId = next
  BY <1>6, <1>7
<1>14. c + 1 \in Nat /\ m + (c + 1) <= Len(o)
  BY <1>1
<1>15. Pending(o, m, c + 1, t)
  BY <1>1, <1>9, <1>10, <1>11, <1>12, <1>13, <1>14, Zenon DEF Pending
<1> QED
  BY <1>4, <1>13, <1>15, Zenon

\* Any other finishes it: these were the octets the arc is packed into.
LEMMA FinishesArc ==
    ASSUME NEW o \in Seq(Octet), WellFormed(o), NEW m, NEW c, NEW s \in States,
           Pending(o, m, c, s), m + c < Len(o), ~ (o[m + c + 1] >= 128)
    PROVE  Pending(o, m + c + 1, 0, ReadOn(s, o[m + c + 1]))
<1>1. /\ m \in Nat /\ c \in Nat /\ c <= MaxArcOctets
      /\ SubSeq(o, 1, m) = EncodeArcs(s.arcs) /\ ArcsFit(s.arcs) /\ StartsArc(o, m + 1)
      /\ MaxArcOctets \in Nat /\ s.subId \in Nat /\ s.arcs \in Seq(Nat)
  BY MaxArcOctetsAssumption DEF Pending, States
<1>k. PICK k \in Nat : k = s.subId
  BY <1>1
<1>2. PICK q : q = Quotients(s.subId, 128) /\ q = Quotients(k, 128) /\ k = s.subId
  BY <1>k
<1>3. q[c] = 0 /\ \A j \in 1..c : o[m + j] = 128 + (q[c - j] % 128)
  BY <1>2, Zenon DEF Pending
<1>n. \A j \in Nat : q[j] \in Nat
  BY <1>2, Quotients128, Zenon
<1>4. PICK x \in 0..127 : x = o[m + c + 1]
  <2>1. m + c + 1 \in 1..Len(o)
    BY <1>1
  <2>2. PICK y \in Octet : y = o[m + c + 1]
    BY <2>1
  <2>3. ~ (y >= 128)
    BY <2>2, Zenon
  <2>4. y \in 0..127
    BY <2>3 DEF Octet
  <2> QED
    BY <2>2, <2>4
<1>5. PICK arc : arc = 128 * k + x
  OBVIOUS
<1>6. /\ arc \in Nat /\ arc % 128 = x /\ Quotients(arc, 128)[0] = arc
      /\ \A j \in Nat : Quotients(arc, 128)[j + 1] = q[j]
  <2>1. Extends(Quotients(arc, 128), Quotients(k, 128), arc, x)
    BY <1>5, OneDigitMore
  <2> QED
    BY <1>2, <2>1, Zenon DEF Extends
<1>7. PICK r : r = Quotients(arc, 128)
  OBVIOUS
<1>8. r[c + 1] = 0
  BY <1>1, <1>3, <1>6, <1>7, Zenon
<1>9. ReadOn(s, x).arcs = Append(s.arcs, arc) /\ ReadOn(s, x).subId = 0
  <2>1. x \in Octet /\ ~ (x >= 128)
    BY DEF Octet
  <2>2. ReadOn(s, x).arcs = Append(s.arcs, 128 * s.subId + x) /\ ReadOn(s, x).subId = 0
    BY <2>1, ReadOnFields
  <2> QED
    BY <1>2, <1>5, <2>2, Zenon
<1>10. PICK p \in Seq(Octet) : /\ p = SubSeq(o, m + 1, m + c + 1) /\ Len(p) = c + 1
                               /\ \A i \in 1..c + 1 : p[i] = o[m + i]
  <2>1. PICK a \in Nat, b \in Nat : a = m + 1 /\ b = m + c + 1 /\ 1 <= a /\ a <= b
                                    /\ b <= Len(o) /\ b - a + 1 = c + 1
    BY <1>1
  <2>2. PICK t : t = SubSeq(o, a, b)
    OBVIOUS
  <2>3. /\ t \in Seq(Octet) /\ Len(t) = b - a + 1
        /\ \A i \in 1..b - a + 1 : t[i] = o[a + i - 1]
    BY <2>1, <2>2
  <2>4. \A i \in 1..c + 1 : a + i - 1 = m + i
    BY <1>1, <2>1
  <2>5. Len(t) = c + 1 /\ \A i \in 1..c + 1 : t[i] = o[m + i]
    BY <2>1, <2>3, <2>4, Zenon
  <2> QED
    BY <2>1, <2>2, <2>3, <2>5, Zenon
<1>11. IsPacked(p, arc, c + 1)
  <2>1. c + 1 \in Nat \ {0}
    BY <1>1
  <2>2. ASSUME c + 1 > 1
        PROVE  r[(c + 1) - 1] # 0
    <3>1. c - 1 \in Nat /\ (c + 1) - 1 = (c - 1) + 1 /\ 1 \in 1..c /\ m + 1 \in 1..Len(o)
      BY <1>1, <2>2
    <3>2. r[(c + 1) - 1] = q[c - 1]
      BY <1>6, <1>7, <3>1, Zenon
    <3>3. o[m + 1] = 128 + (q[c - 1] % 128)
      BY <1>3, <3>1, Zenon
    <3>4. o[m + 1] # 128
      BY <1>1, <3>1, Zenon DEF WellFormed
    <3>5. PICK y \in Nat : y = q[c - 1]
      BY <1>n, <3>1
    <3>6. 128 + (y % 128) # 128
      BY <3>3, <3>4, <3>5, Zenon
    <3>7. y # 0
      BY <3>6
    <3> QED
      BY <3>2, <3>5, <3>7, Zenon
  <2>3. ASSUME NEW i \in 1..c + 1
        PROVE  p[i] = IF i < c + 1 THEN 128 + (r[(c + 1) - i] % 128)
                      ELSE r[(c + 1) - i] % 128
    <3>1. CASE i < c + 1
      <4>1. i \in 1..c /\ c - i \in Nat /\ (c + 1) - i = (c - i) + 1
        BY <1>1, <3>1
      <4>2. p[i] = 128 + (r[(c + 1) - i] % 128)
        <5>1. r[(c - i) + 1] = q[c - i]
          BY <1>6, <1>7, <4>1, Zenon
        <5>2. o[m + i] = 128 + (q[c - i] % 128)
          BY <1>3, <4>1, Zenon
        <5>3. r[(c + 1) - i] = q[c - i]
          BY <4>1, <5>1
        <5>4. p[i] = o[m + i]
          BY <1>10
        <5> QED
          BY <5>2, <5>3, <5>4, Zenon
      <4> QED
        BY <3>1, <4>2, Zenon
    <3>2. CASE ~ (i < c + 1)
      <4>1. (c + 1) - i = 0 /\ m + i = m + c + 1
        BY <1>1, <3>2
      <4>2. p[i] = r[(c + 1) - i] % 128
        BY <1>4, <1>6, <1>7, <1>10, <4>1, Zenon
      <4> QED
        BY <3>2, <4>2, Zenon
    <3> QED
      BY <3>1, <3>2
  <2>4. c + 1 > 1 => r[(c + 1) - 1] # 0
    BY <2>2
  <2> QED
    BY <1>7, <1>8, <1>10, <2>1, <2>3, <2>4, Zenon DEF IsPacked
<1>12. p = Packed(arc)
  <2>1. PICK size : IsPacked(Packed(arc), arc, size)
    BY <1>6, ArcIsPacked
  <2> QED
    BY <1>6, <1>11, <2>1, PackedTwice, Zenon
<1>13. EncodeArcs(Append(s.arcs, arc)) = SubSeq(o, 1, m + c + 1)
  <2>1. EncodeArcs(Append(s.arcs, arc)) = SubSeq(o, 1, m) \o SubSeq(o, m + 1, m + c + 1)
    BY <1>1, <1>6, <1>10, <1>12, EncodeOneMoreArc, Zenon
  <2>2. SubSeq(o, 1, m) \o SubSeq(o, m + 1, m + c + 1) = SubSeq(o, 1, m + c + 1)
    <3>1. PICK one \in Nat, n \in Nat : one = 1 /\ n = m + c + 1
      BY <1>1
    <3>2. /\ one \in 1..Len(o) + 1 /\ m \in one - 1..Len(o) /\ n \in m..Len(o)
      BY <1>1, <3>1
    <3>3. SubSeq(o, one, m) \o SubSeq(o, m + 1, n) = SubSeq(o, one, n)
      BY <3>2, ConcatAdjacentSubSeq
    <3> QED
      BY <3>1, <3>3, Zenon
  <2> QED
    BY <2>1, <2>2, Zenon
<1>14. ArcFits(arc)
  <2>1. PICK base \in Nat \ {0} : base = 128
    OBVIOUS
  <2>2. AreQuotients(r, arc, base)
    BY <1>6, <1>7, <2>1, Quotients128, Zenon
  <2>3. /\ arc \in Int /\ c + 1 \in Nat
        /\ MaxArcOctets + 1 \in Nat /\ MaxArcOctets + 1 >= c + 1
    BY <1>1, <1>6
  <2>4. \A j \in Nat : j >= c + 1 => r[j] = 0
    BY <1>8, <2>2, <2>3, ZeroStays
  <2> QED
    BY <1>7, <2>3, <2>4, Zenon DEF ArcFits
<1>15. ArcsFit(Append(s.arcs, arc))
  <2>1. PICK a \in Seq(Nat) : a = s.arcs
    BY <1>1
  <2>2. \A i \in 1..Len(a) + 1 : Append(a, arc)[i] = (IF i \in 1..Len(a) THEN a[i] ELSE arc)
    OBVIOUS
  <2>3. Len(Append(a, arc)) = Len(a) + 1
    OBVIOUS
  <2> QED
    BY <1>1, <1>14, <2>1, <2>2, <2>3, Zenon DEF ArcsFit
<1>16. StartsArc(o, (m + c + 1) + 1)
  <2>1. ((m + c + 1) + 1) - 1 = m + c + 1
    BY <1>1
  <2>2. o[m + c + 1] < 128
    BY <1>4
  <2> QED
    BY <2>1, <2>2, Zenon DEF StartsArc
<1>17. PICK t : t = ReadOn(s, x) /\ t.arcs = Append(s.arcs, arc) /\ t.subId = 0
  BY <1>9
<1>18. Quotients(0, 128)[0] = 0
  <2>1. 0 \in Nat
    OBVIOUS
  <2> QED
    BY <2>1, Quotients128, Zenon DEF AreQuotients
<1>19. m + c + 1 \in Nat /\ 0 \in Nat /\ (m + c + 1) + 0 <= Len(o) /\ 0 <= MaxArcOctets
       /\ \A j \in 1..0 : FALSE
  BY <1>1
<1>20. Pending(o, m + c + 1, 0, t)
  <2>1. PICK a \in Nat : a = m + c + 1
    BY <1>19
  <2>2. SubSeq(o, 1, a) = EncodeArcs(t.arcs) /\ ArcsFit(t.arcs)
    BY <1>13, <1>15, <1>17, <2>1, Zenon
  <2>3. StartsArc(o, a + 1) /\ Quotients(t.subId, 128)[0] = 0
    BY <1>16, <1>17, <1>18, <2>1, Zenon
  <2>4. \A j \in 1..0 : o[a + j] = 128 + (Quotients(t.subId, 128)[0 - j] % 128)
    BY <1>19, Zenon
  <2>5. 0 \in Nat /\ a + 0 <= Len(o) /\ 0 <= MaxArcOctets
    BY <1>19, <2>1, Zenon
  <2>6. Pending(o, a, 0, t)
    BY <2>2, <2>3, <2>4, <2>5, Zenon DEF Pending
  <2> QED
    BY <2>1, <2>6, Zenon
<1> QED
  BY <1>4, <1>17, <1>20, Zenon

\* Arcs that are read fit, and are written as they were spelled.
LEMMA ArcsAreWrittenBack ==
    ASSUME NEW o \in Seq(Octet), NEW arcs, DecodeArcs(o) = {arcs}
    PROVE  /\ EncodeArcs(arcs) = o
           /\ arcs \in Seq(Nat) /\ arcs # <<>> /\ ArcsFit(arcs)
<1>1. ~ ArcsRefused(o) /\ Unpacked(o) = arcs
  <2>1. ArcsRefused(o) => DecodeArcs(o) = {}
    BY Zenon DEF DecodeArcs
  <2>2. ~ ArcsRefused(o) => DecodeArcs(o) = {Unpacked(o)}
    BY Zenon DEF DecodeArcs
  <2> QED
    BY <2>1, <2>2
<1>2. o # <<>> /\ WellFormed(o) /\ Finished(o)
  BY <1>1, RefusedArcs
<1>3. PICK n \in Nat : n = Len(o)
  BY LengthIsNatural
<1>4. PICK after : Loops(after, o) /\ After(o) = after[n]
  BY <1>3, AfterUnfolds, Zenon
<1> DEFINE P == {i \in Nat : i <= n =>
                    \E m \in Nat, c \in Nat : m + c = i /\ Pending(o, m, c, after[i])}
<1>5. Inductive(P)
  <2>1. 0 \in P
    <3>1. Pending(o, 0, 0, Unread)
      <4>1. SubSeq(o, 1, 0) = EncodeArcs(Unread.arcs) /\ ArcsFit(Unread.arcs)
        <5>1. SubSeq(o, 1, 0) = <<>> /\ Unread.arcs = <<>>
          BY DEF Unread
        <5>2. ArcsFit(<<>>)
          BY DEF ArcsFit
        <5> QED
          BY <5>1, <5>2, EncodeNoArcs, Zenon
      <4>2. StartsArc(o, 0 + 1)
        BY DEF StartsArc
      <4>3. Quotients(Unread.subId, 128)[0] = 0
        <5>1. 0 \in Nat /\ Unread.subId = 0
          BY DEF Unread
        <5> QED
          BY <5>1, Quotients128, Zenon DEF AreQuotients
      <4>4. \A j \in 1..0 : o[0 + j] = 128 + (Quotients(Unread.subId, 128)[0 - j] % 128)
        OBVIOUS
      <4>5. 0 \in Nat /\ 0 + 0 <= Len(o) /\ 0 <= MaxArcOctets
        BY <1>3, MaxArcOctetsAssumption
      <4> QED
        BY <4>1, <4>2, <4>3, <4>4, <4>5, Zenon DEF Pending
    <3>2. after[0] = Unread
      BY <1>4 DEF Loops
    <3>3. 0 \in Nat /\ 0 + 0 = 0
      OBVIOUS
    <3> QED
      BY <3>1, <3>2, <3>3, Zenon
  <2>2. ASSUME NEW i \in Nat, i \in P
        PROVE  i + 1 \in P
    <3>1. SUFFICES ASSUME i + 1 <= n
                   PROVE  \E m \in Nat, c \in Nat :
                              m + c = i + 1 /\ Pending(o, m, c, after[i + 1])
      OBVIOUS
    <3>2. i <= n /\ i \in 0..n /\ i + 1 \in 1..n /\ (i + 1) - 1 = i /\ i < n
      BY <3>1
    <3>3. PICK m \in Nat, c \in Nat : m + c = i /\ Pending(o, m, c, after[i])
      BY <2>2, <3>2
    <3>4. PICK s \in States : s = after[i]
      BY <1>3, <1>4, <3>2, Zenon DEF Loops
    <3>5. after[i + 1] = ReadOn(s, o[i + 1])
      BY <1>3, <1>4, <3>2, <3>4, Zenon DEF Loops
    <3>6. Pending(o, m, c, s) /\ m + c < Len(o) /\ i + 1 = m + c + 1
      BY <1>3, <3>2, <3>3, <3>4
    <3>7. CASE o[i + 1] >= 128
      <4>1. Pending(o, m, c + 1, after[i + 1])
        BY <1>2, <3>5, <3>6, <3>7, ContinuesArc, Zenon
      <4>2. c + 1 \in Nat /\ m + (c + 1) = i + 1
        BY <3>3
      <4> QED
        BY <4>1, <4>2, Zenon
    <3>8. CASE ~ (o[i + 1] >= 128)
      <4>1. Pending(o, m + c + 1, 0, after[i + 1])
        BY <1>2, <3>5, <3>6, <3>8, FinishesArc, Zenon
      <4>2. m + c + 1 \in Nat /\ 0 \in Nat /\ (m + c + 1) + 0 = i + 1
        BY <3>3
      <4> QED
        BY <4>1, <4>2, Zenon
    <3> QED
      BY <3>7, <3>8
  <2> HIDE DEF P
  <2> QED
    BY <2>1, <2>2, Zenon DEF Inductive
<1>6. Nat \subseteq P
  <2> HIDE DEF P
  <2> QED
    BY <1>5, Induction
<1>7. PICK m \in Nat, c \in Nat : m + c = n /\ Pending(o, m, c, after[n])
  <2>1. n \in P /\ n <= n
    BY <1>6
  <2> QED
    BY <2>1
<1>8. PICK s \in States : s = after[n] /\ s.arcs = arcs
  <2>1. n \in 0..n
    OBVIOUS
  <2>2. after[n] \in States
    BY <1>3, <1>4, <2>1, Zenon DEF Loops
  <2> QED
    BY <1>1, <1>4, <2>2, UnpackedIsAfter
<1>9. c = 0
  <2> SUFFICES ASSUME c # 0 PROVE FALSE
    OBVIOUS
  <2>1. c \in 1..c /\ c - c = 0 /\ n \in 1..n
    BY <1>7
  <2>2. PICK k, q : k \in Nat /\ k = s.subId /\ q = Quotients(k, 128)
    BY DEF States
  <2>3. o[m + c] = 128 + (q[c - c] % 128)
    BY <1>7, <1>8, <2>1, <2>2, Zenon DEF Pending
  <2>4. PICK y \in Nat : y = q[0]
    <3>1. 0 \in Nat
      OBVIOUS
    <3> QED
      BY <2>2, <3>1, Quotients128, Zenon
  <2>5. o[n] = 128 + (y % 128)
    BY <1>7, <2>1, <2>3, <2>4, Zenon
  <2>6. o[n] < 128
    BY <1>2, <1>3 DEF Finished
  <2>7. 128 + (y % 128) >= 128 /\ 128 + (y % 128) \in Nat
    OBVIOUS
  <2> QED
    BY <2>5, <2>6, <2>7
<1>10. SubSeq(o, 1, n) = EncodeArcs(arcs) /\ ArcsFit(arcs)
  <2>1. m = n
    BY <1>7, <1>9
  <2> QED
    BY <1>7, <1>8, <2>1, Zenon DEF Pending
<1>11. SubSeq(o, 1, n) = o
  BY <1>3
<1>12. arcs \in Seq(Nat)
  BY <1>8 DEF States
<1>13. arcs # <<>>
  BY <1>2, <1>10, <1>11, EncodeNoArcs
<1> QED
  BY <1>10, <1>11, <1>12, <1>13, Zenon

-----------------------------------------------------------------------------
(* OBJECT IDENTIFIER: the first sub-identifier is two arcs.                *)

\* The sub-identifiers of an OBJECT IDENTIFIER.
OidSubIds(v) == <<v[2] + 40 * v[1]>> \o SubSeq(v, 3, Len(v))

\* What is left of a sequence without its first two elements.
IsRest(t, v) ==
    /\ t \in Seq(Nat) /\ Len(t) = Len(v) - 2
    /\ \A i \in 1..Len(v) - 2 : t[i] = v[i + 2]

\* The arcs after the first two.
LEMMA RestOfTwo ==
    ASSUME NEW v \in Seq(Nat), Len(v) >= 2
    PROVE  IsRest(SubSeq(v, 3, Len(v)), v)
<1>1. PICK n \in Nat, three \in Nat : n = Len(v) /\ n >= 2 /\ three = 3
  BY LengthIsNatural
<1>2. \A i \in three..n : i \in 1..Len(v) /\ v[i] \in Nat
  BY <1>1
<1>3. PICK t : t = SubSeq(v, three, n)
  OBVIOUS
<1>4. /\ t \in Seq(Nat) /\ Len(t) = IF three <= n THEN n - three + 1 ELSE 0
      /\ \A i \in 1..n - three + 1 : t[i] = v[three + i - 1]
  <2>1. three \in Int /\ n \in Int /\ \A i \in three..n : v[i] \in Nat
    BY <1>1, <1>2
  <2>2. /\ SubSeq(v, three, n) \in Seq(Nat)
        /\ Len(SubSeq(v, three, n)) = IF three <= n THEN n - three + 1 ELSE 0
        /\ \A i \in 1..n - three + 1 : SubSeq(v, three, n)[i] = v[three + i - 1]
    <3>1. PICK X : X = Nat
      OBVIOUS
    <3>2. \A i \in three..n : v[i] \in X
      BY <2>1, <3>1
    <3>3. /\ SubSeq(v, three, n) \in Seq(X)
          /\ Len(SubSeq(v, three, n)) = IF three <= n THEN n - three + 1 ELSE 0
          /\ \A i \in 1..n - three + 1 : SubSeq(v, three, n)[i] = v[three + i - 1]
      BY <2>1, <3>2, SubSeqProperties
    <3> QED
      BY <3>1, <3>3, Zenon
  <2> QED
    BY <1>3, <2>2, Zenon
<1>5. n - three + 1 = n - 2 /\ \A i \in 1..n - 2 : three + i - 1 = i + 2
  BY <1>1
<1>6. (IF three <= n THEN n - three + 1 ELSE 0) = n - 2
  BY <1>1
<1>7. t \in Seq(Nat) /\ Len(t) = n - 2 /\ \A i \in 1..n - 2 : t[i] = v[i + 2]
  BY <1>4, <1>5, <1>6
<1> QED
  BY <1>1, <1>3, <1>7, Zenon DEF IsRest

\* The sub-identifiers that an OBJECT IDENTIFIER is written as.
LEMMA OidSubIdsType ==
    ASSUME NEW v \in Seq(Nat), ~ OidRefused(v)
    PROVE  /\ OidSubIds(v) \in Seq(Nat) /\ OidSubIds(v) # <<>>
           /\ Head(OidSubIds(v)) = v[2] + 40 * v[1]
           /\ Tail(OidSubIds(v)) = SubSeq(v, 3, Len(v))
<1>1. PICK n \in Nat : n = Len(v) /\ n >= 2
  BY DEF OidRefused
<1>2. PICK x \in Nat, y \in Nat : x = v[1] /\ y = v[2]
  BY <1>1
<1>3. PICK t \in Seq(Nat) : t = SubSeq(v, 3, Len(v))
  BY <1>1, RestOfTwo DEF IsRest
<1>4. PICK k \in Nat : k = y + 40 * x
  OBVIOUS
<1>5. <<k>> \o t \in Seq(Nat) /\ <<k>> \o t # <<>> /\ Head(<<k>> \o t) = k
  OBVIOUS
<1>6. Tail(<<k>> \o t) = t
  OBVIOUS
<1>7. OidSubIds(v) = <<k>> \o t
  BY <1>2, <1>3, <1>4, Zenon DEF OidSubIds
<1> QED
  BY <1>2, <1>3, <1>4, <1>5, <1>6, <1>7, Zenon

\* The first two arcs come apart as they were put together.
LEMMA FirstTwoApart ==
    ASSUME NEW x \in Nat, NEW y \in Nat, ~ (x > 2), ~ (y > 39 /\ x # 2)
    PROVE  FirstTwo(y + 40 * x) = <<x, y>>
<1>1. CASE x = 0
  BY <1>1 DEF FirstTwo
<1>2. CASE x = 1
  BY <1>2 DEF FirstTwo
<1>3. CASE x = 2
  BY <1>3 DEF FirstTwo
<1> QED
  BY <1>1, <1>2, <1>3

\* Every first sub-identifier is two arcs that the encoder does not refuse.
LEMMA FirstTwoTogether ==
    ASSUME NEW k \in Nat
    PROVE  \E x \in Nat, y \in Nat : /\ FirstTwo(k) = <<x, y>> /\ k = y + 40 * x
                                     /\ ~ (x > 2) /\ ~ (y > 39 /\ x # 2)
<1>1. CASE k <= 39
  <2>1. FirstTwo(k) = <<0, k>> /\ k = k + 40 * 0
    BY <1>1 DEF FirstTwo
  <2> QED
    BY <1>1, <2>1
<1>2. CASE ~ (k <= 39) /\ k <= 79
  <2>1. FirstTwo(k) = <<1, k - 40>> /\ k = (k - 40) + 40 * 1 /\ k - 40 \in Nat /\ ~ (k - 40 > 39)
    BY <1>2 DEF FirstTwo
  <2> QED
    BY <1>2, <2>1
<1>3. CASE ~ (k <= 39) /\ ~ (k <= 79)
  <2>1. FirstTwo(k) = <<2, k - 80>> /\ k = (k - 80) + 40 * 2 /\ k - 80 \in Nat
    BY <1>3 DEF FirstTwo
  <2> QED
    BY <1>3, <2>1
<1> QED
  BY <1>1, <1>2, <1>3

\* The two and the rest are the whole.
LEMMA OidIsTwoAndMore ==
    ASSUME NEW v \in Seq(Nat), Len(v) >= 2
    PROVE  <<v[1], v[2]>> \o SubSeq(v, 3, Len(v)) = v
<1>1. PICK n \in Nat : n = Len(v) /\ n >= 2
  BY LengthIsNatural
<1>2. PICK x \in Nat, y \in Nat : x = v[1] /\ y = v[2]
  BY <1>1
<1>3. PICK t \in Seq(Nat) : /\ t = SubSeq(v, 3, Len(v)) /\ Len(t) = n - 2
                            /\ \A i \in 1..n - 2 : t[i] = v[i + 2]
  BY <1>1, RestOfTwo DEF IsRest
<1>4. PICK s \in Seq(Nat) : s = <<x, y>> \o t
  <2>1. <<x, y>> \in Seq(Nat)
    OBVIOUS
  <2> QED
    BY <2>1, ConcatProperties
<1>5. Len(s) = n /\ s[1] = x /\ s[2] = y /\ \A i \in 1..n - 2 : s[i + 2] = t[i]
  BY <1>1, <1>3, <1>4
<1>6. ASSUME NEW i \in 1..n
      PROVE  s[i] = v[i]
  <2>1. CASE i = 1 \/ i = 2
    BY <1>2, <1>5, <2>1
  <2>2. CASE ~ (i = 1 \/ i = 2)
    <3>1. i - 2 \in 1..n - 2 /\ (i - 2) + 2 = i
      BY <2>2
    <3>2. s[(i - 2) + 2] = t[i - 2] /\ t[i - 2] = v[(i - 2) + 2]
      BY <1>3, <1>5, <3>1, Zenon
    <3> QED
      BY <3>1, <3>2
  <2> QED
    BY <2>1, <2>2
<1>7. s = v
  <2>1. Len(s) = Len(v) /\ \A i \in 1..Len(s) : s[i] = v[i]
    BY <1>1, <1>5, <1>6, Zenon
  <2> QED
    BY <2>1, SeqEqual
<1> QED
  BY <1>2, <1>3, <1>4, <1>7, Zenon

\* An OBJECT IDENTIFIER is read as it was written, if its sub-identifiers are in bounds.
LEMMA OidIsRead ==
    ASSUME NEW v \in Seq(Nat), ~ OidRefused(v), ArcsFit(OidSubIds(v))
    PROVE  \E octets \in Seq(Octet) : EncodeOid(v) = {octets} /\ DecodeOid(octets) = {v}
<1>1. PICK arcs \in Seq(Nat) : /\ arcs = OidSubIds(v) /\ arcs # <<>>
                               /\ Head(arcs) = v[2] + 40 * v[1]
                               /\ Tail(arcs) = SubSeq(v, 3, Len(v))
  BY OidSubIdsType
<1>2. PICK octets \in Seq(Octet) : octets = EncodeArcs(arcs) /\ DecodeArcs(octets) = {arcs}
  BY <1>1, ArcsAreRead
<1>3. EncodeOid(v) = {octets}
  BY <1>1, <1>2, Zenon DEF EncodeOid, OidSubIds
<1>4. FirstTwo(Head(arcs)) = <<v[1], v[2]>>
  <2>1. Len(v) >= 2 /\ ~ (v[1] > 2) /\ ~ (v[2] > 39 /\ v[1] # 2)
    BY LengthIsNatural DEF OidRefused
  <2>2. PICK x \in Nat, y \in Nat : x = v[1] /\ y = v[2]
    BY <2>1
  <2>3. FirstTwo(y + 40 * x) = <<x, y>>
    BY <2>1, <2>2, FirstTwoApart
  <2> QED
    BY <1>1, <2>2, <2>3, Zenon
<1>5. FirstTwo(Head(arcs)) \o Tail(arcs) = v
  <2>1. Len(v) >= 2
    BY LengthIsNatural DEF OidRefused
  <2> QED
    BY <1>1, <1>4, <2>1, OidIsTwoAndMore, Zenon
<1>6. DecodeOid(octets) = {v}
  BY <1>2, <1>5 DEF DecodeOid
<1> QED
  BY <1>2, <1>3, <1>6

\* It is written as it was read, under BER as well, and what is read is in bounds.
LEMMA OidIsWrittenBack ==
    ASSUME NEW octets \in Seq(Octet), NEW v, DecodeOid(octets) = {v}
    PROVE  /\ EncodeOid(v) = {octets}
           /\ v \in Seq(Nat) /\ ~ OidRefused(v) /\ ArcsFit(OidSubIds(v))
<1>1. PICK arcs : DecodeArcs(octets) = {arcs} /\ v = FirstTwo(Head(arcs)) \o Tail(arcs)
  <2>1. ArcsRefused(octets) => DecodeArcs(octets) = {}
    BY Zenon DEF DecodeArcs
  <2>2. DecodeArcs(octets) = {} => DecodeOid(octets) = {}
    BY DEF DecodeOid
  <2>3. DecodeArcs(octets) = {Unpacked(octets)}
    BY <2>1, <2>2, Zenon DEF DecodeArcs
  <2>4. v \in DecodeOid(octets)
    OBVIOUS
  <2> QED
    BY <2>3, <2>4 DEF DecodeOid
<1>2. EncodeArcs(arcs) = octets /\ arcs \in Seq(Nat) /\ arcs # <<>> /\ ArcsFit(arcs)
  BY <1>1, ArcsAreWrittenBack
<1>3. PICK k \in Nat, t \in Seq(Nat) : k = Head(arcs) /\ t = Tail(arcs) /\ arcs = <<k>> \o t
  <2>1. Head(arcs) \in Nat /\ Tail(arcs) \in Seq(Nat) /\ arcs = <<Head(arcs)>> \o Tail(arcs)
    BY <1>2
  <2> QED
    BY <2>1
<1>4. PICK x \in Nat, y \in Nat : /\ FirstTwo(k) = <<x, y>> /\ k = y + 40 * x
                                  /\ ~ (x > 2) /\ ~ (y > 39 /\ x # 2)
  BY FirstTwoTogether
<1>5. v = <<x, y>> \o t
  BY <1>1, <1>3, <1>4, Zenon
<1>6. v \in Seq(Nat) /\ Len(v) = 2 + Len(t) /\ v[1] = x /\ v[2] = y
  BY <1>5
<1>7. ~ OidRefused(v)
  <2>1. ~ (Len(v) < 2)
    BY <1>6, LengthIsNatural
  <2> QED
    BY <1>4, <1>6, <2>1, Zenon DEF OidRefused
<1>8. SubSeq(v, 3, Len(v)) = t
  <2>1. PICK n \in Nat : n = Len(t) /\ Len(v) = n + 2
    BY <1>6, LengthIsNatural
  <2>2. \A i \in 1..n : v[i + 2] = t[i]
    BY <1>5, <2>1
  <2>3. PICK s \in Seq(Nat) : /\ s = SubSeq(v, 3, Len(v)) /\ Len(s) = n
                              /\ \A i \in 1..n : s[i] = v[i + 2]
    <3>1. Len(v) >= 2
      BY <2>1
    <3>2. IsRest(SubSeq(v, 3, Len(v)), v)
      BY <1>6, <3>1, RestOfTwo
    <3>3. Len(v) - 2 = n
      BY <2>1
    <3> QED
      BY <3>2, <3>3, Zenon DEF IsRest
  <2> QED
    BY <2>1, <2>2, <2>3
<1>9. OidSubIds(v) = arcs
  BY <1>3, <1>4, <1>6, <1>8, Zenon DEF OidSubIds
<1>10. EncodeOid(v) = {octets}
  BY <1>2, <1>7, <1>9, Zenon DEF EncodeOid, OidSubIds
<1> QED
  BY <1>2, <1>6, <1>7, <1>9, <1>10

-----------------------------------------------------------------------------
(* encode() and decode() of the types without a time or a REAL.            *)

\* The types whose contents octets are followed here.
Plain == {"INTEGER", "BOOLEAN", "NULL", "OID", "RELATIVE-OID", "BIT STRING", "OCTET STRING"}

Chunk(j) == IF j.rules = "CER" THEN CerSize ELSE IF j.rules = "DER" THEN 0 ELSE j.option

\* Encoded and Decoded, of a job.
Written(j, v) ==
    CASE j.type = "INTEGER"      -> {Primitive(EncodeInteger(v))}
      [] j.type = "BOOLEAN"      -> {Primitive(EncodeBoolean(j.rules, v))}
      [] j.type = "NULL"         -> {Primitive(EncodeNull)}
      [] j.type = "OID"          -> {Primitive(octets) : octets \in EncodeOid(v)}
      [] j.type = "RELATIVE-OID" -> {Primitive(EncodeArcs(v))}
      [] j.type = "BIT STRING"   -> {EncodeBitString(Chunk(j), v)}
      [] j.type = "OCTET STRING" -> {EncodeOctetString(Chunk(j), v)}

ReadAs(j, w) ==
    CASE j.type = "INTEGER"      -> DecodeInteger(j.rules, w.fragments[1])
      [] j.type = "BOOLEAN"      -> DecodeBoolean(j.rules, w.fragments[1])
      [] j.type = "NULL"         -> DecodeNull(w.fragments[1])
      [] j.type = "OID"          -> DecodeOid(w.fragments[1])
      [] j.type = "RELATIVE-OID" -> DecodeArcs(w.fragments[1])
      [] j.type = "BIT STRING"   -> DecodeBitString(j.rules, w)
      [] j.type = "OCTET STRING" -> DecodeOctetString(j.rules, w)

FitsAs(type, v) ==
    IF type = "OID" THEN ~ OidRefused(v) /\ ArcsFit(OidSubIds(v))
    ELSE IF type = "RELATIVE-OID" THEN v # <<>> /\ ArcsFit(v) ELSE TRUE

Jobs == [type : Plain, rules : Rules, option : Nat]

\* The chunk size is one the decoder of the same rules accepts fragments of.
LEMMA ChunkSuits ==
    ASSUME NEW j \in Jobs
    PROVE  ChunksFor(j.rules, Chunk(j)) /\ Chunk(j) \in Nat
  BY CerSizeAssumption DEF Jobs, Rules, ChunksFor, Chunk

\* What is written of an object.
LEMMA ObjectIsWritten ==
    ASSUME NEW j \in Jobs, NEW v \in Objects(j.type)
    PROVE  /\ Written(j, v) = {} \/ \E w \in Wire : Written(j, v) = {w}
           /\ FitsAs(j.type, v) => \E w \in Wire : Written(j, v) = {w} /\ ReadAs(j, w) = {v}
<1>1. CASE j.type = "INTEGER"
  <2>1. v \in Int
    BY <1>1 DEF Objects
  <2>2. PICK o \in Seq(Octet) : o = EncodeInteger(v) /\ DecodeInteger(j.rules, o) = {v}
    BY <2>1, IntegerIsRead
  <2>3. Written(j, v) = {Primitive(o)}
    BY <1>1, <2>2 DEF Written
  <2>4. Primitive(o) \in Wire /\ Primitive(o).fragments[1] = o
    BY PrimitiveIsWire
  <2>5. ReadAs(j, Primitive(o)) = DecodeInteger(j.rules, Primitive(o).fragments[1])
    BY <1>1 DEF ReadAs
  <2> QED
    BY <2>2, <2>3, <2>4, <2>5, Zenon
<1>2. CASE j.type = "BOOLEAN"
  <2>1. v \in {0, 1} /\ j.rules \in Rules
    BY <1>2 DEF Objects, Jobs
  <2>2. PICK o : o = EncodeBoolean(j.rules, v)
    OBVIOUS
  <2>3. o \in Seq(Octet) /\ DecodeBoolean(j.rules, o) = {v}
    <3>1. PICK n \in {0, 1, 255} : /\ o = <<n>>
                                   /\ n = IF v = 0 THEN 0 ELSE IF j.rules = "BER" THEN 1 ELSE 255
      BY <2>1, <2>2 DEF EncodeBoolean
    <3>2. <<n>> \in Seq(Octet) /\ Len(<<n>>) = 1 /\ <<n>>[1] = n
      BY DEF Octet
    <3>3. ~ (Len(o) # 1 \/ (j.rules # "BER" /\ o[1] \notin {0, 255}))
      BY <3>1, <3>2
    <3>4. (IF o[1] = 0 THEN 0 ELSE 1) = v
      BY <2>1, <3>1, <3>2
    <3>5. DecodeBoolean(j.rules, o) = {IF o[1] = 0 THEN 0 ELSE 1}
      BY <3>3, Zenon DEF DecodeBoolean
    <3> QED
      BY <3>1, <3>2, <3>4, <3>5, Zenon
  <2>4. Written(j, v) = {Primitive(o)}
    BY <1>2, <2>2 DEF Written
  <2>5. Primitive(o) \in Wire /\ Primitive(o).fragments[1] = o
    BY <2>3, PrimitiveIsWire
  <2>6. ReadAs(j, Primitive(o)) = DecodeBoolean(j.rules, Primitive(o).fragments[1])
    BY <1>2 DEF ReadAs
  <2> QED
    BY <2>3, <2>4, <2>5, <2>6, Zenon
<1>3. CASE j.type = "NULL"
  <2>1. v = ""
    BY <1>3 DEF Objects
  <2>2. PICK o \in Seq(Octet) : o = EncodeNull /\ DecodeNull(o) = {v}
    <3>1. <<>> \in Seq(Octet)
      OBVIOUS
    <3>2. EncodeNull = <<>> /\ DecodeNull(<<>>) = {v}
      BY <2>1, Zenon DEF EncodeNull, DecodeNull
    <3> QED
      BY <3>1, <3>2
  <2>3. Written(j, v) = {Primitive(o)}
    BY <1>3, <2>2 DEF Written
  <2>4. Primitive(o) \in Wire /\ Primitive(o).fragments[1] = o
    BY PrimitiveIsWire
  <2>5. ReadAs(j, Primitive(o)) = DecodeNull(Primitive(o).fragments[1])
    BY <1>3 DEF ReadAs
  <2> QED
    BY <2>2, <2>3, <2>4, <2>5, Zenon
<1>4. CASE j.type = "OID"
  <2>1. v \in Seq(Nat)
    BY <1>4 DEF Objects
  <2>2. Written(j, v) = {Primitive(octets) : octets \in EncodeOid(v)}
    BY <1>4 DEF Written
  <2>3. CASE OidRefused(v)
    <3>1. EncodeOid(v) = {}
      BY <2>3, Zenon DEF EncodeOid
    <3>2. Written(j, v) = {} /\ ~ FitsAs(j.type, v)
      BY <1>4, <2>2, <2>3, <3>1 DEF FitsAs
    <3> QED
      BY <3>2
  <2>4. CASE ~ OidRefused(v)
    <3>1. OidSubIds(v) \in Seq(Nat)
      BY <2>1, <2>4, OidSubIdsType
    <3>2. PICK o \in Seq(Octet) : o = EncodeArcs(OidSubIds(v))
      BY <3>1, EncodeArcsType
    <3>3. EncodeOid(v) = {o}
      BY <2>4, <3>2, Zenon DEF EncodeOid, OidSubIds
    <3>4. Written(j, v) = {Primitive(o)}
      BY <2>2, <3>3
    <3>5. Primitive(o) \in Wire /\ Primitive(o).fragments[1] = o
      BY PrimitiveIsWire
    <3>6. ReadAs(j, Primitive(o)) = DecodeOid(Primitive(o).fragments[1])
      BY <1>4 DEF ReadAs
    <3>7. FitsAs(j.type, v) => DecodeOid(o) = {v}
      <4> SUFFICES ASSUME FitsAs(j.type, v) PROVE DecodeOid(o) = {v}
        OBVIOUS
      <4>1. ArcsFit(OidSubIds(v))
        BY <1>4 DEF FitsAs
      <4>2. PICK octets \in Seq(Octet) : EncodeOid(v) = {octets} /\ DecodeOid(octets) = {v}
        BY <2>1, <2>4, <4>1, OidIsRead
      <4> QED
        BY <3>3, <4>2
    <3> QED
      BY <3>4, <3>5, <3>6, <3>7, Zenon
  <2> QED
    BY <2>3, <2>4
<1>5. CASE j.type = "RELATIVE-OID"
  <2>1. v \in Seq(Nat)
    BY <1>5 DEF Objects
  <2>2. PICK o \in Seq(Octet) : o = EncodeArcs(v)
    BY <2>1, EncodeArcsType
  <2>3. Written(j, v) = {Primitive(o)}
    BY <1>5, <2>2 DEF Written
  <2>4. Primitive(o) \in Wire /\ Primitive(o).fragments[1] = o
    BY PrimitiveIsWire
  <2>5. ReadAs(j, Primitive(o)) = DecodeArcs(Primitive(o).fragments[1])
    BY <1>5 DEF ReadAs
  <2>6. FitsAs(j.type, v) => DecodeArcs(o) = {v}
    <3>1. FitsAs(j.type, v) => v # <<>> /\ ArcsFit(v)
      BY <1>5 DEF FitsAs
    <3> QED
      BY <2>1, <2>2, <3>1, ArcsAreRead
  <2> QED
    BY <2>3, <2>4, <2>5, <2>6, Zenon
<1>6. CASE j.type = "BIT STRING"
  <2>1. v \in Seq(Bits)
    BY <1>6 DEF Objects, Bits
  <2>2. PICK w : w = EncodeBitString(Chunk(j), v)
    OBVIOUS
  <2>3. w \in Wire /\ DecodeBitString(j.rules, w) = {v}
    BY <2>1, <2>2, BitStringIsRead, ChunkSuits
  <2>4. Written(j, v) = {w} /\ ReadAs(j, w) = DecodeBitString(j.rules, w)
    BY <1>6, <2>2 DEF Written, ReadAs
  <2> QED
    BY <2>3, <2>4, Zenon
<1>7. CASE j.type = "OCTET STRING"
  <2>1. v \in Seq(Octet)
    BY <1>7 DEF Objects
  <2>2. PICK w : w = EncodeOctetString(Chunk(j), v)
    OBVIOUS
  <2>3. w \in Wire /\ DecodeOctetString(j.rules, w) = {v}
    BY <2>1, <2>2, OctetStringIsRead, ChunkSuits
  <2>4. Written(j, v) = {w} /\ ReadAs(j, w) = DecodeOctetString(j.rules, w)
    BY <1>7, <2>2 DEF Written, ReadAs
  <2> QED
    BY <2>3, <2>4, Zenon
<1> QED
  BY <1>1, <1>2, <1>3, <1>4, <1>5, <1>6, <1>7 DEF Jobs, Plain

\* What is on the wire is one encoding, or the fragments of a string.
Readable(j, w) == ~ w.constructed \/ j.type \in {"BIT STRING", "OCTET STRING"}

\* What is read of a segment, and of many.
LEMMA SegmentsAreBits ==
    ASSUME NEW f \in Seq(Seq(Octet)), \A k \in DOMAIN f : ~ SegmentRefused(f[k])
    PROVE  FlattenSeq([k \in DOMAIN f |-> SegmentBits(f[k])]) \in Seq(Bits)
<1>1. PICK n \in Nat : n = Len(f) /\ DOMAIN f = 1..n
  OBVIOUS
<1>2. \A k \in 1..n : f[k] \in Seq(Octet)
  BY <1>1
<1>3. \A k \in 1..n : SegmentBits(f[k]) \in Seq(Bits)
  BY <1>1, <1>2, BitsOfSegment
<1>4. PICK g : g = [k \in DOMAIN f |-> SegmentBits(f[k])]
  OBVIOUS
<1>5. g \in [1..n -> Seq(Bits)]
  BY <1>1, <1>3, <1>4, Zenon
<1>6. g \in Seq(Seq(Bits))
  BY <1>5
<1> QED
  BY <1>4, <1>6, FlattenType, Zenon

\* What is read of the wire.
LEMMA WireIsRead ==
    ASSUME NEW j \in Jobs, NEW w \in Wire, Readable(j, w)
    PROVE  ReadAs(j, w) = {} \/ \E v \in Objects(j.type) : ReadAs(j, w) = {v}
<1>1. PICK f \in Seq(Seq(Octet)) : f = w.fragments
  BY WireFields
<1>2. ASSUME j.type \notin {"BIT STRING", "OCTET STRING"}
      PROVE  f[1] \in Seq(Octet)
  BY <1>1, <1>2, WireFields DEF Readable
<1>3. CASE j.type = "INTEGER"
  <2>1. PICK o \in Seq(Octet) : o = f[1]
    BY <1>2, <1>3
  <2>2. ReadAs(j, w) = DecodeInteger(j.rules, o)
    BY <1>1, <1>3, <2>1 DEF ReadAs
  <2>3. DecodeInteger(j.rules, o) = {} \/ (o # <<>> /\ DecodeInteger(j.rules, o) = {Signed(o)})
    BY Zenon DEF DecodeInteger
  <2>4. o # <<>> => Signed(o) \in Objects(j.type)
    BY <1>3, IntegerIsWrittenBack DEF Objects
  <2> QED
    BY <2>2, <2>3, <2>4, Zenon
<1>4. CASE j.type = "BOOLEAN"
  <2>1. ReadAs(j, w) = DecodeBoolean(j.rules, f[1])
    BY <1>1, <1>4 DEF ReadAs
  <2>2. 0 \in Objects(j.type) /\ 1 \in Objects(j.type)
    BY <1>4 DEF Objects
  <2>3. \/ DecodeBoolean(j.rules, f[1]) = {} \/ DecodeBoolean(j.rules, f[1]) = {0}
        \/ DecodeBoolean(j.rules, f[1]) = {1}
    BY Zenon DEF DecodeBoolean
  <2> QED
    BY <2>1, <2>2, <2>3, Zenon
<1>5. CASE j.type = "NULL"
  <2>1. ReadAs(j, w) = DecodeNull(f[1])
    BY <1>1, <1>5 DEF ReadAs
  <2>2. "" \in Objects(j.type)
    BY <1>5 DEF Objects
  <2> QED
    BY <2>1, <2>2, Zenon DEF DecodeNull
<1>6. CASE j.type = "OID"
  <2>1. PICK o \in Seq(Octet) : o = f[1]
    BY <1>2, <1>6
  <2>2. ReadAs(j, w) = DecodeOid(o)
    BY <1>1, <1>6, <2>1 DEF ReadAs
  <2>3. DecodeArcs(o) = {} \/ \E arcs : DecodeArcs(o) = {arcs}
    BY Zenon DEF DecodeArcs
  <2>4. DecodeOid(o) = {} \/ \E v : DecodeOid(o) = {v}
    <3>1. CASE DecodeArcs(o) = {}
      BY <3>1 DEF DecodeOid
    <3>2. ASSUME NEW arcs, DecodeArcs(o) = {arcs}
          PROVE  DecodeOid(o) = {FirstTwo(Head(arcs)) \o Tail(arcs)}
      BY <3>2 DEF DecodeOid
    <3> QED
      BY <2>3, <3>1, <3>2, Zenon
  <2>5. \A v : DecodeOid(o) = {v} => v \in Objects(j.type)
    <3> SUFFICES ASSUME NEW v, DecodeOid(o) = {v} PROVE v \in Objects(j.type)
      OBVIOUS
    <3>1. v \in Seq(Nat)
      BY OidIsWrittenBack
    <3> QED
      BY <1>6, <3>1 DEF Objects
  <2> QED
    BY <2>2, <2>4, <2>5, Zenon
<1>7. CASE j.type = "RELATIVE-OID"
  <2>1. PICK o \in Seq(Octet) : o = f[1]
    BY <1>2, <1>7
  <2>2. ReadAs(j, w) = DecodeArcs(o)
    BY <1>1, <1>7, <2>1 DEF ReadAs
  <2>3. DecodeArcs(o) = {} \/ \E arcs : DecodeArcs(o) = {arcs}
    BY Zenon DEF DecodeArcs
  <2>4. \A v : DecodeArcs(o) = {v} => v \in Objects(j.type)
    <3> SUFFICES ASSUME NEW v, DecodeArcs(o) = {v} PROVE v \in Objects(j.type)
      OBVIOUS
    <3>1. v \in Seq(Nat)
      BY ArcsAreWrittenBack
    <3> QED
      BY <1>7, <3>1 DEF Objects
  <2> QED
    BY <2>2, <2>3, <2>4, Zenon
<1>8. CASE j.type = "BIT STRING"
  <2>1. ReadAs(j, w) = DecodeBitString(j.rules, w)
    BY <1>8 DEF ReadAs
  <2>2. \/ DecodeBitString(j.rules, w) = {}
        \/ /\ \A k \in DOMAIN f : ~ SegmentRefused(f[k])
           /\ DecodeBitString(j.rules, w)
                  = {FlattenSeq([k \in DOMAIN f |-> SegmentBits(f[k])])}
    BY <1>1, Zenon DEF DecodeBitString
  <2>3. (\A k \in DOMAIN f : ~ SegmentRefused(f[k])) =>
            FlattenSeq([k \in DOMAIN f |-> SegmentBits(f[k])]) \in Objects(j.type)
    BY <1>8, SegmentsAreBits DEF Objects, Bits
  <2> QED
    BY <2>1, <2>2, <2>3, Zenon
<1>9. CASE j.type = "OCTET STRING"
  <2>1. ReadAs(j, w) = DecodeOctetString(j.rules, w)
    BY <1>9 DEF ReadAs
  <2>2. DecodeOctetString(j.rules, w) = {} \/ DecodeOctetString(j.rules, w) = {FlattenSeq(f)}
    BY <1>1, Zenon DEF DecodeOctetString
  <2>3. FlattenSeq(f) \in Objects(j.type)
    BY <1>9, FlattenType DEF Objects
  <2> QED
    BY <2>1, <2>2, <2>3, Zenon
<1> QED
  BY <1>3, <1>4, <1>5, <1>6, <1>7, <1>8, <1>9 DEF Jobs, Plain

\* The spellings CER and DER accept beside the one they write.
LibertyOf(j, w) ==
    \/ j.type = "BIT STRING" /\ w.constructed
    \/ j.type \in {"BIT STRING", "OCTET STRING"} /\ ~ w.constructed
       /\ j.rules = "CER" /\ Len(w.fragments[1]) > CerSize

\* A wire that is no liberty is written as it was read.
LEMMA WireIsWrittenBack ==
    ASSUME NEW j \in Jobs, NEW w \in Wire, Readable(j, w), ~ LibertyOf(j, w),
           j.rules # "BER" \/ j.type \in {"OID", "RELATIVE-OID"},
           NEW v, ReadAs(j, w) = {v}
    PROVE  Written(j, v) = {w}
<1>1. PICK f \in Seq(Seq(Octet)) : f = w.fragments
  BY WireFields
<1>2. ASSUME j.type \notin {"BIT STRING", "OCTET STRING"}
      PROVE  f[1] \in Seq(Octet) /\ w = Primitive(f[1])
  BY <1>1, <1>2, WireFields DEF Readable
<1>r. j.rules \in Rules
  BY DEF Jobs
<1>3. CASE j.type = "INTEGER"
  <2>1. PICK o \in Seq(Octet) : o = f[1] /\ w = Primitive(o)
    BY <1>2, <1>3
  <2>2. DecodeInteger(j.rules, o) = {v} /\ j.rules # "BER"
    BY <1>1, <1>3, <2>1 DEF ReadAs
  <2>3. o # <<>> /\ ~ Redundant(o) /\ v = Signed(o)
    <3>1. o = <<>> \/ Redundant(o) => DecodeInteger(j.rules, o) = {}
      BY <2>2, Zenon DEF DecodeInteger
    <3>2. ~ (o = <<>> \/ Redundant(o)) => DecodeInteger(j.rules, o) = {Signed(o)}
      BY Zenon DEF DecodeInteger
    <3> QED
      BY <2>2, <3>1, <3>2
  <2>4. EncodeInteger(v) = o
    BY <2>3, IntegerIsWrittenBack
  <2> QED
    BY <1>3, <2>1, <2>4 DEF Written
<1>4. CASE j.type = "BOOLEAN"
  <2>1. PICK o \in Seq(Octet) : o = f[1] /\ w = Primitive(o)
    BY <1>2, <1>4
  <2>2. DecodeBoolean(j.rules, o) = {v} /\ j.rules # "BER"
    BY <1>1, <1>4, <2>1 DEF ReadAs
  <2>3. ~ (Len(o) # 1 \/ o[1] \notin {0, 255}) /\ v = IF o[1] = 0 THEN 0 ELSE 1
    <3>1. (Len(o) # 1 \/ o[1] \notin {0, 255}) => DecodeBoolean(j.rules, o) = {}
      BY <2>2, Zenon DEF DecodeBoolean
    <3>2. ~ (Len(o) # 1 \/ o[1] \notin {0, 255})
             => DecodeBoolean(j.rules, o) = {IF o[1] = 0 THEN 0 ELSE 1}
      BY Zenon DEF DecodeBoolean
    <3> QED
      BY <2>2, <3>1, <3>2
  <2>4. o = <<o[1]>>
    BY <2>3
  <2>5. EncodeBoolean(j.rules, v) = o
    <3>1. CASE o[1] = 0
      BY <2>3, <2>4, <3>1 DEF EncodeBoolean
    <3>2. CASE o[1] # 0
      <4>1. o[1] = 255 /\ v = 1
        BY <2>3, <3>2
      <4> QED
        BY <2>2, <2>4, <4>1 DEF EncodeBoolean
    <3> QED
      BY <3>1, <3>2
  <2> QED
    BY <1>4, <2>1, <2>5 DEF Written
<1>5. CASE j.type = "NULL"
  <2>1. PICK o \in Seq(Octet) : o = f[1] /\ w = Primitive(o)
    BY <1>2, <1>5
  <2>2. DecodeNull(o) = {v}
    BY <1>1, <1>5, <2>1 DEF ReadAs
  <2>3. o = <<>>
    BY <2>2 DEF DecodeNull
  <2> QED
    BY <1>5, <2>1, <2>3 DEF Written, EncodeNull
<1>6. CASE j.type = "OID"
  <2>1. PICK o \in Seq(Octet) : o = f[1] /\ w = Primitive(o)
    BY <1>2, <1>6
  <2>2. DecodeOid(o) = {v}
    BY <1>1, <1>6, <2>1 DEF ReadAs
  <2>3. EncodeOid(v) = {o}
    BY <2>2, OidIsWrittenBack
  <2>4. Written(j, v) = {Primitive(octets) : octets \in EncodeOid(v)}
    BY <1>6 DEF Written
  <2> QED
    BY <2>1, <2>3, <2>4
<1>7. CASE j.type = "RELATIVE-OID"
  <2>1. PICK o \in Seq(Octet) : o = f[1] /\ w = Primitive(o)
    BY <1>2, <1>7
  <2>2. DecodeArcs(o) = {v}
    BY <1>1, <1>7, <2>1 DEF ReadAs
  <2>3. EncodeArcs(v) = o
    BY <2>2, ArcsAreWrittenBack
  <2> QED
    BY <1>7, <2>1, <2>3 DEF Written
<1>8. CASE j.type = "BIT STRING"
  <2>1. DecodeBitString(j.rules, w) = {v} /\ j.rules \in {"CER", "DER"} /\ ~ w.constructed
    BY <1>r, <1>8 DEF ReadAs, Rules, LibertyOf
  <2>2. j.rules = "CER" => Len(w.fragments[1]) <= CerSize
    <3>1. w.fragments[1] \in Seq(Octet)
      BY <2>1, WireFields
    <3>2. PICK n \in Nat : n = Len(w.fragments[1])
      BY <3>1, LengthIsNatural
    <3>3. j.rules = "CER" => ~ (n > CerSize)
      BY <1>8, <2>1, <3>2, Zenon DEF LibertyOf
    <3>4. ~ (n > CerSize) => n <= CerSize
      BY CerSizeAssumption
    <3> QED
      BY <3>2, <3>3, <3>4, Zenon
  <2>3. EncodeBitString(Chunk(j), v) = w
    BY <2>1, <2>2, BitStringIsWrittenBack, ChunkSuits
  <2> QED
    BY <1>8, <2>3 DEF Written
<1>9. CASE j.type = "OCTET STRING"
  <2>1. DecodeOctetString(j.rules, w) = {v} /\ j.rules \in {"CER", "DER"}
    BY <1>r, <1>9 DEF ReadAs, Rules
  <2>2. ~ (~ w.constructed /\ j.rules = "CER" /\ Len(w.fragments[1]) > CerSize)
    BY <1>9 DEF LibertyOf
  <2>3. EncodeOctetString(Chunk(j), v) = w
    BY <2>1, <2>2, OctetStringIsWrittenBack, ChunkSuits
  <2> QED
    BY <1>9, <2>3 DEF Written
<1> QED
  BY <1>3, <1>4, <1>5, <1>6, <1>7, <1>8, <1>9 DEF Jobs, Plain

-----------------------------------------------------------------------------
(* A relay of these types.                                                 *)

\* The contents octets on the wire, where there is a value, are the ones that
\* were written, and the value, where there are octets, the one that was read.
Followed ==
    /\ job \in Jobs
    /\ place \in {"value", "wire", "refused"}
    /\ value = {} \/ \E v \in Objects(job.type) : value = {v}
    /\ wire = {} \/ \E w \in Wire : wire = {w} /\ Readable(job, w)
    /\ place = "value" => value # {}
    /\ place = "wire" => wire # {}
    /\ place = "wire" => \A v \in value : wire = Written(job, v)
    /\ place = "value" => \A w \in wire : value = ReadAs(job, w)

\* These are no times.
LEMMA PlainIsNoTime ==
    ASSUME job \in Jobs
    PROVE  ~ IsTime /\ job.type \in Plain
  BY DEF Jobs, Plain, IsTime

\* The encoder of each type is the one Written names.
LEMMA PlainEncoded ==
    ASSUME job \in Jobs, NEW v
    PROVE  Encoded(v) = Written(job, v)
<1>1. job.type \in Plain /\ job.rules \in Rules
  BY DEF Jobs
<1>2. ChunkSize = Chunk(job)
  BY <1>1 DEF ChunkSize, Chunk, Rules
<1>3. CASE job.type = "INTEGER"
  BY <1>3 DEF Encoded, Written
<1>4. CASE job.type = "BOOLEAN"
  BY <1>4 DEF Encoded, Written
<1>5. CASE job.type = "NULL"
  BY <1>5 DEF Encoded, Written
<1>6. CASE job.type = "OID"
  BY <1>6 DEF Encoded, Written
<1>7. CASE job.type = "RELATIVE-OID"
  BY <1>7 DEF Encoded, Written
<1>8. CASE job.type = "BIT STRING"
  <2>1. Encoded(v) = {EncodeBitString(ChunkSize, v)}
    BY <1>8, PlainIsNoTime, Zenon DEF Encoded
  <2>2. Written(job, v) = {EncodeBitString(Chunk(job), v)}
    BY <1>8, Zenon DEF Written
  <2> QED
    BY <1>2, <2>1, <2>2, Zenon
<1>9. CASE job.type = "OCTET STRING"
  <2>1. Encoded(v) = {EncodeOctetString(ChunkSize, v)}
    BY <1>9, PlainIsNoTime, Zenon DEF Encoded
  <2>2. Written(job, v) = {EncodeOctetString(Chunk(job), v)}
    BY <1>9, Zenon DEF Written
  <2> QED
    BY <1>2, <2>1, <2>2, Zenon
<1> QED
  BY <1>1, <1>3, <1>4, <1>5, <1>6, <1>7, <1>8, <1>9 DEF Plain

\* And the decoder.
LEMMA PlainDecoded ==
    ASSUME job \in Jobs, NEW w
    PROVE  Decoded(w) = ReadAs(job, w)
<1>1. job.type \in Plain
  BY DEF Jobs
<1>3. CASE job.type = "INTEGER"
  BY <1>3 DEF Decoded, ReadAs
<1>4. CASE job.type = "BOOLEAN"
  BY <1>4 DEF Decoded, ReadAs
<1>5. CASE job.type = "NULL"
  BY <1>5 DEF Decoded, ReadAs
<1>6. CASE job.type = "OID"
  BY <1>6 DEF Decoded, ReadAs
<1>7. CASE job.type = "RELATIVE-OID"
  BY <1>7 DEF Decoded, ReadAs
<1>8. CASE job.type = "BIT STRING"
  <2>1. Decoded(w) = DecodeBitString(job.rules, w)
    BY <1>8, PlainIsNoTime, Zenon DEF Decoded
  <2>2. ReadAs(job, w) = DecodeBitString(job.rules, w)
    BY <1>8, Zenon DEF ReadAs
  <2> QED
    BY <2>1, <2>2, Zenon
<1>9. CASE job.type = "OCTET STRING"
  <2>1. Decoded(w) = DecodeOctetString(job.rules, w)
    BY <1>9, PlainIsNoTime, Zenon DEF Decoded
  <2>2. ReadAs(job, w) = DecodeOctetString(job.rules, w)
    BY <1>9, Zenon DEF ReadAs
  <2> QED
    BY <2>1, <2>2, Zenon
<1> QED
  BY <1>1, <1>3, <1>4, <1>5, <1>6, <1>7, <1>8, <1>9 DEF Plain

\* The invariant holds at first.
LEMMA FollowedInit ==
    ASSUME Init, job.type \in Plain
    PROVE  Followed
<1>1. job \in Jobs
  <2>1. PICK type \in Types, rules \in Rules : \E option \in Options(type) :
            job = [type |-> type, rules |-> rules, option |-> option]
    BY DEF Init
  <2>2. PICK option \in Options(type) : job = [type |-> type, rules |-> rules, option |-> option]
    BY <2>1
  <2>3. type \in Plain
    BY <2>2
  <2>4. option \in Nat
    <3>1. CASE type \in {"BIT STRING", "OCTET STRING"}
      <4>1. Options(type) = 0..4
        BY <3>1, Zenon DEF Options
      <4> QED
        BY <2>2, <4>1
    <3>2. CASE type \notin {"BIT STRING", "OCTET STRING"}
      <4>1. Options(type) = {0}
        BY <2>3, <3>2 DEF Options, Plain
      <4> QED
        BY <2>2, <4>1
    <3> QED
      BY <3>1, <3>2
  <2> QED
    BY <2>2, <2>3, <2>4 DEF Jobs
<1>2. job.type \in Types
  BY DEF Plain, Types
<1>3. CASE /\ place = "value"
           /\ \E v \in Values(job.type) : value = {v}
           /\ wire = {}
  <2>1. PICK v \in Values(job.type) : value = {v}
    BY <1>3
  <2>2. v \in Objects(job.type)
    BY <1>2, ValuesAssumption
  <2> QED
    BY <1>1, <1>3, <2>1, <2>2, Zenon DEF Followed
<1>4. CASE /\ place = "wire"
           /\ job.option = 0
           /\ value = {}
           /\ \E w \in Wires(job.type) : wire = {w}
  <2>1. PICK w \in Wires(job.type) : wire = {w}
    BY <1>4
  <2>2. w \in Substrates(job.type)
    BY <1>2, WiresAssumption
  <2>3. ~ (job.type \in {"UTCTime", "GeneralizedTime"})
    BY DEF Plain
  <2>4. w \in Wire /\ Readable(job, w)
    BY <2>2, <2>3 DEF Substrates, Wire, Readable
  <2>5. place # "value"
    BY <1>4
  <2> QED
    BY <1>1, <1>4, <2>1, <2>4, <2>5, Zenon DEF Followed
<1> QED
  BY <1>3, <1>4 DEF Init

\* The encoders write fragments of strings only.
LEMMA StringsOnly ==
    ASSUME NEW j \in Jobs, NEW v \in Objects(j.type), NEW w \in Wire, Written(j, v) = {w}
    PROVE  Readable(j, w)
<1>1. CASE j.type \in {"BIT STRING", "OCTET STRING"}
  BY <1>1 DEF Readable
<1>2. CASE j.type \notin {"BIT STRING", "OCTET STRING"}
  <2>1. \E o : w = Primitive(o)
    BY <1>2 DEF Written, Jobs, Plain
  <2> QED
    BY <2>1 DEF Readable, Primitive
<1> QED
  BY <1>1, <1>2

\* Write keeps it.
LEMMA FollowedWrite ==
    ASSUME Followed, Write
    PROVE  Followed'
<1>1. job \in Jobs /\ job' = job /\ value' = value /\ place = "value"
  BY DEF Followed, Write
<1>2. PICK v \in Objects(job.type) : value = {v}
  BY <1>1 DEF Followed
<1>3. wire' = Encoded(v) /\ place' = IF wire' = {} THEN "refused" ELSE "wire"
  BY <1>2 DEF Write
<1>4. wire' = Written(job, v)
  BY <1>1, <1>3, PlainEncoded
<1>5. CASE wire' = {}
  <2>1. place' = "refused"
    BY <1>3, <1>5
  <2> QED
    BY <1>1, <1>2, <1>5, <2>1 DEF Followed
<1>6. CASE wire' # {}
  <2>1. PICK w \in Wire : wire' = {w}
    BY <1>1, <1>4, <1>6, ObjectIsWritten
  <2>2. Readable(job, w)
    BY <1>1, <1>4, <2>1, StringsOnly
  <2>3. place' = "wire"
    BY <1>3, <1>6
  <2> QED
    BY <1>1, <1>2, <1>4, <2>1, <2>2, <2>3 DEF Followed
<1> QED
  BY <1>5, <1>6

\* Read keeps it.
LEMMA FollowedRead ==
    ASSUME Followed, Read
    PROVE  Followed'
<1>1. job \in Jobs /\ job' = job /\ wire' = wire /\ place = "wire"
  BY DEF Followed, Read
<1>2. PICK w \in Wire : wire = {w} /\ Readable(job, w)
  BY <1>1 DEF Followed
<1>3. Decoded(w) = ReadAs(job, w)
  BY <1>1, PlainDecoded
<1>4. IF ReadAs(job, w) = {} THEN place' = "refused" /\ value' = value
      ELSE place' = "value" /\ value' = ReadAs(job, w)
  BY <1>2, <1>3 DEF Read
<1>5. CASE ReadAs(job, w) = {}
  BY <1>1, <1>2, <1>4, <1>5 DEF Followed
<1>6. CASE ReadAs(job, w) # {}
  <2>1. PICK v \in Objects(job.type) : ReadAs(job, w) = {v}
    BY <1>1, <1>2, <1>6, WireIsRead
  <2> QED
    BY <1>1, <1>2, <1>4, <1>6, <2>1 DEF Followed
<1> QED
  BY <1>5, <1>6

\* So does every step; Convert is not for these types.
LEMMA FollowedNext ==
    ASSUME Followed, [Next]_vars
    PROVE  Followed'
<1>1. CASE Write
  BY <1>1, FollowedWrite
<1>2. CASE Read
  BY <1>2, FollowedRead
<1>3. CASE Convert
  BY <1>3, PlainIsNoTime DEF Convert, Followed
<1>4. CASE UNCHANGED vars
  BY <1>4 DEF vars, Followed
<1> QED
  BY <1>1, <1>2, <1>3, <1>4 DEF Next

(***************************************************************************)
(* encode() and decode() of every type but REAL and the times, under any   *)
(* rules and maxChunkSize: what is on the wire was written of the value that*)
(* is held, or the value was read from it.                                 *)
(***************************************************************************)
THEOREM RelayIsFollowed == Spec /\ job.type \in Plain => []Followed
<1>1. Init /\ job.type \in Plain => Followed
  BY FollowedInit
<1>2. Followed /\ [Next]_vars => Followed'
  BY FollowedNext
<1> QED
  BY <1>1, <1>2, PTL DEF Spec

\* A fragment of two octets or more has one.
LEMMA FromTwoOn ==
    ASSUME NEW size \in Nat
    PROVE  \A n \in 2..size : n \in 1..size
  OBVIOUS

\* What was written of a string fills its fragments.
LEMMA FollowedFills ==
    ASSUME Followed
    PROVE  FragmentsFill
<1> SUFFICES ASSUME place = "wire", value # {}, job.type \in {"BIT STRING", "OCTET STRING"},
                    NEW w \in wire, w.constructed
             PROVE  /\ Len(w.fragments) > 1
                    /\ \A k \in DOMAIN w.fragments :
                          ChunkSize > 1 =>
                              IF k < Len(w.fragments) THEN Len(w.fragments[k]) = ChunkSize
                              ELSE Len(w.fragments[k]) \in 1..ChunkSize
  BY DEF FragmentsFill
<1>1. job \in Jobs
  BY DEF Followed
<1>2. PICK v \in Objects(job.type) : value = {v} /\ wire = Written(job, v)
  BY DEF Followed
<1>3. PICK size \in Nat : size = ChunkSize /\ size = Chunk(job)
  <2>1. job.rules \in Rules /\ Chunk(job) \in Nat
    BY <1>1, ChunkSuits DEF Jobs
  <2> QED
    BY <2>1 DEF ChunkSize, Chunk, Rules
<1>4. PICK f \in Seq(Seq(Octet)) :
          /\ f = w.fragments /\ Len(f) > 1
          /\ size > 1 => \A k \in 1..Len(f) : /\ Len(f[k]) \in 1..size
                                              /\ k < Len(f) => Len(f[k]) = size
  <2>1. CASE job.type = "BIT STRING"
    <3>1. v \in Seq(Bits) /\ w = EncodeBitString(size, v)
      BY <1>2, <1>3, <2>1 DEF Objects, Bits, Written
    <3>2. LET f == EncodeBitString(size, v).fragments
          IN  /\ f \in Seq(Seq(Octet)) /\ Len(f) > 1
              /\ size > 1 => \A k \in 1..Len(f) : /\ Len(f[k]) \in 2..size
                                                  /\ k < Len(f) => Len(f[k]) = size
      BY <3>1, BitStringFills
    <3>3. \A n \in 2..size : n \in 1..size
      BY <1>3, FromTwoOn
    <3> QED
      BY <3>1, <3>2, <3>3, Zenon
  <2>2. CASE job.type = "OCTET STRING"
    <3>1. v \in Seq(Octet) /\ w = EncodeOctetString(size, v)
      BY <1>2, <1>3, <2>2 DEF Objects, Written
    <3>2. /\ w.fragments \in Seq(Seq(Octet)) /\ Len(w.fragments) > 1 /\ Even(w.fragments, size)
      BY <3>1, OctetStringFills
    <3> QED
      BY <3>2, Zenon DEF Even
  <2> QED
    BY <2>1, <2>2
<1>5. PICK n \in Nat : n = Len(f) /\ DOMAIN f = 1..n
  BY LenProperties, Zenon
<1>6. ASSUME NEW k \in 1..n, size > 1
      PROVE  IF k < n THEN Len(f[k]) = size ELSE Len(f[k]) \in 1..size
  BY <1>4, <1>5, <1>6
<1> QED
  BY <1>3, <1>4, <1>5, <1>6, Zenon

\* SubIdsFit, of the sub-identifiers alone.
LEMMA ArcsFitSubIds ==
    ASSUME job.type \in {"OID", "RELATIVE-OID"}, NEW v \in Seq(Nat),
           job.type = "OID" => ~ OidRefused(v)
    PROVE  SubIdsFit(v) <=> IF job.type = "OID" THEN ArcsFit(OidSubIds(v)) ELSE ArcsFit(v)
<1>1. PICK s \in Seq(Nat) : s = SubIds(v) /\ s = IF job.type = "OID" THEN OidSubIds(v) ELSE v
  BY OidSubIdsType DEF SubIds, OidSubIds
<1>2. DOMAIN s = 1..Len(s)
  OBVIOUS
<1>3. SubIdsFit(v) <=> ArcsFit(s)
  BY <1>1, <1>2, Zenon DEF SubIdsFit, ArcsFit, ArcFits
<1> QED
  BY <1>1, <1>3

\* What was read keeps the limit.
LEMMA FollowedArcs ==
    ASSUME Followed
    PROVE  ArcLimitHolds
<1> SUFFICES ASSUME place = "value", wire # {}, job.type \in {"OID", "RELATIVE-OID"},
                    NEW v \in value
             PROVE  SubIdsFit(v)
  BY DEF ArcLimitHolds
<1>1. job \in Jobs
  BY DEF Followed
<1>2. PICK w \in Wire : wire = {w} /\ Readable(job, w) /\ value = ReadAs(job, w)
  BY DEF Followed
<1>3. value = {v}
  BY DEF Followed
<1>4. PICK o \in Seq(Octet) : o = w.fragments[1]
  BY <1>2, WireFields DEF Readable
<1>5. CASE job.type = "OID"
  <2>1. DecodeOid(o) = {v}
    BY <1>2, <1>3, <1>4, <1>5 DEF ReadAs
  <2>2. v \in Seq(Nat) /\ ~ OidRefused(v) /\ ArcsFit(OidSubIds(v))
    BY <2>1, OidIsWrittenBack
  <2> QED
    BY <1>5, <2>2, ArcsFitSubIds
<1>6. CASE job.type = "RELATIVE-OID"
  <2>1. DecodeArcs(o) = {v}
    BY <1>2, <1>3, <1>4, <1>6 DEF ReadAs
  <2>2. v \in Seq(Nat) /\ ArcsFit(v)
    BY <2>1, ArcsAreWrittenBack
  <2> QED
    BY <1>6, <2>2, ArcsFitSubIds
<1> QED
  BY <1>5, <1>6

\* The job stays.
LEMMA JobStays ==
    ASSUME [Next]_vars
    PROVE  job' = job
  BY DEF Next, Write, Read, Convert, vars

(***************************************************************************)
(* BitStringEncoder and OctetStringEncoder fill every fragment but the last,*)
(* whatever the string and maxChunkSize, and cut nothing that need not be cut.*)
(***************************************************************************)
THEOREM StringsFillTheirFragments == Spec => []FragmentsFill
<1>1. Followed => FragmentsFill
  BY FollowedFills
<1>2. ~ (job.type \in Plain) => FragmentsFill
  BY DEF FragmentsFill, Plain
<1>3. ~ (job.type \in Plain) /\ [Next]_vars => (~ (job.type \in Plain))'
  BY JobStays
<1> QED
  BY <1>1, <1>2, <1>3, RelayIsFollowed, PTL DEF Spec

(***************************************************************************)
(* ObjectIdentifierPayloadDecoder and its relative keep the limit of       *)
(* MAX_OID_ARC_CONTINUATION_OCTETS for every sub-identifier of any octets. *)
(***************************************************************************)
THEOREM ReadArcsFit == Spec => []ArcLimitHolds
<1>1. Followed => ArcLimitHolds
  BY FollowedArcs
<1>2. ~ (job.type \in Plain) => ArcLimitHolds
  BY DEF ArcLimitHolds, Plain
<1>3. ~ (job.type \in Plain) /\ [Next]_vars => (~ (job.type \in Plain))'
  BY JobStays
<1> QED
  BY <1>1, <1>2, <1>3, RelayIsFollowed, PTL DEF Spec

-----------------------------------------------------------------------------
(* The channel they implement.                                             *)

\* The content of the channel, of a job and a value.
ContentAs(j, held) ==
    IF held = {} THEN {}
    ELSE {[fits |-> \A v \in held : FitsAs(j.type, v), meaning |-> held]}

Content ==
    IF value = {} THEN {}
    ELSE {[fits |-> \A v \in value : Fits(v), meaning |-> Meaning]}

\* Fits, of one type.
LEMMA FitsOfPlain ==
    ASSUME job \in Jobs, NEW v \in Objects(job.type)
    PROVE  Fits(v) <=> FitsAs(job.type, v)
<1>1. ~ IsTime /\ job.type \in Plain
  BY PlainIsNoTime
<1>2. CASE job.type = "OID"
  <2>1. Fits(v) <=> (~ OidRefused(v) /\ SubIdsFit(v))
    BY <1>1, <1>2, Zenon DEF Fits
  <2>2. FitsAs(job.type, v) <=> (~ OidRefused(v) /\ ArcsFit(OidSubIds(v)))
    BY <1>2 DEF FitsAs
  <2>3. v \in Seq(Nat)
    BY <1>2 DEF Objects
  <2>4. ~ OidRefused(v) => (SubIdsFit(v) <=> ArcsFit(OidSubIds(v)))
    BY <1>2, <2>3, ArcsFitSubIds
  <2> QED
    BY <2>1, <2>2, <2>4
<1>3. CASE job.type = "RELATIVE-OID"
  <2>1. Fits(v) <=> (v # <<>> /\ SubIdsFit(v))
    BY <1>1, <1>3, Zenon DEF Fits
  <2>2. FitsAs(job.type, v) <=> (v # <<>> /\ ArcsFit(v))
    BY <1>3 DEF FitsAs
  <2>3. v \in Seq(Nat)
    BY <1>3 DEF Objects
  <2>4. SubIdsFit(v) <=> ArcsFit(v)
    BY <1>3, <2>3, ArcsFitSubIds
  <2> QED
    BY <2>1, <2>2, <2>4
<1>4. CASE ~ (job.type = "OID" \/ job.type = "RELATIVE-OID")
  <2>1. Fits(v) = TRUE
    BY <1>1, <1>4, Zenon DEF Fits
  <2>2. FitsAs(job.type, v) = TRUE
    BY <1>4, Zenon DEF FitsAs
  <2> QED
    BY <2>1, <2>2
<1> QED
  BY <1>2, <1>3, <1>4

\* The channel's content, of the job and the value alone.
LEMMA ContentIsFollowed ==
    ASSUME Followed
    PROVE  Content = ContentAs(job, value)
<1>1. job \in Jobs /\ (value = {} \/ \E v \in Objects(job.type) : value = {v})
  BY DEF Followed
<1>2. Meaning = value
  BY <1>1, PlainIsNoTime DEF Meaning, Plain
<1>3. CASE value = {}
  BY <1>3, Zenon DEF Content, ContentAs
<1>4. ASSUME NEW v \in Objects(job.type), value = {v}
      PROVE  Content = ContentAs(job, value)
  <2>1. Fits(v) <=> FitsAs(job.type, v)
    BY <1>1, FitsOfPlain
  <2>2. (\A u \in value : Fits(u)) <=> (\A u \in value : FitsAs(job.type, u))
    BY <1>4, <2>1, Zenon
  <2>3. PICK fits : fits = (\A u \in value : Fits(u))
    OBVIOUS
  <2>4. fits = (\A u \in value : FitsAs(job.type, u))
    BY <2>2, <2>3, Zenon
  <2>5. value # {}
    BY <1>4
  <2>6. Content = {[fits |-> fits, meaning |-> value]}
    BY <1>2, <2>3, <2>5, Zenon DEF Content
  <2>7. ContentAs(job, value) = {[fits |-> fits, meaning |-> value]}
    BY <2>4, <2>5, Zenon DEF ContentAs
  <2> QED
    BY <2>6, <2>7, Zenon
<1> QED
  BY <1>1, <1>3, <1>4

\* Carried contents fit.
LEMMA CarriedFit ==
    ASSUME NEW j \in Jobs, NEW v
    PROVE  /\ ContentAs(j, {v}) # {}
           /\ (\A c \in ContentAs(j, {v}) : c.fits) <=> FitsAs(j.type, v)
<1>1. PICK fits : fits = (\A u \in {v} : FitsAs(j.type, u))
  OBVIOUS
<1>2. fits <=> FitsAs(j.type, v)
  BY <1>1, Zenon
<1>3. ContentAs(j, {v}) = {[fits |-> fits, meaning |-> {v}]}
  BY <1>1, Zenon DEF ContentAs
<1>4. [fits |-> fits, meaning |-> {v}].fits = fits
  OBVIOUS
<1> QED
  BY <1>2, <1>3, <1>4, Zenon

CarriedNow == ContentAs(job, value) # {} /\ \A c \in ContentAs(job, value) : c.fits

\* A step of the encoder writes the content, or refuses what is not promised.
LEMMA WriteIsCarried ==
    ASSUME Followed, Write
    PROVE  \/ /\ place = "value" /\ place' = "wire"
              /\ ContentAs(job, value)' # {} /\ ContentAs(job, value)' = ContentAs(job, value)
           \/ ~ CarriedNow /\ place' = "refused" /\ ContentAs(job, value)' = ContentAs(job, value)
<1>1. job \in Jobs /\ job' = job /\ value' = value /\ place = "value"
  BY DEF Followed, Write
<1>2. PICK v \in Objects(job.type) : value = {v}
  BY <1>1 DEF Followed
<1>3. wire' = Encoded(v) /\ place' = IF wire' = {} THEN "refused" ELSE "wire"
  BY <1>2 DEF Write
<1>4. wire' = Written(job, v)
  BY <1>1, <1>3, PlainEncoded
<1>5. ContentAs(job, value)' = ContentAs(job, value)
  BY <1>1
<1>6. /\ ContentAs(job, value) # {}
      /\ CarriedNow <=> FitsAs(job.type, v)
  BY <1>1, <1>2, CarriedFit, Zenon DEF CarriedNow
<1>7. CASE wire' = {}
  <2>1. ~ FitsAs(job.type, v)
    BY <1>1, <1>4, <1>7, ObjectIsWritten
  <2> QED
    BY <1>3, <1>5, <1>6, <1>7, <2>1
<1>8. CASE wire' # {}
  BY <1>1, <1>3, <1>5, <1>6, <1>8
<1> QED
  BY <1>7, <1>8

\* A step of the decoder reads it, or refuses what is not promised.
LEMMA ReadIsCarried ==
    ASSUME Followed, Read
    PROVE  \/ /\ place = "wire" /\ place' = "value"
              /\ ContentAs(job, value)' # {}
              /\ CarriedNow => ContentAs(job, value)' = ContentAs(job, value)
           \/ ~ CarriedNow /\ place' = "refused" /\ ContentAs(job, value)' = ContentAs(job, value)
<1>1. job \in Jobs /\ job' = job /\ wire' = wire /\ place = "wire"
  BY DEF Followed, Read
<1>2. PICK w \in Wire : wire = {w} /\ Readable(job, w)
  BY <1>1 DEF Followed
<1>3. Decoded(w) = ReadAs(job, w)
  BY <1>1, PlainDecoded
<1>4. IF ReadAs(job, w) = {} THEN place' = "refused" /\ value' = value
      ELSE place' = "value" /\ value' = ReadAs(job, w)
  BY <1>2, <1>3 DEF Read
<1>5. CarriedNow => ReadAs(job, w) = value
  <2> SUFFICES ASSUME CarriedNow PROVE ReadAs(job, w) = value
    OBVIOUS
  <2>1. value # {}
    BY DEF CarriedNow, ContentAs
  <2>2. PICK v \in Objects(job.type) : value = {v}
    BY <2>1 DEF Followed
  <2>3. Written(job, v) = {w}
    BY <1>1, <1>2, <2>2, Zenon DEF Followed
  <2>4. FitsAs(job.type, v)
    BY <1>1, <2>2, CarriedFit, Zenon DEF CarriedNow
  <2>5. PICK u \in Wire : Written(job, v) = {u} /\ ReadAs(job, u) = {v}
    BY <1>1, <2>4, ObjectIsWritten
  <2>6. u = w
    BY <2>3, <2>5
  <2> QED
    BY <2>2, <2>5, <2>6
<1>6. CASE ReadAs(job, w) = {}
  <2>1. ~ CarriedNow
    <3>1. CarriedNow => value # {}
      BY DEF CarriedNow, ContentAs
    <3> QED
      BY <1>5, <1>6, <3>1
  <2>2. ContentAs(job, value)' = ContentAs(job, value)
    BY <1>1, <1>4, <1>6
  <2> QED
    BY <1>4, <1>6, <2>1, <2>2
<1>7. CASE ReadAs(job, w) # {}
  <2>1. PICK v \in Objects(job.type) : ReadAs(job, w) = {v}
    BY <1>1, <1>2, <1>7, WireIsRead
  <2>2. value' = {v} /\ place' = "value"
    BY <1>4, <1>7, <2>1
  <2>3. ContentAs(job, value)' = ContentAs(job, {v})
    BY <1>1, <2>2
  <2>4. ContentAs(job, {v}) # {}
    BY <1>1, CarriedFit
  <2>5. CarriedNow => value = {v}
    BY <1>5, <2>1
  <2> QED
    BY <1>1, <2>2, <2>3, <2>4, <2>5, Zenon
<1> QED
  BY <1>6, <1>7

\* Every step is one of the channel, or leaves it as it is.
LEMMA ContentsNext ==
    ASSUME Followed, [Next]_vars,
           Content = ContentAs(job, value), Content' = ContentAs(job, value)'
    PROVE  [Contents!Next]_<<place, Content>>
<1>c. Contents!Carried <=> CarriedNow
  BY DEF Contents!Carried, CarriedNow, Content
<1>1. CASE Write
  <2>1. \/ /\ place = "value" /\ place' = "wire" /\ Content' # {} /\ Content' = Content
        \/ ~ CarriedNow /\ place' = "refused" /\ Content' = Content
    BY <1>1, WriteIsCarried
  <2> QED
    BY <1>c, <2>1 DEF Contents!Next, Contents!Write, Contents!Refuse, Content
<1>2. CASE Read
  <2>1. \/ /\ place = "wire" /\ place' = "value" /\ Content' # {}
           /\ CarriedNow => Content' = Content
        \/ ~ CarriedNow /\ place' = "refused" /\ Content' = Content
    BY <1>2, ReadIsCarried
  <2> QED
    BY <1>c, <2>1 DEF Contents!Next, Contents!Read, Contents!Refuse, Content
<1>3. CASE Convert
  BY <1>3, PlainIsNoTime DEF Convert, Followed
<1>4. CASE UNCHANGED vars
  BY <1>4 DEF vars, Followed
<1> QED
  BY <1>1, <1>2, <1>3, <1>4 DEF Next

(***************************************************************************)
(* The codecs of these types implement the channel: what encode() writes   *)
(* decode() reads as the same value, for every value and any rules.        *)
(***************************************************************************)
THEOREM PlainContentsAreCarried == Spec /\ job.type \in Plain => ContentsAreCarried
<1>1. Init /\ job.type \in Plain => Contents!Init
  BY FollowedInit, ContentIsFollowed DEF Contents!Init, Content, Init
<1>2. Followed => Content = ContentAs(job, value)
  BY ContentIsFollowed
<1>3. /\ Followed /\ [Next]_vars /\ Content = ContentAs(job, value)
      /\ (Content = ContentAs(job, value))'
      => [Contents!Next]_<<place, Content>>
  BY ContentsNext
<1>4. [Contents!Next]_<<place, Content>> => [Contents!Next]_<<place, IF value = {} THEN {}
         ELSE {[fits |-> \A v \in value : Fits(v), meaning |-> Meaning]}>>
  BY DEF Content
<1> QED
  BY <1>1, <1>2, <1>3, RelayIsFollowed, PTL DEF Spec, ContentsAreCarried, Contents!Spec, Content

-----------------------------------------------------------------------------
(* One spelling of each value.                                             *)

\* Of these types Liberties speaks as LibertyOf does.
LEMMA LibertiesOfPlain ==
    ASSUME job \in Jobs, NEW w, LibertyOf(job, w)
    PROVE  Liberties(w)
  BY Zenon DEF LibertyOf, Liberties

\* A wire that is no liberty leaves as it came.
LEMMA RelayedAsItCame ==
    ASSUME Followed, Write, Canonical \/ job.type \in {"OID", "RELATIVE-OID"},
           NEW w \in wire, ~ Liberties(w)
    PROVE  wire' = wire
<1>1. job \in Jobs /\ place = "value"
  BY DEF Followed, Write
<1>2. wire = {w} /\ w \in Wire /\ Readable(job, w) /\ value = ReadAs(job, w)
  BY <1>1 DEF Followed
<1>3. PICK v \in Objects(job.type) : value = {v}
  BY <1>1 DEF Followed
<1>4. wire' = Encoded(v)
  BY <1>3 DEF Write
<1>5. wire' = Written(job, v)
  BY <1>1, <1>4, PlainEncoded
<1>6. ~ LibertyOf(job, w)
  BY <1>1, LibertiesOfPlain
<1>7. job.rules # "BER" \/ job.type \in {"OID", "RELATIVE-OID"}
  BY DEF Canonical
<1>8. ReadAs(job, w) = {v}
  BY <1>2, <1>3
<1>9. Written(job, v) = {w}
  BY <1>1, <1>2, <1>6, <1>7, <1>8, WireIsWrittenBack
<1> QED
  BY <1>2, <1>5, <1>9

(***************************************************************************)
(* What decode() of these types accepts under CER and DER, or of OBJECT    *)
(* IDENTIFIER under any rules, encode() writes back octet for octet, but for*)
(* the spellings that Liberties names.                                     *)
(***************************************************************************)
THEOREM PlainOneSpelling == Spec /\ job.type \in Plain => OneSpelling
<1>1. Followed => [/\ Write
                   /\ Canonical \/ job.type \in {"OID", "RELATIVE-OID"}
                   /\ \E w \in wire : ~ Liberties(w)
                   => wire' = wire]_vars
  BY RelayedAsItCame, Zenon
<1> QED
  BY <1>1, RelayIsFollowed, PTL DEF Spec, OneSpelling

-----------------------------------------------------------------------------
(* Times: the fraction of a second.                                        *)

\* A function on 1..n is a sequence.
LEMMA FunctionIsSequence ==
    ASSUME NEW X, NEW n \in Nat, NEW f \in [1..n -> X]
    PROVE  f \in Seq(X) /\ Len(f) = n
  OBVIOUS

\* The fraction of a second, padded to six digits, as microseconds.
LEMMA PaddedType ==
    ASSUME NEW f \in Seq(0..9)
    PROVE  /\ Padded(f) \in [1..6 -> 0..9] /\ Padded(f) \in Seq(0..9) /\ Len(Padded(f)) = 6
           /\ \A i \in 1..6 : Padded(f)[i] = IF i <= Len(f) THEN f[i] ELSE 0
<1>1. PICK n \in Nat : n = Len(f) /\ DOMAIN f = 1..n
  BY LenProperties, Zenon
<1>2. \A i \in 1..6 : (IF i <= n THEN f[i] ELSE 0) \in 0..9
  BY <1>1
<1>3. Padded(f) = [i \in 1..6 |-> IF i <= n THEN f[i] ELSE 0]
  BY <1>1, Zenon DEF Padded
<1>4. Padded(f) \in [1..6 -> 0..9]
  BY <1>2, <1>3
<1>5. Padded(f) \in Seq(0..9) /\ Len(Padded(f)) = 6
  <2>1. PICK six \in Nat : six = 6
    OBVIOUS
  <2>2. PICK X : X = 0..9
    OBVIOUS
  <2>3. PICK p \in [1..six -> X] : p = Padded(f)
    BY <1>4, <2>1, <2>2
  <2>4. p \in Seq(X) /\ Len(p) = six
    BY FunctionIsSequence
  <2> QED
    BY <2>1, <2>2, <2>3, <2>4, Zenon
<1> QED
  BY <1>1, <1>3, <1>4, <1>5

\* The microseconds, written with six digits, are the padded fraction.
LEMMA MicrosecondsSpellOut ==
    ASSUME NEW f \in Seq(0..9)
    PROVE  Microseconds(f) \in Int /\ SixDigits(Microseconds(f)) = Padded(f)
<1>1. PICK base \in Nat \ {0} : base = 10
  OBVIOUS
<1>2. PICK p \in Seq(0..base - 1) : p = Padded(f) /\ Len(p) = 6
  BY <1>1, PaddedType
<1>3. /\ Positional(0, p, base) \in Int
      /\ Digits(Positional(0, p, base), base, Len(p)) = p
  BY TakenApart
<1> QED
  BY <1>1, <1>2, <1>3, Zenon DEF Microseconds, SixDigits

\* No fraction.
LEMMA NoMicroseconds == Microseconds(<<>>) = 0
<1>1. PICK f \in Seq(0..9) : f = <<>> /\ Len(f) = 0
  <2>1. <<>> \in Seq(0..9) /\ Len(<<>>) = 0
    OBVIOUS
  <2> QED
    BY <2>1
<1>a. PICK q \in [1..6 -> 0..9] : q = Padded(f) /\ \A i \in 1..6 : q[i] = IF i <= 0 THEN f[i] ELSE 0
  BY <1>1, PaddedType
<1>b. q \in [1..6 -> Int] /\ \A i \in 1..6 : q[i] = 0
  BY <1>a
<1>2. PICK p \in Seq(Int) : p = Padded(<<>>) /\ Len(p) = 6 /\ \A i \in 1..6 : p[i] = 0
  <2>1. PICK six \in Nat : six = 6
    OBVIOUS
  <2>2. q \in Seq(Int) /\ Len(q) = six
    BY <1>b, <2>1, FunctionIsSequence
  <2> QED
    BY <1>1, <1>a, <1>b, <2>1, <2>2, Zenon
<1>3. PICK upTo : PutsTogether(upTo, 0, p, 10) /\ Positional(0, p, 10) = upTo[6]
  <2>1. PICK base \in Nat, start \in Int : base = 10 /\ start = 0
    OBVIOUS
  <2>2. \E upTo : /\ PutsTogether(upTo, start, p, base)
                  /\ Positional(start, p, base) = upTo[Len(p)]
    BY PositionalUnfolds
  <2> QED
    BY <1>2, <2>1, <2>2, Zenon
<1>4. upTo[0] = 0 /\ \A i \in 1..6 : upTo[i] = 10 * upTo[i - 1] + p[i]
  BY <1>2, <1>3 DEF PutsTogether
<1>5. upTo[1] = 0
  BY <1>2, <1>4
<1>6. upTo[2] = 0
  BY <1>2, <1>4, <1>5
<1>7. upTo[3] = 0
  BY <1>2, <1>4, <1>6
<1>8. upTo[4] = 0
  BY <1>2, <1>4, <1>7
<1>9. upTo[5] = 0
  BY <1>2, <1>4, <1>8
<1>10. upTo[6] = 0
  BY <1>2, <1>4, <1>9
<1> QED
  BY <1>2, <1>3, <1>10, Zenon DEF Microseconds

\* Zeros at the end of a fraction say nothing.
EndsInZeros(f, k) == k \in 0..Len(f) /\ \A i \in k + 1..Len(f) : f[i] = 0

\* The beginning of a sequence.
LEMMA PrefixType ==
    ASSUME NEW X, NEW f \in Seq(X), NEW k \in 0..Len(f)
    PROVE  /\ SubSeq(f, 1, k) \in Seq(X) /\ Len(SubSeq(f, 1, k)) = k
           /\ \A i \in 1..k : SubSeq(f, 1, k)[i] = f[i]
<1>1. PICK n \in Nat : n = Len(f) /\ DOMAIN f = 1..n
  BY LenProperties, Zenon
<1>2. k \in 0..n
  BY <1>1
<1>3. \A i \in 1..k : f[i] \in X
  BY <1>1, <1>2
<1> QED
  BY <1>1, <1>2, <1>3, SubSeqProperties

\* Zeros at the end are what the padding adds.
LEMMA ZerosSayNothing ==
    ASSUME NEW f \in Seq(0..9), NEW k, EndsInZeros(f, k)
    PROVE  Padded(SubSeq(f, 1, k)) = Padded(f)
<1>1. PICK n \in Nat : n = Len(f)
  BY LenProperties, Zenon
<1>2. k \in 0..n /\ \A i \in k + 1..n : f[i] = 0
  BY <1>1 DEF EndsInZeros
<1>3. PICK g \in Seq(0..9) : g = SubSeq(f, 1, k) /\ Len(g) = k /\ \A i \in 1..k : g[i] = f[i]
  <2>1. PICK X : X = 0..9
    OBVIOUS
  <2>2. f \in Seq(X) /\ k \in 0..Len(f)
    BY <1>1, <1>2, <2>1
  <2>3. /\ SubSeq(f, 1, k) \in Seq(X) /\ Len(SubSeq(f, 1, k)) = k
        /\ \A i \in 1..k : SubSeq(f, 1, k)[i] = f[i]
    BY <2>2, PrefixType
  <2> QED
    BY <2>1, <2>3, Zenon
<1>4. PICK p \in [1..6 -> 0..9] : p = Padded(f) /\ \A i \in 1..6 : p[i] = IF i <= n THEN f[i] ELSE 0
  BY <1>1, PaddedType
<1>5. PICK q \in [1..6 -> 0..9] : q = Padded(g) /\ \A i \in 1..6 : q[i] = IF i <= k THEN g[i] ELSE 0
  BY <1>3, PaddedType
<1>6. \A i \in 1..6 : p[i] = q[i]
  BY <1>2, <1>3, <1>4, <1>5
<1>7. p = q
  BY <1>6
<1> QED
  BY <1>3, <1>4, <1>5, <1>7

Significant(d, k) == k \in 0..6 /\ (\A i \in k + 1..6 : d[i] = 0) /\ (k > 0 => d[k] # 0)

\* SignificantDigits drops the zeros at the end.
LEMMA SixSignificant ==
    ASSUME NEW d \in [1..6 -> 0..9]
    PROVE  \E k \in 0..6 : Significant(d, k) /\ SignificantDigits(d) = SubSeq(d, 1, k)
<1>1. Len(d) = 6
  OBVIOUS
<1>2. \E k \in 0..6 : Significant(d, k)
  <2>6. CASE d[6] # 0
    <3>1. Significant(d, 6)
      BY <2>6 DEF Significant
    <3> QED
      BY <3>1
  <2>5. CASE d[6] = 0 /\ d[5] # 0
    <3>1. Significant(d, 5)
      BY <2>5 DEF Significant
    <3> QED
      BY <3>1
  <2>4. CASE d[6] = 0 /\ d[5] = 0 /\ d[4] # 0
    <3>1. Significant(d, 4)
      BY <2>4 DEF Significant
    <3> QED
      BY <3>1
  <2>3. CASE d[6] = 0 /\ d[5] = 0 /\ d[4] = 0 /\ d[3] # 0
    <3>1. Significant(d, 3)
      BY <2>3 DEF Significant
    <3> QED
      BY <3>1
  <2>2. CASE d[6] = 0 /\ d[5] = 0 /\ d[4] = 0 /\ d[3] = 0 /\ d[2] # 0
    <3>1. Significant(d, 2)
      BY <2>2 DEF Significant
    <3> QED
      BY <3>1
  <2>1. CASE d[6] = 0 /\ d[5] = 0 /\ d[4] = 0 /\ d[3] = 0 /\ d[2] = 0 /\ d[1] # 0
    <3>1. Significant(d, 1)
      BY <2>1 DEF Significant
    <3> QED
      BY <3>1
  <2>0. CASE d[6] = 0 /\ d[5] = 0 /\ d[4] = 0 /\ d[3] = 0 /\ d[2] = 0 /\ d[1] = 0
    <3>1. Significant(d, 0)
      BY <2>0 DEF Significant
    <3> QED
      BY <3>1
  <2> QED
    BY <2>0, <2>1, <2>2, <2>3, <2>4, <2>5, <2>6
<1> DEFINE Last6(k) == (\A i \in k + 1..6 : d[i] = 0) /\ (k > 0 => d[k] # 0)
           c == CHOOSE k \in 0..6 : Last6(k)
<1>3. \E k \in 0..6 : Last6(k)
  BY <1>2 DEF Significant
<1>4. SignificantDigits(d) = SubSeq(d, 1, CHOOSE k \in 0..Len(d) :
                                /\ \A i \in k + 1..Len(d) : d[i] = 0
                                /\ k > 0 => d[k] # 0)
  BY Zenon DEF SignificantDigits
<1>5. SignificantDigits(d) = SubSeq(d, 1, c)
  BY <1>1, <1>4, Zenon
<1>6. c \in 0..6 /\ Last6(c)
  <2> HIDE DEF Last6
  <2> QED
    BY <1>3
<1>7. Significant(d, c)
  BY <1>6 DEF Significant
<1> QED
  BY <1>5, <1>6, <1>7

\* The digits that fromDateTime writes of a fraction's microseconds.
LEMMA MicrosecondsAreKept ==
    ASSUME NEW f \in Seq(0..9)
    PROVE  LET g == SignificantDigits(SixDigits(Microseconds(f)))
           IN  /\ g \in Seq(0..9) /\ Microseconds(g) = Microseconds(f)
               /\ g = <<>> => Microseconds(f) = 0
               /\ \E k \in 0..6 : Significant(Padded(f), k) /\ g = SubSeq(Padded(f), 1, k)
<1>1. PICK p \in [1..6 -> 0..9] : p = Padded(f) /\ p \in Seq(0..9) /\ Len(p) = 6
  BY PaddedType
<1>2. PICK k \in 0..6 : Significant(p, k) /\ SignificantDigits(p) = SubSeq(p, 1, k)
  BY <1>1, SixSignificant
<1>3. PICK g \in Seq(0..9) : g = SubSeq(p, 1, k)
  BY <1>1, PrefixType
<1>4. SignificantDigits(SixDigits(Microseconds(f))) = g
  BY <1>1, <1>2, <1>3, MicrosecondsSpellOut
<1>5. EndsInZeros(p, k)
  BY <1>1, <1>2 DEF EndsInZeros, Significant
<1>6. Padded(g) = Padded(p)
  BY <1>1, <1>3, <1>5, ZerosSayNothing
<1>7. Padded(p) = p
  <2>1. PICK q \in [1..6 -> 0..9] : q = Padded(p) /\ \A i \in 1..6 : q[i] = IF i <= 6 THEN p[i] ELSE 0
    BY <1>1, PaddedType
  <2>2. \A i \in 1..6 : q[i] = p[i]
    BY <2>1
  <2> QED
    BY <2>1, <2>2
<1>8. Microseconds(g) = Microseconds(f)
  BY <1>1, <1>6, <1>7, Zenon DEF Microseconds
<1>9. g = <<>> => Microseconds(f) = 0
  BY <1>8, NoMicroseconds
<1> QED
  BY <1>1, <1>2, <1>3, <1>4, <1>8, <1>9, Zenon

-----------------------------------------------------------------------------
(* Times: the offset, and the instant that a text names.                   *)

TimeTypes == {UTCTime, GeneralizedTime}

Day == 24 * 60

\* The hours and minutes of an offset of less than a day, as four digits.
LEMMA FourDigits ==
    ASSUME NEW abs \in Nat, abs < Day
    PROVE  /\ abs \div 600 \in 0..9 /\ (abs \div 60) % 10 \in 0..9
           /\ (abs % 60) \div 10 \in 0..9 /\ abs % 10 \in 0..9
           /\ ((abs \div 600) * 10 + ((abs \div 60) % 10)) * 60
                 + ((abs % 60) \div 10) * 10 + (abs % 10) = abs
  BY DEF Day

\* The elements of a sequence of four.
LEMMA FourElements ==
    ASSUME NEW X, NEW s \in Seq(X), Len(s) = 4
    PROVE  s[1] \in X /\ s[2] \in X /\ s[3] \in X /\ s[4] \in X
<1>1. s \in [1..4 -> X]
  BY LenProperties
<1> QED
  BY <1>1

\* A sequence of four elements.
LEMMA FourTogether ==
    ASSUME NEW X, NEW a \in X, NEW b \in X, NEW c \in X, NEW d \in X
    PROVE  /\ <<a, b, c, d>> \in Seq(X) /\ Len(<<a, b, c, d>>) = 4
           /\ <<a, b, c, d>>[1] = a /\ <<a, b, c, d>>[2] = b
           /\ <<a, b, c, d>>[3] = c /\ <<a, b, c, d>>[4] = d
  OBVIOUS

\* An offset's digits are read as the offset without its sign.
LEMMA OffsetIsSpelled ==
    ASSUME NEW minutes \in Int, -Day < minutes, minutes < Day
    PROVE  /\ OffsetDigits(minutes) \in Seq(0..9) /\ Len(OffsetDigits(minutes)) = 4
           /\ OffsetMinutes(OffsetDigits(minutes)) = IF minutes < 0 THEN -minutes ELSE minutes
<1>1. PICK abs \in Nat : abs < Day /\ abs = IF minutes < 0 THEN -minutes ELSE minutes
  BY DEF Day
<1> DEFINE a == abs \div 600
           b == (abs \div 60) % 10
           c == (abs % 60) \div 10
           d == abs % 10
<1>6. a \in 0..9 /\ b \in 0..9 /\ c \in 0..9 /\ d \in 0..9
  BY <1>1, FourDigits
<1>7. (a * 10 + b) * 60 + c * 10 + d = abs
  BY <1>1, FourDigits
<1>8. OffsetDigits(minutes) = <<a, b, c, d>>
  BY <1>1 DEF OffsetDigits
<1> HIDE DEF a, b, c, d
<1>9. PICK s \in Seq(0..9) : /\ s = <<a, b, c, d>> /\ Len(s) = 4
                             /\ s[1] = a /\ s[2] = b /\ s[3] = c /\ s[4] = d
  <2>1. PICK X : X = 0..9
    OBVIOUS
  <2> QED
    <3>1. a \in X /\ b \in X /\ c \in X /\ d \in X
      BY <1>6, <2>1
    <3>2. /\ <<a, b, c, d>> \in Seq(X) /\ Len(<<a, b, c, d>>) = 4
          /\ <<a, b, c, d>>[1] = a /\ <<a, b, c, d>>[2] = b
          /\ <<a, b, c, d>>[3] = c /\ <<a, b, c, d>>[4] = d
      BY <3>1, FourTogether
    <3> QED
      BY <2>1, <3>2, Zenon
<1>10. OffsetMinutes(s) = (a * 10 + b) * 60 + c * 10 + d
  BY <1>9, Zenon DEF OffsetMinutes
<1>11. OffsetMinutes(s) = abs
  BY <1>7, <1>10
<1> QED
  BY <1>1, <1>8, <1>9, <1>11, Zenon

\* An offset that is not refused is less than a day.
LEMMA OffsetIsRead ==
    ASSUME NEW digits \in Seq(0..9), ~ OffsetRefused(digits)
    PROVE  OffsetMinutes(digits) \in Nat /\ OffsetMinutes(digits) < Day
<1>1. PICK n \in Nat : n = Len(digits) /\ DOMAIN digits = 1..n
  BY LenProperties, Zenon
<1>2. n = 4
  BY <1>1, Zenon DEF OffsetRefused
<1>d. digits[1] \in 0..9 /\ digits[2] \in 0..9 /\ digits[3] \in 0..9 /\ digits[4] \in 0..9
  <2>1. PICK X : X = 0..9
    OBVIOUS
  <2>2. digits \in Seq(X) /\ Len(digits) = 4
    BY <1>1, <1>2, <2>1
  <2> QED
    BY <2>1, <2>2, FourElements, Zenon
<1>3. PICK a \in 0..9 : a = digits[1]
  BY <1>d
<1>4. PICK b \in 0..9 : b = digits[2]
  BY <1>d
<1>5. PICK c \in 0..9 : c = digits[3]
  BY <1>d
<1>6. PICK d \in 0..9 : d = digits[4]
  BY <1>d
<1>7. PICK m \in Nat : m = (a * 10 + b) * 60 + c * 10 + d
  OBVIOUS
<1>8. OffsetMinutes(digits) = m
  BY <1>3, <1>4, <1>5, <1>6, <1>7, Zenon DEF OffsetMinutes
<1>9. ~ (m >= Day)
  BY <1>8, Zenon DEF OffsetRefused, Day
<1> QED
  BY <1>8, <1>9 DEF Day

\* The parts of a datetime that a text of a type names.
IsInstant(dt, type, text) ==
    /\ dt = Instant(dt.integral, dt.microsecond, dt.naive, dt.minutes)
    /\ dt.integral = type.yearsDigits + 10
    /\ dt.microsecond = IF text.mark = "none" THEN 0 ELSE Microseconds(text.fraction)
    /\ dt.naive = (text.zone = "none")
    /\ dt.minutes \in Int /\ -Day < dt.minutes /\ dt.minutes < Day
    /\ text.zone \in {"none", "Z"} => dt.minutes = 0
    /\ ~ (text.mark # "none" /\ text.fraction = <<>>) /\ ~ text.midnight24

\* The attributes of the two classes.
LEMMA TypeFields ==
    ASSUME NEW type \in TimeTypes
    PROVE  /\ type.yearsDigits \in {2, 4} /\ type.hasSubsecond \in BOOLEAN
           /\ type.optionalMinutes \in BOOLEAN /\ type.shortTZ \in BOOLEAN
           /\ type.MIN_LENGTH = type.yearsDigits + 8
           /\ type.MAX_LENGTH = IF type.hasSubsecond THEN 20 ELSE 14
           /\ type.yearsDigits = IF type.hasSubsecond THEN 4 ELSE 2
<1>1. CASE type = UTCTime
  BY <1>1 DEF UTCTime
<1>2. CASE type = GeneralizedTime
  BY <1>2 DEF GeneralizedTime
<1> QED
  BY <1>1, <1>2, Zenon DEF TimeTypes

\* What a text consists of.
LEMMA TextFields ==
    ASSUME NEW text \in Texts
    PROVE  /\ text.integral \in Nat /\ text.midnight24 \in BOOLEAN
           /\ text.mark \in {"none", ".", ","} /\ text.fraction \in Seq(0..9)
           /\ text.zone \in {"none", "Z", "+", "-"} /\ text.offset \in Seq(0..9)
           /\ text.mark = "none" => text.fraction = <<>>
           /\ text.zone \in {"none", "Z"} => text.offset = <<>>
           /\ text = Text(text.integral, text.midnight24, text.mark, text.fraction,
                          text.zone, text.offset)
  BY DEF Texts, Text

\* The offset with its minutes.
LEMMA FullOffsetType ==
    ASSUME NEW type, NEW text \in Texts
    PROVE  FullOffset(type, text) \in Seq(0..9)
<1>1. PICK o \in Seq(0..9) : o = text.offset
  BY TextFields
<1>2. <<0, 0>> \in Seq(0..9)
  OBVIOUS
<1>3. o \o <<0, 0>> \in Seq(0..9)
  BY <1>2
<1> QED
  BY <1>1, <1>3, Zenon DEF FullOffset

\* asDateTime refuses a text or gives the instant that its parts name.
LEMMA InstantOfText ==
    ASSUME NEW type \in TimeTypes, NEW text \in Texts
    PROVE  \/ AsDateTime(type, text) = {}
           \/ \E dt : AsDateTime(type, text) = {dt} /\ IsInstant(dt, type, text)
<1>1. PICK full \in Seq(0..9) : full = FullOffset(type, text)
  BY FullOffsetType
<1>2. PICK refused : refused = (\/ text.zone \in {"+", "-"} /\ OffsetRefused(full)
                                \/ text.mark # "none" /\ text.fraction = <<>>
                                \/ FullIntegral(type, text) # type.yearsDigits + 10
                                \/ text.midnight24)
  OBVIOUS
<1>3. PICK minutes : minutes = CASE text.zone = "+" -> OffsetMinutes(full)
                                 [] text.zone = "-" -> -OffsetMinutes(full)
                                 [] OTHER -> 0
  OBVIOUS
<1>4. PICK micro : micro = IF text.mark = "none" THEN 0 ELSE Microseconds(text.fraction)
  OBVIOUS
<1>5. PICK naive : naive = (text.zone = "none")
  OBVIOUS
<1>6. PICK dt : dt = Instant(FullIntegral(type, text), micro, naive, minutes)
  OBVIOUS
<1>7. AsDateTime(type, text) = IF refused THEN {} ELSE {dt}
  BY <1>1, <1>2, <1>3, <1>4, <1>5, <1>6, Zenon DEF AsDateTime
<1>8. ASSUME ~ refused
      PROVE  IsInstant(dt, type, text)
  <2>1. /\ ~ (text.zone \in {"+", "-"} /\ OffsetRefused(full))
        /\ ~ (text.mark # "none" /\ text.fraction = <<>>)
        /\ FullIntegral(type, text) = type.yearsDigits + 10
        /\ ~ text.midnight24
    BY <1>2, <1>8
  <2>2. /\ dt = Instant(dt.integral, dt.microsecond, dt.naive, dt.minutes)
        /\ dt.integral = FullIntegral(type, text) /\ dt.microsecond = micro
        /\ dt.naive = naive /\ dt.minutes = minutes
    BY <1>6 DEF Instant
  <2>3. /\ minutes \in Int /\ -Day < minutes /\ minutes < Day
        /\ text.zone \in {"none", "Z"} => minutes = 0
    <3>1. text.zone \in {"none", "Z", "+", "-"}
      BY TextFields
    <3>2. CASE text.zone \in {"none", "Z"}
      <4>1. text.zone # "+" /\ text.zone # "-"
        BY <3>2
      <4>2. minutes = 0
        BY <1>3, <4>1, Zenon
      <4> QED
        BY <4>2 DEF Day
    <3>3. CASE text.zone \in {"+", "-"}
      <4>1. PICK m \in Nat : m < Day /\ m = OffsetMinutes(full)
        BY <2>1, <3>3, OffsetIsRead, Zenon
      <4>2. CASE text.zone = "+"
        <5>1. minutes = m
          BY <1>3, <4>1, <4>2, Zenon
        <5>2. ~ (text.zone \in {"none", "Z"})
          BY <4>2
        <5> QED
          BY <4>1, <5>1, <5>2 DEF Day
      <4>3. CASE text.zone = "-"
        <5>1. text.zone # "+" /\ ~ (text.zone \in {"none", "Z"})
          BY <4>3
        <5>2. minutes = -m
          BY <1>3, <4>1, <4>3, <5>1, Zenon
        <5> QED
          BY <4>1, <5>1, <5>2 DEF Day
      <4> QED
        BY <3>3, <4>2, <4>3
    <3> QED
      BY <3>1, <3>2, <3>3
  <2> QED
    BY <1>4, <1>5, <2>1, <2>2, <2>3, Zenon DEF IsInstant
<1> QED
  BY <1>7, <1>8

-----------------------------------------------------------------------------
(* Times: fromDateTime.                                                    *)

Subsecond(type, text) == text.mark = "none" \/ type.hasSubsecond

\* The fraction that fromDateTime writes.
WrittenFraction(type, micro) ==
    IF type.hasSubsecond /\ micro # 0 THEN SignificantDigits(SixDigits(micro)) ELSE <<>>

\* fromDateTime writes a fraction that names the same microseconds.
LEMMA FractionIsKept ==
    ASSUME NEW type \in TimeTypes, NEW text \in Texts, Subsecond(type, text),
           ~ (text.mark # "none" /\ text.fraction = <<>>),
           NEW micro, micro = IF text.mark = "none" THEN 0 ELSE Microseconds(text.fraction)
    PROVE  /\ WrittenFraction(type, micro) \in Seq(0..9)
           /\ WrittenFraction(type, micro) = <<>> => micro = 0
           /\ WrittenFraction(type, micro) # <<>> =>
                 /\ type.hasSubsecond /\ Microseconds(WrittenFraction(type, micro)) = micro
                 /\ text.mark # "none"
                 /\ WrittenFraction(type, micro)
                        = SignificantDigits(SixDigits(Microseconds(text.fraction)))
<1>1. PICK f \in Seq(0..9) : f = text.fraction
  BY TextFields
<1>2. <<>> \in Seq(0..9)
  OBVIOUS
<1>3. CASE micro = 0
  <2>1. WrittenFraction(type, micro) = <<>>
    BY <1>3, Zenon DEF WrittenFraction
  <2> QED
    BY <1>2, <1>3, <2>1
<1>4. CASE micro # 0
  <2>1. text.mark # "none" /\ micro = Microseconds(f)
    BY <1>1, <1>4
  <2>2. type.hasSubsecond
    BY <2>1 DEF Subsecond
  <2>3. PICK g : g = SignificantDigits(SixDigits(Microseconds(f)))
    OBVIOUS
  <2>4. WrittenFraction(type, micro) = g
    BY <1>4, <2>1, <2>2, <2>3, Zenon DEF WrittenFraction
  <2>5. g \in Seq(0..9) /\ Microseconds(g) = Microseconds(f) /\ (g = <<>> => Microseconds(f) = 0)
    BY <2>3, MicrosecondsAreKept, Zenon
  <2> QED
    BY <1>1, <1>4, <2>1, <2>2, <2>3, <2>4, <2>5, Zenon
<1> QED
  BY <1>3, <1>4

\* Any fraction it writes is made of digits.
LEMMA FractionIsDigits ==
    ASSUME NEW type, NEW text \in Texts,
           NEW micro, micro = IF text.mark = "none" THEN 0 ELSE Microseconds(text.fraction)
    PROVE  WrittenFraction(type, micro) \in Seq(0..9)
<1>1. PICK f \in Seq(0..9) : f = text.fraction
  BY TextFields
<1>2. <<>> \in Seq(0..9)
  OBVIOUS
<1>3. PICK g \in Seq(0..9) : g = SignificantDigits(SixDigits(Microseconds(f)))
  BY MicrosecondsAreKept, Zenon
<1>4. micro # 0 => micro = Microseconds(f)
  BY <1>1
<1> QED
  BY <1>2, <1>3, <1>4, Zenon DEF WrittenFraction

\* What fromDateTime makes of the instant of a text.
IsRewritten(u, type, dt) ==
    /\ u \in Texts
    /\ u.integral = type.yearsDigits + 10 /\ u.midnight24 = FALSE
    /\ u.fraction = WrittenFraction(type, dt.microsecond)
    /\ u.mark = IF u.fraction = <<>> THEN "none" ELSE "."
    /\ dt.minutes = 0 => u.zone = "Z"
    /\ dt.minutes > 0 => u.zone = "+"
    /\ dt.minutes < 0 => u.zone = "-"
    /\ dt.minutes # 0 => u.offset = OffsetDigits(dt.minutes)

\* What fromDateTime writes of an instant.
LEMMA TextOfInstant ==
    ASSUME NEW type \in TimeTypes, NEW text \in Texts, NEW dt, IsInstant(dt, type, text)
    PROVE  IsRewritten(FromDateTime(type, dt), type, dt)
<1>1. PICK years \in Nat : years = type.yearsDigits
  BY TypeFields
<1>2. PICK minutes \in Int : minutes = dt.minutes /\ -Day < minutes /\ minutes < Day
  BY DEF IsInstant
<1>3. PICK fraction \in Seq(0..9) : fraction = WrittenFraction(type, dt.microsecond)
  BY FractionIsDigits, Zenon DEF IsInstant
<1>4. PICK mark \in {"none", "."} : mark = IF fraction = <<>> THEN "none" ELSE "."
  OBVIOUS
<1>5. PICK zone \in {"Z", "+", "-"} :
          zone = CASE minutes < 0 -> "-" [] minutes > 0 -> "+" [] OTHER -> "Z"
  BY <1>2
<1>6. PICK offset \in Seq(0..9) : offset = IF minutes = 0 THEN <<>> ELSE OffsetDigits(minutes)
  <2>1. CASE minutes = 0
    <3>1. <<>> \in Seq(0..9)
      OBVIOUS
    <3> QED
      BY <2>1, <3>1, Zenon
  <2>2. CASE minutes # 0
    <3>1. OffsetDigits(minutes) \in Seq(0..9)
      BY <1>2, OffsetIsSpelled
    <3> QED
      BY <2>2, <3>1, Zenon
  <2> QED
    BY <2>1, <2>2
<1>7. FromDateTime(type, dt) = Text(years + 10, FALSE, mark, fraction, zone, offset)
  BY <1>1, <1>2, <1>3, <1>4, <1>5, <1>6, Zenon DEF FromDateTime, WrittenFraction
<1>8. PICK u : u = FromDateTime(type, dt)
  OBVIOUS
<1>9. /\ u.integral = years + 10 /\ u.midnight24 = FALSE /\ u.mark = mark
      /\ u.fraction = fraction /\ u.zone = zone /\ u.offset = offset
  BY <1>7, <1>8 DEF Text
<1>10. /\ minutes = 0 => zone = "Z" /\ offset = <<>>
       /\ minutes > 0 => zone = "+" /\ offset = OffsetDigits(minutes)
       /\ minutes < 0 => zone = "-" /\ offset = OffsetDigits(minutes)
  BY <1>5, <1>6
<1>11. zone = "Z" => offset = <<>>
  BY <1>10
<1>12. mark = "none" => fraction = <<>>
  BY <1>4
<1>13. u \in Texts
  <2>1. u = [integral |-> years + 10, midnight24 |-> FALSE, mark |-> mark,
             fraction |-> fraction, zone |-> zone, offset |-> offset]
    BY <1>7, <1>8, Zenon DEF Text
  <2>2. u \in [integral : Nat, midnight24 : BOOLEAN, mark : {"none", ".", ","},
               fraction : Seq(0..9), zone : {"none", "Z", "+", "-"}, offset : Seq(0..9)]
    <3>1. years + 10 \in Nat /\ mark \in {"none", ".", ","} /\ zone \in {"none", "Z", "+", "-"}
      BY <1>4, <1>5
    <3>2. PICK D : D = Seq(0..9)
      OBVIOUS
    <3>3. fraction \in D /\ offset \in D
      BY <3>2
    <3>4. u \in [integral : Nat, midnight24 : BOOLEAN, mark : {"none", ".", ","},
                 fraction : D, zone : {"none", "Z", "+", "-"}, offset : D]
      BY <2>1, <3>1, <3>3
    <3> QED
      BY <3>2, <3>4, Zenon
  <2>3. /\ u.mark = "none" => u.fraction = <<>>
        /\ u.zone \in {"none", "Z"} => u.offset = <<>>
    BY <1>9, <1>11, <1>12
  <2> QED
    BY <2>2, <2>3 DEF Texts
<1>14. minutes # 0 => offset = OffsetDigits(minutes)
  BY <1>6
<1> QED
  BY <1>1, <1>2, <1>3, <1>4, <1>8, <1>9, <1>10, <1>13, <1>14, Zenon DEF IsRewritten


\* asDateTime reads what fromDateTime writes as the same instant, in a zone.
LEMMA RewrittenIsRead ==
    ASSUME NEW type \in TimeTypes, NEW text \in Texts, Subsecond(type, text),
           NEW dt, IsInstant(dt, type, text), NEW u, IsRewritten(u, type, dt)
    PROVE  AsDateTime(type, u) = {Aware(dt)} /\ Subsecond(type, u)
<1>1. PICK minutes \in Int : minutes = dt.minutes /\ -Day < minutes /\ minutes < Day
  BY DEF IsInstant
<1>2. PICK fraction \in Seq(0..9) :
          /\ fraction = WrittenFraction(type, dt.microsecond) /\ fraction = u.fraction
          /\ fraction = <<>> => dt.microsecond = 0
          /\ fraction # <<>> => type.hasSubsecond /\ Microseconds(fraction) = dt.microsecond
  BY FractionIsKept, Zenon DEF IsInstant, IsRewritten
<1>3. u.mark = IF fraction = <<>> THEN "none" ELSE "."
  BY <1>2 DEF IsRewritten
<1>4. Subsecond(type, u)
  BY <1>2, <1>3 DEF Subsecond
<1>5. (IF u.mark = "none" THEN 0 ELSE Microseconds(u.fraction)) = dt.microsecond
  BY <1>2, <1>3
<1>6. ~ (u.mark # "none" /\ u.fraction = <<>>)
  BY <1>2, <1>3
<1>7. u.zone # "none" /\ u.midnight24 = FALSE
  BY <1>1 DEF IsRewritten
<1>8. FullIntegral(type, u) = type.yearsDigits + 10 /\ dt.integral = type.yearsDigits + 10
  <2>1. type.yearsDigits \in {2, 4} /\ u.integral = type.yearsDigits + 10
    BY TypeFields DEF IsRewritten
  <2>2. u.integral # type.yearsDigits + 6 /\ u.integral # type.yearsDigits + 8
    BY <2>1
  <2> QED
    BY <2>1, <2>2, Zenon DEF FullIntegral, IsInstant
<1>9. PICK full : full = FullOffset(type, u)
  OBVIOUS
<1>10. u.zone \in {"+", "-"} =>
          /\ full \in Seq(0..9) /\ Len(full) = 4
          /\ OffsetMinutes(full) = IF minutes < 0 THEN -minutes ELSE minutes
  <2> SUFFICES ASSUME u.zone \in {"+", "-"}
               PROVE  /\ full \in Seq(0..9) /\ Len(full) = 4
                      /\ OffsetMinutes(full) = IF minutes < 0 THEN -minutes ELSE minutes
    OBVIOUS
  <2>1. minutes # 0
    BY <1>1 DEF IsRewritten
  <2>2. PICK o \in Seq(0..9) : /\ o = OffsetDigits(minutes) /\ Len(o) = 4
                               /\ OffsetMinutes(o) = IF minutes < 0 THEN -minutes ELSE minutes
    BY <1>1, OffsetIsSpelled
  <2>3. u.offset = o
    BY <1>1, <2>1, <2>2 DEF IsRewritten
  <2>4. Len(o) # 2
    BY <2>2
  <2>5. full = o
    BY <1>9, <2>3, <2>4, Zenon DEF FullOffset
  <2> QED
    BY <2>2, <2>5
<1>11. ~ (u.zone \in {"+", "-"} /\ OffsetRefused(full))
  <2> SUFFICES ASSUME u.zone \in {"+", "-"} PROVE ~ OffsetRefused(full)
    OBVIOUS
  <2>1. PICK m \in Nat : m = OffsetMinutes(full) /\ m < Day
    BY <1>1, <1>10 DEF Day
  <2>2. ~ (m >= Day)
    BY <2>1 DEF Day
  <2> QED
    BY <1>10, <2>1, <2>2, Zenon DEF OffsetRefused, Day
<1>12. (CASE u.zone = "+" -> OffsetMinutes(full)
          [] u.zone = "-" -> -OffsetMinutes(full)
          [] OTHER -> 0) = minutes
  <2>1. CASE minutes = 0
    <3>1. u.zone = "Z"
      BY <1>1, <2>1 DEF IsRewritten
    <3>2. u.zone # "+" /\ u.zone # "-"
      BY <3>1
    <3> QED
      BY <2>1, <3>2, Zenon
  <2>2. CASE minutes > 0
    <3>1. u.zone = "+"
      BY <1>1, <2>2 DEF IsRewritten
    <3>2. OffsetMinutes(full) = minutes
      BY <1>10, <2>2, <3>1
    <3>3. u.zone # "-"
      BY <3>1
    <3> QED
      BY <3>1, <3>2, <3>3, Zenon
  <2>3. CASE minutes < 0
    <3>1. u.zone = "-"
      BY <1>1, <2>3 DEF IsRewritten
    <3>2. -OffsetMinutes(full) = minutes
      BY <1>10, <2>3, <3>1
    <3>3. u.zone # "+"
      BY <3>1
    <3> QED
      BY <3>1, <3>2, <3>3, Zenon
  <2> QED
    BY <2>1, <2>2, <2>3
<1>13. AsDateTime(type, u) = {Instant(dt.integral, dt.microsecond, FALSE, minutes)}
  <2>1. ~ (\/ u.zone \in {"+", "-"} /\ OffsetRefused(FullOffset(type, u))
           \/ u.mark # "none" /\ u.fraction = <<>>
           \/ FullIntegral(type, u) # type.yearsDigits + 10
           \/ u.midnight24)
    BY <1>6, <1>7, <1>8, <1>9, <1>11
  <2>2. (u.zone = "none") = FALSE
    BY <1>7
  <2>3. AsDateTime(type, u)
            = {Instant(FullIntegral(type, u),
                       IF u.mark = "none" THEN 0 ELSE Microseconds(u.fraction),
                       u.zone = "none",
                       CASE u.zone = "+" -> OffsetMinutes(full)
                         [] u.zone = "-" -> -OffsetMinutes(full)
                         [] OTHER -> 0)}
    BY <1>9, <2>1, Zenon DEF AsDateTime
  <2> QED
    BY <1>5, <1>8, <1>12, <2>2, <2>3, Zenon
<1> QED
  BY <1>1, <1>4, <1>13, Zenon DEF Aware

\* The instant that a text of a type names.
MomentAs(type, text) ==
    IF AsDateTime(type, text) = {} THEN {text}
    ELSE {Aware(dt) : dt \in AsDateTime(type, text)}

\* What has a zone keeps it.
LEMMA OfNoZone ==
    ASSUME NEW dt
    PROVE  Aware(Aware(dt)) = Aware(dt)
  BY DEF Aware, Instant

\* From a text to a datetime and to a text: both name one instant.
LEMMA MomentIsKept ==
    ASSUME NEW type \in TimeTypes, NEW text \in Texts, Subsecond(type, text),
           NEW dt, dt \in AsDateTime(type, text), NEW u, u = FromDateTime(type, dt)
    PROVE  /\ MomentAs(type, u) = MomentAs(type, text)
           /\ Subsecond(type, u) /\ IsInstant(dt, type, text) /\ IsRewritten(u, type, dt)
<1>1. AsDateTime(type, text) = {dt} /\ IsInstant(dt, type, text)
  BY InstantOfText
<1>2. IsRewritten(u, type, dt)
  BY <1>1, TextOfInstant
<1>3. AsDateTime(type, u) = {Aware(dt)} /\ Subsecond(type, u)
  BY <1>1, <1>2, RewrittenIsRead
<1>5. MomentAs(type, text) = {Aware(dt)}
  BY <1>1 DEF MomentAs
<1>7. MomentAs(type, u) = {Aware(dt)}
  <2>1. AsDateTime(type, u) # {}
    BY <1>3
  <2>2. MomentAs(type, u) = {Aware(t) : t \in {Aware(dt)}}
    BY <1>3, <2>1, Zenon DEF MomentAs
  <2>3. MomentAs(type, u) = {Aware(Aware(dt))}
    BY <2>2
  <2> QED
    BY <2>3, OfNoZone, Zenon
<1> QED
  BY <1>1, <1>2, <1>3, <1>5, <1>7

-----------------------------------------------------------------------------
(* Times: what the CER and DER encoders make of a text.                    *)

\* The digits that the encoder's loop passes over, one by one.
SkippedZeros(f, n) == [i \in 1..n |-> IF f[i] = 0 THEN <<>> ELSE <<f[i]>>]

\* The digits the loop passes over, one by one.
LEMMA ZerosSkipped ==
    ASSUME NEW X, NEW f \in Seq(X), NEW n \in Nat, n <= Len(f)
    PROVE  /\ SkippedZeros(f, n) \in Seq(Seq(X)) /\ Len(SkippedZeros(f, n)) = n
           /\ \A i \in 1..n : SkippedZeros(f, n)[i] = IF f[i] = 0 THEN <<>> ELSE <<f[i]>>
<1>1. \A i \in 1..n : f[i] \in X
  OBVIOUS
<1>2. \A i \in 1..n : (IF f[i] = 0 THEN <<>> ELSE <<f[i]>>) \in Seq(X)
  <2> TAKE i \in 1..n
  <2>1. <<>> \in Seq(X) /\ <<f[i]>> \in Seq(X)
    BY <1>1
  <2> QED
    BY <2>1
<1>3. SkippedZeros(f, n) \in [1..n -> Seq(X)]
  BY <1>2, Zenon DEF SkippedZeros
<1>4. \A i \in 1..n : SkippedZeros(f, n)[i] = IF f[i] = 0 THEN <<>> ELSE <<f[i]>>
  BY Zenon DEF SkippedZeros
<1> QED
  BY <1>3, <1>4, FunctionIsSequence

\* What is left are digits.
LEMMA WithoutZerosType ==
    ASSUME NEW X, NEW f \in Seq(X), NEW n \in Nat, n <= Len(f)
    PROVE  WithoutZeros(f, n) \in Seq(X)
<1>1. SkippedZeros(f, n) \in Seq(Seq(X))
  BY ZerosSkipped
<1> QED
  BY <1>1, FlattenType, Zenon DEF WithoutZeros, SkippedZeros

\* Of no digits none is left.
LEMMA WithoutZerosOfNone == \A f : WithoutZeros(f, 0) = <<>>
<1> TAKE f
<1>1. [i \in 1..0 |-> IF f[i] = 0 THEN <<>> ELSE <<f[i]>>] = <<>>
  OBVIOUS
<1> QED
  BY <1>1, FlattenNothing, Zenon DEF WithoutZeros

\* A zero more adds nothing, another digit itself.
LEMMA WithoutZerosOfMore ==
    ASSUME NEW X, NEW f \in Seq(X), NEW n \in Nat, n < Len(f)
    PROVE  WithoutZeros(f, n + 1)
               = WithoutZeros(f, n) \o (IF f[n + 1] = 0 THEN <<>> ELSE <<f[n + 1]>>)
<1>1. PICK m \in Nat : m = n + 1 /\ m <= Len(f)
  OBVIOUS
<1>2. PICK g \in Seq(Seq(X)) : /\ g = SkippedZeros(f, n) /\ Len(g) = n
          /\ \A i \in 1..n : g[i] = IF f[i] = 0 THEN <<>> ELSE <<f[i]>>
  BY <1>1, ZerosSkipped
<1>3. PICK h \in Seq(Seq(X)) : /\ h = SkippedZeros(f, m) /\ Len(h) = m
          /\ \A i \in 1..m : h[i] = IF f[i] = 0 THEN <<>> ELSE <<f[i]>>
  BY <1>1, ZerosSkipped
<1>4. PICK s \in Seq(X) : s = IF f[m] = 0 THEN <<>> ELSE <<f[m]>>
  <2>1. f[m] \in X
    BY <1>1
  <2>2. <<>> \in Seq(X) /\ <<f[m]>> \in Seq(X)
    BY <2>1
  <2> QED
    BY <2>2
<1>5. PICK more \in Seq(Seq(X)) : more = Append(g, s) /\ Len(more) = m
        /\ more[m] = s /\ \A i \in 1..n : more[i] = g[i]
  <2>1. /\ Append(g, s) \in Seq(Seq(X)) /\ Len(Append(g, s)) = Len(g) + 1
        /\ \A i \in 1..Len(g) : Append(g, s)[i] = g[i]
        /\ Append(g, s)[Len(g) + 1] = s
    BY AppendProperties
  <2> QED
    BY <1>1, <1>2, <2>1
<1>6. \A i \in 1..m : more[i] = h[i]
  <2> TAKE i \in 1..m
  <2>1. CASE i = m
    BY <1>3, <1>4, <1>5, <2>1
  <2>2. CASE i # m
    <3>1. i \in 1..n
      BY <1>1, <2>2
    <3> QED
      BY <1>2, <1>3, <1>5, <3>1
  <2> QED
    BY <2>1, <2>2
<1>7. h = Append(g, s)
  BY <1>3, <1>5, <1>6, SeqEqual
<1>8. FlattenSeq(h) = FlattenSeq(g) \o s
  BY <1>7, FlattenAppend
<1> QED
  BY <1>1, <1>2, <1>3, <1>4, <1>8, Zenon DEF WithoutZeros, SkippedZeros

NoInnerZero(f) ==
    ~ \E i \in DOMAIN f : f[i] = 0 /\ \E j \in i + 1..Len(f) : f[j] # 0

\* The zeros of a fraction, if they all stand at its end.
ZerosFrom(f, k) ==
    /\ k \in 0..Len(f)
    /\ \A i \in 1..k : f[i] # 0
    /\ \A i \in k + 1..Len(f) : f[i] = 0

\* Up to three digits without an inner zero: the zeros stand at the end.
LEMMA ZerosStandTogether ==
    ASSUME NEW X, NEW f \in Seq(X), Len(f) <= 3, NoInnerZero(f)
    PROVE  \E k \in Nat : ZerosFrom(f, k)
<1>1. PICK n \in Nat : n = Len(f) /\ DOMAIN f = 1..n /\ n <= 3
  BY LenProperties, Zenon
<1>2. \A i \in 1..n : f[i] = 0 => \A j \in i + 1..n : f[j] = 0
  BY <1>1, Zenon DEF NoInnerZero
<1>3. CASE n = 0 \/ f[1] = 0
  <2>1. ZerosFrom(f, 0)
    BY <1>1, <1>2, <1>3 DEF ZerosFrom
  <2> QED
    BY <2>1
<1>4. CASE n >= 1 /\ f[1] # 0 /\ (n = 1 \/ f[2] = 0)
  <2>1. ZerosFrom(f, 1)
    BY <1>1, <1>2, <1>4 DEF ZerosFrom
  <2> QED
    BY <2>1
<1>5. CASE n >= 2 /\ f[1] # 0 /\ f[2] # 0 /\ (n = 2 \/ f[3] = 0)
  <2>1. ZerosFrom(f, 2)
    BY <1>1, <1>2, <1>5 DEF ZerosFrom
  <2> QED
    BY <2>1
<1>6. CASE n = 3 /\ f[1] # 0 /\ f[2] # 0 /\ f[3] # 0
  <2>1. ZerosFrom(f, 3)
    BY <1>1, <1>2, <1>6 DEF ZerosFrom
  <2> QED
    BY <2>1
<1> QED
  BY <1>1, <1>3, <1>4, <1>5, <1>6

Lesser(m, k) == IF m < k THEN m ELSE k

\* What the loop leaves is the beginning of the fraction, one digit further.
LEMMA PrefixGoesOn ==
    ASSUME NEW X, NEW f \in Seq(X), NEW k \in Nat, ZerosFrom(f, k), NEW m \in Nat, m < Len(f),
           WithoutZeros(f, m) = SubSeq(f, 1, Lesser(m, k))
    PROVE  WithoutZeros(f, m + 1) = SubSeq(f, 1, Lesser(m + 1, k))
<1>1. PICK n \in Nat : n = Len(f)
  BY LenProperties, Zenon
<1>2. k \in 0..n /\ (\A i \in 1..k : f[i] # 0) /\ (\A i \in k + 1..n : f[i] = 0)
  BY <1>1 DEF ZerosFrom
<1>3. WithoutZeros(f, m + 1)
          = WithoutZeros(f, m) \o (IF f[m + 1] = 0 THEN <<>> ELSE <<f[m + 1]>>)
  BY WithoutZerosOfMore
<1>4. CASE m < k
  <2>1. f[m + 1] # 0 /\ Lesser(m, k) = m /\ Lesser(m + 1, k) = m + 1
    BY <1>2, <1>4 DEF Lesser
  <2>2. PICK p \in Seq(X) : p = SubSeq(f, 1, m) /\ SubSeq(f, 1, m + 1) = Append(p, f[m + 1])
    BY PrefixOneMore
  <2>3. Append(p, f[m + 1]) = p \o <<f[m + 1]>>
    OBVIOUS
  <2> QED
    BY <1>3, <2>1, <2>2, <2>3, Zenon
<1>5. CASE ~ (m < k)
  <2>1. f[m + 1] = 0 /\ Lesser(m, k) = k /\ Lesser(m + 1, k) = k
    BY <1>1, <1>2, <1>5 DEF Lesser
  <2>2. PICK p \in Seq(X) : p = WithoutZeros(f, m)
    <3>1. m <= Len(f)
      BY <1>1
    <3>2. WithoutZeros(f, m) \in Seq(X)
      BY <3>1, WithoutZerosType
    <3> QED
      BY <3>2
  <2>3. p \o <<>> = p
    BY ConcatEmptySeq
  <2> QED
    BY <1>3, <2>1, <2>2, <2>3, Zenon
<1> QED
  BY <1>4, <1>5

\* A fraction of up to three digits whose zeros stand together loses just them.
LEMMA ZerosAreDropped ==
    ASSUME NEW X, NEW f \in Seq(X), Len(f) <= 3, NEW k \in Nat, ZerosFrom(f, k)
    PROVE  NormalisedFraction(f) = SubSeq(f, 1, k)
<1>1. PICK n \in Nat : n = Len(f) /\ n <= 3
  BY LenProperties, Zenon
<1>2. k \in 0..n
  BY <1>1 DEF ZerosFrom
<1>3. WithoutZeros(f, 0) = SubSeq(f, 1, Lesser(0, k))
  <2>1. Lesser(0, k) = 0
    BY DEF Lesser
  <2>2. SubSeq(f, 1, 0) = <<>>
    BY SubSeqEmpty
  <2> QED
    BY <2>1, <2>2, WithoutZerosOfNone
<1>4. 1 <= n => WithoutZeros(f, 1) = SubSeq(f, 1, Lesser(1, k))
  <2>1. 0 < n => WithoutZeros(f, 0 + 1) = SubSeq(f, 1, Lesser(0 + 1, k))
    BY <1>1, <1>3, PrefixGoesOn
  <2> QED
    BY <2>1
<1>5. 2 <= n => WithoutZeros(f, 2) = SubSeq(f, 1, Lesser(2, k))
  <2>1. 1 < n => WithoutZeros(f, 1 + 1) = SubSeq(f, 1, Lesser(1 + 1, k))
    BY <1>1, <1>4, PrefixGoesOn
  <2> QED
    BY <2>1
<1>6. 3 <= n => WithoutZeros(f, 3) = SubSeq(f, 1, Lesser(3, k))
  <2>1. 2 < n => WithoutZeros(f, 2 + 1) = SubSeq(f, 1, Lesser(2 + 1, k))
    BY <1>1, <1>5, PrefixGoesOn
  <2> QED
    BY <2>1
<1>7. WithoutZeros(f, n) = SubSeq(f, 1, Lesser(n, k))
  <2>1. n = 0 \/ n = 1 \/ n = 2 \/ n = 3
    BY <1>1
  <2> QED
    BY <1>3, <1>4, <1>5, <1>6, <2>1
<1>8. Lesser(n, k) = k
  BY <1>2 DEF Lesser
<1>9. PICK p \in Seq(X) : p = SubSeq(f, 1, k)
  BY <1>1, <1>2, PrefixType
<1>10. SubSeq(f, n + 1, n) = <<>>
  BY <1>1, SubSeqEmpty
<1>11. p \o <<>> = p
  BY ConcatEmptySeq
<1>12. n < 4
  BY <1>1
<1>13. NormalisedFraction(f) = WithoutZeros(f, n) \o SubSeq(f, n + 1, n)
  BY <1>1, <1>12, Zenon DEF NormalisedFraction
<1> QED
  BY <1>7, <1>8, <1>9, <1>10, <1>11, <1>13, Zenon

\* What is left of a fraction are digits.
LEMMA NormalisedFractionType ==
    ASSUME NEW X, NEW f \in Seq(X)
    PROVE  NormalisedFraction(f) \in Seq(X)
<1>1. PICK n \in Nat : n = Len(f)
  BY LenProperties, Zenon
<1>2. PICK m \in Nat : m = (IF n < 4 THEN n ELSE 4) /\ m <= n
  OBVIOUS
<1>3. WithoutZeros(f, m) \in Seq(X)
  BY <1>1, <1>2, WithoutZerosType
<1>4. SubSeq(f, m + 1, n) \in Seq(X)
  <2>1. \A i \in m + 1..n : i \in 1..n
    OBVIOUS
  <2>2. \A i \in m + 1..n : f[i] \in X
    BY <1>1, <2>1
  <2>3. m + 1 \in Int /\ n \in Int
    OBVIOUS
  <2> QED
    BY <2>2, <2>3, SubSeqProperties
<1>5. WithoutZeros(f, m) \o SubSeq(f, m + 1, n) \in Seq(X)
  BY <1>3, <1>4, ConcatProperties
<1>6. NormalisedFraction(f) = WithoutZeros(f, m) \o SubSeq(f, m + 1, n)
  BY <1>1, <1>2, Zenon DEF NormalisedFraction
<1> QED
  BY <1>5, <1>6

\* TimeFits, of a type, and what it says of the fraction alone.
FitsTime(type, text) ==
    /\ text.zone = "Z" /\ text.mark # "," /\ ~ text.midnight24
    /\ text.integral = type.yearsDigits + 10
    /\ Subsecond(type, text)
    /\ text.mark = "." => text.fraction # <<>>
    /\ Len(text.fraction) <= 3
    /\ NoInnerZero(text.fraction)

IsNonzero(g, X, k) ==
    /\ g \in Seq(X) /\ Len(g) = k
    /\ g # <<>> => Last(g) # 0
    /\ \A i \in 1..k : g[i] # 0

\* The last digit of a fraction that is its own prefix up to the last digit
\* other than zero.
LEMMA LastOfPrefix ==
    ASSUME NEW X, NEW f \in Seq(X), NEW k \in Nat, ZerosFrom(f, k), NEW g, g = SubSeq(f, 1, k)
    PROVE  IsNonzero(g, X, k)
<1>1. PICK n \in Nat : n = Len(f)
  BY LenProperties, Zenon
<1>2. k \in 0..n /\ \A i \in 1..k : f[i] # 0
  BY <1>1 DEF ZerosFrom
<1>3. g \in Seq(X) /\ Len(g) = k /\ \A i \in 1..k : g[i] = f[i]
  BY <1>1, <1>2, PrefixType
<1>4. \A i \in 1..k : g[i] # 0
  BY <1>2, <1>3
<1>5. g = <<>> <=> k = 0
  BY <1>3, EmptySeq
<1>6. g # <<>> => Last(g) # 0
  BY <1>3, <1>4, <1>5 DEF Last
<1> QED
  BY <1>3, <1>4, <1>6 DEF IsNonzero

\* Fewer zeros leave no inner zero.
LEMMA NoZeroNoInner ==
    ASSUME NEW g, \A i \in DOMAIN g : g[i] # 0
    PROVE  NoInnerZero(g)
  BY DEF NoInnerZero

\* What the encoder makes of a text that fits.
LEMMA NormalisedText ==
    ASSUME NEW text \in Texts
    PROVE  /\ Normalised(text) \in Texts
           /\ Normalised(text).integral = text.integral
           /\ Normalised(text).midnight24 = text.midnight24
           /\ Normalised(text).zone = text.zone /\ Normalised(text).offset = text.offset
           /\ Normalised(text).fraction = IF text.mark = "none" THEN text.fraction
                                          ELSE NormalisedFraction(text.fraction)
           /\ Normalised(text).mark = IF text.mark = "none" \/ Normalised(text).fraction = <<>>
                                      THEN "none" ELSE "."
<1>1. PICK integral \in Nat, midnight24 \in BOOLEAN, zone \in {"none", "Z", "+", "-"} :
          integral = text.integral /\ midnight24 = text.midnight24 /\ zone = text.zone
  BY TextFields
<1>2. PICK D : D = Seq(0..9)
  OBVIOUS
<1>3. PICK f \in D, offset \in D : f = text.fraction /\ offset = text.offset
  BY <1>2, TextFields
<1>4. PICK g \in D : g = NormalisedFraction(f)
  <2>1. PICK X : X = 0..9
    OBVIOUS
  <2>2. f \in Seq(X)
    BY <1>2, <1>3, <2>1
  <2>3. NormalisedFraction(f) \in Seq(X)
    BY <2>2, NormalisedFractionType
  <2> QED
    BY <1>2, <2>1, <2>3, Zenon
<1>5. PICK mark \in {"none", ".", ","} : mark = text.mark
  BY TextFields
<1>6. zone \in {"none", "Z"} => offset = <<>>
  BY <1>1, <1>3, TextFields
<1>7. mark = "none" => f = <<>>
  BY <1>3, <1>5, TextFields
<1>8. text = [integral |-> integral, midnight24 |-> midnight24, mark |-> mark,
              fraction |-> f, zone |-> zone, offset |-> offset]
  BY <1>1, <1>3, <1>5, TextFields, Zenon DEF Text
<1>9. CASE mark = "none"
  <2>1. Normalised(text) = text
    BY <1>5, <1>9, Zenon DEF Normalised
  <2> QED
    BY <1>5, <1>9, <2>1
<1>10. CASE mark # "none"
  <2>1. PICK m \in {"none", ".", ","} : m = IF g = <<>> THEN "none" ELSE "."
    OBVIOUS
  <2>2. PICK u : u = [integral |-> integral, midnight24 |-> midnight24, mark |-> m,
                      fraction |-> g, zone |-> zone, offset |-> offset]
    OBVIOUS
  <2>3. Normalised(text) = Text(integral, midnight24, m, g, zone, offset)
    BY <1>1, <1>3, <1>4, <1>5, <1>10, <2>1, Zenon DEF Normalised
  <2>4. Normalised(text) = u
    BY <2>2, <2>3, Zenon DEF Text
  <2>5. u \in [integral : Nat, midnight24 : BOOLEAN, mark : {"none", ".", ","},
               fraction : D, zone : {"none", "Z", "+", "-"}, offset : D]
    BY <2>2
  <2>6. /\ u.integral = integral /\ u.midnight24 = midnight24 /\ u.mark = m
        /\ u.fraction = g /\ u.zone = zone /\ u.offset = offset
    BY <2>2
  <2>7. /\ u.mark = "none" => u.fraction = <<>>
        /\ u.zone \in {"none", "Z"} => u.offset = <<>>
    BY <1>6, <2>1, <2>6
  <2>8. u \in Texts
    BY <1>2, <2>5, <2>7, Zenon DEF Texts
  <2> QED
    BY <1>1, <1>3, <1>4, <1>5, <1>10, <2>1, <2>4, <2>6, <2>8
<1> QED
  BY <1>9, <1>10

\* The text that the encoder writes for a fitting one.
IsNormal(u, type, text) ==
    /\ u \in Texts /\ u.integral = type.yearsDigits + 10 /\ ~ u.midnight24
    /\ u.zone = "Z" /\ u.offset = <<>>
    /\ u.mark = IF u.fraction = <<>> THEN "none" ELSE "."
    /\ u.mark # "none" => type.hasSubsecond /\ Last(u.fraction) # 0
    /\ Len(u.fraction) <= 3 /\ \A i \in DOMAIN u.fraction : u.fraction[i] # 0
    /\ Padded(u.fraction) = Padded(text.fraction)
    /\ text.mark = "none" => u.mark = "none"

\* A text that fits is normalised by dropping the zeros at its end.
LEMMA NormalOfFitting ==
    ASSUME NEW type \in TimeTypes, NEW text \in Texts, FitsTime(type, text)
    PROVE  IsNormal(Normalised(text), type, text)
<1>1. PICK X : X = 0..9
  OBVIOUS
<1>2. PICK f \in Seq(X) : f = text.fraction /\ Len(f) <= 3 /\ NoInnerZero(f)
  BY <1>1, TextFields DEF FitsTime
<1>3. PICK k \in Nat : ZerosFrom(f, k)
  BY <1>2, ZerosStandTogether
<1>4. PICK g : g = SubSeq(f, 1, k)
  OBVIOUS
<1>5. NormalisedFraction(f) = g
  BY <1>2, <1>3, <1>4, ZerosAreDropped
<1>6. PICK u \in Texts : u = Normalised(text)
  BY NormalisedText
<1>7. u.integral = type.yearsDigits + 10 /\ ~ u.midnight24 /\ u.zone = "Z"
  BY <1>6, NormalisedText DEF FitsTime
<1>8. u.offset = <<>>
  BY <1>7, TextFields
<1>9. u.fraction = g
  <2>1. CASE text.mark = "none"
    <3>1. u.fraction = f /\ f = <<>>
      BY <1>2, <1>6, <2>1, NormalisedText, TextFields
    <3>2. k = 0
      BY <1>3, <3>1 DEF ZerosFrom
    <3>3. g = <<>>
      BY <1>4, <3>2, SubSeqEmpty
    <3> QED
      BY <3>1, <3>3
  <2>2. CASE text.mark # "none"
    BY <1>2, <1>5, <1>6, <2>2, NormalisedText, Zenon
  <2> QED
    BY <2>1, <2>2
<1>10. /\ g \in Seq(X) /\ Len(g) = k /\ (g # <<>> => Last(g) # 0)
       /\ \A i \in 1..k : g[i] # 0
  <2>1. IsNonzero(g, X, k)
    BY <1>3, <1>4, LastOfPrefix
  <2> QED
    BY <2>1, Zenon DEF IsNonzero
<1>11. DOMAIN g = 1..k /\ k <= 3
  <2>1. DOMAIN g = 1..Len(g)
    BY <1>10, LenProperties
  <2>2. k \in 0..Len(f)
    BY <1>3 DEF ZerosFrom
  <2>3. PICK n \in Nat : n = Len(f)
    BY <1>2, LenProperties, Zenon
  <2> QED
    BY <1>2, <1>10, <2>1, <2>2, <2>3
<1>12. u.mark = IF g = <<>> THEN "none" ELSE "."
  <2>1. u.mark = IF text.mark = "none" \/ g = <<>> THEN "none" ELSE "."
    BY <1>6, <1>9, NormalisedText
  <2>2. text.mark = "none" => u.fraction = <<>>
    BY <1>6, NormalisedText, TextFields
  <2> QED
    BY <1>9, <2>1, <2>2
<1>13. u.mark # "none" => type.hasSubsecond
  <2>1. u.mark # "none" => text.mark # "none"
    BY <1>6, NormalisedText
  <2> QED
    BY <2>1 DEF FitsTime, Subsecond
<1>14. Padded(g) = Padded(f)
  <2>1. EndsInZeros(f, k)
    BY <1>3 DEF EndsInZeros, ZerosFrom
  <2>2. f \in Seq(0..9)
    BY <1>1, <1>2
  <2> QED
    BY <1>4, <2>1, <2>2, ZerosSayNothing
<1>15. text.mark = "none" => u.mark = "none"
  BY <1>6, NormalisedText
<1>16. u.mark # "none" => Last(g) # 0
  BY <1>10, <1>12
<1>17. IsNormal(u, type, text)
  BY <1>2, <1>7, <1>8, <1>9, <1>10, <1>11, <1>12, <1>13, <1>14, <1>15, <1>16, Zenon DEF IsNormal
<1> QED
  BY <1>6, <1>17

\* The instant of a text in UTC.
LEMMA InstantInUTC ==
    ASSUME NEW type \in TimeTypes, NEW t \in Texts, t.zone = "Z", t.midnight24 = FALSE,
           t.integral = type.yearsDigits + 10, ~ (t.mark # "none" /\ t.fraction = <<>>)
    PROVE  AsDateTime(type, t)
               = {Instant(type.yearsDigits + 10,
                          IF t.mark = "none" THEN 0 ELSE Microseconds(t.fraction), FALSE, 0)}
<1>1. t.zone # "+" /\ t.zone # "-" /\ (t.zone = "none") = FALSE /\ ~ (t.zone \in {"+", "-"})
  OBVIOUS
<1>2. FullIntegral(type, t) = type.yearsDigits + 10
  BY Zenon DEF FullIntegral
<1> QED
  BY <1>1, <1>2, Zenon DEF AsDateTime

\* A normalised text names the same instant.
LEMMA NormalMeansTheSame ==
    ASSUME NEW type \in TimeTypes, NEW text \in Texts, FitsTime(type, text),
           NEW u, IsNormal(u, type, text)
    PROVE  MomentAs(type, u) = MomentAs(type, text)
<1>1. text.mark \in {"none", ".", ","} /\ text.midnight24 \in BOOLEAN
  BY TextFields
<1>2. AsDateTime(type, text)
          = {Instant(type.yearsDigits + 10,
                     IF text.mark = "none" THEN 0 ELSE Microseconds(text.fraction), FALSE, 0)}
  <2>1. /\ text.zone = "Z" /\ text.midnight24 = FALSE /\ text.integral = type.yearsDigits + 10
        /\ ~ (text.mark # "none" /\ text.fraction = <<>>)
    BY <1>1 DEF FitsTime
  <2> QED
    BY <2>1, InstantInUTC
<1>3. AsDateTime(type, u)
          = {Instant(type.yearsDigits + 10,
                     IF u.mark = "none" THEN 0 ELSE Microseconds(u.fraction), FALSE, 0)}
  <2>1. u \in Texts
    BY DEF IsNormal
  <2>2. /\ u.zone = "Z" /\ u.midnight24 = FALSE /\ u.integral = type.yearsDigits + 10
        /\ ~ (u.mark # "none" /\ u.fraction = <<>>)
    BY <2>1, TextFields DEF IsNormal
  <2> QED
    BY <2>1, <2>2, InstantInUTC
<1>4. (IF u.mark = "none" THEN 0 ELSE Microseconds(u.fraction))
          = IF text.mark = "none" THEN 0 ELSE Microseconds(text.fraction)
  <2>1. Microseconds(u.fraction) = Microseconds(text.fraction)
    BY Zenon DEF IsNormal, Microseconds
  <2>2. text.mark = "none" => u.mark = "none"
    BY DEF IsNormal
  <2>3. u.mark = "none" => Microseconds(u.fraction) = 0
    <3>1. u.mark = "none" => u.fraction = <<>>
      BY DEF IsNormal
    <3> QED
      BY <3>1, NoMicroseconds
  <2> QED
    BY <2>1, <2>2, <2>3
<1>5. AsDateTime(type, u) = AsDateTime(type, text)
  BY <1>2, <1>3, <1>4, Zenon
<1>6. AsDateTime(type, text) # {}
  BY <1>2
<1> QED
  BY <1>5, <1>6, Zenon DEF MomentAs

\* It is one the CER and DER decoders accept.
LEMMA NormalIsCanonical ==
    ASSUME NEW type \in TimeTypes, NEW text \in Texts,
           NEW u, IsNormal(u, type, text)
    PROVE  ~ NotCanonical(type, u) /\ FitsTime(type, u)
<1>1. u \in Texts
  BY DEF IsNormal
<1>2. u.mark # "," /\ u.zone = "Z" /\ u.integral = type.yearsDigits + 10 /\ ~ u.midnight24
  BY DEF IsNormal
<1>3. u.mark = "." => type.hasSubsecond /\ u.fraction # <<>> /\ Last(u.fraction) # 0
  BY DEF IsNormal
<1>4. ~ NotCanonical(type, u)
  BY <1>2, <1>3, Zenon DEF NotCanonical
<1>5. NoInnerZero(u.fraction)
  BY NoZeroNoInner, Zenon DEF IsNormal
<1>6. Subsecond(type, u)
  BY DEF IsNormal, Subsecond
<1> QED
  BY <1>2, <1>3, <1>4, <1>5, <1>6 DEF FitsTime, IsNormal

\* And of a length that the encoder accepts.
LEMMA NormalFits ==
    ASSUME NEW type \in TimeTypes, NEW text \in Texts,
           NEW u, IsNormal(u, type, text)
    PROVE  TextLength(u) \in type.MIN_LENGTH + 1..type.MAX_LENGTH - 1
<1>1. PICK years \in {2, 4} : years = type.yearsDigits
  BY TypeFields
<1>2. PICK has \in BOOLEAN : has = type.hasSubsecond
  BY TypeFields
<1>3. /\ type.MIN_LENGTH = years + 8 /\ type.MAX_LENGTH = IF has THEN 20 ELSE 14
      /\ years = IF has THEN 4 ELSE 2
  BY <1>1, <1>2, TypeFields
<1>4. PICK n \in Nat : n = Len(u.fraction) /\ n <= 3 /\ (u.fraction = <<>> => n = 0)
  <2>1. u \in Texts
    BY DEF IsNormal
  <2>2. u.fraction \in Seq(0..9)
    BY <2>1, TextFields
  <2>3. Len(u.fraction) \in Nat /\ (u.fraction = <<>> => Len(u.fraction) = 0)
    BY <2>2, LenProperties
  <2> QED
    BY <2>3 DEF IsNormal
<1>5. PICK mark \in {0, 1} : mark = IF u.mark = "none" THEN 0 ELSE 1
  OBVIOUS
<1>6. mark = 0 => n = 0
  BY <1>4, <1>5 DEF IsNormal
<1>7. mark = 1 => has
  BY <1>2, <1>5 DEF IsNormal
<1>8. ZoneLength(u) = 1
  <2>1. u.zone # "none" /\ u.offset = <<>>
    BY DEF IsNormal
  <2>2. Len(<<>>) = 0 /\ 1 + 0 = 1
    OBVIOUS
  <2> QED
    BY <2>1, <2>2, Zenon DEF ZoneLength
<1>9. u.integral = years + 10
  BY <1>1 DEF IsNormal
<1>10. TextLength(u) = years + 10 + mark + n + 1
  BY <1>4, <1>5, <1>8, <1>9, Zenon DEF TextLength, MarkLength
<1>11. years + 10 + mark + n + 1 \in years + 8 + 1..(IF has THEN 20 ELSE 14) - 1
  <2>1. CASE has
    <3>1. years = 4 /\ (IF has THEN 20 ELSE 14) = 20
      BY <1>3, <2>1
    <3>2. 4 + 10 + mark + n + 1 \in 4 + 8 + 1..20 - 1
      <4>1. CASE mark = 0
        BY <1>4, <1>6, <4>1
      <4>2. CASE mark = 1
        BY <1>4, <4>2
      <4> QED
        BY <4>1, <4>2
    <3> QED
      BY <3>1, <3>2, Zenon
  <2>2. CASE ~ has
    <3>1. years = 2 /\ (IF has THEN 20 ELSE 14) = 14
      BY <1>3, <2>2
    <3>2. mark = 0 /\ n = 0
      BY <1>6, <1>7, <2>2
    <3>3. 2 + 10 + mark + n + 1 \in 2 + 8 + 1..14 - 1
      BY <3>2
    <3> QED
      BY <3>1, <3>3, Zenon
  <2> QED
    BY <2>1, <2>2
<1> QED
  BY <1>3, <1>10, <1>11

\* What fits is written, as a text of the same instant that can be read.
LEMMA FittingIsWritten ==
    ASSUME NEW type \in TimeTypes, NEW text \in Texts, FitsTime(type, text)
    PROVE  /\ EncodeTime(type, text) = {Normalised(text)}
           /\ ~ NotCanonical(type, Normalised(text))
           /\ MomentAs(type, Normalised(text)) = MomentAs(type, text)
           /\ FitsTime(type, Normalised(text))
<1>1. PICK u : u = Normalised(text)
  OBVIOUS
<1>2. IsNormal(u, type, text)
  BY <1>1, NormalOfFitting
<1>3. ~ NotCanonical(type, u) /\ FitsTime(type, u)
  BY <1>2, NormalIsCanonical
<1>4. MomentAs(type, u) = MomentAs(type, text)
  BY <1>2, NormalMeansTheSame
<1>5. TextLength(u) \in type.MIN_LENGTH + 1..type.MAX_LENGTH - 1
  BY <1>2, NormalFits
<1>6. ~ EncodingRefused(text)
  BY DEF EncodingRefused, FitsTime
<1>7. EncodeTime(type, text) = {u}
  BY <1>1, <1>3, <1>5, <1>6, Zenon DEF EncodeTime
<1> QED
  BY <1>1, <1>3, <1>4, <1>7

\* What CER and DER accept, but for two liberties, is what they write.
LEMMA CanonicalIsWritten ==
    ASSUME NEW type \in TimeTypes, NEW text \in Texts, ~ NotCanonical(type, text),
           NoInnerZero(text.fraction), ~ (Len(text.fraction) > 3)
    PROVE  EncodeTime(type, text) = {text}
<1>1. PICK X : X = 0..9
  OBVIOUS
<1>2. PICK f \in Seq(X) : f = text.fraction
  BY <1>1, TextFields
<1>3. PICK n \in Nat : n = Len(f) /\ n <= 3
  BY <1>2, LenProperties
<1>4. /\ text.zone = "Z" /\ text.mark # "," /\ text.integral = type.yearsDigits + 10
      /\ ~ text.midnight24
      /\ text.mark = "." => type.hasSubsecond /\ f # <<>> /\ Last(f) # 0
  BY <1>2, Zenon DEF NotCanonical
<1>5. text.mark \in {"none", ".", ","}
  BY TextFields
<1>6. FitsTime(type, text)
  BY <1>2, <1>3, <1>4, <1>5 DEF FitsTime, Subsecond
<1>7. Normalised(text) = text
  <2>1. CASE text.mark = "none"
    BY <2>1, Zenon DEF Normalised
  <2>2. CASE text.mark = "."
    <3>1. PICK k \in Nat : ZerosFrom(f, k)
      BY <1>2, <1>3, ZerosStandTogether
    <3>2. f[n] # 0 /\ n # 0
      BY <1>3, <1>4, <2>2, EmptySeq DEF Last
    <3>3. k = n
      BY <1>3, <3>1, <3>2 DEF ZerosFrom
    <3>4. SubSeq(f, 1, n) = f
      BY <1>3, SubSeqFull
    <3>5. NormalisedFraction(f) = f
      BY <1>3, <3>1, <3>3, <3>4, ZerosAreDropped
    <3>6. Normalised(text) = Text(text.integral, text.midnight24, ".", f, text.zone, text.offset)
      BY <1>2, <1>4, <2>2, <3>5 DEF Normalised
    <3>7. text = Text(text.integral, text.midnight24, text.mark, text.fraction,
                      text.zone, text.offset)
      BY TextFields
    <3> QED
      BY <1>2, <2>2, <3>6, <3>7
  <2> QED
    BY <1>4, <1>5, <2>1, <2>2
<1> QED
  BY <1>6, <1>7, FittingIsWritten

\* A fitting text still fits as a datetime writes it.
LEMMA RewrittenFits ==
    ASSUME NEW type \in TimeTypes, NEW text \in Texts, FitsTime(type, text),
           NEW dt, IsInstant(dt, type, text), NEW u, IsRewritten(u, type, dt), Subsecond(type, u)
    PROVE  FitsTime(type, u)
<1>1. PICK X : X = 0..9
  OBVIOUS
<1>2. PICK f \in Seq(X) : f = text.fraction /\ Len(f) <= 3 /\ NoInnerZero(f)
  BY <1>1, TextFields DEF FitsTime
<1>3. PICK g \in Seq(X) : /\ g = u.fraction
                          /\ g # <<>> => g = SignificantDigits(SixDigits(Microseconds(f)))
  <2>1. PICK micro : /\ micro = dt.microsecond
                     /\ micro = IF text.mark = "none" THEN 0 ELSE Microseconds(text.fraction)
    BY DEF IsInstant
  <2>2. Subsecond(type, text) /\ ~ (text.mark # "none" /\ text.fraction = <<>>)
    BY TextFields DEF FitsTime
  <2>3. /\ WrittenFraction(type, micro) \in Seq(0..9)
        /\ WrittenFraction(type, micro) # <<>> =>
              WrittenFraction(type, micro)
                  = SignificantDigits(SixDigits(Microseconds(text.fraction)))
    BY <2>1, <2>2, FractionIsKept, Zenon
  <2>4. u.fraction = WrittenFraction(type, micro)
    BY <2>1 DEF IsRewritten
  <2> QED
    BY <1>1, <1>2, <2>3, <2>4
<1>4. Len(g) <= 3 /\ \A i \in DOMAIN g : g[i] # 0
  <2>1. CASE g = <<>>
    BY <2>1
  <2>2. CASE g # <<>>
    <3>1. PICK p \in [1..6 -> 0..9] :
              /\ p = Padded(f) /\ p \in Seq(X) /\ Len(p) = 6
              /\ \A i \in 1..6 : p[i] = IF i <= Len(f) THEN f[i] ELSE 0
      BY <1>1, <1>2, PaddedType
    <3>2. PICK k \in 0..6 : Significant(p, k) /\ g = SubSeq(p, 1, k)
      BY <1>1, <1>2, <1>3, <2>2, <3>1, MicrosecondsAreKept
    <3>3. PICK z \in Nat : ZerosFrom(f, z)
      BY <1>2, ZerosStandTogether
    <3>4. PICK n \in Nat : n = Len(f) /\ n <= 3
      BY <1>2, LenProperties
    <3>5. z <= n /\ (\A i \in 1..z : f[i] # 0) /\ (\A i \in z + 1..n : f[i] = 0)
      BY <3>3, <3>4 DEF ZerosFrom
    <3>6. \A i \in 1..6 : p[i] = IF i <= n THEN f[i] ELSE 0
      BY <3>1, <3>4
    <3>7. k <= z
      <4>1. CASE k = 0
        BY <4>1
      <4>2. CASE k > 0
        <5>1. p[k] # 0 /\ k \in 1..6
          BY <3>2, <4>2 DEF Significant
        <5>2. k <= n /\ f[k] # 0
          BY <3>6, <5>1
        <5> QED
          BY <3>5, <5>1, <5>2
      <4> QED
        BY <4>1, <4>2
    <3>8. Len(g) = k /\ \A i \in 1..k : g[i] = p[i]
      BY <3>1, <3>2, PrefixType
    <3>9. \A i \in 1..k : g[i] # 0
      BY <3>4, <3>5, <3>6, <3>7, <3>8
    <3>10. DOMAIN g = 1..k
      BY <1>3, <3>8, LenProperties
    <3> QED
      BY <3>4, <3>5, <3>7, <3>8, <3>9, <3>10
  <2> QED
    BY <2>1, <2>2
<1>5. NoInnerZero(g)
  BY <1>4, NoZeroNoInner
<1>6. u.zone = "Z"
  <2>1. dt.minutes = 0
    BY DEF FitsTime, IsInstant
  <2> QED
    BY <2>1 DEF IsRewritten
<1>7. u.mark # "," /\ (u.mark = "." => u.fraction # <<>>) /\ ~ u.midnight24
      /\ u.integral = type.yearsDigits + 10
  BY DEF IsRewritten
<1> QED
  BY <1>3, <1>4, <1>5, <1>6, <1>7 DEF FitsTime

-----------------------------------------------------------------------------
(* A relay of times.                                                       *)

TimeNames == {"UTCTime", "GeneralizedTime"}

TimeJobs == [type : TimeNames, rules : Rules, option : Nat]

TypeNamed(name) == IF name = "UTCTime" THEN UTCTime ELSE GeneralizedTime

WrittenTime(j, v) == IF j.rules = "BER" THEN {v} ELSE EncodeTime(TypeNamed(j.type), v)

ReadTime(j, w) == DecodeTime(j.rules, TypeNamed(j.type), w)

FollowedTime ==
    /\ job \in TimeJobs
    /\ place \in {"value", "wire", "refused"}
    /\ value = {} \/ \E v \in Texts : value = {v}
    /\ wire = {} \/ \E w \in Texts : wire = {w}
    /\ place = "value" => value # {}
    /\ place = "wire" => wire # {}
    /\ place = "wire" => \A v \in value : wire = WrittenTime(job, v)
    /\ place = "value" => \A w \in wire : value = ReadTime(job, w)

\* The two types.
LEMMA TimesAreTimes ==
    ASSUME job \in TimeJobs
    PROVE  /\ IsTime /\ TimeType = TypeNamed(job.type) /\ TimeType \in TimeTypes
           /\ job.type \in Types /\ ~ (job.type \in Plain)
           /\ job.type \in TimeNames /\ job.rules \in Rules
<1>1. job.type \in TimeNames /\ job.rules \in Rules
  BY DEF TimeJobs
<1> QED
  BY <1>1 DEF IsTime, TimeType, TypeNamed, TimeTypes, TimeNames, Types, Plain

\* The encoder of a time is the one WrittenTime names.
LEMMA TimesEncoded ==
    ASSUME job \in TimeJobs, NEW v
    PROVE  Encoded(v) = WrittenTime(job, v)
<1>1. IsTime /\ TimeType = TypeNamed(job.type)
  BY TimesAreTimes
<1>2. /\ job.type # "INTEGER" /\ job.type # "BOOLEAN" /\ job.type # "NULL" /\ job.type # "OID"
      /\ job.type # "RELATIVE-OID" /\ job.type # "BIT STRING" /\ job.type # "OCTET STRING"
      /\ job.type # "REAL"
  BY TimesAreTimes DEF TimeNames
<1>3. CASE job.rules = "BER"
  <2>1. ~ Canonical
    BY <1>3 DEF Canonical
  <2>2. Encoded(v) = {v}
    BY <1>1, <1>2, <2>1, Zenon DEF Encoded
  <2> QED
    BY <1>3, <2>2 DEF WrittenTime
<1>4. CASE job.rules # "BER"
  <2>1. Canonical
    BY <1>4 DEF Canonical
  <2>2. Encoded(v) = EncodeTime(TimeType, v)
    BY <1>1, <1>2, <2>1, Zenon DEF Encoded
  <2> QED
    BY <1>1, <1>4, <2>2 DEF WrittenTime
<1> QED
  BY <1>3, <1>4

\* And the decoder.
LEMMA TimesDecoded ==
    ASSUME job \in TimeJobs, NEW w
    PROVE  Decoded(w) = ReadTime(job, w)
<1>1. IsTime /\ TimeType = TypeNamed(job.type)
  BY TimesAreTimes
<1>2. /\ job.type # "INTEGER" /\ job.type # "BOOLEAN" /\ job.type # "NULL" /\ job.type # "OID"
      /\ job.type # "RELATIVE-OID" /\ job.type # "BIT STRING" /\ job.type # "OCTET STRING"
      /\ job.type # "REAL"
  BY TimesAreTimes DEF TimeNames
<1>3. Decoded(w) = DecodeTime(job.rules, TimeType, w)
  BY <1>1, <1>2, Zenon DEF Decoded
<1> QED
  BY <1>1, <1>3, Zenon DEF ReadTime

\* What is written is a text.
LEMMA TextsAreWritten ==
    ASSUME NEW j, NEW v \in Texts
    PROVE  WrittenTime(j, v) = {} \/ \E u \in Texts : WrittenTime(j, v) = {u}
<1>1. PICK u \in Texts : u = Normalised(v)
  BY NormalisedText
<1>2. EncodeTime(TypeNamed(j.type), v) = {} \/ EncodeTime(TypeNamed(j.type), v) = {u}
  BY <1>1, Zenon DEF EncodeTime
<1> QED
  BY <1>1, <1>2, Zenon DEF WrittenTime

\* What is read is what came.
LEMMA TextsAreRead ==
    ASSUME NEW j, NEW w
    PROVE  ReadTime(j, w) = {} \/ ReadTime(j, w) = {w}
  BY Zenon DEF ReadTime, DecodeTime

\* The invariant holds at first.
LEMMA FollowedTimeInit ==
    ASSUME Init, job.type \in TimeNames
    PROVE  FollowedTime
<1>1. job \in TimeJobs
  <2>1. PICK type \in Types, rules \in Rules : \E option \in Options(type) :
            job = [type |-> type, rules |-> rules, option |-> option]
    BY DEF Init
  <2>2. PICK option \in Options(type) : job = [type |-> type, rules |-> rules, option |-> option]
    BY <2>1
  <2>3. type \in TimeNames
    BY <2>2
  <2>4. Options(type) = {0}
    BY <2>3 DEF Options, TimeNames
  <2>5. option \in Nat
    BY <2>2, <2>4
  <2> QED
    BY <2>2, <2>3, <2>5 DEF TimeJobs
<1>2. job.type \in Types
  BY <1>1, TimesAreTimes
<1>3. Objects(job.type) = Texts
  BY DEF Objects, TimeNames
<1>4. Substrates(job.type) = Texts
  BY DEF Substrates, TimeNames
<1>5. CASE /\ place = "value"
           /\ \E v \in Values(job.type) : value = {v}
           /\ wire = {}
  <2>1. PICK v \in Values(job.type) : value = {v}
    BY <1>5
  <2>2. v \in Texts
    BY <1>2, <1>3, ValuesAssumption
  <2> QED
    BY <1>1, <1>5, <2>1, <2>2, Zenon DEF FollowedTime
<1>6. CASE /\ place = "wire"
           /\ job.option = 0
           /\ value = {}
           /\ \E w \in Wires(job.type) : wire = {w}
  <2>1. PICK w \in Wires(job.type) : wire = {w}
    BY <1>6
  <2>2. w \in Texts
    BY <1>2, <1>4, WiresAssumption
  <2>3. place # "value"
    BY <1>6
  <2> QED
    BY <1>1, <1>6, <2>1, <2>2, <2>3, Zenon DEF FollowedTime
<1> QED
  BY <1>5, <1>6 DEF Init

\* Write keeps it.
LEMMA FollowedTimeWrite ==
    ASSUME FollowedTime, Write
    PROVE  FollowedTime'
<1>1. job \in TimeJobs /\ job' = job /\ value' = value /\ place = "value"
  BY DEF FollowedTime, Write
<1>2. PICK v \in Texts : value = {v}
  BY <1>1 DEF FollowedTime
<1>3. wire' = Encoded(v) /\ place' = IF wire' = {} THEN "refused" ELSE "wire"
  BY <1>2 DEF Write
<1>4. wire' = WrittenTime(job, v)
  BY <1>1, <1>3, TimesEncoded
<1>5. CASE wire' = {}
  <2>1. place' = "refused"
    BY <1>3, <1>5
  <2> QED
    BY <1>1, <1>2, <1>5, <2>1 DEF FollowedTime
<1>6. CASE wire' # {}
  <2>1. PICK u \in Texts : wire' = {u}
    BY <1>4, <1>6, TextsAreWritten
  <2>2. place' = "wire"
    BY <1>3, <1>6
  <2> QED
    BY <1>1, <1>2, <1>4, <2>1, <2>2 DEF FollowedTime
<1> QED
  BY <1>5, <1>6

\* Read keeps it.
LEMMA FollowedTimeRead ==
    ASSUME FollowedTime, Read
    PROVE  FollowedTime'
<1>1. job \in TimeJobs /\ job' = job /\ wire' = wire /\ place = "wire"
  BY DEF FollowedTime, Read
<1>2. PICK w \in Texts : wire = {w}
  BY <1>1 DEF FollowedTime
<1>3. Decoded(w) = ReadTime(job, w)
  BY <1>1, TimesDecoded
<1>4. IF ReadTime(job, w) = {} THEN place' = "refused" /\ value' = value
      ELSE place' = "value" /\ value' = ReadTime(job, w)
  BY <1>2, <1>3 DEF Read
<1>5. CASE ReadTime(job, w) = {}
  BY <1>1, <1>2, <1>4, <1>5 DEF FollowedTime
<1>6. CASE ReadTime(job, w) # {}
  <2>1. ReadTime(job, w) = {w}
    BY <1>6, TextsAreRead
  <2> QED
    BY <1>1, <1>2, <1>4, <1>6, <2>1 DEF FollowedTime
<1> QED
  BY <1>5, <1>6

\* What Convert does to the one text.
LEMMA ConvertedText ==
    ASSUME FollowedTime, Convert
    PROVE  \E v, dt : /\ v \in Texts /\ value = {v} /\ dt \in AsDateTime(TimeType, v)
                      /\ value' = {FromDateTime(TimeType, dt)}
                      /\ wire' = {} /\ job' = job /\ place' = place /\ place = "value"
<1>1. place = "value" /\ value # {}
  BY DEF FollowedTime, Convert
<1>2. PICK v \in Texts : value = {v}
  BY <1>1 DEF FollowedTime
<1>3. PICK dt \in AsDateTime(TimeType, v) : value' = {FromDateTime(TimeType, dt)}
  BY <1>2 DEF Convert
<1> QED
  BY <1>1, <1>2, <1>3 DEF Convert

\* So does every step: Convert leaves nothing on the wire to agree with.
LEMMA FollowedTimeNext ==
    ASSUME FollowedTime, [Next]_vars
    PROVE  FollowedTime'
<1>1. CASE Write
  BY <1>1, FollowedTimeWrite
<1>2. CASE Read
  BY <1>2, FollowedTimeRead
<1>3. CASE Convert
  <2>1. PICK v, dt : /\ v \in Texts /\ value = {v} /\ dt \in AsDateTime(TimeType, v)
                     /\ value' = {FromDateTime(TimeType, dt)}
                     /\ wire' = {} /\ job' = job /\ place' = place /\ place = "value"
    BY <1>3, ConvertedText
  <2>2. job \in TimeJobs
    BY DEF FollowedTime
  <2>3. TimeType \in TimeTypes
    BY <2>2, TimesAreTimes
  <2>4. IsInstant(dt, TimeType, v)
    BY <2>1, <2>3, InstantOfText
  <2>5. PICK u \in Texts : u = FromDateTime(TimeType, dt)
    BY <2>1, <2>3, <2>4, TextOfInstant DEF IsRewritten
  <2> QED
    BY <2>1, <2>2, <2>5 DEF FollowedTime
<1>4. CASE UNCHANGED vars
  BY <1>4 DEF vars, FollowedTime
<1> QED
  BY <1>1, <1>2, <1>3, <1>4 DEF Next

(***************************************************************************)
(* The codecs and conversions of the times: what is on the wire was written*)
(* of the text that is held, or the text was read from it.                 *)
(***************************************************************************)
THEOREM TimesAreFollowed == Spec /\ job.type \in TimeNames => []FollowedTime
<1>1. Init /\ job.type \in TimeNames => FollowedTime
  BY FollowedTimeInit
<1>2. FollowedTime /\ [Next]_vars => FollowedTime'
  BY FollowedTimeNext
<1> QED
  BY <1>1, <1>2, PTL DEF Spec

\* Of one text, what Meaning and Fits say.
LEMMA MeaningOfText ==
    ASSUME job \in TimeJobs, NEW v
    PROVE  /\ Moment(v) = MomentAs(TimeType, v)
           /\ SubsecondFits(v) <=> Subsecond(TimeType, v)
           /\ TimeFits(v) <=> FitsTime(TimeType, v)
           /\ Fits(v) <=> IF job.rules = "BER" THEN Subsecond(TimeType, v)
                          ELSE FitsTime(TimeType, v)
<1>1. Moment(v) = MomentAs(TimeType, v)
  BY Zenon DEF Moment, MomentAs
<1>2. SubsecondFits(v) <=> Subsecond(TimeType, v)
  BY DEF SubsecondFits, Subsecond
<1>3. InnerZero(v) <=> ~ NoInnerZero(v.fraction)
  BY Zenon DEF InnerZero, NoInnerZero
<1>4. TimeFits(v) <=> FitsTime(TimeType, v)
  BY <1>2, <1>3, Zenon DEF TimeFits, FitsTime
<1>5. IsTime /\ job.type # "OID" /\ job.type # "RELATIVE-OID"
  BY TimesAreTimes DEF TimeNames
<1>6. CASE job.rules = "BER"
  <2>1. ~ Canonical
    BY <1>6 DEF Canonical
  <2>2. Fits(v) <=> SubsecondFits(v)
    BY <1>5, <2>1, Zenon DEF Fits
  <2> QED
    BY <1>1, <1>2, <1>4, <1>6, <2>2
<1>7. CASE job.rules # "BER"
  <2>1. Canonical
    BY <1>7 DEF Canonical
  <2>2. Fits(v) <=> TimeFits(v)
    BY <1>5, <2>1, Zenon DEF Fits
  <2> QED
    BY <1>1, <1>2, <1>4, <1>7, <2>2
<1> QED
  BY <1>6, <1>7

-----------------------------------------------------------------------------
(* The channel they implement, and the instants they keep.                 *)

MeaningAs(j, held) == UNION {MomentAs(TypeNamed(j.type), v) : v \in held}

FitsText(j, v) ==
    IF j.rules = "BER" THEN Subsecond(TypeNamed(j.type), v) ELSE FitsTime(TypeNamed(j.type), v)

TimeContentAs(j, held) ==
    IF held = {} THEN {}
    ELSE {[fits |-> \A v \in held : FitsText(j, v), meaning |-> MeaningAs(j, held)]}

\* The meaning of one text.
LEMMA MeaningOfOne == \A j, v : MeaningAs(j, {v}) = MomentAs(TypeNamed(j.type), v)
  BY DEF MeaningAs

\* Meaning, of the job and the value alone.
LEMMA MeaningIsFollowed ==
    ASSUME FollowedTime
    PROVE  Meaning = MeaningAs(job, value)
<1>1. job \in TimeJobs
  BY DEF FollowedTime
<1>2. IsTime /\ job.type # "REAL" /\ TimeType = TypeNamed(job.type)
  BY <1>1, TimesAreTimes DEF TimeNames
<1>3. Meaning = UNION {Moment(v) : v \in value}
  BY <1>2, Zenon DEF Meaning
<1>4. \A v : Moment(v) = MomentAs(TypeNamed(job.type), v)
  BY <1>1, <1>2, MeaningOfText
<1> QED
  BY <1>3, <1>4, Zenon DEF MeaningAs

\* The channel's content, of the job and the value alone.
LEMMA TimeContentIsFollowed ==
    ASSUME FollowedTime
    PROVE  Content = TimeContentAs(job, value)
<1>1. job \in TimeJobs
  BY DEF FollowedTime
<1>2. TimeType = TypeNamed(job.type)
  BY <1>1, TimesAreTimes
<1>3. \A v : Fits(v) <=> FitsText(job, v)
  <2> TAKE v
  <2>1. Fits(v) <=> IF job.rules = "BER" THEN Subsecond(TimeType, v) ELSE FitsTime(TimeType, v)
    BY <1>1, MeaningOfText
  <2> QED
    BY <1>2, <2>1, Zenon DEF FitsText
<1>4. PICK fits : fits = (\A v \in value : Fits(v))
  OBVIOUS
<1>5. fits = (\A v \in value : FitsText(job, v))
  BY <1>3, <1>4, Zenon
<1>6. Meaning = MeaningAs(job, value)
  BY MeaningIsFollowed
<1>7. CASE value = {}
  BY <1>7, Zenon DEF Content, TimeContentAs
<1>8. CASE value # {}
  <2>1. Content = {[fits |-> fits, meaning |-> Meaning]}
    BY <1>4, <1>8, Zenon DEF Content
  <2>2. TimeContentAs(job, value) = {[fits |-> fits, meaning |-> MeaningAs(job, value)]}
    BY <1>5, <1>8, Zenon DEF TimeContentAs
  <2> QED
    BY <1>6, <2>1, <2>2, Zenon
<1> QED
  BY <1>7, <1>8

\* The content of one text.
LEMMA ContentOfText ==
    ASSUME NEW j, NEW v
    PROVE  /\ TimeContentAs(j, {v}) # {}
           /\ (\A c \in TimeContentAs(j, {v}) : c.fits) <=> FitsText(j, v)
<1>1. PICK fits : fits = (\A u \in {v} : FitsText(j, u))
  OBVIOUS
<1>2. fits <=> FitsText(j, v)
  BY <1>1, Zenon
<1>3. PICK meaning : meaning = MeaningAs(j, {v})
  OBVIOUS
<1>4. TimeContentAs(j, {v}) = {[fits |-> fits, meaning |-> meaning]}
  BY <1>1, <1>3, Zenon DEF TimeContentAs
<1>5. [fits |-> fits, meaning |-> meaning].fits = fits
  OBVIOUS
<1> QED
  BY <1>2, <1>4, <1>5, Zenon

\* Two texts that fit and name one instant have one content.
LEMMA SameContent ==
    ASSUME NEW j, NEW v, NEW u, FitsText(j, v), FitsText(j, u),
           MomentAs(TypeNamed(j.type), u) = MomentAs(TypeNamed(j.type), v)
    PROVE  TimeContentAs(j, {u}) = TimeContentAs(j, {v})
<1>1. MeaningAs(j, {u}) = MeaningAs(j, {v})
  BY MeaningOfOne
<1>2. (\A w \in {u} : FitsText(j, w)) = TRUE /\ (\A w \in {v} : FitsText(j, w)) = TRUE
  BY Zenon
<1>3. {u} # {} /\ {v} # {}
  OBVIOUS
<1> QED
  BY <1>1, <1>2, <1>3, Zenon DEF TimeContentAs

TimeCarriedNow == TimeContentAs(job, value) # {} /\ \A c \in TimeContentAs(job, value) : c.fits

\* The channel promises to carry the content if the text fits.
LEMMA CarriedTextFits ==
    ASSUME FollowedTime
    PROVE  /\ TimeCarriedNow => value # {}
           /\ \A v : value = {v} => (TimeCarriedNow <=> FitsText(job, v))
<1>1. TimeCarriedNow => value # {}
  BY DEF TimeCarriedNow, TimeContentAs
<1>2. ASSUME NEW v, value = {v}
      PROVE  TimeCarriedNow <=> FitsText(job, v)
  BY <1>2, ContentOfText, Zenon DEF TimeCarriedNow
<1> QED
  BY <1>1, <1>2

\* A step of the encoder writes the content, or refuses what is not promised.
LEMMA TimeWriteIsCarried ==
    ASSUME FollowedTime, Write
    PROVE  \/ /\ place = "value" /\ place' = "wire"
              /\ TimeContentAs(job, value)' # {}
              /\ TimeContentAs(job, value)' = TimeContentAs(job, value)
           \/ /\ ~ TimeCarriedNow /\ place' = "refused"
              /\ TimeContentAs(job, value)' = TimeContentAs(job, value)
<1>1. job \in TimeJobs /\ job' = job /\ value' = value /\ place = "value"
  BY DEF FollowedTime, Write
<1>2. PICK v \in Texts : value = {v}
  BY <1>1 DEF FollowedTime
<1>3. wire' = Encoded(v) /\ place' = IF wire' = {} THEN "refused" ELSE "wire"
  BY <1>2 DEF Write
<1>4. wire' = WrittenTime(job, v)
  BY <1>1, <1>3, TimesEncoded
<1>5. TimeContentAs(job, value)' = TimeContentAs(job, value)
  BY <1>1
<1>6. TimeContentAs(job, value) # {}
  BY <1>2, ContentOfText
<1>7. CASE wire' = {}
  <2>1. ~ FitsText(job, v)
    <3>1. job.rules # "BER"
      BY <1>4, <1>7 DEF WrittenTime
    <3>2. TypeNamed(job.type) \in TimeTypes
      BY <1>1, TimesAreTimes
    <3>3. FitsText(job, v) => FitsTime(TypeNamed(job.type), v)
      BY <3>1 DEF FitsText
    <3>4. FitsTime(TypeNamed(job.type), v) => WrittenTime(job, v) # {}
      BY <3>1, <3>2, FittingIsWritten DEF WrittenTime
    <3> QED
      BY <1>4, <1>7, <3>3, <3>4
  <2>2. ~ TimeCarriedNow
    BY <1>2, <2>1, CarriedTextFits
  <2> QED
    BY <1>3, <1>5, <1>7, <2>2
<1>8. CASE wire' # {}
  BY <1>1, <1>3, <1>5, <1>6, <1>8
<1> QED
  BY <1>7, <1>8

\* A step of the decoder reads it, or refuses what is not promised.
LEMMA TimeReadIsCarried ==
    ASSUME FollowedTime, Read
    PROVE  \/ /\ place = "wire" /\ place' = "value"
              /\ TimeContentAs(job, value)' # {}
              /\ TimeCarriedNow => TimeContentAs(job, value)' = TimeContentAs(job, value)
           \/ /\ ~ TimeCarriedNow /\ place' = "refused"
              /\ TimeContentAs(job, value)' = TimeContentAs(job, value)
<1>1. job \in TimeJobs /\ job' = job /\ wire' = wire /\ place = "wire"
  BY DEF FollowedTime, Read
<1>2. PICK w \in Texts : wire = {w}
  BY <1>1 DEF FollowedTime
<1>3. Decoded(w) = ReadTime(job, w)
  BY <1>1, TimesDecoded
<1>4. IF ReadTime(job, w) = {} THEN place' = "refused" /\ value' = value
      ELSE place' = "value" /\ value' = ReadTime(job, w)
  BY <1>2, <1>3 DEF Read
<1>t. TypeNamed(job.type) \in TimeTypes
  BY <1>1, TimesAreTimes
<1>5. ASSUME TimeCarriedNow
      PROVE  /\ ReadTime(job, w) = {w}
             /\ TimeContentAs(job, {w}) = TimeContentAs(job, value)
  <2>1. value # {}
    BY <1>5, CarriedTextFits
  <2>2. PICK v \in Texts : value = {v}
    BY <2>1 DEF FollowedTime
  <2>3. FitsText(job, v)
    BY <1>5, <2>2, CarriedTextFits
  <2>4. {w} = WrittenTime(job, v)
    BY <1>1, <1>2, <2>2, Zenon DEF FollowedTime
  <2>5. CASE job.rules = "BER"
    <3>1. w = v
      BY <2>4, <2>5 DEF WrittenTime
    <3>2. ReadTime(job, w) = {w}
      BY <2>5, Zenon DEF ReadTime, DecodeTime
    <3> QED
      BY <2>2, <3>1, <3>2
  <2>6. CASE job.rules # "BER"
    <3>1. FitsTime(TypeNamed(job.type), v)
      BY <2>3, <2>6 DEF FitsText
    <3>2. /\ WrittenTime(job, v) = {Normalised(v)}
          /\ ~ NotCanonical(TypeNamed(job.type), Normalised(v))
          /\ MomentAs(TypeNamed(job.type), Normalised(v)) = MomentAs(TypeNamed(job.type), v)
          /\ FitsTime(TypeNamed(job.type), Normalised(v))
      BY <1>t, <2>6, <3>1, FittingIsWritten DEF WrittenTime
    <3>3. w = Normalised(v)
      BY <2>4, <3>2
    <3>4. ReadTime(job, w) = {w}
      BY <3>2, <3>3, Zenon DEF ReadTime, DecodeTime
    <3>5. FitsText(job, w)
      BY <2>6, <3>2, <3>3 DEF FitsText
    <3>6. TimeContentAs(job, {w}) = TimeContentAs(job, {v})
      BY <2>3, <3>2, <3>3, <3>5, SameContent
    <3> QED
      BY <2>2, <3>4, <3>6
  <2> QED
    BY <2>5, <2>6
<1>6. CASE ReadTime(job, w) = {}
  <2>1. ~ TimeCarriedNow
    BY <1>5, <1>6
  <2>2. TimeContentAs(job, value)' = TimeContentAs(job, value)
    BY <1>1, <1>4, <1>6
  <2> QED
    BY <1>4, <1>6, <2>1, <2>2
<1>7. CASE ReadTime(job, w) # {}
  <2>1. ReadTime(job, w) = {w}
    BY <1>7, TextsAreRead
  <2>2. value' = {w} /\ place' = "value"
    BY <1>4, <1>7, <2>1
  <2>3. TimeContentAs(job, value)' = TimeContentAs(job, {w})
    BY <1>1, <2>2
  <2>4. TimeContentAs(job, {w}) # {}
    BY ContentOfText
  <2> QED
    BY <1>1, <1>5, <2>2, <2>3, <2>4, Zenon
<1> QED
  BY <1>6, <1>7

\* A text that is converted names the same instant and still fits.
LEMMA ConvertKeepsMoment ==
    ASSUME FollowedTime, Convert
    PROVE  \E v, u : /\ value = {v} /\ value' = {u} /\ job' = job
                     /\ place = "value" /\ place' = "value"
                     /\ SubsecondFits(v) =>
                           MomentAs(TypeNamed(job.type), u) = MomentAs(TypeNamed(job.type), v)
                     /\ FitsText(job, v) => FitsText(job, u) /\ SubsecondFits(v)
<1>1. PICK v, dt : /\ v \in Texts /\ value = {v} /\ dt \in AsDateTime(TimeType, v)
                   /\ value' = {FromDateTime(TimeType, dt)}
                   /\ wire' = {} /\ job' = job /\ place' = place /\ place = "value"
  BY ConvertedText
<1>2. job \in TimeJobs
  BY DEF FollowedTime
<1>3. TimeType \in TimeTypes /\ TimeType = TypeNamed(job.type)
  BY <1>2, TimesAreTimes
<1>4. PICK u : u = FromDateTime(TimeType, dt)
  OBVIOUS
<1>5. SubsecondFits(v) <=> Subsecond(TimeType, v)
  BY <1>2, MeaningOfText
<1>6. SubsecondFits(v) =>
         /\ MomentAs(TimeType, u) = MomentAs(TimeType, v)
         /\ Subsecond(TimeType, u) /\ IsInstant(dt, TimeType, v) /\ IsRewritten(u, TimeType, dt)
  BY <1>1, <1>3, <1>4, <1>5, MomentIsKept
<1>7. FitsText(job, v) => FitsText(job, u) /\ SubsecondFits(v)
  <2>1. CASE job.rules = "BER"
    BY <1>3, <1>5, <1>6, <2>1 DEF FitsText
  <2>2. CASE job.rules # "BER"
    <3> SUFFICES ASSUME FitsText(job, v) PROVE FitsText(job, u) /\ SubsecondFits(v)
      OBVIOUS
    <3>1. FitsTime(TimeType, v)
      BY <1>3, <2>2 DEF FitsText
    <3>2. SubsecondFits(v)
      BY <1>5, <3>1 DEF FitsTime
    <3>3. FitsTime(TimeType, u)
      BY <1>1, <1>3, <1>6, <3>1, <3>2, RewrittenFits
    <3> QED
      BY <1>3, <2>2, <3>2, <3>3 DEF FitsText
  <2> QED
    BY <2>1, <2>2
<1> QED
  BY <1>1, <1>3, <1>4, <1>6, <1>7

\* So a conversion keeps what is promised.
LEMMA TimeConvertIsCarried ==
    ASSUME FollowedTime, Convert
    PROVE  /\ place = "value" /\ place' = "value"
           /\ TimeContentAs(job, value)' # {}
           /\ TimeCarriedNow => TimeContentAs(job, value)' = TimeContentAs(job, value)
<1>1. PICK v, u : /\ value = {v} /\ value' = {u} /\ job' = job
                  /\ place = "value" /\ place' = "value"
                  /\ SubsecondFits(v) =>
                        MomentAs(TypeNamed(job.type), u) = MomentAs(TypeNamed(job.type), v)
                  /\ FitsText(job, v) => FitsText(job, u) /\ SubsecondFits(v)
  BY ConvertKeepsMoment
<1>2. TimeContentAs(job, value)' = TimeContentAs(job, {u})
  BY <1>1
<1>3. TimeContentAs(job, {u}) # {}
  BY ContentOfText
<1>4. TimeCarriedNow => TimeContentAs(job, {u}) = TimeContentAs(job, {v})
  <2> SUFFICES ASSUME TimeCarriedNow PROVE TimeContentAs(job, {u}) = TimeContentAs(job, {v})
    OBVIOUS
  <2>1. FitsText(job, v)
    BY <1>1, CarriedTextFits
  <2> QED
    BY <1>1, <2>1, SameContent
<1> QED
  BY <1>1, <1>2, <1>3, <1>4, Zenon

\* Every step is one of the channel, or leaves it as it is.
LEMMA TimeContentsNext ==
    ASSUME FollowedTime, [Next]_vars,
           Content = TimeContentAs(job, value), Content' = TimeContentAs(job, value)'
    PROVE  [Contents!Next]_<<place, Content>>
<1>c. Contents!Carried <=> TimeCarriedNow
  BY DEF Contents!Carried, TimeCarriedNow, Content
<1>1. CASE Write
  <2>1. \/ /\ place = "value" /\ place' = "wire" /\ Content' # {} /\ Content' = Content
        \/ ~ TimeCarriedNow /\ place' = "refused" /\ Content' = Content
    BY <1>1, TimeWriteIsCarried
  <2> QED
    BY <1>c, <2>1 DEF Contents!Next, Contents!Write, Contents!Refuse, Content
<1>2. CASE Read
  <2>1. \/ /\ place = "wire" /\ place' = "value" /\ Content' # {}
           /\ TimeCarriedNow => Content' = Content
        \/ ~ TimeCarriedNow /\ place' = "refused" /\ Content' = Content
    BY <1>2, TimeReadIsCarried
  <2> QED
    BY <1>c, <2>1 DEF Contents!Next, Contents!Read, Contents!Refuse, Content
<1>3. CASE Convert
  <2>1. /\ place = "value" /\ place' = "value" /\ Content' # {}
        /\ TimeCarriedNow => Content' = Content
    BY <1>3, TimeConvertIsCarried
  <2> QED
    BY <1>c, <2>1 DEF Contents!Next, Contents!Convert, Content
<1>4. CASE UNCHANGED vars
  <2>1. job' = job /\ value' = value /\ place' = place
    BY <1>4 DEF vars
  <2>2. Content' = Content
    BY <2>1
  <2> QED
    BY <2>1, <2>2
<1> QED
  BY <1>1, <1>2, <1>3, <1>4 DEF Next

(***************************************************************************)
(* The codecs of the times and asDateTime and fromDateTime implement the   *)
(* channel: a text that fits is written, read and converted as one that names*)
(* the same instant.                                                       *)
(***************************************************************************)
THEOREM TimeContentsAreCarried == Spec /\ job.type \in TimeNames => ContentsAreCarried
<1>1. Init /\ job.type \in TimeNames => Contents!Init
  BY FollowedTimeInit, TimeContentIsFollowed DEF Contents!Init, Content, Init
<1>2. FollowedTime => Content = TimeContentAs(job, value)
  BY TimeContentIsFollowed
<1>3. /\ FollowedTime /\ [Next]_vars /\ Content = TimeContentAs(job, value)
      /\ (Content = TimeContentAs(job, value))'
      => [Contents!Next]_<<place, Content>>
  BY TimeContentsNext
<1> QED
  BY <1>1, <1>2, <1>3, TimesAreFollowed, PTL DEF Spec, ContentsAreCarried, Contents!Spec, Content

\* A step keeps the instant that the text names.
LEMMA ConvertKeepsMeaning ==
    ASSUME FollowedTime, Meaning = MeaningAs(job, value), Meaning' = MeaningAs(job, value)',
           Convert, \A v \in value : SubsecondFits(v)
    PROVE  Meaning' = Meaning
<1>1. PICK v, u : /\ value = {v} /\ value' = {u} /\ job' = job
                  /\ place = "value" /\ place' = "value"
                  /\ SubsecondFits(v) =>
                        MomentAs(TypeNamed(job.type), u) = MomentAs(TypeNamed(job.type), v)
                  /\ FitsText(job, v) => FitsText(job, u) /\ SubsecondFits(v)
  BY ConvertKeepsMoment
<1>2. MomentAs(TypeNamed(job.type), u) = MomentAs(TypeNamed(job.type), v)
  BY <1>1
<1>3. Meaning' = MeaningAs(job, {u}) /\ Meaning = MeaningAs(job, {v})
  BY <1>1
<1> QED
  BY <1>2, <1>3, MeaningOfOne

(***************************************************************************)
(* fromDateTime(asDateTime) of any text that its type provides for names the*)
(* instant that the text names.                                            *)
(***************************************************************************)
THEOREM MomentsStay == Spec => MomentsAreKept
<1>1. FollowedTime => Meaning = MeaningAs(job, value)
  BY MeaningIsFollowed
<1>2. /\ FollowedTime /\ Meaning = MeaningAs(job, value)
      /\ (Meaning = MeaningAs(job, value))'
      => [Convert /\ (\A v \in value : SubsecondFits(v)) => Meaning' = Meaning]_vars
  BY ConvertKeepsMeaning, Zenon
<1>3. ~ (job.type \in TimeNames) =>
         [Convert /\ (\A v \in value : SubsecondFits(v)) => Meaning' = Meaning]_vars
  BY DEF Convert, IsTime, TimeNames
<1>4. ~ (job.type \in TimeNames) /\ [Next]_vars => (~ (job.type \in TimeNames))'
  BY JobStays
<1> QED
  BY <1>1, <1>2, <1>3, <1>4, TimesAreFollowed, PTL DEF Spec, MomentsAreKept

-----------------------------------------------------------------------------
(* One spelling of each time; all types but REAL.                          *)

\* A time that is relayed under CER or DER leaves as it came.
LEMMA TimeRelayedAsItCame ==
    ASSUME FollowedTime, Write, Canonical \/ job.type \in {"OID", "RELATIVE-OID"},
           NEW w \in wire, ~ Liberties(w)
    PROVE  wire' = wire
<1>1. job \in TimeJobs /\ place = "value"
  BY DEF FollowedTime, Write
<1>2. wire = {w} /\ w \in Texts /\ value = ReadTime(job, w)
  BY <1>1 DEF FollowedTime
<1>3. value = {w}
  BY <1>1, <1>2, TextsAreRead DEF FollowedTime
<1>4. wire' = WrittenTime(job, w)
  BY <1>1, <1>3, TimesEncoded DEF Write
<1>5. IsTime /\ TypeNamed(job.type) \in TimeTypes
  BY <1>1, TimesAreTimes
<1>6. NoInnerZero(w.fraction) /\ ~ (Len(w.fraction) > 3)
  BY <1>5, Zenon DEF Liberties, InnerZero, NoInnerZero
<1>7. job.rules # "BER"
  <2>1. ~ (job.type \in {"OID", "RELATIVE-OID"})
    BY <1>1 DEF TimeJobs, TimeNames
  <2> QED
    BY <2>1 DEF Canonical
<1>8. ~ NotCanonical(TypeNamed(job.type), w)
  <2>1. DecodeTime(job.rules, TypeNamed(job.type), w) = {w}
    BY <1>2, <1>3 DEF ReadTime
  <2> QED
    BY <1>7, <2>1 DEF DecodeTime
<1>9. EncodeTime(TypeNamed(job.type), w) = {w}
  BY <1>2, <1>5, <1>6, <1>8, CanonicalIsWritten
<1> QED
  BY <1>2, <1>4, <1>7, <1>9 DEF WrittenTime

(***************************************************************************)
(* A time that the decoders of CER and DER accept is written back as it came,*)
(* but for inner zeros and more than three digits of a fraction.           *)
(***************************************************************************)
THEOREM TimeOneSpelling == Spec /\ job.type \in TimeNames => OneSpelling
<1>1. FollowedTime => [/\ Write
                       /\ Canonical \/ job.type \in {"OID", "RELATIVE-OID"}
                       /\ \E w \in wire : ~ Liberties(w)
                       => wire' = wire]_vars
  BY TimeRelayedAsItCame, Zenon
<1> QED
  BY <1>1, TimesAreFollowed, PTL DEF Spec, OneSpelling

\* All types but REAL.
LEMMA PlainOrTime ==
    ASSUME Init, ~ (job.type = "REAL")
    PROVE  job.type \in Plain \/ job.type \in TimeNames
<1>1. PICK type \in Types, rules \in Rules : \E option \in Options(type) :
          job = [type |-> type, rules |-> rules, option |-> option]
  BY DEF Init
<1>2. job.type = type
  BY <1>1
<1> QED
  BY <1>2 DEF Types, Plain, TimeNames

(***************************************************************************)
(* The codecs of all the simple types but REAL implement the channel.      *)
(***************************************************************************)
THEOREM AllButRealAreCarried == Spec /\ ~ (job.type = "REAL") => ContentsAreCarried
  BY PlainOrTime, PlainContentsAreCarried, TimeContentsAreCarried, PTL DEF Spec

(***************************************************************************)
(* The decoders of all the simple types but REAL accept one spelling of each*)
(* value under CER and DER, but for the named liberties.                   *)
(***************************************************************************)
THEOREM AllButRealOneSpelling == Spec /\ ~ (job.type = "REAL") => OneSpelling
  BY PlainOrTime, PlainOneSpelling, TimeOneSpelling, PTL DEF Spec
=============================================================================
