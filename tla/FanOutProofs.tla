---------------------------- MODULE FanOutProofs ----------------------------
(***************************************************************************)
(* Every schedule of FanOut is fair, for every number of exits, every      *)
(* budget and every rate.                                                  *)
(***************************************************************************)
EXTENDS FanOut, FiniteSetTheorems, TLAPS

(***************************************************************************)
(* Induction, over sets of cases.                                          *)
(***************************************************************************)

\* What holds of a set whenever it holds of its strict subsets.
LEMMA ByStrictSubsets ==
  ASSUME NEW S, IsFiniteSet(S), NEW P,
         \A s \in SUBSET S : (\A u \in (SUBSET s) \ {s} : u \in P) => s \in P
  PROVE  \A s \in SUBSET S : s \in P
<1> DEFINE Bad == {s \in SUBSET S : s \notin P}
<1> SUFFICES ASSUME Bad # {} PROVE FALSE
  OBVIOUS
<1>1. Bad \subseteq FiniteSubsetsOf(S)
  BY FS_FiniteSubsetsOfFinite
<1>2. PICK s \in Bad : \A u \in Bad : <<u, s>> \notin StrictSubsetOrdering(S)
  <2> HIDE DEF Bad
  <2> QED
    BY <1>1, FS_StrictSubsetOrderingWellFounded, WFMin
<1>3. ASSUME NEW u \in (SUBSET s) \ {s}
      PROVE  u \in P
  <2>1. u \in SUBSET S /\ s \in SUBSET S /\ u \subseteq s /\ u # s
    OBVIOUS
  <2>2. <<u, s>> \in StrictSubsetOrdering(S)
    BY <2>1 DEF StrictSubsetOrdering
  <2> QED
    BY <1>2, <2>1, <2>2
<1> QED
  BY <1>3

\* What holds of the empty set and is kept when an element is added.
LEMMA ByElements ==
  ASSUME NEW S, IsFiniteSet(S), NEW P, {} \in P,
         \A s \in SUBSET S : \A x \in S \ s : s \in P => s \cup {x} \in P
  PROVE  S \in P
<1>1. ASSUME NEW s \in SUBSET S, \A u \in (SUBSET s) \ {s} : u \in P
      PROVE  s \in P
  <2>1. CASE s = {}
    BY <2>1
  <2>2. CASE s # {}
    <3>1. PICK x \in s : TRUE
      BY <2>2
    <3>2. s \ {x} \in (SUBSET s) \ {s} /\ s \ {x} \in SUBSET S /\ x \in S \ (s \ {x})
          /\ (s \ {x}) \cup {x} = s
      BY <3>1
    <3> QED
      BY <1>1, <3>2
  <2> QED
    BY <2>1, <2>2
<1> QED
  BY <1>1, ByStrictSubsets

\* What holds of 0 and is kept from each number to the next.
LEMMA BySteps ==
  ASSUME NEW n \in Nat, NEW P, 0 \in P, \A i \in 0 .. n - 1 : i \in P => i + 1 \in P
  PROVE  \A i \in 0 .. n : i \in P
<1> DEFINE Q == {s \in SUBSET (0 .. n) : \A i \in 0 .. n : s = 0 .. i => i \in P}
<1>1. IsFiniteSet(0 .. n)
  BY FS_Interval
<1>2. ASSUME NEW s \in SUBSET (0 .. n), \A u \in (SUBSET s) \ {s} : u \in Q
      PROVE  s \in Q
  <2> SUFFICES ASSUME NEW i \in 0 .. n, s = 0 .. i
               PROVE  i \in P
    OBVIOUS
  <2>1. CASE i = 0
    BY <2>1
  <2>2. CASE i # 0
    <3>1. i - 1 \in 0 .. n - 1 /\ i - 1 \in 0 .. n /\ (i - 1) + 1 = i
      BY <2>2
    <3>2. 0 .. i - 1 \in (SUBSET s) \ {s}
      <4>1. i \in s /\ i \notin 0 .. i - 1 /\ 0 .. i - 1 \subseteq s
        BY <3>1
      <4> QED
        BY <4>1
    <3>3. i - 1 \in P
      BY <1>2, <3>1, <3>2
    <3> QED
      BY <3>1, <3>3
  <2> QED
    BY <2>1, <2>2
<1>3. \A s \in SUBSET (0 .. n) : s \in Q
  <2> HIDE DEF Q
  <2> QED
    BY <1>1, <1>2, ByStrictSubsets
<1>4. ASSUME NEW i \in 0 .. n
      PROVE  i \in P
  <2>1. 0 .. i \in SUBSET (0 .. n)
    OBVIOUS
  <2> QED
    BY <1>3, <2>1
<1> QED
  BY <1>4


(***************************************************************************)
(* Powers.                                                                 *)
(***************************************************************************)
PowersOf(base, p, n) == p = [i \in 0 .. n |-> IF i = 0 THEN 1 ELSE base * p[i - 1]]

\* The recursive function that Power chooses exists ...
LEMMA PowersExist ==
  ASSUME NEW base \in Nat, NEW n \in Nat
  PROVE  \E p : PowersOf(base, p, n)
<1> DEFINE P == {m \in 0 .. n : \E p : PowersOf(base, p, m)}
<1>1. 0 \in P
  <2>1. PowersOf(base, [i \in 0 .. 0 |-> 1], 0)
    BY DEF PowersOf
  <2> QED
    BY <2>1
<1>2. ASSUME NEW m \in 0 .. n - 1, m \in P
      PROVE  m + 1 \in P
  <2>1. PICK p : PowersOf(base, p, m)
    BY <1>2
  <2> DEFINE q == [i \in 0 .. m + 1 |-> IF i = 0 THEN 1 ELSE base * p[i - 1]]
  <2>2. m \in Nat /\ m + 1 \in 0 .. n
    OBVIOUS
  <2>3. ASSUME NEW i \in 0 .. m
        PROVE  q[i] = p[i]
    BY <2>1, <2>2 DEF PowersOf
  <2>4. q = [i \in 0 .. m + 1 |-> IF i = 0 THEN 1 ELSE base * q[i - 1]]
    <3>1. ASSUME NEW i \in 0 .. m + 1
          PROVE  (IF i = 0 THEN 1 ELSE base * p[i - 1]) = IF i = 0 THEN 1 ELSE base * q[i - 1]
      <4>1. i # 0 => i - 1 \in 0 .. m
        BY <2>2
      <4> HIDE DEF q
      <4> QED
        BY <2>3, <4>1
    <3> QED
      BY <3>1
  <2>5. PowersOf(base, q, m + 1)
    <3> HIDE DEF q
    <3> QED
      BY <2>4 DEF PowersOf
  <2> QED
    BY <2>2, <2>5
<1>3. n \in P
  <2>1. n \in 0 .. n
    OBVIOUS
  <2> HIDE DEF P
  <2> QED
    BY <1>1, <1>2, <2>1, BySteps
<1> QED
  BY <1>3

\* ... and any two agree where both are defined.
LEMMA PowersAgree ==
  ASSUME NEW base, NEW m \in Nat, NEW n \in Nat, NEW p, PowersOf(base, p, m),
         NEW q, PowersOf(base, q, n), NEW k \in Nat, k <= m, k <= n
  PROVE  p[k] = q[k]
<1> DEFINE P == {i \in 0 .. k : p[i] = q[i]}
<1>1. 0 \in P
  BY DEF PowersOf
<1>2. ASSUME NEW i \in 0 .. k - 1, i \in P
      PROVE  i + 1 \in P
  <2>1. i + 1 \in 0 .. k /\ i + 1 \in 0 .. m /\ i + 1 \in 0 .. n /\ i + 1 # 0 /\ (i + 1) - 1 = i
    OBVIOUS
  <2>2. p[i + 1] = base * p[i] /\ q[i + 1] = base * q[i]
    BY <2>1 DEF PowersOf
  <2> QED
    BY <1>2, <2>1, <2>2
<1>3. k \in P
  <2>1. k \in 0 .. k
    OBVIOUS
  <2> HIDE DEF P
  <2> QED
    BY <1>1, <1>2, <2>1, BySteps
<1> QED
  BY <1>3

LEMMA PowerOfPowers ==
  ASSUME NEW base \in Nat, NEW n \in Nat
  PROVE  \E p : PowersOf(base, p, n) /\ Power(base, n) = p[n]
<1> DEFINE p == CHOOSE p : PowersOf(base, p, n)
<1>1. PowersOf(base, p, n)
  BY PowersExist
<1>2. Power(base, n) = p[n]
  BY DEF Power, PowersOf
<1> QED
  BY <1>1, <1>2

LEMMA PowerSteps ==
  ASSUME NEW base \in Nat
  PROVE  /\ Power(base, 0) = 1
         /\ \A n \in Nat : Power(base, n + 1) = base * Power(base, n)
<1>1. Power(base, 0) = 1
  <2>1. PICK p : PowersOf(base, p, 0) /\ Power(base, 0) = p[0]
    BY PowerOfPowers
  <2> QED
    BY <2>1 DEF PowersOf
<1>2. ASSUME NEW n \in Nat
      PROVE  Power(base, n + 1) = base * Power(base, n)
  <2>1. n + 1 \in Nat /\ n + 1 \in 0 .. n + 1 /\ n + 1 # 0 /\ (n + 1) - 1 = n /\ n <= n + 1 /\ n <= n
    OBVIOUS
  <2>2. PICK p : PowersOf(base, p, n) /\ Power(base, n) = p[n]
    BY PowerOfPowers
  <2>3. PICK q : PowersOf(base, q, n + 1) /\ Power(base, n + 1) = q[n + 1]
    BY <2>1, PowerOfPowers
  <2>4. p[n] = q[n]
    BY <2>1, <2>2, <2>3, PowersAgree
  <2>5. q[n + 1] = base * q[n]
    BY <2>1, <2>3 DEF PowersOf
  <2> QED
    BY <2>2, <2>3, <2>4, <2>5
<1> QED
  BY <1>1, <1>2

LEMMA ProductIsNat ==
  ASSUME NEW a \in Nat, NEW b \in Nat
  PROVE  a * b \in Nat /\ (a > 0 /\ b > 0 => a * b > 0)
OBVIOUS

\* A power of a natural number is one, and is positive if the number is.
LEMMA PowerIsNat ==
  ASSUME NEW base \in Nat, NEW n \in Nat
  PROVE  Power(base, n) \in Nat /\ (base > 0 => Power(base, n) > 0)
<1> DEFINE P == {i \in 0 .. n : Power(base, i) \in Nat /\ (base > 0 => Power(base, i) > 0)}
<1>1. 0 \in P
  BY PowerSteps
<1>2. ASSUME NEW i \in 0 .. n - 1, i \in P
      PROVE  i + 1 \in P
  <2>1. i \in Nat /\ i + 1 \in 0 .. n
    OBVIOUS
  <2>2. Power(base, i + 1) = base * Power(base, i)
    BY <2>1, PowerSteps
  <2>3. Power(base, i) \in Nat /\ (base > 0 => Power(base, i) > 0)
    BY <1>2
  <2>4. base * Power(base, i) \in Nat /\ (base > 0 => base * Power(base, i) > 0)
    BY <2>3, ProductIsNat
  <2> QED
    BY <2>1, <2>2, <2>4
<1>3. n \in P
  <2>1. n \in 0 .. n
    OBVIOUS
  <2> HIDE DEF P
  <2> QED
    BY <1>1, <1>2, <2>1, BySteps
<1> QED
  BY <1>3

(***************************************************************************)
(* Sums over finite sets.                                                  *)
(***************************************************************************)
Sum(f, S) == MapThenSumSet(LAMBDA k : f[k], S)

Some(s) == CHOOSE x \in s : TRUE
SumsOf(f, S, g) ==
  g = [s \in SUBSET S |-> IF s = {} THEN 0 ELSE f[Some(s)] + g[s \ {Some(s)}]]

LEMMA SomeIsMember ==
  ASSUME NEW s, s # {}
  PROVE  Some(s) \in s
BY DEF Some

\* Sets without one of their elements are smaller.
LEMMA WithoutOne ==
  ASSUME NEW S, IsFiniteSet(S), NEW s \in SUBSET S, NEW x \in s
  PROVE  /\ s \ {x} \in SUBSET S /\ IsFiniteSet(s) /\ IsFiniteSet(s \ {x})
         /\ Cardinality(s) \in Nat /\ Cardinality(s \ {x}) \in Nat
         /\ Cardinality(s \ {x}) = Cardinality(s) - 1 /\ Cardinality(s) <= Cardinality(S)
<1>1. IsFiniteSet(s) /\ Cardinality(s) <= Cardinality(S)
  BY FS_Subset
<1>2. IsFiniteSet(s \ {x}) /\ Cardinality(s \ {x}) = Cardinality(s) - 1
  BY <1>1, FS_RemoveElement
<1> QED
  BY <1>1, <1>2, FS_CardinalityType

\* The recursive function that a sum chooses exists, whatever it sums.
LEMMA SumsExist ==
  ASSUME NEW S, IsFiniteSet(S), NEW f
  PROVE  \E g : SumsOf(f, S, g)
<1> DEFINE N           == Cardinality(S)
           Next_(g, s) == IF s = {} THEN 0 ELSE f[Some(s)] + g[s \ {Some(s)}]
           Good(g, n)  == \A s \in SUBSET S : Cardinality(s) <= n => g[s] = Next_(g, s)
           P           == {n \in 0 .. N : \E g : Good(g, n)}
<1>1. N \in Nat
  BY FS_CardinalityType
<1>2. 0 \in P
  <2>1. ASSUME NEW s \in SUBSET S, Cardinality(s) <= 0
        PROVE  s = {}
    <3>1. IsFiniteSet(s) /\ Cardinality(s) \in Nat
      BY FS_Subset, FS_CardinalityType
    <3> QED
      BY <2>1, <3>1, FS_EmptySet
  <2>2. Good([s \in SUBSET S |-> 0], 0)
    BY <2>1
  <2> QED
    BY <1>1, <2>2
<1>3. ASSUME NEW n \in 0 .. N - 1, n \in P
      PROVE  n + 1 \in P
  <2>1. PICK g : Good(g, n)
    BY <1>3
  <2> DEFINE h == [s \in SUBSET S |-> Next_(g, s)]
  <2>2. ASSUME NEW s \in SUBSET S, Cardinality(s) <= n
        PROVE  h[s] = g[s]
    BY <2>1, <2>2
  <2>3. ASSUME NEW s \in SUBSET S, Cardinality(s) <= n + 1
        PROVE  h[s] = Next_(h, s)
    <3>1. CASE s = {}
      BY <3>1
    <3>2. CASE s # {}
      <4>1. Some(s) \in s
        BY <3>2, SomeIsMember
      <4>2. s \ {Some(s)} \in SUBSET S /\ Cardinality(s \ {Some(s)}) <= n
        <5> DEFINE u == s \ {Some(s)}
        <5>1. u \in SUBSET S /\ Cardinality(u) \in Nat /\ Cardinality(s) \in Nat
              /\ Cardinality(u) = Cardinality(s) - 1
          BY <4>1, WithoutOne
        <5> HIDE DEF u
        <5>2. Cardinality(u) <= n
          BY <1>1, <2>3, <5>1
        <5> QED
          BY <5>1, <5>2 DEF u
      <4>3. h[s \ {Some(s)}] = g[s \ {Some(s)}]
        BY <2>2, <4>2
      <4>4. h[s] = f[Some(s)] + g[s \ {Some(s)}]
        BY <3>2
      <4> HIDE DEF h
      <4> QED
        BY <3>2, <4>3, <4>4
    <3> QED
      BY <3>1, <3>2
  <2>4. n + 1 \in 0 .. N
    BY <1>1
  <2>5. Good(h, n + 1)
    <3> HIDE DEF h, Next_
    <3> QED
      BY <2>3
  <2> HIDE DEF Good, N
  <2> QED
    BY <2>4, <2>5
<1>4. N \in P
  <2>1. N \in 0 .. N
    BY <1>1
  <2> HIDE DEF P, N
  <2> QED
    BY <1>1, <1>2, <1>3, <2>1, BySteps
<1>5. PICK g : Good(g, N)
  BY <1>4
<1> DEFINE h == [s \in SUBSET S |-> g[s]]
<1>6. ASSUME NEW s \in SUBSET S
      PROVE  h[s] = Next_(h, s)
  <2>1. Cardinality(s) <= N
    BY FS_Subset
  <2>2. g[s] = Next_(g, s)
    BY <1>5, <2>1
  <2>3. h[s] = g[s] /\ h[s \ {Some(s)}] = g[s \ {Some(s)}]
    OBVIOUS
  <2> HIDE DEF h
  <2> QED
    BY <2>2, <2>3
<1>7. h = [s \in SUBSET S |-> h[s]]
  OBVIOUS
<1>8. h = [s \in SUBSET S |-> Next_(h, s)]
  <2> HIDE DEF h, Next_
  <2> QED
    BY <1>6, <1>7
<1>9. SumsOf(f, S, h)
  <2> HIDE DEF h
  <2> QED
    BY <1>8 DEF SumsOf
<1> QED
  BY <1>9

\* The sums of a set's subsets do not depend on the set.
LEMMA SumsAgree ==
  ASSUME NEW S, IsFiniteSet(S), NEW T, NEW f, NEW g, SumsOf(f, S, g), NEW h, SumsOf(f, T, h)
  PROVE  \A s \in SUBSET S : s \in SUBSET T => g[s] = h[s]
<1> DEFINE P == {s \in SUBSET S : s \in SUBSET T => g[s] = h[s]}
<1>1. ASSUME NEW s \in SUBSET S, \A u \in (SUBSET s) \ {s} : u \in P
      PROVE  s \in P
  <2> SUFFICES ASSUME s \in SUBSET T
               PROVE  g[s] = h[s]
    OBVIOUS
  <2>1. CASE s = {}
    BY <2>1 DEF SumsOf
  <2>2. CASE s # {}
    <3>1. Some(s) \in s
      BY <2>2, SomeIsMember
    <3>2. s \ {Some(s)} \in (SUBSET s) \ {s} /\ s \ {Some(s)} \in SUBSET T
      BY <3>1
    <3>3. g[s \ {Some(s)}] = h[s \ {Some(s)}]
      BY <1>1, <3>2
    <3>4. /\ g[s] = f[Some(s)] + g[s \ {Some(s)}]
          /\ h[s] = f[Some(s)] + h[s \ {Some(s)}]
      BY <2>2 DEF SumsOf
    <3> QED
      BY <3>3, <3>4
  <2> QED
    BY <2>1, <2>2
<1>2. \A s \in SUBSET S : s \in P
  <2> HIDE DEF P
  <2> QED
    BY <1>1, ByStrictSubsets
<1> QED
  BY <1>2

LEMMA SumOfSums ==
  ASSUME NEW S, IsFiniteSet(S), NEW f
  PROVE  \E g : SumsOf(f, S, g) /\ Sum(f, S) = g[S]
<1> DEFINE g == CHOOSE g : SumsOf(f, S, g)
<1>1. SumsOf(f, S, g)
  BY SumsExist
<1>2. Sum(f, S) = g[S]
  BY DEF Sum, MapThenSumSet, MapThenFoldSet, SumsOf, Some
<1> QED
  BY <1>1, <1>2

LEMMA IntegerSum ==
  ASSUME NEW a \in Int, NEW b \in Int, NEW c \in Int
  PROVE  a + b \in Int /\ a + (b + c) = b + (a + c)
OBVIOUS

\* A sum is an integer, and any element can be taken out of it.
Splits(f, S, g) ==
  \A s \in SUBSET S : g[s] \in Int /\ \A x \in s : g[s] = f[x] + g[s \ {x}]

IntegersOn(f, S) == \A x \in S : f[x] \in Int

LEMMA SumsSplit ==
  ASSUME NEW S, IsFiniteSet(S), NEW f, IntegersOn(f, S), NEW g, SumsOf(f, S, g)
  PROVE  Splits(f, S, g)
<1> DEFINE P == {s \in SUBSET S : g[s] \in Int /\ \A x \in s : g[s] = f[x] + g[s \ {x}]}
<1>1. ASSUME NEW s \in SUBSET S, \A u \in (SUBSET s) \ {s} : u \in P
      PROVE  s \in P
  <2>1. CASE s = {}
    BY <2>1 DEF SumsOf
  <2>2. CASE s # {}
    <3> DEFINE y == Some(s)
    <3>1. y \in s
      BY <2>2, SomeIsMember
    <3>2. g[s] = f[y] + g[s \ {y}]
      BY <2>2 DEF SumsOf
    <3> HIDE DEF y
    <3>3. \A x \in s : s \ {x} \in (SUBSET s) \ {s}
      OBVIOUS
    <3>4. f[y] \in Int /\ g[s \ {y}] \in Int
      BY <1>1, <3>1, <3>3 DEF IntegersOn
    <3>5. ASSUME NEW x \in s
          PROVE  g[s] = f[x] + g[s \ {x}]
      <4>1. CASE x = y
        BY <3>2, <4>1
      <4>2. CASE x # y
        <5> DEFINE u == (s \ {x}) \ {y}
        <5>1. u = (s \ {y}) \ {x} /\ x \in s \ {y} /\ y \in s \ {x} /\ u \in (SUBSET s) \ {s}
          BY <3>1, <4>2
        <5>2. g[s \ {y}] = f[x] + g[u]
          BY <1>1, <3>1, <3>3, <5>1
        <5>3. g[s \ {x}] = f[y] + g[u]
          BY <1>1, <3>3, <5>1
        <5>4. f[x] \in Int /\ g[u] \in Int
          BY <1>1, <5>1 DEF IntegersOn
        <5> HIDE DEF u
        <5>5. f[y] + (f[x] + g[u]) = f[x] + (f[y] + g[u])
          BY <3>4, <5>4, IntegerSum
        <5> QED
          BY <3>2, <5>2, <5>3, <5>5
      <4> QED
        BY <4>1, <4>2
    <3> QED
      BY <3>2, <3>4, <3>5, IntegerSum
  <2> QED
    BY <2>1, <2>2
<1>2. \A s \in SUBSET S : s \in P
  <2> HIDE DEF P
  <2> QED
    BY <1>1, ByStrictSubsets
<1> QED
  BY <1>2 DEF Splits

LEMMA SumOfNone ==
  ASSUME NEW f
  PROVE  Sum(f, {}) = 0
<1>1. IsFiniteSet({}) /\ {} \in SUBSET {}
  BY FS_EmptySet
<1>2. PICK g : SumsOf(f, {}, g) /\ Sum(f, {}) = g[{}]
  BY <1>1, SumOfSums
<1> QED
  BY <1>2 DEF SumsOf

LEMMA SumOfMore ==
  ASSUME NEW S, IsFiniteSet(S), NEW f, IntegersOn(f, S),
         NEW s \in SUBSET S, NEW x \in S \ s
  PROVE  Sum(f, s) \in Int /\ Sum(f, s \cup {x}) = f[x] + Sum(f, s)
<1> DEFINE t == s \cup {x}
<1>1. t \in SUBSET S /\ s \in SUBSET t /\ s \in SUBSET s /\ t \in SUBSET t /\ x \in t /\ t \ {x} = s
  OBVIOUS
<1>2. IsFiniteSet(t) /\ IsFiniteSet(s)
  BY <1>1, FS_Subset
<1> HIDE DEF t
<1>3. PICK g : SumsOf(f, t, g) /\ Sum(f, t) = g[t]
  BY <1>2, SumOfSums
<1>4. PICK h : SumsOf(f, s, h) /\ Sum(f, s) = h[s]
  BY <1>2, SumOfSums
<1>5. h[s] = g[s]
  BY <1>1, <1>2, <1>3, <1>4, SumsAgree
<1>6. IntegersOn(f, t)
  BY <1>1 DEF IntegersOn
<1>7. Splits(f, t, g)
  BY <1>2, <1>3, <1>6, SumsSplit
<1>8. g[s] \in Int /\ g[t] = f[x] + g[s]
  BY <1>1, <1>7 DEF Splits
<1> QED
  BY <1>3, <1>4, <1>5, <1>8 DEF t

LEMMA SumIsInt ==
  ASSUME NEW S, IsFiniteSet(S), NEW f, IntegersOn(f, S)
  PROVE  Sum(f, S) \in Int
<1>1. S \in SUBSET S
  OBVIOUS
<1>2. PICK g : SumsOf(f, S, g) /\ Sum(f, S) = g[S]
  BY SumOfSums
<1>3. Splits(f, S, g)
  BY <1>2, SumsSplit
<1> QED
  BY <1>1, <1>2, <1>3 DEF Splits

Weights(K, rate) == [k \in 0 .. K |-> Weight(K, rate, k)]

\* The total of the model is the sum of its weights.
LEMMA TotalIsSum ==
  ASSUME NEW K \in Nat, NEW rate
  PROVE  Total(K, rate) = Sum(Weights(K, rate), 0 .. K)
<1> DEFINE S    == 0 .. K
           w    == Weights(K, rate)
           W(g) == g = [s \in SUBSET S |-> IF s = {} THEN 0
                                           ELSE Weight(K, rate, Some(s)) + g[s \ {Some(s)}]]
           g    == CHOOSE g : W(g)
<1>1. IsFiniteSet(S)
  BY FS_Interval
<1>2. Total(K, rate) = g[S]
  BY DEF Total, MapThenSumSet, MapThenFoldSet, Some
<1>3. ASSUME NEW h
      PROVE  W(h) <=> SumsOf(w, S, h)
  <2>1. ASSUME NEW s \in SUBSET S, s # {}
        PROVE  w[Some(s)] = Weight(K, rate, Some(s))
    <3>1. Some(s) \in S
      BY <2>1, SomeIsMember
    <3> QED
      BY <3>1 DEF Weights
  <2> DEFINE A(s) == IF s = {} THEN 0 ELSE Weight(K, rate, Some(s)) + h[s \ {Some(s)}]
             B(s) == IF s = {} THEN 0 ELSE w[Some(s)] + h[s \ {Some(s)}]
  <2>2. \A s \in SUBSET S : A(s) = B(s)
    <3> HIDE DEF w, S
    <3> QED
      BY <2>1
  <2>3. [s \in SUBSET S |-> A(s)] = [s \in SUBSET S |-> B(s)]
    <3> HIDE DEF A, B, S
    <3> QED
      BY <2>2
  <2> HIDE DEF w, S
  <2> QED
    BY <2>3 DEF SumsOf
<1> HIDE DEF W, w, S
<1>4. PICK h : SumsOf(w, S, h) /\ Sum(w, S) = h[S]
  BY <1>1, SumOfSums
<1>5. W(g)
  BY <1>3, <1>4
<1> HIDE DEF g
<1>6. S \in SUBSET S
  OBVIOUS
<1>7. g[S] = h[S]
  BY <1>1, <1>3, <1>4, <1>5, <1>6, SumsAgree
<1> QED
  BY <1>2, <1>4, <1>7 DEF w, S

\* Sums are linear.
LEMMA Distribution ==
  ASSUME NEW a \in Int, NEW b \in Int, NEW x \in Int, NEW y \in Int, NEW X \in Int, NEW Y \in Int
  PROVE  (a * x + b * y) + (a * X + b * Y) = a * (x + X) + b * (y + Y)
OBVIOUS

Combines(h, f, g, a, b, S) == \A x \in S : h[x] = a * f[x] + b * g[x]

\* A sum of combinations is the combination of the sums.
LEMMA SumIsLinear ==
  ASSUME NEW S, IsFiniteSet(S), NEW f, IntegersOn(f, S), NEW g, IntegersOn(g, S),
         NEW a \in Int, NEW b \in Int, NEW h, Combines(h, f, g, a, b, S)
  PROVE  Sum(h, S) = a * Sum(f, S) + b * Sum(g, S)
<1> DEFINE P == {s \in SUBSET S : Sum(h, s) = a * Sum(f, s) + b * Sum(g, s)}
<1>1. {} \in P
  <2>1. Sum(h, {}) = 0 /\ Sum(f, {}) = 0 /\ Sum(g, {}) = 0
    BY SumOfNone
  <2> QED
    BY <2>1
<1>2. IntegersOn(h, S)
  BY DEF IntegersOn, Combines
<1>3. ASSUME NEW s \in SUBSET S, NEW x \in S \ s, s \in P
      PROVE  s \cup {x} \in P
  <2> DEFINE t == s \cup {x}
  <2>1. Sum(h, s) \in Int /\ Sum(h, t) = h[x] + Sum(h, s)
    BY <1>2, SumOfMore
  <2>2. Sum(f, s) \in Int /\ Sum(f, t) = f[x] + Sum(f, s)
    BY SumOfMore
  <2>3. Sum(g, s) \in Int /\ Sum(g, t) = g[x] + Sum(g, s)
    BY SumOfMore
  <2>4. h[x] = a * f[x] + b * g[x] /\ f[x] \in Int /\ g[x] \in Int
        /\ Sum(h, s) = a * Sum(f, s) + b * Sum(g, s) /\ t \in SUBSET S
    BY <1>3 DEF IntegersOn, Combines
  <2> HIDE DEF t
  <2>5. Sum(h, t) = a * (f[x] + Sum(f, s)) + b * (g[x] + Sum(g, s))
    BY <2>1, <2>2, <2>3, <2>4, Distribution
  <2> QED
    BY <2>2, <2>3, <2>4, <2>5 DEF t
<1>4. S \in P
  <2> HIDE DEF P
  <2> QED
    BY <1>1, <1>3, ByElements
<1> QED
  BY <1>4

\* A sum grows by as much as all the places in A together.
GrowsAt(g, f, A, c, S) == \A x \in S : g[x] = f[x] + IF x \in A THEN c ELSE 0

\* Adding c at the places of A adds c for each of them.
LEMMA SumCounts ==
  ASSUME NEW S, IsFiniteSet(S), NEW f, IntegersOn(f, S), NEW A, NEW c \in Int,
         NEW g, GrowsAt(g, f, A, c, S)
  PROVE  Sum(g, S) = Sum(f, S) + c * Cardinality(S \cap A)
<1> DEFINE P == {s \in SUBSET S : Sum(g, s) = Sum(f, s) + c * Cardinality(s \cap A)}
<1>1. {} \in P
  <2>1. Sum(g, {}) = 0 /\ Sum(f, {}) = 0 /\ Cardinality({}) = 0 /\ {} \cap A = {}
    BY SumOfNone, FS_EmptySet
  <2> QED
    BY <2>1
<1>2. IntegersOn(g, S)
  BY DEF IntegersOn, GrowsAt
<1>3. ASSUME NEW s \in SUBSET S, NEW x \in S \ s, s \in P
      PROVE  s \cup {x} \in P
  <2> DEFINE t == s \cup {x}
             n == Cardinality(s \cap A)
             m == Cardinality(t \cap A)
  <2>1. Sum(g, s) \in Int /\ Sum(g, t) = g[x] + Sum(g, s)
    BY <1>2, SumOfMore
  <2>2. Sum(f, s) \in Int /\ Sum(f, t) = f[x] + Sum(f, s)
    BY SumOfMore
  <2>3. n \in Nat /\ m = IF x \in A THEN n + 1 ELSE n
    <3>1. IsFiniteSet(s)
      BY FS_Subset
    <3>2. IsFiniteSet(s \cap A) /\ x \notin s \cap A
      BY <3>1, FS_Intersection
    <3>3. t \cap A = IF x \in A THEN (s \cap A) \cup {x} ELSE s \cap A
      OBVIOUS
    <3>4. Cardinality((s \cap A) \cup {x}) = n + 1 /\ n \in Nat
      BY <3>2, FS_AddElement, FS_CardinalityType
    <3> QED
      BY <3>3, <3>4
  <2>4. f[x] \in Int /\ g[x] = f[x] + (IF x \in A THEN c ELSE 0)
        /\ Sum(g, s) = Sum(f, s) + c * n /\ t \in SUBSET S
    BY <1>3 DEF IntegersOn, GrowsAt
  <2> HIDE DEF t, n, m
  <2>5. Sum(g, t) = Sum(f, t) + c * m
    <3>1. CASE x \in A
      <4>1. c * m = c * n + c /\ c * n \in Int
        BY <2>3, <3>1
      <4> HIDE DEF n
      <4> QED
        BY <2>1, <2>2, <2>4, <3>1, <4>1
    <3>2. CASE x \notin A
      <4>1. c * n \in Int /\ m = n
        BY <2>3, <3>2
      <4> QED
        BY <2>1, <2>2, <2>4, <3>2, <4>1
    <3> QED
      BY <3>1, <3>2
  <2> QED
    BY <2>4, <2>5 DEF t, m
<1>4. S \in P
  <2> HIDE DEF P
  <2> QED
    BY <1>1, <1>3, ByElements
<1> QED
  BY <1>4

\* A sum of terms, none of which is above half of t and none of which is above
\* zero outside A.
AtMost(r, t, A, S) == \A x \in S : (x \in A => 2 * r[x] <= t) /\ (x \notin A => r[x] <= 0)

\* Of places with at most t/2 in A and at most 0 elsewhere, the sum is at most half of t for
\* each place in A.
LEMMA SumIsBounded ==
  ASSUME NEW S, IsFiniteSet(S), NEW r, IntegersOn(r, S), NEW t \in Nat, NEW A, AtMost(r, t, A, S)
  PROVE  2 * Sum(r, S) <= t * Cardinality(S \cap A)
<1> DEFINE P == {s \in SUBSET S : 2 * Sum(r, s) <= t * Cardinality(s \cap A)}
<1>1. {} \in P
  <2>1. Sum(r, {}) = 0 /\ Cardinality({}) = 0 /\ {} \cap A = {} /\ t * 0 = 0
    BY SumOfNone, FS_EmptySet
  <2> QED
    BY <2>1
<1>2. ASSUME NEW s \in SUBSET S, NEW x \in S \ s, s \in P
      PROVE  s \cup {x} \in P
  <2> DEFINE u == s \cup {x}
             n == Cardinality(s \cap A)
             m == Cardinality(u \cap A)
  <2>1. Sum(r, s) \in Int /\ Sum(r, u) = r[x] + Sum(r, s)
    BY SumOfMore
  <2>2. n \in Nat /\ m = IF x \in A THEN n + 1 ELSE n
    <3>1. IsFiniteSet(s)
      BY FS_Subset
    <3>2. IsFiniteSet(s \cap A) /\ x \notin s \cap A
      BY <3>1, FS_Intersection
    <3>3. u \cap A = IF x \in A THEN (s \cap A) \cup {x} ELSE s \cap A
      OBVIOUS
    <3>4. Cardinality((s \cap A) \cup {x}) = n + 1 /\ n \in Nat
      BY <3>2, FS_AddElement, FS_CardinalityType
    <3> QED
      BY <3>3, <3>4
  <2>3. /\ r[x] \in Int /\ (x \in A => 2 * r[x] <= t) /\ (x \notin A => r[x] <= 0)
        /\ 2 * Sum(r, s) <= t * n /\ u \in SUBSET S
    BY <1>2 DEF IntegersOn, AtMost
  <2> HIDE DEF u, n, m
  <2>4. 2 * Sum(r, u) <= t * m
    <3>1. t * n \in Int
      BY <2>2
    <3>2. CASE x \in A
      <4>1. t * m = t * n + t
        BY <2>2, <3>2
      <4> QED
        BY <2>1, <2>3, <3>1, <3>2, <4>1
    <3>3. CASE x \notin A
      <4>1. m = n
        BY <2>2, <3>3
      <4> QED
        BY <2>1, <2>3, <3>1, <3>3, <4>1
    <3> QED
      BY <3>2, <3>3
  <2> QED
    BY <2>3, <2>4 DEF u, m
<1>3. S \in P
  <2> HIDE DEF P
  <2> QED
    BY <1>1, <1>2, ByElements
<1> QED
  BY <1>3

\* A sum of natural numbers is one, and no less than any of them.
LEMMA SumIsNat ==
  ASSUME NEW S, IsFiniteSet(S), NEW f, IntegersOn(f, S), \A x \in S : f[x] >= 0
  PROVE  Sum(f, S) \in Nat
<1> DEFINE P == {s \in SUBSET S : Sum(f, s) \in Nat}
<1>1. {} \in P
  BY SumOfNone
<1>2. ASSUME NEW s \in SUBSET S, NEW x \in S \ s, s \in P
      PROVE  s \cup {x} \in P
  <2>1. Sum(f, s \cup {x}) = f[x] + Sum(f, s)
    BY SumOfMore
  <2>2. f[x] \in Nat /\ Sum(f, s) \in Nat /\ s \cup {x} \in SUBSET S
    BY <1>2 DEF IntegersOn
  <2> QED
    BY <2>1, <2>2
<1>3. S \in P
  <2> HIDE DEF P
  <2> QED
    BY <1>1, <1>2, ByElements
<1> QED
  BY <1>3

LEMMA SumIsAtLeast ==
  ASSUME NEW S, IsFiniteSet(S), NEW f, IntegersOn(f, S), \A x \in S : f[x] >= 0, NEW x \in S
  PROVE  Sum(f, S) \in Nat /\ f[x] <= Sum(f, S)
<1> DEFINE s == S \ {x}
<1>1. s \in SUBSET S /\ x \in S \ s /\ s \cup {x} = S /\ IntegersOn(f, s) /\ \A y \in s : f[y] >= 0
  BY DEF IntegersOn
<1>2. IsFiniteSet(s)
  BY FS_Subset
<1> HIDE DEF s
<1>3. Sum(f, s) \in Nat
  BY <1>1, <1>2, SumIsNat
<1>4. Sum(f, s \cup {x}) = f[x] + Sum(f, s)
  BY <1>1, SumOfMore
<1>5. f[x] \in Nat
  BY DEF IntegersOn
<1> QED
  BY <1>1, <1>3, <1>4, <1>5

\* A sum of zeros.
LEMMA SumIsZero ==
  ASSUME NEW S, IsFiniteSet(S), NEW f, \A x \in S : f[x] = 0
  PROVE  Sum(f, S) = 0
<1>1. IntegersOn(f, S)
  BY DEF IntegersOn
<1>2. Combines(f, f, f, 0, 0, S)
  BY DEF Combines
<1>3. Sum(f, S) = 0 * Sum(f, S) + 0 * Sum(f, S) /\ Sum(f, S) \in Int
  BY <1>1, <1>2, SumIsLinear, SumIsInt
<1> QED
  BY <1>3

(***************************************************************************)
(* Rounding.                                                               *)
(***************************************************************************)
LEMMA Division ==
  ASSUME NEW n \in Int, NEW d \in Nat, d > 0
  PROVE  /\ n \div d \in Int /\ n % d \in Int /\ 0 <= n % d /\ n % d < d
         /\ n = d * (n \div d) + (n % d)
<1>1. n \div d \in Int
  OBVIOUS
<1>2. n % d \in Int
  OBVIOUS
<1>3. 0 <= n % d
  OBVIOUS
<1>4. n % d < d
  OBVIOUS
<1>5. n = d * (n \div d) + (n % d)
  OBVIOUS
<1> QED
  BY <1>1, <1>2, <1>3, <1>4, <1>5

\* What is rounded to r is within half a unit of it.
LEMMA RoundIsNear ==
  ASSUME NEW n \in Int, NEW d \in Nat, d > 0
  PROVE  /\ Round(n, d) \in Int
         /\ 2 * (n - Round(n, d) * d) <= d /\ -d <= 2 * (n - Round(n, d) * d)
<1> DEFINE q == n \div d
           r == n % d
           R == Round(n, d)
<1>1. q \in Int /\ r \in Int /\ 0 <= r /\ r < d /\ n = d * q + r
  BY Division
<1>2. q % 2 \in {0, 1}
  BY <1>1
<1>3. /\ R \in {q, q + 1}
      /\ R = q => 2 * r <= d
      /\ R = q + 1 => 2 * r >= d
  <2>1. R = CASE 2 * r < d -> q [] 2 * r > d -> q + 1 [] OTHER -> q + (q % 2)
    BY DEF Round
  <2> HIDE DEF q, r, R
  <2> QED
    BY <1>1, <1>2, <2>1
<1> HIDE DEF q, r, R
<1>4. CASE R = q
  <2>1. n - R * d = r
    BY <1>1, <1>4
  <2> QED
    BY <1>1, <1>3, <1>4, <2>1 DEF R
<1>5. CASE R = q + 1
  <2>1. n - R * d = r - d
    BY <1>1, <1>5
  <2> QED
    BY <1>1, <1>3, <1>5, <2>1 DEF R
<1> QED
  BY <1>3, <1>4, <1>5

LEMMA FartherProduct ==
  ASSUME NEW a \in Int, NEW b \in Int, a > b, NEW d \in Nat, d > 0
  PROVE  a * d >= b * d + d /\ a * d \in Int /\ b * d \in Int
<1>1. PICK c \in Nat : a = (b + 1) + c
  <2>1. a - (b + 1) \in Nat /\ a = (b + 1) + (a - (b + 1))
    OBVIOUS
  <2> QED
    BY <2>1
<1>2. a * d = (b * d + d) + c * d
  BY <1>1
<1>3. c * d \in Nat /\ b * d \in Int /\ a * d \in Int
  OBVIOUS
<1> QED
  BY <1>2, <1>3

\* Less is never rounded to more.
LEMMA RoundIsMonotone ==
  ASSUME NEW m \in Int, NEW n \in Int, m <= n, NEW d \in Nat, d > 0
  PROVE  Round(m, d) <= Round(n, d)
<1> DEFINE p == Round(m, d)
           q == Round(n, d)
<1>1. /\ p \in Int /\ 2 * (m - p * d) <= d /\ -d <= 2 * (m - p * d)
      /\ q \in Int /\ 2 * (n - q * d) <= d /\ -d <= 2 * (n - q * d)
  BY RoundIsNear
<1>2. m = n => p = q
  OBVIOUS
<1> HIDE DEF p, q
<1>3. p <= q
  <2> SUFFICES ASSUME p > q PROVE FALSE
    BY <1>1
  <2>1. p * d >= q * d + d /\ p * d \in Int /\ q * d \in Int
    BY <1>1, FartherProduct
  <2> DEFINE P == p * d
             Q == q * d
  <2>2. P >= Q + d /\ P \in Int /\ Q \in Int /\ -d <= 2 * (m - P) /\ 2 * (n - Q) <= d
    BY <1>1, <2>1
  <2> HIDE DEF P, Q
  <2>3. m >= n
    BY <2>2
  <2> QED
    BY <1>1, <1>2, <2>3
<1> QED
  BY <1>3 DEF p, q

\* A number that is not negative is not rounded to one that is.
LEMMA RoundIsNat ==
  ASSUME NEW n \in Nat, NEW d \in Nat, d > 0
  PROVE  Round(n, d) \in Nat
<1> DEFINE q == Round(n, d)
<1>1. q \in Int /\ -d <= 2 * (n - q * d) /\ 2 * (n - q * d) <= d
  BY RoundIsNear
<1> HIDE DEF q
<1>2. q >= 0
  <2> SUFFICES ASSUME 0 > q PROVE FALSE
    BY <1>1
  <2>1. 0 * d >= q * d + d /\ q * d \in Int
    BY <1>1, FartherProduct
  <2> DEFINE Q == q * d
  <2>2. 0 >= Q + d /\ Q \in Int /\ 2 * (n - Q) <= d
    BY <1>1, <2>1
  <2> HIDE DEF Q
  <2> QED
    BY <2>2
<1> QED
  BY <1>1, <1>2 DEF q

(***************************************************************************)
(* The order in which Corrected goes through the places.                   *)
(***************************************************************************)
Precedes(residue, diff, j, k) ==
  \/ IF diff > 0 THEN residue[j] > residue[k] ELSE residue[j] < residue[k]
  \/ residue[j] = residue[k] /\ j < k
Ahead(S, residue, diff, k) == {j \in S : Precedes(residue, diff, j, k)}
Firsts(S, residue, diff, m) == {k \in S : Cardinality(Ahead(S, residue, diff, k)) < m}

\* A place has fewer places ahead of it than those behind it have.
LEMMA AheadGrows ==
  ASSUME NEW S \in SUBSET Int, IsFiniteSet(S), NEW residue, IntegersOn(residue, S),
         NEW diff \in Int, NEW j \in S, NEW k \in S, Precedes(residue, diff, j, k)
  PROVE  Cardinality(Ahead(S, residue, diff, j)) < Cardinality(Ahead(S, residue, diff, k))
<1> DEFINE A == Ahead(S, residue, diff, j)
           B == Ahead(S, residue, diff, k)
<1>1. A \in SUBSET S /\ B \in SUBSET S
  BY DEF Ahead
<1>2. IsFiniteSet(A) /\ IsFiniteSet(B)
  BY <1>1, FS_Subset
<1>3. j \notin A
  BY DEF Ahead, Precedes, IntegersOn
<1>4. A \cup {j} \subseteq B
  <2>1. ASSUME NEW i \in A
        PROVE  i \in B
    <3>1. i \in S /\ Precedes(residue, diff, i, j)
      BY DEF Ahead
    <3>2. residue[i] \in Int /\ residue[j] \in Int /\ residue[k] \in Int /\ i \in Int /\ j \in Int /\ k \in Int
      BY <3>1 DEF IntegersOn
    <3>3. Precedes(residue, diff, i, k)
      BY <3>1, <3>2 DEF Precedes
    <3> QED
      BY <3>1, <3>3 DEF Ahead
  <2>2. j \in B
    BY DEF Ahead
  <2> QED
    BY <2>1, <2>2
<1> HIDE DEF A, B
<1>5. /\ Cardinality(A) \in Nat /\ Cardinality(B) \in Nat
      /\ Cardinality(A \cup {j}) = Cardinality(A) + 1
  BY <1>2, <1>3, FS_AddElement, FS_CardinalityType
<1>6. Cardinality(A \cup {j}) <= Cardinality(B)
  BY <1>2, <1>4, FS_Subset
<1> QED
  BY <1>5, <1>6 DEF A, B

LEMMA AheadIsRank ==
  ASSUME NEW S \in SUBSET Int, IsFiniteSet(S), NEW residue, IntegersOn(residue, S),
         NEW diff \in Int, NEW k \in S
  PROVE  /\ IsFiniteSet(Ahead(S, residue, diff, k))
         /\ Cardinality(Ahead(S, residue, diff, k)) \in 0 .. Cardinality(S) - 1
<1> DEFINE A == Ahead(S, residue, diff, k)
<1>1. A \in SUBSET S /\ k \notin A
  BY DEF Ahead, Precedes, IntegersOn
<1> HIDE DEF A
<1>2. IsFiniteSet(A) /\ Cardinality(A) <= Cardinality(S) /\ Cardinality(A) # Cardinality(S)
  BY <1>1, FS_Subset
<1>3. Cardinality(A) \in Nat /\ Cardinality(S) \in Nat
  BY <1>2, FS_CardinalityType
<1> QED
  BY <1>2, <1>3 DEF A

\* No two places are equally far ahead.
LEMMA SameRankSamePlace ==
  ASSUME NEW S \in SUBSET Int, IsFiniteSet(S), NEW residue, IntegersOn(residue, S),
         NEW diff \in Int, NEW j \in S, NEW k \in S,
         Cardinality(Ahead(S, residue, diff, j)) = Cardinality(Ahead(S, residue, diff, k))
  PROVE  j = k
<1>1. residue[j] \in Int /\ residue[k] \in Int /\ j \in Int /\ k \in Int
  BY DEF IntegersOn
<1>2. j = k \/ Precedes(residue, diff, j, k) \/ Precedes(residue, diff, k, j)
  BY <1>1 DEF Precedes
<1>3. /\ Cardinality(Ahead(S, residue, diff, j)) \in Int
      /\ Cardinality(Ahead(S, residue, diff, k)) \in Int
  <2>1. IsFiniteSet(Ahead(S, residue, diff, j)) /\ IsFiniteSet(Ahead(S, residue, diff, k))
    BY AheadIsRank
  <2> QED
    BY <2>1, FS_CardinalityType
<1>4. ~Precedes(residue, diff, j, k)
  <2>1. Precedes(residue, diff, j, k) =>
          Cardinality(Ahead(S, residue, diff, j)) < Cardinality(Ahead(S, residue, diff, k))
    BY AheadGrows
  <2> QED
    BY <1>3, <2>1
<1>5. ~Precedes(residue, diff, k, j)
  <2>1. Precedes(residue, diff, k, j) =>
          Cardinality(Ahead(S, residue, diff, k)) < Cardinality(Ahead(S, residue, diff, j))
    BY AheadGrows
  <2> QED
    BY <1>3, <2>1
<1> QED
  BY <1>2, <1>4, <1>5

\* As many places are among the first m as m says.
LEMMA FirstsAreAsMany ==
  ASSUME NEW S \in SUBSET Int, IsFiniteSet(S), NEW residue, IntegersOn(residue, S),
         NEW diff \in Int, NEW m \in 0 .. Cardinality(S)
  PROVE  Cardinality(Firsts(S, residue, diff, m)) = m
<1> DEFINE n       == Cardinality(S)
           rank(k) == Cardinality(Ahead(S, residue, diff, k))
           f       == [k \in S |-> rank(k)]
           F       == Firsts(S, residue, diff, m)
           g       == [k \in F |-> rank(k)]
<1>1. n \in Nat /\ m \in Nat /\ m <= n
  BY FS_CardinalityType
<1>2. \A k \in S : rank(k) \in 0 .. n - 1
  BY AheadIsRank
<1>3. \A j, k \in S : rank(j) = rank(k) => j = k
  BY SameRankSamePlace
<1>4. F \in SUBSET S /\ \A k \in S : k \in F <=> rank(k) < m
  BY DEF Firsts
<1> HIDE DEF n, rank, F
<1>5. f \in Injection(S, 0 .. n - 1)
  BY <1>2, <1>3 DEF Injection, IsInjective
<1>6. IsFiniteSet(0 .. n - 1) /\ Cardinality(0 .. n - 1) = n
      /\ IsFiniteSet(0 .. m - 1) /\ Cardinality(0 .. m - 1) = m
  <2>1. 0 \in Int /\ n - 1 \in Int /\ m - 1 \in Int
    BY <1>1
  <2>2. /\ IsFiniteSet(0 .. n - 1) /\ Cardinality(0 .. n - 1) = IF 0 > n - 1 THEN 0 ELSE (n - 1) - 0 + 1
        /\ IsFiniteSet(0 .. m - 1) /\ Cardinality(0 .. m - 1) = IF 0 > m - 1 THEN 0 ELSE (m - 1) - 0 + 1
    BY <2>1, FS_Interval
  <2> QED
    BY <1>1, <2>2
<1>7. f \in Surjection(S, 0 .. n - 1)
  BY <1>5, <1>6, FS_Injection DEF n
<1>8. \A r \in 0 .. n - 1 : \E k \in S : rank(k) = r
  BY <1>7 DEF Surjection
<1>9. g \in [F -> 0 .. m - 1]
  <2>1. ASSUME NEW k \in F
        PROVE  rank(k) \in 0 .. m - 1
    <3>1. rank(k) < m /\ rank(k) \in 0 .. n - 1
      BY <1>2, <1>4
    <3> QED
      BY <1>1, <3>1
  <2> QED
    BY <2>1
<1>10. ASSUME NEW r \in 0 .. m - 1
       PROVE  \E k \in F : g[k] = r
  <2>1. r \in 0 .. n - 1 /\ r < m
    BY <1>1
  <2>2. PICK k \in S : rank(k) = r
    BY <1>8, <2>1
  <2>3. k \in F
    BY <1>4, <2>1, <2>2
  <2> QED
    BY <2>2, <2>3
<1>11. \A j, k \in F : g[j] = g[k] => j = k
  BY <1>3, <1>4
<1> HIDE DEF g
<1>12. g \in Bijection(F, 0 .. m - 1)
  BY <1>9, <1>10, <1>11 DEF Bijection, Injection, Surjection, IsInjective
<1>13. IsFiniteSet(F)
  BY <1>4, FS_Subset
<1>14. ExistsBijection(F, 0 .. m - 1)
  BY <1>12 DEF ExistsBijection
<1>15. Cardinality(0 .. m - 1) = Cardinality(F)
  BY <1>13, <1>14, FS_Bijection
<1> QED
  BY <1>6, <1>15 DEF F

\* The first places are among those of a set that comes first and is no smaller.
LEMMA FirstsAreOfThoseAhead ==
  ASSUME NEW S \in SUBSET Int, IsFiniteSet(S), NEW residue, IntegersOn(residue, S),
         NEW diff \in Int, NEW A \in SUBSET S, \A j \in A, k \in S \ A : Precedes(residue, diff, j, k),
         NEW m \in Nat, m <= Cardinality(A)
  PROVE  Firsts(S, residue, diff, m) \subseteq A
<1> SUFFICES ASSUME NEW k \in Firsts(S, residue, diff, m), k \notin A
             PROVE  FALSE
  OBVIOUS
<1> DEFINE B == Ahead(S, residue, diff, k)
<1>1. k \in S /\ Cardinality(B) < m
  BY DEF Firsts
<1>2. A \subseteq B
  BY <1>1 DEF Ahead
<1>3. IsFiniteSet(B)
  BY <1>1, AheadIsRank
<1> HIDE DEF B
<1>4. Cardinality(A) <= Cardinality(B) /\ IsFiniteSet(A)
  BY <1>2, <1>3, FS_Subset
<1>5. Cardinality(A) \in Nat /\ Cardinality(B) \in Nat
  BY <1>3, <1>4, FS_CardinalityType
<1> QED
  BY <1>1, <1>4, <1>5

(***************************************************************************)
(* The weights of the places.                                              *)
(***************************************************************************)

\* The rates between 0 and 1 that are rational, and whose square roots and
\* those of their complements are.
RationalRates == {r \in [alpha : Nat, beta : Nat, den : Nat \ {0}] :
                    r.alpha * r.alpha + r.beta * r.beta = r.den * r.den}

LEMMA SmallerSquare ==
  ASSUME NEW a \in Nat, NEW b \in Nat, a * a < b * b
  PROVE  a < b
<1> SUFFICES ASSUME a >= b PROVE FALSE
  OBVIOUS
<1>1. PICK c \in Nat : a = b + c
  <2>1. a - b \in Nat /\ a = b + (a - b)
    OBVIOUS
  <2> QED
    BY <2>1
<1>2. a * a = b * b + (2 * (b * c) + c * c)
  BY <1>1
<1>3. b * c \in Nat /\ c * c \in Nat /\ b * b \in Nat
  OBVIOUS
<1> QED
  BY <1>2, <1>3

LEMMA RateFacts ==
  ASSUME NEW rate \in RationalRates
  PROVE  /\ rate.alpha \in Nat /\ rate.beta \in Nat /\ rate.den \in Nat /\ rate.den > 0
         /\ rate.beta # 0 => rate.alpha < rate.den
<1> DEFINE a == rate.alpha
           b == rate.beta
           d == rate.den
<1>1. a \in Nat /\ b \in Nat /\ d \in Nat /\ d > 0 /\ a * a + b * b = d * d
  BY DEF RationalRates
<1> HIDE DEF a, b, d
<1>2. b # 0 => a < d
  <2> SUFFICES ASSUME b # 0 PROVE a < d
    OBVIOUS
  <2>1. b * b \in Nat /\ b * b > 0
    BY <1>1, ProductIsNat
  <2>2. a * a < d * d
    <3>1. a * a \in Nat /\ d * d \in Nat
      BY <1>1
    <3> DEFINE A == a * a
               C == b * b
               D == d * d
    <3>2. A \in Nat /\ D \in Nat /\ C \in Nat /\ C > 0 /\ A + C = D
      BY <1>1, <2>1, <3>1
    <3> HIDE DEF A, C, D
    <3>3. A < D
      BY <3>2
    <3> QED
      BY <3>3 DEF A, D
  <2> QED
    BY <1>1, <2>2, SmallerSquare
<1> QED
  BY <1>1, <1>2 DEF a, b, d

LEMMA WeightIsNat ==
  ASSUME NEW K \in Nat, NEW rate \in RationalRates, NEW k \in 0 .. K
  PROVE  /\ Weight(K, rate, k) \in Nat
         /\ rate.alpha # 0 /\ rate.beta # 0 => Weight(K, rate, k) > 0
<1> DEFINE a == Power(rate.alpha, k)
           d == Power(rate.den, K - k)
<1>1. /\ rate.alpha \in Nat /\ rate.beta \in Nat /\ rate.den \in Nat /\ rate.den > 0
      /\ k \in Nat /\ K - k \in Nat
  BY RateFacts
<1>2. /\ a \in Nat /\ (rate.alpha > 0 => a > 0) /\ d \in Nat /\ d > 0
  BY <1>1, PowerIsNat
<1>3. /\ a * d \in Nat /\ (a > 0 => a * d > 0)
      /\ a * rate.den \in Nat /\ (a > 0 => a * rate.den > 0)
  <2> HIDE DEF a, d
  <2> QED
    BY <1>1, <1>2, ProductIsNat
<1>4. /\ (a * d) * rate.beta \in Nat
      /\ (a * d > 0 /\ rate.beta > 0 => (a * d) * rate.beta > 0)
  <2> DEFINE e == a * d
  <2>1. e \in Nat
    BY <1>3
  <2> HIDE DEF e
  <2>2. e * rate.beta \in Nat /\ (e > 0 /\ rate.beta > 0 => e * rate.beta > 0)
    BY <1>1, <2>1, ProductIsNat
  <2> QED
    BY <2>2 DEF e
<1>5. Weight(K, rate, k) = IF k < K THEN (a * d) * rate.beta ELSE a * rate.den
  <2>1. k >= K => k = K
    BY <1>1
  <2> QED
    BY <1>1, <2>1 DEF Weight
<1> HIDE DEF a, d
<1> QED
  BY <1>1, <1>2, <1>3, <1>4, <1>5

LEMMA ShrinkingProduct ==
  ASSUME NEW a \in Nat, NEW d \in Nat, a < d, NEW x \in Nat, x > 0, NEW y \in Nat, y > 0,
         NEW b \in Nat, b > 0
  PROVE  ((a * x) * y) * b < (x * (d * y)) * b
<1>1. PICK c \in Nat : d = a + 1 + c
  <2>1. d - (a + 1) \in Nat /\ d = a + 1 + (d - (a + 1))
    OBVIOUS
  <2> QED
    BY <2>1
<1> DEFINE p == (x * y) * b
           q == c * p
           r == a * p
<1>2. p \in Nat /\ p > 0
  <2>1. x * y \in Nat /\ x * y > 0
    BY ProductIsNat
  <2> QED
    BY <2>1, ProductIsNat
<1>3. (x * (d * y)) * b = r + p + q /\ ((a * x) * y) * b = r
  BY <1>1
<1>4. q \in Nat /\ r \in Nat
  <2> HIDE DEF p
  <2> QED
    BY <1>2, ProductIsNat
<1> HIDE DEF p, q, r
<1> QED
  BY <1>2, <1>3, <1>4

\* Deeper places weigh less, the last one apart.
LEMMA WeightShrinks ==
  ASSUME NEW K \in Nat, NEW rate \in RationalRates, rate.alpha # 0, rate.beta # 0,
         NEW k \in Nat, k + 1 < K
  PROVE  Weight(K, rate, k + 1) < Weight(K, rate, k)
<1> DEFINE n == K - (k + 1)
           x == Power(rate.alpha, k)
           y == Power(rate.den, n)
<1>1. /\ rate.alpha \in Nat /\ rate.beta \in Nat /\ rate.den \in Nat /\ rate.den > 0
      /\ rate.alpha < rate.den
  BY RateFacts
<1>2. n \in Nat /\ K - k = n + 1 /\ k < K /\ K - (k + 1) = n
  OBVIOUS
<1> HIDE DEF n
<1>3. Power(rate.alpha, k + 1) = rate.alpha * x /\ Power(rate.den, n + 1) = rate.den * y
  BY <1>1, <1>2, PowerSteps
<1>4. x \in Nat /\ x > 0 /\ y \in Nat /\ y > 0
  <2>1. rate.alpha > 0
    BY <1>1
  <2>2. x \in Nat /\ x > 0
    BY <1>1, <2>1, PowerIsNat
  <2>3. y \in Nat /\ y > 0
    BY <1>1, <1>2, PowerIsNat
  <2> QED
    BY <2>2, <2>3
<1>5. /\ Weight(K, rate, k + 1) = ((rate.alpha * x) * y) * rate.beta
      /\ Weight(K, rate, k) = (x * (rate.den * y)) * rate.beta
  <2>1. /\ Weight(K, rate, k + 1) = (Power(rate.alpha, k + 1) * Power(rate.den, K - (k + 1))) * rate.beta
        /\ Weight(K, rate, k) = (Power(rate.alpha, k) * Power(rate.den, K - k)) * rate.beta
    BY <1>2 DEF Weight
  <2> QED
    BY <1>2, <1>3, <2>1
<1> HIDE DEF x, y
<1> QED
  BY <1>1, <1>4, <1>5, ShrinkingProduct

\* The last place apart, a deeper place weighs less.
LEMMA DeeperWeighsLess ==
  ASSUME NEW K \in Nat, NEW rate \in RationalRates, rate.alpha # 0, rate.beta # 0,
         NEW j \in 0 .. K - 1, NEW k \in 0 .. K - 1, j < k
  PROVE  Weight(K, rate, k) < Weight(K, rate, j)
<1> DEFINE n == (K - 1) - j
           P == {i \in 0 .. n : i > 0 => Weight(K, rate, j + i) < Weight(K, rate, j)}
<1>1. n \in Nat /\ 0 \in P
  OBVIOUS
<1>2. ASSUME NEW i \in 0 .. n - 1, i \in P
      PROVE  i + 1 \in P
  <2>1. j + i \in Nat /\ (j + i) + 1 < K /\ j + (i + 1) = (j + i) + 1 /\ i + 1 \in 0 .. n
        /\ j + i \in 0 .. K /\ j \in 0 .. K /\ (j + i) + 1 \in 0 .. K
    OBVIOUS
  <2>2. Weight(K, rate, (j + i) + 1) < Weight(K, rate, j + i)
    BY <2>1, WeightShrinks
  <2>3. /\ Weight(K, rate, j + i) \in Nat /\ Weight(K, rate, j) \in Nat
        /\ Weight(K, rate, (j + i) + 1) \in Nat
    BY <2>1, WeightIsNat
  <2>4. i > 0 \/ j + i = j
    OBVIOUS
  <2>5. i > 0 => Weight(K, rate, j + i) < Weight(K, rate, j)
    BY <1>2
  <2>6. Weight(K, rate, (j + i) + 1) < Weight(K, rate, j)
    BY <2>2, <2>3, <2>4, <2>5
  <2> QED
    BY <2>1, <2>6
<1>3. \A i \in 0 .. n : i \in P
  <2> HIDE DEF P, n
  <2> QED
    BY <1>1, <1>2, BySteps
<1>4. k - j \in 0 .. n /\ k - j > 0 /\ j + (k - j) = k
  OBVIOUS
<1> QED
  BY <1>3, <1>4

(***************************************************************************)
(* Correcting what rounding left over.                                     *)
(***************************************************************************)
LEMMA MaxOfTwo ==
  ASSUME NEW a \in Int, NEW b \in Int
  PROVE  Max({a, b}) = IF a >= b THEN a ELSE b
<1> DEFINE m == IF a >= b THEN a ELSE b
<1>1. m \in {a, b} /\ \A y \in {a, b} : m >= y
  OBVIOUS
<1>2. \A x \in {a, b} : (\A y \in {a, b} : x >= y) => x = m
  OBVIOUS
<1> HIDE DEF m
<1>3. Max({a, b}) = m
  BY <1>1, <1>2 DEF Max
<1> QED
  BY <1>3 DEF m

\* If terms of at most half of t add up to d times t, at least twice d of them
\* are positive.
LEMMA TwiceAsManyPlaces ==
  ASSUME NEW S, IsFiniteSet(S), NEW r, IntegersOn(r, S), NEW t \in Nat, t > 0,
         \A x \in S : 2 * r[x] <= t, NEW d \in Nat, Sum(r, S) = t * d
  PROVE  2 * d <= Cardinality({x \in S : r[x] > 0})
<1> DEFINE A == {x \in S : r[x] > 0}
           n == Cardinality(A)
<1>1. AtMost(r, t, A, S)
  BY DEF AtMost, IntegersOn
<1>2. S \cap A = A
  OBVIOUS
<1> HIDE DEF A
<1>3. 2 * (t * d) <= t * n
  BY <1>1, <1>2, SumIsBounded
<1>4. n \in Nat
  <2>1. IsFiniteSet(A)
    BY FS_Subset DEF A
  <2> QED
    BY <2>1, FS_CardinalityType
<1> HIDE DEF n
<1>5. 2 * d <= n
  <2> SUFFICES ASSUME 2 * d > n PROVE FALSE
    BY <1>4
  <2>1. (2 * d) * t >= n * t + t /\ (2 * d) * t \in Int /\ n * t \in Int
    BY <1>4, FartherProduct
  <2>2. (2 * d) * t = 2 * (t * d) /\ n * t = t * n
    BY <1>4
  <2> QED
    BY <1>3, <2>1, <2>2
<1> QED
  BY <1>5 DEF n, A

Size(d) == Max({d, -d})

LEMMA SizeIsNat ==
  ASSUME NEW d \in Int
  PROVE  Size(d) \in Nat /\ (d >= 0 => Size(d) = d) /\ (d <= 0 => Size(d) = -d)
<1>1. -d \in Int
  OBVIOUS
<1>2. Size(d) = IF d >= -d THEN d ELSE -d
  BY <1>1, MaxOfTwo DEF Size
<1> QED
  BY <1>2

\* The places that are corrected are as many as there are guesses to make up
\* for, and each was rounded the other way.
LEMMA CorrectedPlaces ==
  ASSUME NEW S \in SUBSET Int, IsFiniteSet(S), NEW r, IntegersOn(r, S), NEW t \in Nat, t > 0,
         \A x \in S : 2 * r[x] <= t, \A x \in S : -t <= 2 * r[x],
         NEW diff \in Int, Sum(r, S) = t * diff
  PROVE  /\ Cardinality(Firsts(S, r, diff, Size(diff))) = Size(diff)
         /\ diff > 0 => \A k \in Firsts(S, r, diff, Size(diff)) : r[k] > 0
         /\ diff < 0 => \A k \in Firsts(S, r, diff, Size(diff)) : r[k] < 0
<1> DEFINE m == Size(diff)
           F == Firsts(S, r, diff, m)
           Right == {x \in S : IF diff > 0 THEN r[x] > 0 ELSE r[x] < 0}
<1>1. m \in Nat /\ (diff >= 0 => m = diff) /\ (diff <= 0 => m = -diff)
  BY SizeIsNat
<1>2. IsFiniteSet(Right) /\ Right \in SUBSET S /\ Cardinality(Right) \in Nat
      /\ Cardinality(Right) <= Cardinality(S) /\ Cardinality(S) \in Nat
  <2>1. Right \in SUBSET S
    OBVIOUS
  <2> HIDE DEF Right
  <2>2. IsFiniteSet(Right) /\ Cardinality(Right) <= Cardinality(S)
    BY <2>1, FS_Subset
  <2> QED
    BY <2>1, <2>2, FS_CardinalityType
<1> HIDE DEF m
<1>3. diff # 0 => m <= Cardinality(Right)
  <2>1. CASE diff > 0
    <3>1. Right = {x \in S : r[x] > 0} /\ diff \in Nat
      BY <2>1
    <3>2. 2 * diff <= Cardinality({x \in S : r[x] > 0})
      BY <3>1, TwiceAsManyPlaces
    <3> HIDE DEF Right
    <3> QED
      BY <1>1, <1>2, <2>1, <3>1, <3>2
  <2>2. CASE diff < 0
    <3> DEFINE neg == [x \in S |-> -r[x]]
               e   == -diff
    <3>1. e \in Nat /\ IntegersOn(neg, S) /\ \A x \in S : neg[x] = -r[x] /\ r[x] \in Int
      BY <2>2 DEF IntegersOn
    <3>2. Combines(neg, r, r, -1, 0, S)
      <4> HIDE DEF neg
      <4> QED
        BY <3>1 DEF Combines
    <3>3. \A x \in S : 2 * neg[x] <= t
      <4>1. ASSUME NEW x \in S
            PROVE  2 * neg[x] <= t
        <5>1. neg[x] = -r[x] /\ r[x] \in Int /\ -t <= 2 * r[x]
          BY <3>1
        <5> HIDE DEF neg
        <5> QED
          BY <5>1
      <4> QED
        BY <4>1
    <3>4. {x \in S : neg[x] > 0} = Right
      <4>1. ASSUME NEW x \in S
            PROVE  neg[x] > 0 <=> x \in Right
        <5>1. neg[x] = -r[x] /\ r[x] \in Int
          BY <3>1
        <5> HIDE DEF neg
        <5> QED
          BY <2>2, <5>1
      <4> QED
        BY <4>1
    <3> HIDE DEF neg, Right
    <3>5. Sum(neg, S) = t * e
      <4>1. Sum(neg, S) = (-1) * Sum(r, S) + 0 * Sum(r, S) /\ Sum(r, S) \in Int
        BY <3>1, <3>2, SumIsLinear, SumIsInt
      <4>2. Sum(neg, S) = -(t * diff) /\ t * diff \in Int
        BY <4>1
      <4>3. t * e = -(t * diff)
        OBVIOUS
      <4> QED
        BY <4>2, <4>3
    <3> HIDE DEF e
    <3>6. 2 * e <= Cardinality({x \in S : neg[x] > 0})
      BY <3>1, <3>3, <3>5, TwiceAsManyPlaces
    <3> QED
      BY <1>1, <1>2, <2>2, <3>1, <3>4, <3>6 DEF e
  <2> QED
    BY <2>1, <2>2
<1>4. m \in 0 .. Cardinality(S)
  <2> HIDE DEF Right
  <2>1. diff = 0 => m = 0
    BY <1>1
  <2> QED
    BY <1>1, <1>2, <1>3, <2>1
<1>5. Cardinality(F) = m
  BY <1>4, FirstsAreAsMany
<1>6. diff # 0 => F \subseteq Right
  <2> SUFFICES ASSUME diff # 0
               PROVE  F \subseteq Right
    OBVIOUS
  <2>1. \A j \in Right, k \in S \ Right : Precedes(r, diff, j, k)
    BY DEF Precedes, IntegersOn
  <2> HIDE DEF Right
  <2> QED
    BY <1>1, <1>2, <1>3, <2>1, FirstsAreOfThoseAhead
<1> HIDE DEF F
<1>7. (diff > 0 => \A k \in F : r[k] > 0) /\ (diff < 0 => \A k \in F : r[k] < 0)
  BY <1>6
<1> QED
  BY <1>5, <1>7 DEF F, m

\* The correction by one.
Sign(d) == IF d > 0 THEN 1 ELSE IF d < 0 THEN -1 ELSE 0

\* A correction changes the first places by one, and Max cuts off nothing if these are
\* positive when guesses are taken away.
LEMMA CorrectedFan ==
  ASSUME NEW S, NEW fan \in [S -> Nat], NEW r, NEW diff \in Int,
         diff < 0 => \A k \in Firsts(S, r, diff, Size(diff)) : fan[k] > 0
  PROVE  /\ DOMAIN Corrected(fan, r, diff) = S
         /\ \A k \in S : /\ Corrected(fan, r, diff)[k] \in Nat
                         /\ Corrected(fan, r, diff)[k] =
                              fan[k] + IF k \in Firsts(S, r, diff, Size(diff)) THEN Sign(diff) ELSE 0
<1> DEFINE F       == Firsts(S, r, diff, Size(diff))
           Fix(k) == CASE k \in F /\ diff > 0 -> 1 [] k \in F /\ diff < 0 -> -1 [] OTHER -> 0
<1>1. DOMAIN fan = S
  OBVIOUS
<1>2. Corrected(fan, r, diff) = [k \in S |-> Max({0, fan[k] + Fix(k)})]
  <2> DEFINE Before(j, k) ==
               \/ IF diff > 0 THEN r[j] > r[k] ELSE r[j] < r[k]
               \/ r[j] = r[k] /\ j < k
             first(k) == Cardinality({j \in DOMAIN fan : Before(j, k)}) < Max({diff, -diff})
             Change(k) == CASE first(k) /\ diff > 0 -> 1 [] first(k) /\ diff < 0 -> -1 [] OTHER -> 0
  <2>1. Corrected(fan, r, diff) = [k \in DOMAIN fan |-> Max({0, fan[k] + Change(k)})]
    BY DEF Corrected
  <2>2. \A k \in S : first(k) <=> k \in F
    BY <1>1 DEF Firsts, Ahead, Precedes, Size
  <2> HIDE DEF first, F
  <2>3. \A k \in S : Change(k) = Fix(k)
    BY <2>2
  <2> HIDE DEF Change, Fix
  <2> QED
    BY <1>1, <2>1, <2>3
<1>3. ASSUME NEW k \in S
      PROVE  /\ Max({0, fan[k] + Fix(k)}) \in Nat
             /\ Max({0, fan[k] + Fix(k)}) = fan[k] + IF k \in F THEN Sign(diff) ELSE 0
  <2>1. fan[k] \in Nat /\ (k \in F /\ diff < 0 => fan[k] > 0)
    OBVIOUS
  <2> HIDE DEF F
  <2>2. Fix(k) = IF k \in F THEN Sign(diff) ELSE 0
    BY DEF Sign
  <2>3. Fix(k) \in {-1, 0, 1} /\ (Fix(k) = -1 => fan[k] > 0)
    BY <2>1 DEF Sign
  <2> DEFINE x == fan[k] + Fix(k)
  <2>4. x \in Int /\ x >= 0
    BY <2>1, <2>3
  <2>5. Max({0, x}) = x
    <3> HIDE DEF x
    <3>1. Max({0, x}) = IF 0 >= x THEN 0 ELSE x
      BY <2>4, MaxOfTwo
    <3> QED
      BY <2>4, <3>1
  <2> QED
    BY <2>2, <2>4, <2>5
<1> HIDE DEF F, Fix
<1> QED
  BY <1>2, <1>3 DEF F

(***************************************************************************)
(* The schedules.                                                          *)
(***************************************************************************)
Rounded(K, B, rate)  == [k \in 0 .. K |-> Round(Weight(K, rate, k) * B, Total(K, rate))]
Residues(K, B, rate) ==
  [k \in 0 .. K |-> Weight(K, rate, k) * B - Rounded(K, B, rate)[k] * Total(K, rate)]
Missing(K, B, rate)  == B - Sum(Rounded(K, B, rate), 0 .. K)
Adjusted(K, B, rate) ==
  Firsts(0 .. K, Residues(K, B, rate), Missing(K, B, rate), Size(Missing(K, B, rate)))

LEMMA ExitPlaces ==
  ASSUME NEW K \in Nat
  PROVE  /\ IsFiniteSet(0 .. K) /\ 0 .. K \in SUBSET Int /\ Cardinality(0 .. K) = K + 1
         /\ 0 \in 0 .. K /\ K \in 0 .. K
<1>1. IsFiniteSet(0 .. K) /\ Cardinality(0 .. K) = IF 0 > K THEN 0 ELSE K - 0 + 1
  BY FS_Interval
<1> QED
  BY <1>1

LEMMA TotalIsNat ==
  ASSUME NEW K \in Nat, NEW rate \in RationalRates
  PROVE  /\ Total(K, rate) \in Nat
         /\ rate.alpha # 0 /\ rate.beta # 0 => Total(K, rate) > 0
<1> DEFINE w == Weights(K, rate)
           S == 0 .. K
<1>1. \A k \in S : w[k] = Weight(K, rate, k)
  BY DEF Weights
<1>2. \A k \in S : w[k] \in Nat /\ (rate.alpha # 0 /\ rate.beta # 0 => w[k] > 0)
  BY <1>1, WeightIsNat
<1>3. IsFiniteSet(S) /\ K \in S /\ Total(K, rate) = Sum(w, S)
  BY ExitPlaces, TotalIsSum
<1> HIDE DEF w, S
<1>4. IntegersOn(w, S) /\ \A k \in S : w[k] >= 0
  BY <1>2 DEF IntegersOn
<1>5. Sum(w, S) \in Nat /\ w[K] <= Sum(w, S)
  BY <1>3, <1>4, SumIsAtLeast
<1> QED
  BY <1>2, <1>3, <1>5

\* What the schedules start from: shares rounded to within half a guess, and
\* residues that add up to what is missing.
LEMMA RoundedFacts ==
  ASSUME NEW K \in Nat, NEW B \in Nat, NEW rate \in RationalRates, rate.alpha # 0, rate.beta # 0
  PROVE  /\ Rounded(K, B, rate) \in [0 .. K -> Nat] /\ IntegersOn(Rounded(K, B, rate), 0 .. K)
         /\ Missing(K, B, rate) \in Int /\ IntegersOn(Residues(K, B, rate), 0 .. K)
         /\ \A k \in 0 .. K : 2 * Residues(K, B, rate)[k] <= Total(K, rate)
         /\ \A k \in 0 .. K : -Total(K, rate) <= 2 * Residues(K, B, rate)[k]
         /\ Sum(Residues(K, B, rate), 0 .. K) = Total(K, rate) * Missing(K, B, rate)
<1> DEFINE S   == 0 .. K
           t   == Total(K, rate)
           fan == Rounded(K, B, rate)
           res == Residues(K, B, rate)
           w   == Weights(K, rate)
<1>1. t \in Nat /\ t > 0 /\ t = Sum(w, S)
  BY TotalIsNat, TotalIsSum
<1>2. IsFiniteSet(S)
  BY ExitPlaces
<1>3. \A k \in S : w[k] \in Nat /\ w[k] = Weight(K, rate, k)
  BY WeightIsNat DEF Weights
<1>4. /\ fan = [k \in S |-> Round(Weight(K, rate, k) * B, t)]
      /\ res = [k \in S |-> Weight(K, rate, k) * B - fan[k] * t]
  BY DEF Rounded, Residues
<1> HIDE DEF w, t, S
<1>5. ASSUME NEW k \in S
      PROVE  /\ fan[k] \in Nat /\ res[k] \in Int /\ 2 * res[k] <= t /\ -t <= 2 * res[k]
             /\ res[k] = B * w[k] + (-t) * fan[k]
  <2> DEFINE n == w[k] * B
  <2>1. n \in Nat /\ w[k] \in Nat /\ n = B * w[k]
    BY <1>3
  <2>2. fan[k] = Round(n, t) /\ res[k] = n - fan[k] * t
    BY <1>3, <1>4
  <2> HIDE DEF n, fan, res
  <2>3. /\ Round(n, t) \in Nat
        /\ 2 * (n - Round(n, t) * t) <= t /\ -t <= 2 * (n - Round(n, t) * t)
    <3>1. Round(n, t) \in Nat
      BY <1>1, <2>1, RoundIsNat
    <3>2. n \in Int
      BY <2>1
    <3> QED
      BY <1>1, <3>1, <3>2, RoundIsNear
  <2>4. fan[k] * t \in Int /\ (-t) * fan[k] = -(fan[k] * t)
    BY <1>1, <2>2, <2>3
  <2> QED
    BY <1>1, <2>1, <2>2, <2>3, <2>4
<1>6. fan \in [S -> Nat] /\ IntegersOn(fan, S) /\ IntegersOn(res, S) /\ IntegersOn(w, S)
  <2>1. fan \in [S -> Nat]
    BY <1>4, <1>5
  <2> HIDE DEF fan, res
  <2> QED
    BY <1>3, <1>5, <2>1 DEF IntegersOn
<1>7. Combines(res, w, fan, B, -t, S)
  <2> HIDE DEF fan, res
  <2> QED
    BY <1>5 DEF Combines
<1>8. Sum(fan, S) \in Int /\ Missing(K, B, rate) = B - Sum(fan, S)
  BY <1>2, <1>6, SumIsInt DEF Missing, S
<1> HIDE DEF fan, res
<1>9. Sum(res, S) = B * t + (-t) * Sum(fan, S)
  BY <1>1, <1>2, <1>6, <1>7, SumIsLinear
<1>10. Sum(res, S) = t * (B - Sum(fan, S))
  BY <1>1, <1>8, <1>9
<1> QED
  BY <1>5, <1>6, <1>8, <1>10 DEF S, t, fan, res

\* The places that are adjusted, and by how much.
LEMMA AdjustedFacts ==
  ASSUME NEW K \in Nat, NEW B \in Nat, NEW rate \in RationalRates, rate.alpha # 0, rate.beta # 0
  PROVE  /\ Cardinality(Adjusted(K, B, rate)) = Size(Missing(K, B, rate))
         /\ Adjusted(K, B, rate) \subseteq 0 .. K
         /\ Missing(K, B, rate) > 0 => \A k \in Adjusted(K, B, rate) : Residues(K, B, rate)[k] > 0
         /\ Missing(K, B, rate) < 0 => \A k \in Adjusted(K, B, rate) : Residues(K, B, rate)[k] < 0
<1>1. IsFiniteSet(0 .. K) /\ 0 .. K \in SUBSET Int
  BY ExitPlaces
<1>2. Total(K, rate) \in Nat /\ Total(K, rate) > 0
  BY TotalIsNat
<1> DEFINE d   == Missing(K, B, rate)
           res == Residues(K, B, rate)
           t   == Total(K, rate)
           S   == 0 .. K
<1>3. /\ d \in Int /\ IntegersOn(res, S) /\ Sum(res, S) = t * d
      /\ \A k \in S : 2 * res[k] <= t
      /\ \A k \in S : -t <= 2 * res[k]
  BY RoundedFacts
<1>4. Adjusted(K, B, rate) = Firsts(S, res, d, Size(d))
  BY DEF Adjusted
<1>5. Firsts(S, res, d, Size(d)) \subseteq S
  BY DEF Firsts
<1> HIDE DEF d, res, t, S
<1>6. /\ Cardinality(Firsts(S, res, d, Size(d))) = Size(d)
      /\ d > 0 => \A k \in Firsts(S, res, d, Size(d)) : res[k] > 0
      /\ d < 0 => \A k \in Firsts(S, res, d, Size(d)) : res[k] < 0
  BY <1>1, <1>2, <1>3, CorrectedPlaces DEF t, S
<1> QED
  BY <1>4, <1>5, <1>6 DEF d, res, t, S

\* A place ahead of one of the first is one of the first.
LEMMA FirstsBefore ==
  ASSUME NEW S \in SUBSET Int, IsFiniteSet(S), NEW residue, IntegersOn(residue, S),
         NEW diff \in Int, NEW j \in S, NEW m \in Nat, NEW k \in Firsts(S, residue, diff, m),
         Precedes(residue, diff, j, k)
  PROVE  j \in Firsts(S, residue, diff, m)
<1>1. k \in S /\ Cardinality(Ahead(S, residue, diff, k)) < m
  BY DEF Firsts
<1>2. Cardinality(Ahead(S, residue, diff, j)) < Cardinality(Ahead(S, residue, diff, k))
  BY <1>1, AheadGrows
<1>3. /\ Cardinality(Ahead(S, residue, diff, j)) \in Int
      /\ Cardinality(Ahead(S, residue, diff, k)) \in Int
  BY <1>1, AheadIsRank
<1>4. Cardinality(Ahead(S, residue, diff, j)) < m
  BY <1>1, <1>2, <1>3
<1> QED
  BY <1>4 DEF Firsts

\* What FairSchedule says of a geometric schedule.
GoodShares(fan, K, B, rate) ==
  /\ \A k \in 0 .. K : fan[k] \in Nat
  /\ Sum(fan, 0 .. K) = B
  /\ rate.alpha # 0 /\ rate.beta # 0 =>
       \A k \in 0 .. K : /\ fan[k] * Total(K, rate) - Weight(K, rate, k) * B < Total(K, rate)
                         /\ -(fan[k] * Total(K, rate) - Weight(K, rate, k) * B) < Total(K, rate)
  /\ rate.beta # 0 => \A j, k \in 0 .. K - 1 : j <= k => fan[k] <= fan[j]

LEMMA CorrectedIsSchedule ==
  ASSUME NEW K \in Nat, NEW B \in Nat, B > 0, NEW rate, rate.alpha # 0, rate.beta # 0
  PROVE  geometric_fan_out(K, B, rate) =
           Corrected(Rounded(K, B, rate), Residues(K, B, rate), Missing(K, B, rate))
<1>1. ~(B <= 0)
  OBVIOUS
<1> QED
  BY <1>1 DEF geometric_fan_out, Rounded, Residues, Missing, Sum

\* Nothing to give.
LEMMA NoShares ==
  ASSUME NEW K \in Nat, NEW rate \in RationalRates, NEW fan, \A k \in 0 .. K : fan[k] = 0
  PROVE  GoodShares(fan, K, 0, rate)
<1>1. Sum(fan, 0 .. K) = 0
  BY ExitPlaces, SumIsZero
<1>2. ASSUME NEW k \in 0 .. K, rate.alpha # 0, rate.beta # 0
      PROVE  /\ fan[k] * Total(K, rate) - Weight(K, rate, k) * 0 < Total(K, rate)
             /\ -(fan[k] * Total(K, rate) - Weight(K, rate, k) * 0) < Total(K, rate)
  <2>1. fan[k] = 0 /\ Total(K, rate) \in Nat /\ Total(K, rate) > 0 /\ Weight(K, rate, k) \in Nat
    BY <1>2, TotalIsNat, WeightIsNat
  <2> QED
    BY <2>1
<1>3. \A j, k \in 0 .. K - 1 : fan[k] <= fan[j]
  OBVIOUS
<1> QED
  BY <1>1, <1>2, <1>3 DEF GoodShares

\* All to one place.
LEMMA OneShare ==
  ASSUME NEW K \in Nat, NEW B \in Nat, NEW fan, NEW p \in 0 .. K,
         \A k \in 0 .. K : fan[k] = IF k = p THEN B ELSE 0
  PROVE  (\A k \in 0 .. K : fan[k] \in Nat) /\ Sum(fan, 0 .. K) = B
<1> DEFINE S    == 0 .. K
           zero == [k \in S |-> 0]
<1>1. IsFiniteSet(S) /\ S \cap {p} = {p} /\ Cardinality({p}) = 1
  BY ExitPlaces, FS_Singleton
<1>2. \A k \in S : zero[k] = 0
  OBVIOUS
<1> HIDE DEF zero, S
<1>3. IntegersOn(zero, S) /\ Sum(zero, S) = 0
  BY <1>1, <1>2, SumIsZero DEF IntegersOn
<1>4. GrowsAt(fan, zero, {p}, B, S)
  BY <1>2 DEF GrowsAt, S
<1>5. Sum(fan, S) = Sum(zero, S) + B * Cardinality(S \cap {p})
  BY <1>1, <1>3, <1>4, SumCounts
<1>6. Sum(fan, S) = B
  BY <1>1, <1>3, <1>5
<1> QED
  BY <1>6 DEF S

\* The general case.
LEMMA CorrectedShares ==
  ASSUME NEW K \in Nat, NEW B \in Nat, B > 0, NEW rate \in RationalRates,
         rate.alpha # 0, rate.beta # 0
  PROVE  GoodShares(geometric_fan_out(K, B, rate), K, B, rate)
<1> DEFINE S   == 0 .. K
           t   == Total(K, rate)
           low == Rounded(K, B, rate)
           res == Residues(K, B, rate)
           d   == Missing(K, B, rate)
           F   == Adjusted(K, B, rate)
           fan == geometric_fan_out(K, B, rate)
           w(k) == Weight(K, rate, k)
<1>1. t \in Nat /\ t > 0 /\ IsFiniteSet(S) /\ S \in SUBSET Int
  BY TotalIsNat, ExitPlaces
<1>2. /\ low \in [S -> Nat] /\ IntegersOn(low, S) /\ d \in Int /\ IntegersOn(res, S)
      /\ \A k \in S : 2 * res[k] <= t
      /\ \A k \in S : -t <= 2 * res[k]
  BY RoundedFacts
<1>3. F = Firsts(S, res, d, Size(d)) /\ d = B - Sum(low, S)
  BY DEF Adjusted, Missing
<1>4. /\ Cardinality(F) = Size(d) /\ F \subseteq S
      /\ d > 0 => \A k \in F : res[k] > 0
      /\ d < 0 => \A k \in F : res[k] < 0
  BY AdjustedFacts
<1>5. \A k \in S : /\ w(k) \in Nat /\ res[k] = w(k) * B - low[k] * t
                   /\ low[k] = Round(w(k) * B, t)
  BY WeightIsNat DEF Residues, Rounded
<1>6. fan = Corrected(low, res, d)
  BY CorrectedIsSchedule
<1>7. \A j, k \in S : j < k /\ k < K => w(k) < w(j)
  <2>1. ASSUME NEW j \in S, NEW k \in S, j < k, k < K
        PROVE  w(k) < w(j)
    <3>1. j \in 0 .. K - 1 /\ k \in 0 .. K - 1
      BY <2>1
    <3> QED
      BY <2>1, <3>1, DeeperWeighsLess
  <2> QED
    BY <2>1
<1> HIDE DEF S, t, low, res, d, F, fan, w
<1>8. \A k \in S : low[k] \in Nat /\ res[k] \in Int
  BY <1>2 DEF IntegersOn
<1>9. d < 0 => \A k \in F : low[k] > 0
  <2> SUFFICES ASSUME d < 0, NEW k \in F
               PROVE  low[k] > 0
    OBVIOUS
  <2>1. res[k] < 0 /\ low[k] \in Nat /\ w(k) \in Nat /\ res[k] = w(k) * B - low[k] * t
    BY <1>4, <1>5, <1>8
  <2>2. w(k) * B \in Nat
    BY <2>1
  <2>3. low[k] # 0
    BY <1>1, <2>1, <2>2
  <2> QED
    BY <2>1, <2>3
<1>10. /\ \A k \in S : fan[k] \in Nat
       /\ \A k \in S : fan[k] = low[k] + IF k \in F THEN Sign(d) ELSE 0
  BY <1>2, <1>3, <1>6, <1>9, CorrectedFan
<1>11. Sum(fan, S) = B
  <2>1. Sign(d) \in Int /\ Sign(d) * Size(d) = d
    <3>1. Size(d) \in Nat /\ (d >= 0 => Size(d) = d) /\ (d <= 0 => Size(d) = -d)
      BY <1>2, SizeIsNat
    <3> QED
      BY <1>2, <3>1 DEF Sign
  <2>2. GrowsAt(fan, low, F, Sign(d), S)
    BY <1>10 DEF GrowsAt
  <2>3. Sum(fan, S) = Sum(low, S) + Sign(d) * Cardinality(S \cap F)
    BY <1>1, <1>2, <2>1, <2>2, SumCounts
  <2>4. S \cap F = F /\ Sum(low, S) \in Int
    BY <1>1, <1>2, <1>4, SumIsInt
  <2>5. Sum(fan, S) = Sum(low, S) + d
    BY <1>4, <2>1, <2>3, <2>4
  <2> QED
    BY <1>3, <2>4, <2>5
<1>12. ASSUME NEW k \in S
       PROVE  fan[k] * t - w(k) * B < t /\ -(fan[k] * t - w(k) * B) < t
  <2> DEFINE n == w(k) * B
             l == low[k] * t
             f == fan[k] * t
  <2>1. /\ n \in Int /\ l \in Int /\ f \in Int /\ res[k] \in Int
        /\ res[k] = n - l /\ 2 * res[k] <= t /\ -t <= 2 * res[k]
    BY <1>1, <1>2, <1>5, <1>8, <1>10
  <2>2. f = l \/ (f = l + t /\ res[k] > 0) \/ (f = l - t /\ res[k] < 0)
    <3>1. low[k] \in Nat /\ t \in Nat
      BY <1>1, <1>8
    <3>2. CASE k \in F /\ d > 0
      <4>1. fan[k] = low[k] + 1 /\ res[k] > 0
        BY <1>2, <1>4, <1>10, <3>2 DEF Sign
      <4>2. (low[k] + 1) * t = low[k] * t + t
        BY <3>1
      <4> QED
        BY <4>1, <4>2
    <3>3. CASE k \in F /\ d < 0
      <4>1. fan[k] = low[k] + (-1) /\ res[k] < 0
        BY <1>2, <1>4, <1>10, <3>3 DEF Sign
      <4>2. (low[k] + (-1)) * t = low[k] * t - t
        BY <3>1
      <4> QED
        BY <4>1, <4>2
    <3>4. CASE ~(k \in F /\ d > 0) /\ ~(k \in F /\ d < 0)
      <4>1. fan[k] = low[k]
        BY <1>2, <1>10, <3>1, <3>4 DEF Sign
      <4> QED
        BY <4>1
    <3> QED
      BY <3>2, <3>3, <3>4
  <2> HIDE DEF n, l, f
  <2>3. f - n < t /\ -(f - n) < t
    BY <1>1, <2>1, <2>2
  <2> QED
    BY <2>3 DEF f, n
<1>13. ASSUME NEW j \in S, NEW k \in S, j <= k, k < K
       PROVE  fan[k] <= fan[j]
  <2>1. /\ j \in Int /\ k \in Int /\ low[j] \in Nat /\ low[k] \in Nat /\ w(j) \in Nat /\ w(k) \in Nat
        /\ fan[j] = low[j] + (IF j \in F THEN Sign(d) ELSE 0)
        /\ fan[k] = low[k] + (IF k \in F THEN Sign(d) ELSE 0)
        /\ Sign(d) \in {-1, 0, 1} /\ fan[j] \in Nat /\ fan[k] \in Nat
    BY <1>1, <1>5, <1>8, <1>10 DEF Sign
  <2>2. CASE j = k
    BY <2>1, <2>2
  <2>3. CASE j # k
    <3>1. j < k /\ w(k) < w(j)
      BY <1>7, <1>13, <2>1, <2>3
    <3>2. w(k) * B \in Int /\ w(j) * B \in Int /\ w(k) * B < w(j) * B
      <4>1. w(j) * B >= w(k) * B + B
        BY <2>1, <3>1, FartherProduct
      <4> QED
        BY <2>1, <4>1
    <3>3. low[k] <= low[j]
      <4> DEFINE m == w(k) * B
                 n == w(j) * B
      <4>1. m \in Int /\ n \in Int /\ m <= n /\ low[k] = Round(m, t) /\ low[j] = Round(n, t)
        BY <1>5, <3>2
      <4> HIDE DEF m, n
      <4> QED
        BY <1>1, <4>1, RoundIsMonotone
    <3>4. CASE low[k] # low[j]
      BY <2>1, <3>3, <3>4
    <3>5. CASE low[k] = low[j]
      <4>1. res[k] < res[j]
        <5>1. low[k] * t = low[j] * t /\ low[k] * t \in Int
          BY <1>1, <2>1, <3>5
        <5> QED
          BY <1>5, <3>2, <5>1
      <4>2. (k \in F => j \in F) \/ d <= 0
        <5> SUFFICES ASSUME d > 0, k \in F
                     PROVE  j \in F
          BY <1>2
        <5>1. Precedes(res, d, j, k)
          BY <1>8, <4>1 DEF Precedes
        <5>2. Size(d) \in Nat
          BY <1>2, SizeIsNat
        <5> QED
          BY <1>1, <1>2, <1>3, <5>1, <5>2, FirstsBefore
      <4>3. (j \in F => k \in F) \/ d >= 0
        <5> SUFFICES ASSUME d < 0, j \in F
                     PROVE  k \in F
          BY <1>2
        <5>1. Precedes(res, d, k, j)
          BY <1>2, <1>8, <4>1 DEF Precedes
        <5>2. Size(d) \in Nat
          BY <1>2, SizeIsNat
        <5> QED
          BY <1>1, <1>2, <1>3, <5>1, <5>2, FirstsBefore
      <4> QED
        BY <1>2, <2>1, <3>5, <4>2, <4>3 DEF Sign
    <3> QED
      BY <3>4, <3>5
  <2> QED
    BY <2>2, <2>3
<1>14. \A j, k \in 0 .. K - 1 : j <= k => fan[k] <= fan[j]
  <2>1. ASSUME NEW j \in 0 .. K - 1, NEW k \in 0 .. K - 1, j <= k
        PROVE  fan[k] <= fan[j]
    <3>1. j \in S /\ k \in S /\ k < K
      BY DEF S
    <3> QED
      BY <1>13, <2>1, <3>1
  <2> QED
    BY <2>1
<1> QED
  BY <1>10, <1>11, <1>12, <1>14 DEF GoodShares, S, t, fan, w

LEMMA SomeRate ==
  ASSUME NEW rate \in RationalRates, rate.alpha = 0
  PROVE  rate.beta # 0
<1>1. rate.den \in Nat /\ rate.den > 0 /\ rate.alpha * rate.alpha + rate.beta * rate.beta = rate.den * rate.den
  BY DEF RationalRates
<1>2. rate.den * rate.den > 0
  BY <1>1, ProductIsNat
<1> QED
  BY <1>1, <1>2

\* Every geometric schedule is good: its general case, and the three where it
\* gives nothing, or all to the first or to the last place.
LEMMA GeometricShares ==
  ASSUME NEW K \in Nat, NEW B \in Nat, NEW rate \in RationalRates
  PROVE  GoodShares(geometric_fan_out(K, B, rate), K, B, rate)
<1> DEFINE fan == geometric_fan_out(K, B, rate)
<1>1. CASE B = 0
  <2>1. B <= 0 /\ ~(B > 0)
    BY <1>1
  <2>2. fan = [k \in 0 .. K |-> 0]
    BY <2>1 DEF geometric_fan_out
  <2>3. \A k \in 0 .. K : fan[k] = 0
    BY <2>2
  <2> QED
    BY <1>1, <2>3, NoShares
<1>2. CASE B > 0 /\ rate.alpha = 0
  <2>1. ~(B <= 0) /\ rate.beta # 0
    BY <1>2, SomeRate
  <2>2. fan = [k \in 0 .. K |-> IF k = 0 THEN B ELSE 0]
    BY <1>2, <2>1 DEF geometric_fan_out
  <2>3. \A k \in 0 .. K : fan[k] = IF k = 0 THEN B ELSE 0
    BY <2>2
  <2> HIDE DEF fan
  <2>4. 0 \in 0 .. K
    OBVIOUS
  <2>5. (\A k \in 0 .. K : fan[k] \in Nat) /\ Sum(fan, 0 .. K) = B
    BY <2>3, <2>4, OneShare
  <2>6. \A j, k \in 0 .. K - 1 : j <= k => fan[k] <= fan[j]
    <3>1. ASSUME NEW j \in 0 .. K - 1, NEW k \in 0 .. K - 1, j <= k
          PROVE  fan[k] <= fan[j]
      <4>1. j \in 0 .. K /\ k \in 0 .. K /\ (k = 0 => j = 0)
        BY <3>1
      <4>2. fan[j] = (IF j = 0 THEN B ELSE 0) /\ fan[k] = IF k = 0 THEN B ELSE 0
        BY <2>3, <4>1
      <4> QED
        BY <4>1, <4>2
    <3> QED
      BY <3>1
  <2> QED
    BY <1>2, <2>5, <2>6 DEF GoodShares, fan
<1>3. CASE B > 0 /\ rate.alpha # 0 /\ rate.beta = 0
  <2>1. ~(B <= 0)
    BY <1>3
  <2>2. fan = [k \in 0 .. K |-> IF k = K THEN B ELSE 0]
    BY <1>3, <2>1 DEF geometric_fan_out
  <2>3. \A k \in 0 .. K : fan[k] = IF k = K THEN B ELSE 0
    BY <2>2
  <2> HIDE DEF fan
  <2>4. K \in 0 .. K
    OBVIOUS
  <2>5. (\A k \in 0 .. K : fan[k] \in Nat) /\ Sum(fan, 0 .. K) = B
    BY <2>3, <2>4, OneShare
  <2> QED
    BY <1>3, <2>5 DEF GoodShares, fan
<1>4. CASE B > 0 /\ rate.alpha # 0 /\ rate.beta # 0
  BY <1>4, CorrectedShares
<1> QED
  BY <1>1, <1>2, <1>3, <1>4

\* The uniform schedule gives everything, and to no place two more than to another.
LEMMA UniformShares ==
  ASSUME NEW K \in Nat, NEW B \in Nat
  PROVE  /\ Sum(uniform_fan_out(K, B), 0 .. K) = B
         /\ \A j, k \in 0 .. K : uniform_fan_out(K, B)[j] - uniform_fan_out(K, B)[k] <= 1
<1> DEFINE S    == 0 .. K
           n    == K + 1
           q    == B \div n
           r    == B % n
           fan  == uniform_fan_out(K, B)
           zero == [k \in S |-> 0]
           even == [k \in S |-> q]
           rest == 0 .. r - 1
<1>1. n \in Nat /\ n > 0 /\ IsFiniteSet(S) /\ Cardinality(S) = n
  BY ExitPlaces
<1>2. q \in Int /\ r \in Int /\ 0 <= r /\ r < n /\ B = n * q + r
  <2> HIDE DEF n
  <2> QED
    BY <1>1, Division
<1>3. \A k \in S : fan[k] = q + IF k < r THEN 1 ELSE 0
  BY DEF uniform_fan_out
<1>4. /\ \A k \in S : zero[k] = 0
      /\ \A k \in S : even[k] = q
  OBVIOUS
<1>5. \A k \in S : k \in Nat /\ (k < r <=> k \in rest)
  BY <1>2
<1>6. S \cap rest = rest /\ Cardinality(rest) = r
  <2>1. r - 1 \in Int /\ 0 \in Int
    BY <1>2
  <2>2. Cardinality(rest) = IF 0 > r - 1 THEN 0 ELSE (r - 1) - 0 + 1
    BY <2>1, FS_Interval
  <2>3. rest \subseteq S
    BY <1>2
  <2> HIDE DEF S, n, q, r, rest
  <2>4. S \cap rest = rest
    BY <2>3
  <2>5. Cardinality(rest) = r
    BY <1>2, <2>2
  <2> QED
    BY <2>4, <2>5
<1> HIDE DEF S, n, q, r, fan, zero, even, rest
<1>7. Sum(even, S) = n * q /\ IntegersOn(even, S)
  <2>1. IntegersOn(zero, S) /\ Sum(zero, S) = 0
    BY <1>1, <1>4, SumIsZero DEF IntegersOn
  <2>2. GrowsAt(even, zero, S, q, S)
    BY <1>2, <1>4 DEF GrowsAt
  <2>3. Sum(even, S) = Sum(zero, S) + q * Cardinality(S \cap S)
    BY <1>1, <1>2, <2>1, <2>2, SumCounts
  <2>4. S \cap S = S
    OBVIOUS
  <2>5. Sum(even, S) = 0 + q * n
    BY <1>1, <2>1, <2>3, <2>4
  <2>6. Sum(even, S) = n * q
    BY <1>1, <1>2, <2>5
  <2>7. IntegersOn(even, S)
    BY <1>2, <1>4 DEF IntegersOn
  <2> QED
    BY <2>6, <2>7
<1>8. Sum(fan, S) = B
  <2>1. GrowsAt(fan, even, rest, 1, S)
    BY <1>3, <1>4, <1>5 DEF GrowsAt
  <2>2. 1 \in Int
    OBVIOUS
  <2>3. Sum(fan, S) = Sum(even, S) + 1 * Cardinality(S \cap rest)
    BY <1>1, <1>7, <2>1, <2>2, SumCounts
  <2>4. Sum(fan, S) = n * q + 1 * r
    BY <1>6, <1>7, <2>3
  <2>5. n * q \in Int
    BY <1>1, <1>2
  <2> QED
    BY <1>2, <2>4, <2>5
<1>9. \A j, k \in S : fan[j] - fan[k] <= 1
  BY <1>2, <1>3
<1> QED
  BY <1>8, <1>9 DEF S, fan

(***************************************************************************)
(* The theorems.                                                           *)
(***************************************************************************)

\* The schedules by which Saguaro shares its guesses are fair, for any number of
\* exits, any budget and any rational rate: they give away the budget exactly,
\* are within a guess of every place's exact share, and do not rise with depth.
THEOREM SchedulesAreFair ==
  \A K, B \in Nat, rate \in RationalRates : FairSchedule(K, B, rate)
<1> SUFFICES ASSUME NEW K \in Nat, NEW B \in Nat, NEW rate \in RationalRates
             PROVE  FairSchedule(K, B, rate)
  OBVIOUS
<1> DEFINE fan == geometric_fan_out(K, B, rate)
           even == uniform_fan_out(K, B)
<1>1. GoodShares(fan, K, B, rate)
  BY GeometricShares
<1>2. /\ Sum(even, 0 .. K) = B
      /\ \A j, k \in 0 .. K : even[j] - even[k] <= 1
  BY UniformShares
<1>3. /\ MapThenSumSet(LAMBDA k : fan[k], 0 .. K) = B
      /\ MapThenSumSet(LAMBDA k : even[k], 0 .. K) = B
  BY <1>1, <1>2 DEF GoodShares, Sum
<1>4. \A k \in 0 .. K : fan[k] >= 0
  BY <1>1 DEF GoodShares
<1>5. rate.alpha # 0 /\ rate.beta # 0 =>
        \A k \in 0 .. K : /\ fan[k] * Total(K, rate) - Weight(K, rate, k) * B < Total(K, rate)
                          /\ -(fan[k] * Total(K, rate) - Weight(K, rate, k) * B) < Total(K, rate)
  BY <1>1 DEF GoodShares
<1>6. rate.beta # 0 => \A j, k \in 0 .. K - 1 : j <= k => fan[k] <= fan[j]
  BY <1>1 DEF GoodShares
<1> QED
  BY <1>2, <1>3, <1>4, <1>5, <1>6 DEF FairSchedule
=============================================================================
