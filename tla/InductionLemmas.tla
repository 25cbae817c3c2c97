--------------------------- MODULE InductionLemmas ---------------------------
(***************************************************************************)
(* Induction over the natural numbers, stated of a set instead of a        *)
(* predicate, and what follows from it: for sorted sequences, for the      *)
(* concatenation of a sequence of sequences, for functions defined step by *)
(* step, and for sums over finite sets, which the community modules define *)
(* by folds.  The other proof modules use them.                            *)
(***************************************************************************)
EXTENDS Integers, Sequences, FiniteSets, FiniteSetsExt, SequencesExt, SortedSets, WellFoundedInduction, FiniteSetTheorems, TLAPS

\* Every set of natural numbers that is not empty has a least element.
LEMMA LeastNat ==
  ASSUME NEW S, S \subseteq Nat, S # {}
  PROVE  \E x \in S : \A y \in S : x <= y
<1>. DEFINE R == OpToRel(<, Nat)
<1>1. PICK x \in S : \A y \in S : ~(<<y, x>> \in R)
  BY NatLessThanWellFounded, WFMin
<1>2. \A a, b \in Nat : a < b => <<a, b>> \in R
  BY DEF OpToRel
<1>. HIDE DEF R
<1>3. ASSUME NEW y \in S PROVE x <= y
  <2>1. y \in Nat /\ x \in Nat
    OBVIOUS
  <2>2. ~(y < x)
    BY <1>1, <1>2, <2>1
  <2>. QED
    BY <2>1, <2>2
<1>. QED
  BY <1>3

\* A set that holds 0 and with each number its successor holds all numbers.
LEMMA NatSetInduction ==
  ASSUME NEW T, 0 \in T, \A n \in Nat : n \in T => n + 1 \in T
  PROVE  \A n \in Nat : n \in T
<1>. DEFINE S == {n \in Nat : n \notin T}
<1>1. SUFFICES ASSUME S # {} PROVE FALSE
  OBVIOUS
<1>2. PICK x \in S : \A y \in S : x <= y
  BY <1>1, LeastNat
<1>3. x \in Nat \ {0} /\ x \notin T
  OBVIOUS
<1>4. x - 1 \in Nat /\ x - 1 \notin S
  BY <1>2, <1>3
<1>5. (x - 1) + 1 \in T
  BY <1>4
<1>. QED
  BY <1>3, <1>5

\* A finite set of numbers, not empty, has a greatest element.
LEMMA GreatestInt ==
  ASSUME NEW S, S \subseteq Int, S # {}, IsFiniteSet(S)
  PROVE  \E x \in S : \A y \in S : x >= y
<1>. DEFINE Has(U) == \E x \in U : \A y \in U : x >= y
            T == {n \in Nat : \A U \in SUBSET Int :
                                  IsFiniteSet(U) /\ Cardinality(U) = n + 1 => Has(U)}
<1>1. 0 \in T
  <2>1. SUFFICES ASSUME NEW U \in SUBSET Int, IsFiniteSet(U), Cardinality(U) = 1
                 PROVE  Has(U)
    OBVIOUS
  <2>2. PICK x : U = {x}
    BY <2>1, FS_Singleton
  <2>. QED
    BY <2>2
<1>2. ASSUME NEW n \in Nat, n \in T PROVE n + 1 \in T
  <2>1. SUFFICES ASSUME NEW U \in SUBSET Int, IsFiniteSet(U), Cardinality(U) = n + 2
                 PROVE  Has(U)
    OBVIOUS
  <2>2. PICK a \in U : TRUE
    <3>1. U # {}
      BY <2>1, FS_EmptySet
    <3>. QED
      BY <3>1
  <2>3. IsFiniteSet(U \ {a}) /\ Cardinality(U \ {a}) = n + 1
    BY <2>1, FS_RemoveElement
  <2>4. PICK x \in U \ {a} : \A y \in U \ {a} : x >= y
    BY <1>2, <2>3
  <2>5. CASE x >= a
    BY <2>4, <2>5
  <2>6. CASE ~(x >= a)
    <3>1. a \in Int /\ x \in Int
      OBVIOUS
    <3>2. ASSUME NEW y \in U PROVE a >= y
      BY <2>4, <2>6, <3>1
    <3>. QED
      BY <3>2
  <2>. QED
    BY <2>5, <2>6
<1>. HIDE DEF T
<1>3. \A n \in Nat : n \in T
  BY <1>1, <1>2, NatSetInduction
<1>4. Cardinality(S) \in Nat \ {0}
  BY FS_CardinalityType, FS_EmptySet
<1>5. Cardinality(S) - 1 \in T
  BY <1>3, <1>4
<1>. QED
  BY <1>4, <1>5 DEF T

\* A sequence whose elements increase.
Increasing(s) == \A i, j \in DOMAIN s : i < j => s[i] < s[j]

\* A finite set of numbers can be listed in increasing order.
LEMMA IncreasingExists ==
  ASSUME NEW S, S \subseteq Nat, IsFiniteSet(S)
  PROVE  \E s \in [1 .. Cardinality(S) -> S] : Increasing(s)
<1>. DEFINE T == {n \in Nat : \A U \in SUBSET Nat :
                      IsFiniteSet(U) /\ Cardinality(U) = n =>
                          \E s \in [1 .. n -> U] : Increasing(s)}
<1>1. 0 \in T
  <2>1. SUFFICES ASSUME NEW U \in SUBSET Nat PROVE \E s \in [1 .. 0 -> U] : Increasing(s)
    OBVIOUS
  <2>2. 1 .. 0 = {}
    OBVIOUS
  <2>3. [i \in 1 .. 0 |-> 0] \in [1 .. 0 -> U]
    BY <2>2
  <2>4. Increasing([i \in 1 .. 0 |-> 0])
    BY <2>2 DEF Increasing
  <2>. QED
    BY <2>3, <2>4
<1>2. ASSUME NEW n \in Nat, n \in T PROVE n + 1 \in T
  <2>1. SUFFICES ASSUME NEW U \in SUBSET Nat, IsFiniteSet(U), Cardinality(U) = n + 1
                 PROVE  \E s \in [1 .. n + 1 -> U] : Increasing(s)
    OBVIOUS
  <2>2. PICK x \in U : \A y \in U : x <= y
    <3>1. U # {}
      BY <2>1, FS_EmptySet
    <3>. QED
      BY <3>1, LeastNat
  <2>3. IsFiniteSet(U \ {x}) /\ Cardinality(U \ {x}) = n
    <3>1. IsFiniteSet(U \ {x}) /\ Cardinality(U \ {x}) = Cardinality(U) - 1
      BY <2>1, FS_RemoveElement
    <3>. QED
      BY <2>1, <3>1
  <2>4. PICK s \in [1 .. n -> U \ {x}] : Increasing(s)
    BY <1>2, <2>3
  <2>. DEFINE w == [i \in 1 .. n + 1 |-> IF i = 1 THEN x ELSE s[i - 1]]
  <2>5. \A i \in 1 .. n + 1 : i # 1 => i - 1 \in 1 .. n
    OBVIOUS
  <2>6. w \in [1 .. n + 1 -> U]
    BY <2>5
  <2>7. ASSUME NEW i \in 1 .. n + 1, NEW j \in 1 .. n + 1, i < j PROVE w[i] < w[j]
    <3>1. j # 1 /\ j - 1 \in 1 .. n /\ s[j - 1] \in U \ {x} /\ w[j] = s[j - 1]
      BY <2>5, <2>7
    <3>2. CASE i = 1
      <4>1. x <= s[j - 1] /\ x # s[j - 1] /\ x \in Nat /\ s[j - 1] \in Nat
        BY <2>2, <3>1
      <4>. QED
        BY <3>1, <3>2, <4>1
    <3>3. CASE i # 1
      <4>1. i - 1 \in 1 .. n /\ i - 1 < j - 1 /\ w[i] = s[i - 1]
        BY <2>5, <2>7, <3>3
      <4>. QED
        BY <2>4, <3>1, <4>1 DEF Increasing
    <3>. QED
      BY <3>2, <3>3
  <2>8. Increasing(w)
    BY <2>6, <2>7 DEF Increasing
  <2>. QED
    BY <2>6, <2>8
<1>. HIDE DEF T
<1>3. \A n \in Nat : n \in T
  BY <1>1, <1>2, NatSetInduction
<1>4. Cardinality(S) \in Nat
  BY FS_CardinalityType
<1>. QED
  BY <1>3, <1>4 DEF T

\* An increasing list of as many elements as the set has holds them all.
LEMMA IncreasingIsOnto ==
  ASSUME NEW S, S \subseteq Nat, IsFiniteSet(S),
         NEW s \in [1 .. Cardinality(S) -> S], Increasing(s)
  PROVE  \A x \in S : \E i \in 1 .. Cardinality(S) : s[i] = x
<1>. DEFINE D == 1 .. Cardinality(S)
<1>1. Cardinality(S) \in Nat
  BY FS_CardinalityType
<1>2. IsFiniteSet(D) /\ Cardinality(D) = Cardinality(S)
  BY <1>1, FS_Interval
<1>3. ASSUME NEW i \in D, NEW j \in D, s[i] = s[j] PROVE i = j
  <2>1. s[i] \in Nat /\ s[j] \in Nat /\ i \in Int /\ j \in Int
    <3>1. s[i] \in S /\ s[j] \in S
      OBVIOUS
    <3>2. i \in Int /\ j \in Int
      BY <1>1
    <3>. HIDE DEF D
    <3>. QED
      BY <3>1, <3>2
  <2>2. ~(i < j) /\ ~(j < i)
    BY <1>3, <2>1 DEF Increasing
  <2>. QED
    BY <2>1, <2>2
<1>4. s \in Injection(D, S)
  BY <1>3 DEF Injection, IsInjective
<1>5. s \in Surjection(D, S)
  BY <1>2, <1>4, FS_Injection
<1>. QED
  BY <1>5 DEF Surjection

\* Ascending lists a finite set in increasing order, each element once.
LEMMA AscendingLists ==
  ASSUME NEW S, S \subseteq Nat, IsFiniteSet(S), NEW T, S \subseteq T
  PROVE  /\ Ascending(S) \in Seq(T)
         /\ Len(Ascending(S)) = Cardinality(S)
         /\ \A i, j \in 1 .. Len(Ascending(S)) :
                i < j => Ascending(S)[i] < Ascending(S)[j]
         /\ \A i \in 1 .. Len(Ascending(S)) : Ascending(S)[i] \in S
         /\ \A c \in S : \E i \in 1 .. Len(Ascending(S)) : Ascending(S)[i] = c
<1>. DEFINE n == Cardinality(S)
            Sorted(s) == \A i, j \in 1 .. n : i < j => s[i] < s[j]
<1>1. n \in Nat
  BY FS_CardinalityType
<1>2. \E s \in [1 .. n -> S] : Sorted(s)
  <2>1. PICK s \in [1 .. n -> S] : Increasing(s)
    BY IncreasingExists
  <2>2. Sorted(s)
    BY <2>1 DEF Increasing
  <2>. QED
    BY <2>2
<1>3. Ascending(S) \in [1 .. n -> S] /\ Sorted(Ascending(S))
  BY <1>2 DEF Ascending
<1>4. Ascending(S) \in Seq(T) /\ Len(Ascending(S)) = n
  <2>1. Ascending(S) \in [1 .. n -> T]
    BY <1>3
  <2>. QED
    BY <1>1, <2>1
<1>5. Increasing(Ascending(S))
  BY <1>3 DEF Increasing
<1>6. \A c \in S : \E i \in 1 .. Cardinality(S) : Ascending(S)[i] = c
  BY <1>3, <1>5, IncreasingIsOnto
<1>. QED
  BY <1>3, <1>4, <1>6

\* The least of a set of numbers.
LEMMA MinIs ==
  ASSUME NEW S, S \subseteq Nat, S # {}
  PROVE  Min(S) \in S /\ \A y \in S : Min(S) <= y
<1>1. \E x \in S : \A y \in S : x <= y
  BY LeastNat
<1>. QED
  BY <1>1 DEF Min

\* The lesser and the greater of two numbers.
LEMMA MinMaxOfTwo ==
  ASSUME NEW a \in Int, NEW b \in Int
  PROVE  /\ Min({a, b}) = IF a <= b THEN a ELSE b
         /\ Max({a, b}) = IF a >= b THEN a ELSE b
<1>1. Min({a, b}) \in {a, b} /\ \A y \in {a, b} : Min({a, b}) <= y
  <2>1. \E x \in {a, b} : \A y \in {a, b} : x <= y
    BY a <= b \/ b <= a
  <2>. QED
    BY <2>1 DEF Min
<1>2. Max({a, b}) \in {a, b} /\ \A y \in {a, b} : Max({a, b}) >= y
  <2>1. \E x \in {a, b} : \A y \in {a, b} : x >= y
    BY a <= b \/ b <= a
  <2>. QED
    BY <2>1 DEF Max
<1>. QED
  BY <1>1, <1>2

\* A function on the first numbers is a sequence.
LEMMA FunctionIsSeq ==
    ASSUME NEW R, NEW n \in Nat, NEW f \in [1 .. n -> R]
    PROVE  f \in Seq(R) /\ Len(f) = n /\ DOMAIN f = 1 .. n
OBVIOUS

\* A sequence that is not empty has a first element.
LEMMA NotEmpty ==
    ASSUME NEW R, NEW q \in Seq(R), q # <<>>
    PROVE  Len(q) \in Nat \ {0} /\ q[1] \in R
OBVIOUS

\* What holds of the first of some sequences, and goes on to hold when the next
\* is appended, holds of all of them joined; R has the number of sequences joined
\* with the result.
LEMMA FlattenInduction ==
    ASSUME NEW s, Len(s) \in Nat \ {0}, NEW R, <<1, s[1]>> \in R,
           \A i \in 1 .. Len(s) - 1 : \A q : <<i, q>> \in R => <<i + 1, q \o s[i + 1]>> \in R
    PROVE  <<Len(s), FlattenSeq(s)>> \in R
<1> DEFINE n == Len(s)
           Joined(m, g) == g = [i \in 1 .. m |-> IF i = 1 THEN s[i] ELSE g[i - 1] \o s[i]]
           T == {m \in Nat : \E g : Joined(m, g)}
           flatten == CHOOSE g : Joined(n, g)
<1>1. n \in T
  <2>1. 0 \in T
    <3>1. Joined(0, <<>>)
      OBVIOUS
    <3> QED
      BY <3>1
  <2>2. ASSUME NEW m \in Nat, m \in T
        PROVE  m + 1 \in T
    <3>1. PICK g : Joined(m, g)
      BY <2>2
    <3> DEFINE last == IF m + 1 = 1 THEN s[m + 1] ELSE g[m] \o s[m + 1]
               h == [i \in 1 .. m + 1 |-> IF i = m + 1 THEN last ELSE g[i]]
    <3>2. \A i \in 1 .. m : g[i] = IF i = 1 THEN s[i] ELSE g[i - 1] \o s[i]
      BY <3>1
    <3> HIDE DEF last
    <3>3. h[m + 1] = last /\ \A i \in 1 .. m : h[i] = g[i]
      OBVIOUS
    <3>4. \A i \in 1 .. m + 1 : h[i] = IF i = 1 THEN s[i] ELSE h[i - 1] \o s[i]
      <4> SUFFICES ASSUME NEW i \in 1 .. m + 1
                   PROVE  h[i] = IF i = 1 THEN s[i] ELSE h[i - 1] \o s[i]
        OBVIOUS
      <4> HIDE DEF h
      <4>1. CASE i = m + 1
        BY <3>3, <4>1 DEF last
      <4>2. CASE i # m + 1
        <5>1. i \in 1 .. m /\ (i # 1 => i - 1 \in 1 .. m)
          BY <4>2
        <5> QED
          BY <3>2, <3>3, <5>1
      <4> QED
        BY <4>1, <4>2
    <3>5. Joined(m + 1, h)
      BY <3>4
    <3> HIDE DEF h, Joined
    <3> QED
      BY <3>5
  <2> HIDE DEF T
  <2>3. \A m \in Nat : m \in T
    BY <2>1, <2>2, NatSetInduction, SMTT(30)
  <2> QED
    BY <2>3
<1>2. Joined(n, flatten)
  BY <1>1
<1>3. FlattenSeq(s) = flatten[n]
  BY DEF FlattenSeq
<1> HIDE DEF flatten
<1>4. \A i \in 1 .. n : flatten[i] = IF i = 1 THEN s[i] ELSE flatten[i - 1] \o s[i]
  BY <1>2
<1> DEFINE U == {m \in Nat : m \in 1 .. n => <<m, flatten[m]>> \in R}
<1>5. n \in U
  <2>1. 0 \in U
    OBVIOUS
  <2>2. ASSUME NEW m \in Nat, m \in U
        PROVE  m + 1 \in U
    <3> SUFFICES ASSUME m + 1 \in 1 .. n
                 PROVE  <<m + 1, flatten[m + 1]>> \in R
      OBVIOUS
    <3>1. CASE m = 0
      BY <1>4, <3>1
    <3>2. CASE m # 0
      <4>1. m \in 1 .. n /\ m \in 1 .. n - 1 /\ (m + 1) - 1 = m /\ m + 1 # 1
        BY <3>2
      <4>3. flatten[m + 1] = flatten[m] \o s[m + 1]
        BY <1>4, <4>1
      <4>2. <<m, flatten[m]>> \in R
        BY <2>2, <4>1
      <4> QED
        BY <4>1, <4>2, <4>3
    <3> QED
      BY <3>1, <3>2
  <2> HIDE DEF U
  <2>3. \A m \in Nat : m \in U
    BY <2>1, <2>2, NatSetInduction
  <2> QED
    BY <2>3
<1> QED
  BY <1>3, <1>5

\* A step that is repeated from a first element on gives a sequence without end.
LEMMA Iteration ==
    ASSUME NEW S, NEW first \in S, NEW step \in [S -> S]
    PROVE  \E f \in [Nat -> S] : f[0] = first /\ \A n \in Nat : f[n + 1] = step[f[n]]
<1> DEFINE Begun(m, g) == /\ g \in [0 .. m -> S] /\ g[0] = first
                          /\ \A n \in 0 .. m : n # m => g[n + 1] = step[g[n]]
           T == {m \in Nat : \E g : Begun(m, g)}
<1>1. \A m \in Nat : m \in T
  <2>1. 0 \in T
    <3>1. Begun(0, [n \in 0 .. 0 |-> first])
      OBVIOUS
    <3> QED
      BY <3>1
  <2>2. ASSUME NEW m \in Nat, m \in T
        PROVE  m + 1 \in T
    <3>1. PICK g : Begun(m, g)
      BY <2>2
    <3> DEFINE h == [n \in 0 .. m + 1 |-> IF n = m + 1 THEN step[g[m]] ELSE g[n]]
    <3>2. m \in 0 .. m /\ 0 \in 0 .. m /\ m + 1 # 0
      OBVIOUS
    <3>3. h \in [0 .. m + 1 -> S]
      <4> SUFFICES ASSUME NEW n \in 0 .. m + 1
                   PROVE  (IF n = m + 1 THEN step[g[m]] ELSE g[n]) \in S
        OBVIOUS
      <4>1. n # m + 1 => n \in 0 .. m
        OBVIOUS
      <4> QED
        BY <3>1, <3>2, <4>1
    <3>4. h[m + 1] = step[g[m]] /\ \A n \in 0 .. m : h[n] = g[n]
      OBVIOUS
    <3> HIDE DEF h
    <3>5. ASSUME NEW n \in 0 .. m + 1, n # m + 1
          PROVE  h[n + 1] = step[h[n]]
      <4>1. n \in 0 .. m /\ (n # m => n + 1 \in 0 .. m)
        BY <3>5
      <4> QED
        BY <3>1, <3>4, <4>1
    <3>6. Begun(m + 1, h)
      BY <3>1, <3>2, <3>3, <3>4, <3>5
    <3> HIDE DEF Begun, h
    <3> QED
      BY <3>6
  <2> HIDE DEF T
  <2> QED
    BY <2>1, <2>2, NatSetInduction
<1> DEFINE part(m) == CHOOSE g : Begun(m, g)
           f == [n \in Nat |-> part(n)[n]]
<1>2. \A m \in Nat : Begun(m, part(m))
  BY <1>1
<1> HIDE DEF T, part
<1>3. ASSUME NEW m \in Nat
      PROVE  part(m + 1)[m] = part(m)[m]
  <2> DEFINE g == part(m)
             h == part(m + 1)
             U == {n \in Nat : n \in 0 .. m => h[n] = g[n]}
  <2>1. Begun(m, g) /\ Begun(m + 1, h)
    BY <1>2
  <2> HIDE DEF g, h
  <2>2. 0 \in U
    BY <2>1
  <2>3. ASSUME NEW n \in Nat, n \in U
        PROVE  n + 1 \in U
    <3> SUFFICES ASSUME n + 1 \in 0 .. m
                 PROVE  h[n + 1] = g[n + 1]
      OBVIOUS
    <3>1. n \in 0 .. m /\ n # m /\ n \in 0 .. m + 1 /\ n # m + 1
      OBVIOUS
    <3> QED
      BY <2>1, <2>3, <3>1
  <2> HIDE DEF U
  <2>4. m \in U
    BY <2>2, <2>3, NatSetInduction
  <2> QED
    BY <2>4 DEF U, g, h
<1>4. f \in [Nat -> S] /\ f[0] = first
  <2>1. \A n \in Nat : n \in 0 .. n /\ part(n)[n] \in S
    BY <1>2
  <2>2. part(0)[0] = first
    BY <1>2
  <2> QED
    BY <2>1, <2>2
<1>5. ASSUME NEW n \in Nat
      PROVE  f[n + 1] = step[f[n]]
  <2>1. n \in 0 .. n + 1 /\ n # n + 1 /\ n + 1 \in Nat
    OBVIOUS
  <2>2. part(n + 1)[n + 1] = step[part(n + 1)[n]]
    BY <1>2, <2>1
  <2>3. f[n] = part(n)[n] /\ f[n + 1] = part(n + 1)[n + 1]
    BY <2>1
  <2> QED
    BY <1>3, <2>2, <2>3
<1> QED
  BY <1>4, <1>5

-----------------------------------------------------------------------------
(* Sums over finite sets (SumFunctionOnSet).                               *)

\* The recursion behind a sum: each set is what one of its elements adds to the
\* rest.
SumFold(f, S, g) ==
    g = [s \in SUBSET S |->
            IF s = {} THEN 0 ELSE LET x == CHOOSE x \in s : TRUE IN f[x] + g[s \ {x}]]

LEMMA FoldExists ==
    ASSUME NEW f, NEW S, IsFiniteSet(S)
    PROVE  \E g : SumFold(f, S, g)
<1> DEFINE Layer(n) == {s \in SUBSET S : Cardinality(s) <= n}
           Body(g, s) == IF s = {} THEN 0 ELSE LET x == CHOOSE x \in s : TRUE IN f[x] + g[s \ {x}]
           T == {n \in Nat : \E g : g = [s \in Layer(n) |-> Body(g, s)]}
<1>1. \A s \in SUBSET S : IsFiniteSet(s) /\ Cardinality(s) \in Nat
  BY FS_Subset, FS_CardinalityType
<1>2. ASSUME NEW s \in SUBSET S, s # {}
      PROVE  /\ (CHOOSE x \in s : TRUE) \in s
             /\ \A x \in s : s \ {x} \in SUBSET S /\ Cardinality(s \ {x}) = Cardinality(s) - 1
  BY <1>1, <1>2, FS_RemoveElement
<1>3. 0 \in T
  <2>1. ASSUME NEW s \in Layer(0)
        PROVE  s = {}
    <3>1. Cardinality(s) = 0
      BY <1>1
    <3> QED
      BY <1>1, <3>1, FS_EmptySet
  <2> DEFINE g == [s \in Layer(0) |-> 0]
  <2>2. g = [s \in Layer(0) |-> Body(g, s)]
    BY <2>1
  <2> HIDE DEF g, Layer, Body
  <2> QED
    BY <2>2
<1>4. ASSUME NEW n \in Nat, n \in T
      PROVE  n + 1 \in T
  <2>1. PICK g : g = [s \in Layer(n) |-> Body(g, s)]
    BY <1>4
  <2> DEFINE h == [s \in Layer(n + 1) |-> Body(g, s)]
  <2>2. \A s \in Layer(n) : s \in Layer(n + 1) /\ h[s] = g[s]
    <3>1. \A s \in Layer(n) : s \in Layer(n + 1)
      <4> SUFFICES ASSUME NEW s \in SUBSET S, Cardinality(s) <= n
                   PROVE  Cardinality(s) <= n + 1
        OBVIOUS
      <4> QED
        BY <1>1
    <3>2. \A s \in Layer(n) : g[s] = Body(g, s)
      <4> HIDE DEF Body
      <4> QED
        BY <2>1
    <3> HIDE DEF Layer, Body
    <3> QED
      BY <3>1, <3>2
  <2>3. ASSUME NEW s \in Layer(n + 1)
        PROVE  Body(g, s) = Body(h, s)
    <3>1. CASE s = {}
      BY <3>1
    <3>2. CASE s # {}
      <4> DEFINE x == CHOOSE x \in s : TRUE
      <4>1. s \in SUBSET S /\ Cardinality(s) <= n + 1 /\ x \in s
        BY <1>2, <3>2
      <4>2. s \ {x} \in SUBSET S /\ Cardinality(s \ {x}) = Cardinality(s) - 1 /\ Cardinality(s) \in Nat
        BY <1>1, <1>2, <3>2, <4>1
      <4>3. s \ {x} \in Layer(n)
        <5> HIDE DEF x
        <5> QED
          BY <4>1, <4>2
      <4>4. g[s \ {x}] = h[s \ {x}]
        <5> HIDE DEF h, x, Layer
        <5> QED
          BY <2>2, <4>3
      <4> HIDE DEF h
      <4> QED
        BY <3>2, <4>4
    <3> QED
      BY <3>1, <3>2
  <2>4. h = [s \in Layer(n + 1) |-> Body(h, s)]
    <3> HIDE DEF Layer, Body
    <3> QED
      BY <2>3
  <2> HIDE DEF h, Layer, Body
  <2> QED
    BY <2>4
<1>5. Cardinality(S) \in T
  <2>1. Cardinality(S) \in Nat
    BY <1>1
  <2> HIDE DEF T
  <2> QED
    BY <1>3, <1>4, <2>1, NatSetInduction
<1>6. Layer(Cardinality(S)) = SUBSET S
  BY FS_Subset
<1> QED
  BY <1>5, <1>6, ZenonT(30) DEF SumFold

\* It does not matter in which larger set a set is summed up.
LEMMA FoldUnique ==
    ASSUME NEW f, NEW S, IsFiniteSet(S), NEW U \in SUBSET S, NEW g, SumFold(f, S, g), NEW h, SumFold(f, U, h)
    PROVE  g[U] = h[U]
<1> DEFINE T == {n \in Nat : \A s \in SUBSET U : Cardinality(s) = n => g[s] = h[s]}
<1>1. \A s \in SUBSET U : IsFiniteSet(s) /\ Cardinality(s) \in Nat
  BY FS_Subset, FS_CardinalityType
<1>2. \A s \in SUBSET U :
          LET x == CHOOSE x \in s : TRUE
          IN /\ g[s] = IF s = {} THEN 0 ELSE f[x] + g[s \ {x}]
             /\ h[s] = IF s = {} THEN 0 ELSE f[x] + h[s \ {x}]
  BY DEF SumFold
<1>3. 0 \in T
  <2>1. \A s \in SUBSET U : Cardinality(s) = 0 => s = {}
    BY <1>1, FS_EmptySet
  <2> QED
    BY <1>2, <2>1
<1>4. ASSUME NEW n \in Nat, n \in T
      PROVE  n + 1 \in T
  <2> SUFFICES ASSUME NEW s \in SUBSET U, Cardinality(s) = n + 1
               PROVE  g[s] = h[s]
    OBVIOUS
  <2> DEFINE x == CHOOSE x \in s : TRUE
  <2>1. s # {}
    BY FS_EmptySet
  <2>2. x \in s /\ s \ {x} \in SUBSET U
    BY <2>1
  <2>3. Cardinality(s \ {x}) = n
    <3> HIDE DEF x
    <3>1. Cardinality(s \ {x}) = Cardinality(s) - 1
      BY <1>1, <2>2, FS_RemoveElement
    <3> QED
      BY <3>1
  <2>4. g[s \ {x}] = h[s \ {x}]
    BY <1>4, <2>2, <2>3
  <2> QED
    BY <1>2, <2>1, <2>4
<1>5. Cardinality(U) \in T
  <2>1. Cardinality(U) \in Nat
    BY <1>1
  <2> HIDE DEF T
  <2> QED
    BY <1>3, <1>4, <2>1, NatSetInduction
<1> QED
  BY <1>5

\* A sum is what one of the elements adds to the sum of the rest.
LEMMA SumStep ==
    ASSUME NEW f, NEW S, IsFiniteSet(S)
    PROVE  LET x == CHOOSE x \in S : TRUE
           IN SumFunctionOnSet(f, S) = IF S = {} THEN 0 ELSE f[x] + SumFunctionOnSet(f, S \ {x})
<1> DEFINE fold(s) == CHOOSE g : SumFold(f, s, g)
           x == CHOOSE x \in S : TRUE
<1>1. \A s : SumFunctionOnSet(f, s) = fold(s)[s]
  BY DEF SumFunctionOnSet, FoldFunctionOnSet, MapThenFoldSet, SumFold
<1>2. \A s \in SUBSET S : SumFold(f, s, fold(s))
  BY FoldExists, FS_Subset
<1> HIDE DEF fold
<1>3. fold(S)[S] = IF S = {} THEN 0 ELSE f[x] + fold(S)[S \ {x}]
  BY <1>2 DEF SumFold
<1>4. fold(S)[S \ {x}] = fold(S \ {x})[S \ {x}]
  <2> DEFINE U == S \ {x}
  <2>1. U \in SUBSET S
    OBVIOUS
  <2> HIDE DEF U
  <2>2. SumFold(f, S, fold(S)) /\ SumFold(f, U, fold(U))
    BY <1>2, <2>1
  <2>3. fold(S)[U] = fold(U)[U]
    BY <2>1, <2>2, FoldUnique
  <2> QED
    BY <2>3 DEF U
<1> QED
  BY <1>1, <1>3, <1>4

\* Any element will do, and a sum of integers is one.
LEMMA SumSplit ==
    ASSUME NEW S, IsFiniteSet(S), NEW f, \A x \in S : f[x] \in Int
    PROVE  /\ SumFunctionOnSet(f, S) \in Int
           /\ S = {} => SumFunctionOnSet(f, S) = 0
           /\ \A y \in S : SumFunctionOnSet(f, S) = f[y] + SumFunctionOnSet(f, S \ {y})
<1> DEFINE total(s) == SumFunctionOnSet(f, s)
           Good(s) == total(s) \in Int /\ \A y \in s : total(s \ {y}) \in Int /\ total(s) = f[y] + total(s \ {y})
           T == {n \in Nat : \A s \in SUBSET S : IsFiniteSet(s) /\ Cardinality(s) = n => Good(s)}
<1>1. \A s : IsFiniteSet(s) =>
          LET x == CHOOSE x \in s : TRUE
          IN total(s) = IF s = {} THEN 0 ELSE f[x] + total(s \ {x})
  BY SumStep
<1> HIDE DEF total
<1>2. \A s : IsFiniteSet(s) => /\ Cardinality(s) \in Nat
                               /\ Cardinality(s) = 0 => s = {}
                               /\ \A x \in s : IsFiniteSet(s \ {x}) /\ Cardinality(s \ {x}) = Cardinality(s) - 1
  BY FS_CardinalityType, FS_EmptySet, FS_RemoveElement
<1>3. 0 \in T
  <2> SUFFICES ASSUME NEW s \in SUBSET S, IsFiniteSet(s), Cardinality(s) = 0
               PROVE  Good(s)
    OBVIOUS
  <2>1. s = {}
    BY <1>2
  <2>2. total(s) = 0
    BY <1>1, <2>1
  <2> QED
    BY <2>1, <2>2
<1>4. ASSUME NEW n \in Nat, n \in T
      PROVE  n + 1 \in T
  <2> SUFFICES ASSUME NEW s \in SUBSET S, IsFiniteSet(s), Cardinality(s) = n + 1
               PROVE  Good(s)
    OBVIOUS
  <2> DEFINE x == CHOOSE x \in s : TRUE
  <2>1. s # {} /\ Cardinality(s) - 1 = n
    BY FS_EmptySet
  <2>2. x \in s /\ total(s) = f[x] + total(s \ {x})
    BY <1>1, <2>1
  <2> HIDE DEF x
  <2>3. ASSUME NEW y \in s
        PROVE  Good(s \ {y}) /\ f[y] \in Int
    <3>1. s \ {y} \in SUBSET S /\ IsFiniteSet(s \ {y}) /\ Cardinality(s \ {y}) = n
      BY <1>2, <2>1
    <3> HIDE DEF Good
    <3> QED
      BY <1>4, <3>1
  <2>4. total(s) \in Int
    BY <2>2, <2>3
  <2>5. ASSUME NEW y \in s
        PROVE  total(s) = f[y] + total(s \ {y})
    <3>1. CASE y = x
      BY <2>2, <3>1
    <3>2. CASE y # x
      <4> DEFINE both == s \ {x, y}
      <4>1. y \in s \ {x} /\ x \in s \ {y} /\ (s \ {x}) \ {y} = both /\ (s \ {y}) \ {x} = both
        BY <2>2, <3>2
      <4> HIDE DEF both
      <4>2. total(s \ {x}) = f[y] + total(both) /\ total(s \ {y}) = f[x] + total(both)
        BY <2>2, <2>3, <4>1
      <4>3. total(both) \in Int
        BY <2>2, <2>3, <4>1
      <4> QED
        BY <2>2, <2>3, <4>2, <4>3
    <3> QED
      BY <3>1, <3>2
  <2> QED
    BY <2>3, <2>4, <2>5
<1>5. \A n \in Nat : n \in T
  <2> HIDE DEF T
  <2> QED
    BY <1>3, <1>4, NatSetInduction
<1>6. Good(S) /\ (S = {} => total(S) = 0)
  <2> HIDE DEF Good
  <2>1. Cardinality(S) \in Nat /\ S \in SUBSET S
    BY <1>2
  <2> QED
    BY <1>1, <1>5, <2>1
<1> QED
  BY <1>6 DEF total

\* Sums that are equal, or add up, element by element.
LEMMA SumsAdd ==
    ASSUME NEW S, IsFiniteSet(S), NEW f, NEW g, NEW h,
           \A x \in S : f[x] \in Int /\ g[x] \in Int /\ h[x] = f[x] + g[x]
    PROVE  SumFunctionOnSet(h, S) = SumFunctionOnSet(f, S) + SumFunctionOnSet(g, S)
<1> DEFINE F(s) == SumFunctionOnSet(f, s)
           G(s) == SumFunctionOnSet(g, s)
           H(s) == SumFunctionOnSet(h, s)
           T == {n \in Nat : \A s \in SUBSET S : Cardinality(s) = n => H(s) = F(s) + G(s)}
<1>1. ASSUME NEW s \in SUBSET S
      PROVE  /\ IsFiniteSet(s) /\ Cardinality(s) \in Nat /\ (Cardinality(s) = 0 => s = {})
             /\ \A x \in s : Cardinality(s \ {x}) = Cardinality(s) - 1
  BY FS_Subset, FS_CardinalityType, FS_EmptySet, FS_RemoveElement
<1>2. ASSUME NEW s \in SUBSET S
      PROVE  /\ F(s) \in Int /\ (s = {} => F(s) = 0) /\ \A y \in s : F(s) = f[y] + F(s \ {y})
             /\ G(s) \in Int /\ (s = {} => G(s) = 0) /\ \A y \in s : G(s) = g[y] + G(s \ {y})
             /\ H(s) \in Int /\ (s = {} => H(s) = 0) /\ \A y \in s : H(s) = h[y] + H(s \ {y})
  <2>1. /\ \A x \in S : f[x] \in Int
        /\ \A x \in S : g[x] \in Int
        /\ \A x \in S : h[x] \in Int
    OBVIOUS
  <2>2. IsFiniteSet(s)
    BY <1>1
  <2>6. /\ \A x \in s : f[x] \in Int
        /\ \A x \in s : g[x] \in Int
        /\ \A x \in s : h[x] \in Int
    BY <2>1
  <2>3. F(s) \in Int /\ (s = {} => F(s) = 0) /\ \A y \in s : F(s) = f[y] + F(s \ {y})
    BY <2>2, <2>6, SumSplit
  <2>4. G(s) \in Int /\ (s = {} => G(s) = 0) /\ \A y \in s : G(s) = g[y] + G(s \ {y})
    BY <2>2, <2>6, SumSplit
  <2>5. H(s) \in Int /\ (s = {} => H(s) = 0) /\ \A y \in s : H(s) = h[y] + H(s \ {y})
    BY <2>2, <2>6, SumSplit
  <2> HIDE DEF F, G, H
  <2> QED
    BY <2>3, <2>4, <2>5
<1> HIDE DEF F, G, H
<1>3. 0 \in T
  <2> SUFFICES ASSUME NEW s \in SUBSET S, Cardinality(s) = 0
               PROVE  H(s) = F(s) + G(s)
    OBVIOUS
  <2>1. s = {}
    BY <1>1
  <2> QED
    BY <1>2, <2>1
<1>4. ASSUME NEW n \in Nat, n \in T
      PROVE  n + 1 \in T
  <2> SUFFICES ASSUME NEW s \in SUBSET S, Cardinality(s) = n + 1
               PROVE  H(s) = F(s) + G(s)
    OBVIOUS
  <2>1. PICK x \in s : TRUE
    BY FS_EmptySet
  <2> DEFINE r == s \ {x}
  <2>2. r \in SUBSET S /\ Cardinality(r) = n
    BY <1>1, SMTT(30)
  <2>3. H(s) = h[x] + H(r) /\ F(s) = f[x] + F(r) /\ G(s) = g[x] + G(r)
    BY <1>2, <2>1
  <2> HIDE DEF r
  <2>4. H(r) = F(r) + G(r)
    BY <1>4, <2>2
  <2>5. F(r) \in Int /\ G(r) \in Int /\ f[x] \in Int /\ g[x] \in Int /\ h[x] = f[x] + g[x]
    BY <1>2, <2>2
  <2> QED
    BY <2>3, <2>4, <2>5
<1>5. \A n \in Nat : n \in T
  <2> HIDE DEF T
  <2> QED
    BY <1>3, <1>4, NatSetInduction
<1>6. H(S) = F(S) + G(S)
  BY <1>1, <1>5
<1> QED
  BY <1>6 DEF F, G, H

\* A sum of zeros is zero.
LEMMA SumOfZeros ==
    ASSUME NEW S, IsFiniteSet(S), NEW f, \A x \in S : f[x] = 0
    PROVE  SumFunctionOnSet(f, S) = 0
<1> DEFINE n == SumFunctionOnSet(f, S)
<1>1. n \in Int
  BY SumSplit
<1>2. \A x \in S : f[x] \in Int /\ f[x] = f[x] + f[x]
  OBVIOUS
<1>3. n = n + n
  BY <1>2, SumsAdd
<1> HIDE DEF n
<1>4. n = 0
  BY <1>1, <1>3
<1> QED
  BY <1>4 DEF n

\* The sizes of the sets A[k][i], weighted by p[i], summed up over i; and those
\* of their unions over k.
PartSum(A, p, I, k) == SumFunctionOnSet([i \in I |-> Cardinality(A[k][i]) * p[i]], I)
WholeSum(A, p, I, K) == SumFunctionOnSet([i \in I |-> Cardinality(UNION {A[k][i] : k \in K}) * p[i]], I)

\* If the sets of different k have nothing in common, it is the same to sum up
\* first over i and then over k, and to sum up the unions.
LEMMA SumsOfParts ==
    ASSUME NEW K, IsFiniteSet(K), NEW I, IsFiniteSet(I), NEW A, NEW p, NEW w,
           \A i \in I : p[i] \in Int,
           \A k \in K : \A i \in I : IsFiniteSet(A[k][i]),
           \A k, l \in K : \A i \in I : k # l => A[k][i] \cap A[l][i] = {},
           \A k \in K : w[k] = PartSum(A, p, I, k)
    PROVE  SumFunctionOnSet(w, K) = WholeSum(A, p, I, K)
<1> DEFINE part(k) == [i \in I |-> Cardinality(A[k][i]) * p[i]]
           union(U, i) == UNION {A[k][i] : k \in U}
           whole(U) == [i \in I |-> Cardinality(union(U, i)) * p[i]]
           size(s) == Cardinality(s)
           Same(U) == /\ \A i \in I : IsFiniteSet(union(U, i))
                      /\ SumFunctionOnSet(w, U) = SumFunctionOnSet(whole(U), I)
           T == {n \in Nat : \A U \in SUBSET K : Cardinality(U) = n => Same(U)}
<1>1. ASSUME NEW U \in SUBSET K
      PROVE  /\ IsFiniteSet(U) /\ Cardinality(U) \in Nat /\ (Cardinality(U) = 0 => U = {})
             /\ \A x \in U : Cardinality(U \ {x}) = Cardinality(U) - 1
  BY FS_Subset, FS_CardinalityType, FS_EmptySet, FS_RemoveElement
<1>2. ASSUME NEW k \in K
      PROVE  w[k] = SumFunctionOnSet(part(k), I) /\ w[k] \in Int
             /\ \A i \in I : part(k)[i] = size(A[k][i]) * p[i] /\ part(k)[i] \in Int /\ size(A[k][i]) \in Nat
  <2>1. ASSUME NEW i \in I
        PROVE  part(k)[i] = size(A[k][i]) * p[i] /\ part(k)[i] \in Int /\ size(A[k][i]) \in Nat
    <3>1. size(A[k][i]) \in Nat /\ p[i] \in Int /\ part(k)[i] = size(A[k][i]) * p[i]
      BY FS_CardinalityType
    <3> HIDE DEF size, part
    <3>2. size(A[k][i]) * p[i] \in Int
      BY <3>1
    <3> QED BY <3>1, <3>2
  <2>2. w[k] = SumFunctionOnSet(part(k), I)
    BY DEF PartSum
  <2> HIDE DEF part
  <2>3. SumFunctionOnSet(part(k), I) \in Int
    BY <2>1, SumSplit
  <2> QED BY <2>1, <2>2, <2>3
<1>3. 0 \in T
  <2>1. ASSUME NEW U \in SUBSET K, Cardinality(U) = 0
        PROVE  Same(U)
    <3>1. U = {}
      BY <1>1, <2>1
    <3>2. \A i \in I : union(U, i) = {}
      BY <3>1
    <3>3. \A i \in I : whole(U)[i] = 0 * p[i]
      BY <3>2, FS_EmptySet
    <3>4. \A i \in I : 0 * p[i] = 0
      OBVIOUS
    <3>5. SumFunctionOnSet(whole(U), I) = 0
      <4>1. \A i \in I : whole(U)[i] = 0
        BY <3>3, <3>4
      <4> HIDE DEF whole
      <4> QED BY <4>1, SumOfZeros
    <3>6. SumFunctionOnSet(w, U) = 0
      BY <3>1, SumSplit, FS_EmptySet
    <3> QED BY <3>2, <3>5, <3>6, FS_EmptySet
  <2> HIDE DEF Same
  <2> QED BY <2>1
<1>4. ASSUME NEW n \in Nat, n \in T
      PROVE  n + 1 \in T
  <2>1. ASSUME NEW U \in SUBSET K, Cardinality(U) = n + 1
        PROVE  Same(U)
    <3>1. PICK y \in U : TRUE
      <4>1. U # {}
        BY <1>1, <1>4, <2>1, FS_EmptySet
      <4> QED BY <4>1
    <3> DEFINE V == U \ {y}
    <3>2. Cardinality(V) = n /\ V \in SUBSET K
      <4> HIDE DEF part, union, whole, Same, T
      <4>1. n + 1 - 1 = n
        OBVIOUS
      <4>2. Cardinality(V) = Cardinality(U) - 1
        BY <1>1, <3>1
      <4>3. V \in SUBSET K
        OBVIOUS
      <4> HIDE DEF V
      <4> QED BY <2>1, <4>1, <4>2, <4>3
    <3>3. Same(V)
      <4> HIDE DEF V, Same
      <4> QED BY <1>4, <3>2
    <3>4. ASSUME NEW i \in I
          PROVE  /\ IsFiniteSet(union(U, i))
                 /\ whole(V)[i] \in Int
                 /\ whole(U)[i] = whole(V)[i] + part(y)[i]
      <4> DEFINE a == A[y][i]
                 b == union(V, i)
                 both == union(U, i)
      <4>1. both = b \cup a /\ b \cap a = {}
        BY <3>1
      <4>2. IsFiniteSet(a) /\ IsFiniteSet(b) /\ p[i] \in Int
        BY <3>1, <3>3
      <4>3. whole(U)[i] = Cardinality(both) * p[i] /\ whole(V)[i] = Cardinality(b) * p[i]
            /\ part(y)[i] = Cardinality(a) * p[i]
        OBVIOUS
      <4> HIDE DEF a, b, both, whole, part, union
      <4>4. /\ IsFiniteSet(both) /\ Cardinality(a) \in Nat /\ Cardinality(b) \in Nat
            /\ Cardinality(both) = Cardinality(b) + Cardinality(a)
        <5>1. IsFiniteSet(b \cup a) /\ Cardinality(b \cup a) = Cardinality(b) + Cardinality(a) - Cardinality(b \cap a)
          BY <4>2, FS_Union
        <5>2. Cardinality(a) \in Nat /\ Cardinality(b) \in Nat /\ Cardinality(b \cap a) = 0
          BY <4>1, <4>2, FS_CardinalityType, FS_EmptySet
        <5> QED BY <4>1, <5>1, <5>2
      <4> DEFINE ca == Cardinality(a)
                 cb == Cardinality(b)
      <4>5. ca \in Nat /\ cb \in Nat /\ whole(U)[i] = (cb + ca) * p[i] /\ whole(V)[i] = cb * p[i]
            /\ part(y)[i] = ca * p[i]
        BY <4>3, <4>4
      <4> HIDE DEF ca, cb
      <4>6. (cb + ca) * p[i] = cb * p[i] + ca * p[i] /\ cb * p[i] \in Int
        BY <4>2, <4>5
      <4>7. whole(V)[i] \in Int /\ whole(U)[i] = whole(V)[i] + part(y)[i]
        BY <4>5, <4>6
      <4> QED BY <4>4, <4>7 DEF both
    <3>5. SumFunctionOnSet(whole(U), I) = SumFunctionOnSet(whole(V), I) + SumFunctionOnSet(part(y), I)
      <4>1. \A i \in I : part(y)[i] \in Int
        BY <1>2, <3>1
      <4> HIDE DEF whole, part, V
      <4>2. \A i \in I : whole(V)[i] \in Int /\ part(y)[i] \in Int /\ whole(U)[i] \in Int
                         /\ whole(U)[i] = whole(V)[i] + part(y)[i]
        <5> SUFFICES ASSUME NEW i \in I
                     PROVE  whole(V)[i] \in Int /\ part(y)[i] \in Int /\ whole(U)[i] \in Int
                            /\ whole(U)[i] = whole(V)[i] + part(y)[i]
          OBVIOUS
        <5> DEFINE a == whole(V)[i]
                   b == part(y)[i]
                   c == whole(U)[i]
        <5>1. a \in Int /\ b \in Int /\ c = a + b
          BY <3>4, <4>1
        <5> HIDE DEF a, b, c
        <5>2. c \in Int
          BY <5>1
        <5> QED BY <5>1, <5>2 DEF a, b, c
      <4> QED BY <4>2, SumsAdd
    <3>6. /\ SumFunctionOnSet(w, U) = w[y] + SumFunctionOnSet(w, V)
          /\ SumFunctionOnSet(w, V) \in Int /\ w[y] \in Int
      <4>1. /\ IsFiniteSet(U) /\ IsFiniteSet(V)
            /\ (\A x \in U : w[x] \in Int) /\ (\A x \in V : w[x] \in Int)
        BY <1>1, <1>2, <3>2
      <4>2. SumFunctionOnSet(w, U) = w[y] + SumFunctionOnSet(w, V)
        BY <3>1, <4>1, SumSplit
      <4> HIDE DEF V
      <4>3. SumFunctionOnSet(w, V) \in Int
        BY <4>1, SumSplit
      <4> QED BY <3>1, <4>1, <4>2, <4>3
    <3>7. SumFunctionOnSet(w, V) = SumFunctionOnSet(whole(V), I) /\ w[y] = SumFunctionOnSet(part(y), I)
      BY <1>2, <3>1, <3>3
    <3>8. SumFunctionOnSet(w, U) = SumFunctionOnSet(whole(U), I)
      <4> DEFINE total == SumFunctionOnSet(w, V)
                 added == w[y]
      <4>1. /\ SumFunctionOnSet(w, U) = added + total /\ added \in Int /\ total \in Int
            /\ SumFunctionOnSet(whole(U), I) = total + added
        BY <3>5, <3>6, <3>7
      <4> HIDE DEF total, added, whole
      <4> QED BY <4>1
    <3> QED BY <3>4, <3>8
  <2> HIDE DEF Same
  <2> QED BY <1>4, <2>1
<1>5. Cardinality(K) \in T
  <2>1. Cardinality(K) \in Nat
    BY <1>1
  <2> HIDE DEF T
  <2> QED BY <1>3, <1>4, <2>1, NatSetInduction
<1>6. Same(K)
  <2> HIDE DEF Same
  <2> QED BY <1>5
<1> QED
  BY <1>6 DEF WholeSum
=============================================================================
