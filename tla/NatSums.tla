------------------------------- MODULE NatSums -------------------------------
(***************************************************************************)
(* Induction over the natural numbers for use with sets, and sums of the   *)
(* values of a function, which the code's loops add up.                    *)
(***************************************************************************)
EXTENDS Integers, Sequences, FiniteSetTheorems, Functions, TLAPS

\* A set of numbers has a least one: it is the one with the smallest interval
\* below it.
LEMMA Least ==
  ASSUME NEW S \in SUBSET Nat, S # {}
  PROVE  \E n \in S : \A m \in S : n <= m
<1> DEFINE T == {0..(n - 1) : n \in S}
<1>1. \A n \in S : IsFiniteSet(0..(n - 1)) /\ 0..(n - 1) \in SUBSET Nat
  BY FS_Interval
<1>2. T \subseteq FiniteSubsetsOf(Nat) /\ T # {}
  <2>1. \A U \in T : IsFiniteSet(U) /\ U \in SUBSET Nat
    BY <1>1
  <2>2. T # {}
    OBVIOUS
  <2> HIDE DEF T
  <2> QED
    BY <2>1, <2>2 DEF FiniteSubsetsOf
<1>3. PICK U \in T : \A V \in T : ~(<<V, U>> \in StrictSubsetOrdering(Nat))
  <2> HIDE DEF T
  <2> QED
    BY <1>2, FS_StrictSubsetOrderingWellFounded, WFMin
<1>4. PICK n \in S : U = 0..(n - 1)
  BY DEF T
<1>5. ASSUME NEW m \in S, m < n
      PROVE  FALSE
  <2>1. 0..(m - 1) \subseteq 0..(n - 1) /\ m \in 0..(n - 1) /\ m \notin 0..(m - 1)
    BY <1>5
  <2>2. <<0..(m - 1), 0..(n - 1)>> \in StrictSubsetOrdering(Nat)
    BY <2>1 DEF StrictSubsetOrdering
  <2> QED
    BY <1>3, <1>4, <2>2
<1> QED
  BY <1>5

\* Induction, as a fact about the set of numbers something holds for.
LEMMA Induction ==
  ASSUME NEW S \in SUBSET Nat, 0 \in S, \A n \in S : n + 1 \in S
  PROVE  S = Nat
<1> SUFFICES ASSUME Nat \ S # {}
             PROVE  FALSE
  OBVIOUS
<1>1. PICK n \in Nat \ S : \A m \in Nat \ S : n <= m
  BY Least
<1>2. n # 0 /\ n - 1 \in Nat
  OBVIOUS
<1>3. n - 1 \in S
  BY <1>1, <1>2
<1> QED
  BY <1>3

-----------------------------------------------------------------------------
(***************************************************************************)
(* Sums.                                                                   *)
(***************************************************************************)
\* f[i] is g[1] + ... + g[i].
AddsUp(f, g, n) ==
  f = [i \in 0..n |-> IF i = 0 THEN 0 ELSE f[i - 1] + g[i]]

SumTo(g, n) == (CHOOSE f : AddsUp(f, g, n))[n]

LEMMA AddsUpExists ==
  ASSUME NEW g, NEW n \in Nat
  PROVE  \E f : AddsUp(f, g, n)
<1> DEFINE S == {m \in Nat : \E f : AddsUp(f, g, m)}
<1>1. 0 \in S
  <2> DEFINE f == [i \in 0..0 |-> 0]
  <2>1. AddsUp(f, g, 0)
    BY DEF AddsUp
  <2> QED
    BY <2>1
<1>2. ASSUME NEW m \in S
      PROVE  m + 1 \in S
  <2>1. PICK f : AddsUp(f, g, m)
    OBVIOUS
  <2> DEFINE h == [i \in 0..(m + 1) |-> IF i = m + 1 THEN f[m] + g[m + 1] ELSE f[i]]
             next == [i \in 0..(m + 1) |-> IF i = 0 THEN 0 ELSE h[i - 1] + g[i]]
  <2>2. f = [i \in 0..m |-> IF i = 0 THEN 0 ELSE f[i - 1] + g[i]]
    BY <2>1 DEF AddsUp
  <2>3. ASSUME NEW i \in 0..(m + 1)
        PROVE  h[i] = next[i]
    <3>1. CASE i = m + 1
      BY <3>1
    <3>2. CASE i # m + 1
      <4>1. i \in 0..m /\ h[i] = f[i]
        BY <3>2
      <4>2. f[i] = IF i = 0 THEN 0 ELSE f[i - 1] + g[i]
        BY <2>2, <4>1
      <4>3. i # 0 => h[i - 1] = f[i - 1]
        BY <4>1
      <4> QED
        BY <4>1, <4>2, <4>3
    <3> QED
      BY <3>1, <3>2
  <2>4. h = next
    BY <2>3
  <2>5. AddsUp(h, g, m + 1)
    BY <2>4 DEF AddsUp
  <2> QED
    BY <2>5
<1> HIDE DEF S
<1>3. S = Nat
  <2>1. S \in SUBSET Nat
    BY DEF S
  <2> QED
    BY <1>1, <1>2, <2>1, Induction
<1> QED
  BY <1>3 DEF S

\* The sum one step further, and every function that adds up gives the sums.
LEMMA Sums ==
  ASSUME NEW g
  PROVE  /\ SumTo(g, 0) = 0
         /\ \A n \in Nat : SumTo(g, n + 1) = SumTo(g, n) + g[n + 1]
<1> DEFINE F(n) == CHOOSE f : AddsUp(f, g, n)
           S == {i \in Nat : \A n \in Nat : i <= n => F(n)[i] = SumTo(g, i)}
<1>1. ASSUME NEW n \in Nat
      PROVE  F(n) = [i \in 0..n |-> IF i = 0 THEN 0 ELSE F(n)[i - 1] + g[i]]
  <2>1. AddsUp(F(n), g, n)
    BY AddsUpExists
  <2> HIDE DEF F
  <2> QED
    BY <2>1 DEF AddsUp
<1>2. \A n \in Nat : SumTo(g, n) = F(n)[n]
  BY DEF SumTo
<1> HIDE DEF F
<1>3. \A n \in Nat : F(n)[0] = 0
  BY <1>1
<1>4. \A n \in Nat, i \in Nat : i + 1 <= n => F(n)[i + 1] = F(n)[i] + g[i + 1]
  <2> SUFFICES ASSUME NEW n \in Nat, NEW i \in Nat, i + 1 <= n
               PROVE  F(n)[i + 1] = F(n)[i] + g[i + 1]
    OBVIOUS
  <2>1. i + 1 \in 0..n /\ i + 1 # 0 /\ (i + 1) - 1 = i
    OBVIOUS
  <2> QED
    BY <1>1, <2>1
<1>5. 0 \in S
  BY <1>2, <1>3
<1>6. ASSUME NEW i \in S
      PROVE  /\ SumTo(g, i + 1) = SumTo(g, i) + g[i + 1]
             /\ i + 1 \in S
  <2>1. SumTo(g, i + 1) = SumTo(g, i) + g[i + 1]
    BY <1>2, <1>4
  <2>2. \A n \in Nat : i + 1 <= n => F(n)[i + 1] = SumTo(g, i) + g[i + 1]
    BY <1>4
  <2> QED
    BY <2>1, <2>2
<1>7. S = Nat
  <2> HIDE DEF S
  <2>1. S \in SUBSET Nat
    BY DEF S
  <2> QED
    BY <1>5, <1>6, <2>1, Induction
<1> QED
  BY <1>2, <1>3, <1>6, <1>7

\* A sum of natural numbers is one.
LEMMA SumsNatural ==
  ASSUME NEW g, NEW n \in Nat, \A i \in 1..n : g[i] \in Nat
  PROVE  \A m \in 0..n : SumTo(g, m) \in Nat
<1> DEFINE S == {m \in Nat : m <= n => SumTo(g, m) \in Nat}
<1>1. 0 \in S
  BY Sums
<1>2. ASSUME NEW m \in S
      PROVE  m + 1 \in S
  <2>1. SumTo(g, m + 1) = SumTo(g, m) + g[m + 1]
    BY Sums
  <2> QED
    BY <2>1
<1> HIDE DEF S
<1>3. S = Nat
  <2>1. S \in SUBSET Nat
    BY DEF S
  <2> QED
    BY <1>1, <1>2, <2>1, Induction
<1> QED
  BY <1>3 DEF S

\* One number of the sum changes by d.
LEMMA SumIncrement ==
  ASSUME NEW g, NEW h, NEW n \in Nat, NEW k \in 1..n, NEW d \in Int,
         \A i \in 1..n : g[i] \in Int,
         h[k] = g[k] + d, \A i \in 1..n : i # k => h[i] = g[i]
  PROVE  SumTo(h, n) = SumTo(g, n) + d /\ SumTo(g, n) \in Int
<1> DEFINE S == {m \in Nat : m <= n =>
                   /\ SumTo(g, m) \in Int
                   /\ SumTo(h, m) = SumTo(g, m) + IF m < k THEN 0 ELSE d}
<1>1. 0 \in S
  BY Sums
<1>2. ASSUME NEW m \in S
      PROVE  m + 1 \in S
  <2> SUFFICES ASSUME m + 1 <= n
               PROVE  /\ SumTo(g, m + 1) \in Int
                      /\ SumTo(h, m + 1)
                           = SumTo(g, m + 1) + IF m + 1 < k THEN 0 ELSE d
    OBVIOUS
  <2>1. /\ SumTo(g, m) \in Int
        /\ SumTo(h, m) = SumTo(g, m) + IF m < k THEN 0 ELSE d
    OBVIOUS
  <2>2. /\ SumTo(g, m + 1) = SumTo(g, m) + g[m + 1]
        /\ SumTo(h, m + 1) = SumTo(h, m) + h[m + 1]
    BY Sums
  <2>3. m + 1 \in 1..n /\ g[m + 1] \in Int
    OBVIOUS
  <2> QED
    BY <2>1, <2>2, <2>3
<1> HIDE DEF S
<1>3. S = Nat
  <2>1. S \in SUBSET Nat
    BY DEF S
  <2> QED
    BY <1>1, <1>2, <2>1, Induction
<1> QED
  BY <1>3 DEF S

\* All numbers move down by one place, and the first is lost.
LEMMA SumShift ==
  ASSUME NEW g, NEW h, NEW n \in Nat \ {0},
         \A i \in 1..n : g[i] \in Int,
         \A i \in 1..n : h[i] = IF i < n THEN g[i + 1] ELSE 0
  PROVE  SumTo(h, n) = SumTo(g, n) - g[1] /\ SumTo(g, n) \in Int
<1> DEFINE S == {m \in Nat : m < n =>
                   /\ SumTo(g, m + 1) \in Int
                   /\ SumTo(h, m) = SumTo(g, m + 1) - g[1]}
<1>1. 0 \in S
  <2>1. SumTo(g, 0) = 0 /\ SumTo(h, 0) = 0 /\ SumTo(g, 0 + 1) = SumTo(g, 0) + g[0 + 1]
    BY Sums
  <2>2. g[1] \in Int
    OBVIOUS
  <2> QED
    BY <2>1, <2>2
<1>2. ASSUME NEW m \in S
      PROVE  m + 1 \in S
  <2> SUFFICES ASSUME m + 1 < n
               PROVE  /\ SumTo(g, (m + 1) + 1) \in Int
                      /\ SumTo(h, m + 1) = SumTo(g, (m + 1) + 1) - g[1]
    OBVIOUS
  <2>1. SumTo(g, m + 1) \in Int /\ SumTo(h, m) = SumTo(g, m + 1) - g[1]
    OBVIOUS
  <2>2. /\ SumTo(g, (m + 1) + 1) = SumTo(g, m + 1) + g[(m + 1) + 1]
        /\ SumTo(h, m + 1) = SumTo(h, m) + h[m + 1]
    BY Sums
  <2>3. /\ (m + 1) + 1 \in 1..n /\ g[(m + 1) + 1] \in Int /\ g[1] \in Int
        /\ h[m + 1] = g[(m + 1) + 1]
    OBVIOUS
  <2> QED
    BY <2>1, <2>2, <2>3
<1> HIDE DEF S
<1>3. S = Nat
  <2>1. S \in SUBSET Nat
    BY DEF S
  <2> QED
    BY <1>1, <1>2, <2>1, Induction
<1>4. SumTo(g, (n - 1) + 1) \in Int /\ SumTo(h, n - 1) = SumTo(g, (n - 1) + 1) - g[1]
  <2>1. n - 1 \in S /\ n - 1 < n
    BY <1>3
  <2> QED
    BY <2>1 DEF S
<1>5. SumTo(h, (n - 1) + 1) = SumTo(h, n - 1) + h[(n - 1) + 1]
  BY Sums
<1>6. (n - 1) + 1 = n /\ h[n] = 0 /\ g[1] \in Int
  OBVIOUS
<1> QED
  BY <1>4, <1>5, <1>6

-----------------------------------------------------------------------------
(***************************************************************************)
(* Induction over the subsets of a finite set, and sums over them.         *)
(***************************************************************************)
LEMMA FiniteInduction ==
  ASSUME NEW S, IsFiniteSet(S), NEW G \in SUBSET (SUBSET S),
         \A s \in SUBSET S : (\A x \in s : s \ {x} \in G) => s \in G
  PROVE  G = SUBSET S
<1> SUFFICES ASSUME (SUBSET S) \ G # {}
             PROVE  FALSE
  OBVIOUS
<1> DEFINE T == (SUBSET S) \ G
<1>1. T \subseteq FiniteSubsetsOf(S) /\ T # {}
  BY FS_Subset DEF FiniteSubsetsOf
<1>2. PICK t \in T : \A u \in T : ~(<<u, t>> \in StrictSubsetOrdering(S))
  <2> HIDE DEF T
  <2> QED
    BY <1>1, FS_StrictSubsetOrderingWellFounded, WFMin
<1>3. ASSUME NEW x \in t
      PROVE  t \ {x} \in G
  <2>1. t \ {x} \in SUBSET S /\ t \in SUBSET S /\ t \ {x} # t
    BY <1>2, <1>3
  <2>2. <<t \ {x}, t>> \in StrictSubsetOrdering(S)
    BY <2>1 DEF StrictSubsetOrdering
  <2> QED
    BY <1>2, <2>1, <2>2
<1> QED
  BY <1>2, <1>3

\* The values of a function on a finite set.
LEMMA ImageFinite ==
  ASSUME NEW f, NEW S, IsFiniteSet(S)
  PROVE  IsFiniteSet({f[x] : x \in S})
<1> DEFINE T == {f[x] : x \in S}
           g == [x \in S |-> f[x]]
<1>1. g \in Surjection(S, T)
  BY DEF Surjection
<1> HIDE DEF g, T
<1>2. IsFiniteSet(T)
  BY <1>1, FS_Surjection
<1> QED
  BY <1>2 DEF T

\* The recursion behind SumFunctionOnSet.
First(s) == CHOOSE x \in s : TRUE
Iterates(it, f, S) ==
  it = [s \in SUBSET S |->
          IF s = {} THEN 0 ELSE f[First(s)] + it[s \ {First(s)}]]

LEMMA SumUnfolds ==
  ASSUME NEW f, NEW S
  PROVE  SumFunctionOnSet(f, S) = (CHOOSE it : Iterates(it, f, S))[S]
BY DEF SumFunctionOnSet, FoldFunctionOnSet, MapThenFoldSet, Iterates, First

LEMMA Smaller ==
  ASSUME NEW S, IsFiniteSet(S), NEW s \in SUBSET S
  PROVE  /\ IsFiniteSet(s) /\ Cardinality(s) \in Nat
         /\ Cardinality(s) <= Cardinality(S)
         /\ \A x \in s : /\ s \ {x} \in SUBSET S
                         /\ Cardinality(s \ {x}) = Cardinality(s) - 1
         /\ s # {} => First(s) \in s
<1>1. IsFiniteSet(s) /\ Cardinality(s) \in Nat
  BY FS_Subset, FS_CardinalityType
<1>2. Cardinality(s) <= Cardinality(S)
  BY FS_Subset
<1>3. \A x \in s : Cardinality(s \ {x}) = Cardinality(s) - 1
  BY <1>1, FS_RemoveElement
<1> QED
  BY <1>1, <1>2, <1>3 DEF First

LEMMA IteratesExists ==
  ASSUME NEW f, NEW S, IsFiniteSet(S)
  PROVE  \E it : Iterates(it, f, S)
<1> DEFINE Round(it, s) == IF s = {} THEN 0 ELSE f[First(s)] + it[s \ {First(s)}]
           Upto(it, d) == \A s \in SUBSET S : Cardinality(s) < d => it[s] = Round(it, s)
           D == {d \in Nat : \E it : Upto(it, d)}
<1>1. 0 \in D
  <2>1. \A s \in SUBSET S : ~(Cardinality(s) < 0)
    BY Smaller
  <2> QED
    BY <2>1
<1>2. ASSUME NEW d \in D
      PROVE  d + 1 \in D
  <2>1. PICK it : Upto(it, d)
    OBVIOUS
  <2> DEFINE next == [s \in SUBSET S |->
                        IF Cardinality(s) < d + 1 THEN Round(it, s) ELSE 0]
  <2>2. ASSUME NEW s \in SUBSET S, Cardinality(s) < d
        PROVE  next[s] = it[s]
    <3>1. Cardinality(s) \in Nat /\ d \in Nat
      BY Smaller
    <3>2. it[s] = Round(it, s)
      BY <2>1, <2>2
    <3>3. Cardinality(s) < d + 1
      BY <2>2, <3>1
    <3> HIDE DEF Round
    <3> QED
      BY <3>2, <3>3
  <2>3. ASSUME NEW s \in SUBSET S, Cardinality(s) < d + 1
        PROVE  next[s] = Round(next, s)
    <3>1. next[s] = Round(it, s)
      BY <2>3
    <3>2. s # {} => next[s \ {First(s)}] = it[s \ {First(s)}]
      <4> SUFFICES ASSUME s # {}
                   PROVE  next[s \ {First(s)}] = it[s \ {First(s)}]
        OBVIOUS
      <4>1. First(s) \in s
        BY Smaller
      <4>2. /\ s \ {First(s)} \in SUBSET S /\ Cardinality(s) \in Nat
            /\ Cardinality(s \ {First(s)}) = Cardinality(s) - 1
        BY <4>1, Smaller
      <4>3. Cardinality(s \ {First(s)}) < d
        BY <2>3, <4>2
      <4> HIDE DEF next
      <4> QED
        BY <2>2, <4>2, <4>3
    <3> HIDE DEF next
    <3> QED
      BY <3>1, <3>2
  <2> HIDE DEF next
  <2>4. Upto(next, d + 1)
    BY <2>3
  <2> QED
    BY <2>4
<1> HIDE DEF D
<1>3. D = Nat
  <2>1. D \in SUBSET Nat
    BY DEF D
  <2> QED
    BY <1>1, <1>2, <2>1, Induction
<1>4. Cardinality(S) \in Nat
  BY FS_CardinalityType
<1>5. PICK it : Upto(it, Cardinality(S) + 1)
  <2>1. Cardinality(S) + 1 \in D
    BY <1>3, <1>4
  <2> HIDE DEF Upto
  <2> QED
    BY <2>1 DEF D
<1> DEFINE all == [s \in SUBSET S |-> it[s]]
<1>6. ASSUME NEW s \in SUBSET S
      PROVE  all[s] = Round(all, s)
  <2>1. Cardinality(s) < Cardinality(S) + 1
    BY <1>4, Smaller
  <2>2. all[s] = Round(it, s)
    BY <1>5, <2>1
  <2>3. s # {} => First(s) \in s
    BY Smaller
  <2>4. s # {} => s \ {First(s)} \in SUBSET S
    OBVIOUS
  <2> QED
    BY <2>2, <2>4
<1>7. all = [s \in SUBSET S |-> Round(all, s)]
  BY <1>6
<1>8. Iterates(all, f, S)
  BY <1>7 DEF Iterates
<1> QED
  BY <1>8

\* What the recursion computes for a subset does not depend on the set.
LEMMA IteratesAgree ==
  ASSUME NEW f, NEW S, NEW T, IsFiniteSet(T), T \subseteq S,
         NEW it, Iterates(it, f, S), NEW jt, Iterates(jt, f, T)
  PROVE  it[T] = jt[T]
<1> DEFINE G == {s \in SUBSET T : it[s] = jt[s]}
<1>1. ASSUME NEW s \in SUBSET T, \A x \in s : s \ {x} \in G
      PROVE  s \in G
  <2>1. it[s] = IF s = {} THEN 0 ELSE f[First(s)] + it[s \ {First(s)}]
    BY DEF Iterates
  <2>2. jt[s] = IF s = {} THEN 0 ELSE f[First(s)] + jt[s \ {First(s)}]
    BY DEF Iterates
  <2>3. s # {} => First(s) \in s
    BY Smaller
  <2> QED
    BY <1>1, <2>1, <2>2, <2>3
<1> HIDE DEF G
<1>2. G = SUBSET T
  <2>1. G \in SUBSET (SUBSET T)
    BY DEF G
  <2> QED
    BY <1>1, <2>1, FiniteInduction
<1> QED
  BY <1>2 DEF G

LEMMA SumOfFirst ==
  ASSUME NEW f, NEW S, IsFiniteSet(S)
  PROVE  SumFunctionOnSet(f, S)
           = IF S = {} THEN 0
             ELSE f[First(S)] + SumFunctionOnSet(f, S \ {First(S)})
<1> DEFINE it == CHOOSE h : Iterates(h, f, S)
           jt == CHOOSE h : Iterates(h, f, S \ {First(S)})
<1>1. IsFiniteSet(S \ {First(S)})
  BY FS_Subset
<1>2. Iterates(it, f, S) /\ Iterates(jt, f, S \ {First(S)})
  BY <1>1, IteratesExists
<1>3. /\ SumFunctionOnSet(f, S) = it[S]
      /\ SumFunctionOnSet(f, S \ {First(S)}) = jt[S \ {First(S)}]
  BY SumUnfolds
<1> HIDE DEF it, jt
<1>4. it[S \ {First(S)}] = jt[S \ {First(S)}]
  BY <1>1, <1>2, IteratesAgree
<1>5. it[S] = IF S = {} THEN 0 ELSE f[First(S)] + it[S \ {First(S)}]
  BY <1>2 DEF Iterates
<1> QED
  BY <1>3, <1>4, <1>5

LEMMA SumEmpty ==
  ASSUME NEW f
  PROVE  SumFunctionOnSet(f, {}) = 0
BY SumOfFirst, FS_EmptySet

\* A sum of integers is one, of natural numbers too.
LEMMA SumTypes ==
  ASSUME NEW f, NEW S, IsFiniteSet(S), NEW N \in {Int, Nat},
         \A x \in S : f[x] \in N
  PROVE  SumFunctionOnSet(f, S) \in N
<1> DEFINE G == {s \in SUBSET S : SumFunctionOnSet(f, s) \in N}
<1>1. ASSUME NEW s \in SUBSET S, \A x \in s : s \ {x} \in G
      PROVE  s \in G
  <2>1. IsFiniteSet(s) /\ (s # {} => First(s) \in s)
    BY Smaller
  <2>2. CASE s = {}
    BY <2>2, SumEmpty
  <2>3. CASE s # {}
    <3>1. SumFunctionOnSet(f, s) = f[First(s)] + SumFunctionOnSet(f, s \ {First(s)})
      BY <2>1, <2>3, SumOfFirst
    <3>2. f[First(s)] \in N /\ SumFunctionOnSet(f, s \ {First(s)}) \in N
      BY <1>1, <2>1, <2>3
    <3> QED
      BY <3>1, <3>2
  <2> QED
    BY <2>2, <2>3
<1> HIDE DEF G
<1>2. G = SUBSET S
  <2>1. G \in SUBSET (SUBSET S)
    BY DEF G
  <2> QED
    BY <1>1, <2>1, FiniteInduction
<1> QED
  BY <1>2 DEF G

\* The sum, whichever element is taken out first.
LEMMA SumRemove ==
  ASSUME NEW f, NEW S, IsFiniteSet(S), \A x \in S : f[x] \in Int, NEW y \in S
  PROVE  SumFunctionOnSet(f, S) = f[y] + SumFunctionOnSet(f, S \ {y})
<1> DEFINE Sum(s) == SumFunctionOnSet(f, s)
           G == {s \in SUBSET S : \A x \in s : Sum(s) = f[x] + Sum(s \ {x})}
<1>1. ASSUME NEW s \in SUBSET S, \A x \in s : s \ {x} \in G, NEW x \in s
      PROVE  Sum(s) = f[x] + Sum(s \ {x})
  <2>1. IsFiniteSet(s) /\ First(s) \in s
    BY Smaller
  <2>2. Sum(s) = f[First(s)] + Sum(s \ {First(s)})
    BY <2>1, SumOfFirst
  <2>3. CASE x = First(s)
    BY <2>2, <2>3
  <2>4. CASE x # First(s)
    <3> DEFINE rest == (s \ {x}) \ {First(s)}
    <3>1. Sum(s \ {First(s)}) = f[x] + Sum((s \ {First(s)}) \ {x})
      BY <1>1, <2>1, <2>4
    <3>2. Sum(s \ {x}) = f[First(s)] + Sum(rest)
      BY <1>1, <2>1, <2>4
    <3>3. (s \ {First(s)}) \ {x} = rest
      OBVIOUS
    <3>4. f[x] \in Int /\ f[First(s)] \in Int
      BY <2>1
    <3>5. Sum(rest) \in Int
      <4>1. IsFiniteSet(rest) /\ \A z \in rest : f[z] \in Int
        BY <2>1, FS_Subset
      <4> QED
        BY <4>1, SumTypes
    <3> HIDE DEF rest, Sum
    <3>6. Sum(s \ {First(s)}) = f[x] + Sum(rest)
      BY <3>1, <3>3
    <3> QED
      BY <2>2, <3>2, <3>4, <3>5, <3>6
  <2> QED
    BY <2>3, <2>4
<1> HIDE DEF G
<1>2. G = SUBSET S
  <2>1. G \in SUBSET (SUBSET S)
    BY DEF G
  <2>2. \A s \in SUBSET S : (\A x \in s : s \ {x} \in G) => s \in G
    BY <1>1 DEF G
  <2> QED
    BY <2>1, <2>2, FiniteInduction
<1> QED
  BY <1>2 DEF G

\* One element more.
LEMMA SumInsert ==
  ASSUME NEW f, NEW S, IsFiniteSet(S), NEW y, y \notin S,
         \A x \in S \cup {y} : f[x] \in Int
  PROVE  SumFunctionOnSet(f, S \cup {y}) = f[y] + SumFunctionOnSet(f, S)
<1>1. IsFiniteSet(S \cup {y})
  BY FS_AddElement
<1>2. (S \cup {y}) \ {y} = S
  OBVIOUS
<1> QED
  BY <1>1, <1>2, SumRemove

\* Only the values on the set count.
LEMMA SumSame ==
  ASSUME NEW f, NEW g, NEW S, IsFiniteSet(S), \A x \in S : f[x] = g[x]
  PROVE  SumFunctionOnSet(f, S) = SumFunctionOnSet(g, S)
<1> DEFINE G == {s \in SUBSET S : SumFunctionOnSet(f, s) = SumFunctionOnSet(g, s)}
<1>1. ASSUME NEW s \in SUBSET S, \A x \in s : s \ {x} \in G
      PROVE  s \in G
  <2>1. IsFiniteSet(s) /\ (s # {} => First(s) \in s)
    BY Smaller
  <2>2. CASE s = {}
    BY <2>2, SumEmpty
  <2>3. CASE s # {}
    <3>1. SumFunctionOnSet(f, s) = f[First(s)] + SumFunctionOnSet(f, s \ {First(s)})
      BY <2>1, <2>3, SumOfFirst
    <3>2. SumFunctionOnSet(g, s) = g[First(s)] + SumFunctionOnSet(g, s \ {First(s)})
      BY <2>1, <2>3, SumOfFirst
    <3> QED
      BY <1>1, <2>1, <2>3, <3>1, <3>2
  <2> QED
    BY <2>2, <2>3
<1> HIDE DEF G
<1>2. G = SUBSET S
  <2>1. G \in SUBSET (SUBSET S)
    BY DEF G
  <2> QED
    BY <1>1, <2>1, FiniteInduction
<1> QED
  BY <1>2 DEF G

\* One summand changes.
LEMMA SumOneChange ==
  ASSUME NEW f, NEW g, NEW S, IsFiniteSet(S), NEW y \in S, NEW d \in Int,
         \A x \in S : f[x] \in Int,
         g[y] = f[y] + d, \A x \in S \ {y} : g[x] = f[x]
  PROVE  /\ SumFunctionOnSet(g, S) = SumFunctionOnSet(f, S) + d
         /\ SumFunctionOnSet(f, S) \in Int
<1> DEFINE R == S \ {y}
<1>1. IsFiniteSet(R)
  BY FS_Subset
<1>2. \A x \in S : g[x] \in Int
  OBVIOUS
<1>3. \A x \in R : f[x] \in Int /\ g[x] = f[x]
  OBVIOUS
<1>4. SumFunctionOnSet(f, S) = f[y] + SumFunctionOnSet(f, R)
  BY SumRemove
<1>5. SumFunctionOnSet(g, S) = g[y] + SumFunctionOnSet(g, R)
  BY <1>2, SumRemove
<1> HIDE DEF R
<1>6. SumFunctionOnSet(g, R) = SumFunctionOnSet(f, R)
  BY <1>1, <1>3, SumSame
<1>7. SumFunctionOnSet(f, R) \in Int
  BY <1>1, <1>3, SumTypes
<1>8. f[y] \in Int
  OBVIOUS
<1> QED
  BY <1>4, <1>5, <1>6, <1>7, <1>8

\* Every summand grows by one.
LEMMA SumAllUp ==
  ASSUME NEW f, NEW g, NEW S, IsFiniteSet(S),
         \A x \in S : f[x] \in Int /\ g[x] = f[x] + 1
  PROVE  SumFunctionOnSet(g, S) = SumFunctionOnSet(f, S) + Cardinality(S)
<1> DEFINE G == {s \in SUBSET S : SumFunctionOnSet(g, s)
                                    = SumFunctionOnSet(f, s) + Cardinality(s)}
<1>1. ASSUME NEW s \in SUBSET S, \A x \in s : s \ {x} \in G
      PROVE  s \in G
  <2>1. IsFiniteSet(s) /\ Cardinality(s) \in Nat /\ (s # {} => First(s) \in s)
    BY Smaller
  <2>2. CASE s = {}
    <3>1. /\ SumFunctionOnSet(g, s) = 0 /\ SumFunctionOnSet(f, s) = 0
          /\ Cardinality(s) = 0
      BY <2>2, SumEmpty, FS_EmptySet
    <3> QED
      BY <3>1
  <2>3. CASE s # {}
    <3> DEFINE x == First(s)
               r == s \ {x}
    <3>1. /\ SumFunctionOnSet(f, s) = f[x] + SumFunctionOnSet(f, r)
          /\ SumFunctionOnSet(g, s) = g[x] + SumFunctionOnSet(g, r)
      BY <2>1, <2>3, SumOfFirst
    <3>2. x \in s /\ Cardinality(r) = Cardinality(s) - 1
      BY <2>1, <2>3, Smaller
    <3>3. SumFunctionOnSet(g, r) = SumFunctionOnSet(f, r) + Cardinality(r)
      BY <1>1, <3>2
    <3>4. f[x] \in Int /\ g[x] = f[x] + 1
      BY <3>2
    <3>5. SumFunctionOnSet(f, r) \in Int
      <4>1. IsFiniteSet(r) /\ \A z \in r : f[z] \in Int
        BY <2>1, FS_Subset
      <4> HIDE DEF r
      <4> QED
        BY <4>1, SumTypes
    <3> HIDE DEF x, r
    <3>6. SumFunctionOnSet(g, s) = SumFunctionOnSet(f, s) + Cardinality(s)
      BY <2>1, <3>1, <3>2, <3>3, <3>4, <3>5
    <3> QED
      BY <3>6
  <2> QED
    BY <2>2, <2>3
<1> HIDE DEF G
<1>2. G = SUBSET S
  <2>1. G \in SUBSET (SUBSET S)
    BY DEF G
  <2> QED
    BY <1>1, <2>1, FiniteInduction
<1> QED
  BY <1>2 DEF G

\* Of two sets of the same size, each has as many elements the other lacks.
LEMMA SameSizeDifference ==
  ASSUME NEW S, NEW T, IsFiniteSet(S), IsFiniteSet(T),
         Cardinality(S) = Cardinality(T)
  PROVE  Cardinality(S \ T) = Cardinality(T \ S)
<1>1. S \cap T = T \cap S
  OBVIOUS
<1>2. Cardinality(S \ T) = Cardinality(S) - Cardinality(S \cap T)
  BY FS_Difference
<1>3. Cardinality(T \ S) = Cardinality(T) - Cardinality(T \cap S)
  BY FS_Difference
<1> QED
  BY <1>1, <1>2, <1>3

\* Bounded summands, bounded sum.
LEMMA SumBound ==
  ASSUME NEW f, NEW S, IsFiniteSet(S), NEW c \in Nat,
         \A x \in S : f[x] \in Nat /\ f[x] <= c
  PROVE  SumFunctionOnSet(f, S) <= Cardinality(S) * c
<1> DEFINE Sum(s) == SumFunctionOnSet(f, s)
           G == {s \in SUBSET S : Sum(s) <= Cardinality(s) * c}
<1>1. ASSUME NEW s \in SUBSET S, \A x \in s : s \ {x} \in G
      PROVE  s \in G
  <2>1. IsFiniteSet(s) /\ Cardinality(s) \in Nat /\ Sum(s) \in Nat
    BY SumTypes, FS_Subset, FS_CardinalityType
  <2>2. CASE s = {}
    <3>1. Sum(s) = 0 /\ Cardinality(s) * c \in Nat
      BY <2>1, <2>2, SumEmpty
    <3> HIDE DEF Sum
    <3> QED
      BY <3>1 DEF G
  <2>3. CASE s # {}
    <3>1. PICK x \in s : TRUE
      BY <2>3
    <3> DEFINE rest == s \ {x}
    <3>2. \A z \in s : f[z] \in Int
      OBVIOUS
    <3>3. Sum(s) = f[x] + Sum(rest)
      BY <2>1, <3>1, <3>2, SumRemove
    <3>4. Cardinality(rest) = Cardinality(s) - 1 /\ IsFiniteSet(rest)
      BY <2>1, <3>1, FS_RemoveElement
    <3>5. Sum(rest) <= Cardinality(rest) * c
      BY <1>1, <3>1
    <3>6. Sum(rest) \in Nat
      <4>1. \A z \in rest : f[z] \in Nat
        OBVIOUS
      <4> HIDE DEF rest
      <4> QED
        BY <3>4, <4>1, SumTypes
    <3>7. f[x] \in Nat /\ f[x] <= c
      BY <3>1
    <3> DEFINE n == Cardinality(s)
    <3>8. n \in Nat
      BY <2>1
    <3> HIDE DEF rest, Sum
    <3>9. Sum(s) <= c + (n - 1) * c
      <4>1. Cardinality(rest) * c = (n - 1) * c
        BY <3>4
      <4> HIDE DEF n
      <4>2. (n - 1) * c \in Int
        BY <3>8
      <4> QED
        BY <3>3, <3>5, <3>6, <3>7, <4>1, <4>2
    <3> HIDE DEF n
    <3>10. c + (n - 1) * c = n * c
      BY <3>8
    <3>11. Sum(s) <= Cardinality(s) * c
      BY <3>9, <3>10 DEF n
    <3> QED
      BY <3>11 DEF G
  <2> QED
    BY <2>2, <2>3
<1> HIDE DEF G
<1>2. G = SUBSET S
  <2>1. G \in SUBSET (SUBSET S)
    BY DEF G
  <2> QED
    BY <1>1, <2>1, FiniteInduction
<1> QED
  BY <1>2 DEF G

\* Two sets without a common element.
LEMMA SumUnion ==
  ASSUME NEW f, NEW S, IsFiniteSet(S), NEW T, IsFiniteSet(T), S \cap T = {},
         \A x \in S \cup T : f[x] \in Int
  PROVE  SumFunctionOnSet(f, S \cup T)
           = SumFunctionOnSet(f, S) + SumFunctionOnSet(f, T)
<1> DEFINE Sum(s) == SumFunctionOnSet(f, s)
           G == {s \in SUBSET T : Sum(S \cup s) = Sum(S) + Sum(s)}
<1>1. ASSUME NEW s \in SUBSET T, \A x \in s : s \ {x} \in G
      PROVE  s \in G
  <2>1. IsFiniteSet(s) /\ Sum(S) \in Int
    BY SumTypes, FS_Subset
  <2>2. CASE s = {}
    <3>1. S \cup s = S /\ Sum(s) = 0
      BY <2>2, SumEmpty
    <3> HIDE DEF Sum
    <3> QED
      BY <2>1, <3>1
  <2>3. CASE s # {}
    <3>1. PICK x \in s : TRUE
      BY <2>3
    <3>2. IsFiniteSet(S \cup s) /\ x \in S \cup s /\ \A z \in S \cup s : f[z] \in Int
      BY <2>1, <3>1, FS_Union
    <3>3. Sum(S \cup s) = f[x] + Sum((S \cup s) \ {x})
      BY <3>2, SumRemove
    <3>4. Sum(s) = f[x] + Sum(s \ {x})
      BY <2>1, <3>1, <3>2, SumRemove
    <3>5. (S \cup s) \ {x} = S \cup (s \ {x})
      BY <3>1
    <3>6. Sum(S \cup (s \ {x})) = Sum(S) + Sum(s \ {x})
      BY <1>1, <3>1
    <3>7. f[x] \in Int /\ Sum(s \ {x}) \in Int
      <4>1. IsFiniteSet(s \ {x}) /\ \A z \in s \ {x} : f[z] \in Int
        BY <2>1, <3>2, FS_Subset
      <4> QED
        BY <3>2, <4>1, SumTypes
    <3> HIDE DEF Sum
    <3>8. Sum((S \cup s) \ {x}) = Sum(S) + Sum(s \ {x})
      BY <3>5, <3>6
    <3>9. Sum(S \cup s) = Sum(S) + Sum(s)
      BY <2>1, <3>3, <3>4, <3>7, <3>8
    <3> QED
      BY <3>9 DEF G
  <2> QED
    BY <2>2, <2>3
<1> HIDE DEF G
<1>2. G = SUBSET T
  <2>1. G \in SUBSET (SUBSET T)
    BY DEF G
  <2> QED
    BY <1>1, <2>1, FiniteInduction
<1> QED
  BY <1>2 DEF G

-----------------------------------------------------------------------------
(***************************************************************************)
(* A function defined by its value for the number before exists, and keeps *)
(* what each of its steps keeps.                                           *)
(***************************************************************************)
Unrolls(f, n, first, step) ==
  f = [i \in 0..n |-> IF i = 0 THEN first ELSE step[i][f[i - 1]]]

LEMMA StepsExist ==
  ASSUME NEW n \in Nat, NEW S, NEW first \in S[0], NEW step,
         \A i \in 1..n : \A s \in S[i - 1] : step[i][s] \in S[i]
  PROVE  \E f : Unrolls(f, n, first, step) /\ \A i \in 0..n : f[i] \in S[i]
<1> DEFINE Is(f, m) == f = [i \in 0..m |-> IF i = 0 THEN first ELSE step[i][f[i - 1]]]
           D == {m \in Nat : m <= n => \E f : Is(f, m) /\ \A i \in 0..m : f[i] \in S[i]}
<1>1. 0 \in D
  <2> DEFINE f == [i \in 0..0 |-> first]
  <2>1. Is(f, 0) /\ \A i \in 0..0 : f[i] \in S[i]
    OBVIOUS
  <2> HIDE DEF f, Is
  <2> QED
    BY <2>1
<1>2. ASSUME NEW m \in D
      PROVE  m + 1 \in D
  <2> SUFFICES ASSUME m + 1 <= n
               PROVE  \E f : Is(f, m + 1) /\ \A i \in 0..(m + 1) : f[i] \in S[i]
    OBVIOUS
  <2>1. PICK f : Is(f, m) /\ \A i \in 0..m : f[i] \in S[i]
    OBVIOUS
  <2> DEFINE h == [i \in 0..(m + 1) |-> IF i = m + 1 THEN step[m + 1][f[m]] ELSE f[i]]
             next == [i \in 0..(m + 1) |-> IF i = 0 THEN first ELSE step[i][h[i - 1]]]
  <2>2. ASSUME NEW i \in 0..(m + 1)
        PROVE  h[i] = next[i] /\ h[i] \in S[i]
    <3>1. CASE i = m + 1
      <4>1. f[m] \in S[(m + 1) - 1] /\ m + 1 \in 1..n
        BY <2>1
      <4>2. step[m + 1][f[m]] \in S[m + 1]
        BY <4>1
      <4> QED
        BY <3>1, <4>2
    <3>2. CASE i # m + 1
      <4>1. i \in 0..m /\ h[i] = f[i]
        BY <3>2
      <4>2. f[i] = IF i = 0 THEN first ELSE step[i][f[i - 1]]
        BY <2>1, <4>1
      <4>3. i # 0 => h[i - 1] = f[i - 1]
        BY <4>1
      <4> QED
        BY <2>1, <4>1, <4>2, <4>3
    <3> QED
      BY <3>1, <3>2
  <2>3. h = next
    BY <2>2
  <2>4. Is(h, m + 1)
    BY <2>3
  <2> HIDE DEF h, next
  <2> QED
    BY <2>2, <2>4
<1> HIDE DEF D
<1>3. D = Nat
  <2>1. D \in SUBSET Nat
    BY DEF D
  <2> QED
    BY <1>1, <1>2, <2>1, Induction
<1>4. \E f : Is(f, n) /\ \A i \in 0..n : f[i] \in S[i]
  BY <1>3 DEF D
<1> QED
  BY <1>4 DEF Unrolls

LEMMA StepsKeep ==
  ASSUME NEW n \in Nat, NEW S, NEW f, f[0] \in S[0],
         \A i \in 1..n : f[i - 1] \in S[i - 1] => f[i] \in S[i]
  PROVE  \A i \in 0..n : f[i] \in S[i]
<1> DEFINE D == {m \in Nat : m <= n => f[m] \in S[m]}
<1>1. 0 \in D
  OBVIOUS
<1>2. ASSUME NEW m \in D
      PROVE  m + 1 \in D
  <2>1. m + 1 <= n => m + 1 \in 1..n /\ (m + 1) - 1 = m /\ m <= n
    OBVIOUS
  <2> QED
    BY <2>1
<1> HIDE DEF D
<1>3. D = Nat
  <2>1. D \in SUBSET Nat
    BY DEF D
  <2> QED
    BY <1>1, <1>2, <2>1, Induction
<1> QED
  BY <1>3 DEF D

-----------------------------------------------------------------------------
(***************************************************************************)
(* Sums over intervals, and sums that repeat.                              *)
(***************************************************************************)
\* A sum over an interval, taken as one over a set.
LEMMA SumInterval ==
  ASSUME NEW f, NEW n \in Nat, \A i \in 1..n : f[i] \in Int
  PROVE  SumFunctionOnSet(f, 1..n) = SumTo(f, n) /\ SumTo(f, n) \in Int
<1> DEFINE S == {m \in Nat : m <= n => /\ SumFunctionOnSet(f, 1..m) = SumTo(f, m)
                                       /\ SumTo(f, m) \in Int}
<1>1. 0 \in S
  <2>1. 1..0 = {}
    OBVIOUS
  <2> QED
    BY <2>1, SumEmpty, Sums
<1>2. ASSUME NEW m \in S
      PROVE  m + 1 \in S
  <2> SUFFICES ASSUME m + 1 <= n
               PROVE  /\ SumFunctionOnSet(f, 1..m + 1) = SumTo(f, m + 1)
                      /\ SumTo(f, m + 1) \in Int
    OBVIOUS
  <2>1. /\ m \in Nat /\ m <= n /\ SumFunctionOnSet(f, 1..m) = SumTo(f, m)
        /\ SumTo(f, m) \in Int
    OBVIOUS
  <2>2. 1..m + 1 = (1..m) \cup {m + 1} /\ m + 1 \notin 1..m
    BY <2>1
  <2>3. IsFiniteSet(1..m)
    BY <2>1, FS_Interval
  <2>4. \A i \in (1..m) \cup {m + 1} : f[i] \in Int
    BY <2>1
  <2>5. SumFunctionOnSet(f, (1..m) \cup {m + 1}) = f[m + 1] + SumFunctionOnSet(f, 1..m)
    BY <2>2, <2>3, <2>4, SumInsert
  <2>6. SumTo(f, m + 1) = SumTo(f, m) + f[m + 1]
    BY <2>1, Sums
  <2>7. f[m + 1] \in Int
    BY <2>1
  <2>8. SumFunctionOnSet(f, 1..m + 1) = f[m + 1] + SumTo(f, m)
    BY <2>1, <2>2, <2>5, Zenon
  <2> QED
    BY <2>1, <2>6, <2>7, <2>8
<1> HIDE DEF S
<1>3. S = Nat
  <2>1. S \in SUBSET Nat
    BY DEF S
  <2> QED
    BY <1>1, <1>2, <2>1, Induction
<1> QED
  BY <1>3 DEF S

\* A sum goes on where another ends.
LEMMA SumGoesOn ==
  ASSUME NEW g, NEW h, NEW a \in Nat, NEW n \in Nat,
         \A i \in 1..a + n : g[i] \in Int,
         \A i \in 1..n : h[i] = g[a + i]
  PROVE  SumTo(g, a + n) = SumTo(g, a) + SumTo(h, n)
<1> DEFINE S == {m \in Nat : m <= n => SumTo(g, a + m) = SumTo(g, a) + SumTo(h, m)}
<1>1. SumTo(g, a) \in Int
  BY SumInterval
<1>2. 0 \in S
  BY <1>1, Sums
<1>3. ASSUME NEW m \in S
      PROVE  m + 1 \in S
  <2> SUFFICES ASSUME m + 1 <= n
               PROVE  SumTo(g, a + (m + 1)) = SumTo(g, a) + SumTo(h, m + 1)
    OBVIOUS
  <2>1. m \in Nat /\ m <= n /\ SumTo(g, a + m) = SumTo(g, a) + SumTo(h, m)
    OBVIOUS
  <2>2. SumTo(h, m + 1) = SumTo(h, m) + h[m + 1]
    BY <2>1, Sums
  <2>3. SumTo(g, (a + m) + 1) = SumTo(g, a + m) + g[(a + m) + 1]
    BY <2>1, Sums
  <2>4. a + (m + 1) = (a + m) + 1 /\ m + 1 \in 1..n /\ (a + m) + 1 \in 1..a + n
    BY <2>1
  <2>5. h[m + 1] = g[(a + m) + 1] /\ g[(a + m) + 1] \in Int
    BY <2>4
  <2>6. SumTo(h, m) \in Int
    <3>1. \A i \in 1..m : h[i] \in Int
      BY <2>1
    <3> QED
      BY <2>1, <3>1, SumInterval
  <2> QED
    BY <1>1, <2>1, <2>2, <2>3, <2>4, <2>5, <2>6
<1> HIDE DEF S
<1>4. S = Nat
  <2>1. S \in SUBSET Nat
    BY DEF S
  <2> QED
    BY <1>2, <1>3, <2>1, Induction
<1> QED
  BY <1>4 DEF S

\* Sums of the same numbers are the same.
LEMMA SumToSame ==
  ASSUME NEW g, NEW h, NEW n \in Nat, \A i \in 1..n : h[i] = g[i],
         \A i \in 1..n : g[i] \in Int
  PROVE  SumTo(h, n) = SumTo(g, n)
<1>1. SumTo(g, 0 + n) = SumTo(g, 0) + SumTo(h, n)
  BY SumGoesOn
<1>2. SumTo(h, n) \in Int
  BY SumInterval
<1> QED
  BY <1>1, <1>2, Sums

\* Sums of natural numbers grow.
LEMMA SumGrows ==
  ASSUME NEW g, NEW n \in Nat, \A i \in 1..n : g[i] \in Nat,
         NEW a \in 0..n, NEW b \in a..n
  PROVE  SumTo(g, a) <= SumTo(g, b)
<1> DEFINE h == [i \in 1..b - a |-> g[a + i]]
<1>1. a \in Nat /\ b - a \in Nat /\ a + (b - a) = b
  OBVIOUS
<1>2. \A i \in 1..b - a : h[i] = g[a + i] /\ h[i] \in Nat
  BY <1>1
<1>3. \A i \in 1..a + (b - a) : g[i] \in Int
  BY <1>1
<1> HIDE DEF h
<1>4. SumTo(g, a + (b - a)) = SumTo(g, a) + SumTo(h, b - a)
  BY <1>1, <1>2, <1>3, SumGoesOn
<1>5. SumTo(h, b - a) \in Nat
  BY <1>1, <1>2, SumsNatural
<1>6. SumTo(g, a) \in Nat
  BY <1>1, SumsNatural
<1> QED
  BY <1>1, <1>4, <1>5, <1>6

\* A sum of numbers that repeat after the first n.
Repeats(g, h, n, c) == \A d \in 0..c - 1 : \A i \in 1..n : g[d * n + i] = h[i]

LEMMA SumOfRounds ==
  ASSUME NEW g, NEW h, NEW n \in Nat, NEW c \in Nat, NEW m, m = c * n,
         \A i \in 1..n : h[i] \in Int, Repeats(g, h, n, c)
  PROVE  SumTo(g, m) = c * SumTo(h, n)
<1> DEFINE S == {d \in Nat : d <= c =>
                   /\ \A i \in 1..d * n : g[i] \in Int
                   /\ SumTo(g, d * n) = d * SumTo(h, n)}
<1>1. 0 \in S
  <2>1. 0 * n = 0 /\ SumTo(g, 0) = 0 /\ 1..0 = {}
    BY Sums
  <2>2. 0 * SumTo(h, n) = 0
    BY SumInterval
  <2> QED
    BY <2>1, <2>2
<1>2. ASSUME NEW d \in S
      PROVE  d + 1 \in S
  <2> SUFFICES ASSUME d + 1 <= c
               PROVE  /\ \A i \in 1..(d + 1) * n : g[i] \in Int
                      /\ SumTo(g, (d + 1) * n) = (d + 1) * SumTo(h, n)
    OBVIOUS
  <2> DEFINE a == d * n
             sum == SumTo(h, n)
  <2>1. /\ d \in Nat /\ d \in 0..c - 1
        /\ \A i \in 1..a : g[i] \in Int
        /\ SumTo(g, a) = d * sum
    OBVIOUS
  <2>2. a \in Nat /\ (d + 1) * n = a + n
    BY <2>1
  <2>3. \A i \in 1..n : g[a + i] = h[i]
    BY <2>1 DEF Repeats
  <2>4. sum \in Int
    BY SumInterval
  <2>5. (d + 1) * sum = d * sum + sum
    BY <2>1, <2>4
  <2> HIDE DEF a
  <2>6. ASSUME NEW i \in 1..a + n
        PROVE  g[i] \in Int
    <3>1. CASE i <= a
      BY <2>1, <2>2, <3>1
    <3>2. CASE i > a
      <4> DEFINE j == i - a
      <4>1. j \in 1..n /\ a + j = i
        BY <2>2, <3>2
      <4> HIDE DEF j
      <4>2. g[a + j] = h[j] /\ h[j] \in Int
        BY <2>3, <4>1
      <4> QED
        BY <4>1, <4>2
    <3> QED
      BY <2>2, <3>1, <3>2
  <2>7. SumTo(g, a + n) = SumTo(g, a) + SumTo(h, n)
    BY <2>2, <2>3, <2>6, SumGoesOn
  <2> QED
    BY <2>1, <2>2, <2>5, <2>6, <2>7
<1> HIDE DEF S
<1>3. S = Nat
  <2>1. S \in SUBSET Nat
    BY DEF S
  <2> QED
    BY <1>1, <1>2, <2>1, Induction
<1> QED
  BY <1>3 DEF S

-----------------------------------------------------------------------------
(***************************************************************************)
(* Numbers taken from an interval, and its elements put in a row.          *)
(***************************************************************************)
LEMMA Chosen ==
  ASSUME NEW n \in Nat, NEW S \in SUBSET (1..n)
  PROVE  Cardinality(S) \in 0..n
<1>1. IsFiniteSet(1..n) /\ Cardinality(1..n) = n
  BY FS_Interval
<1>2. IsFiniteSet(S) /\ Cardinality(S) <= n
  BY <1>1, FS_Subset
<1>3. Cardinality(S) \in Nat
  BY <1>2, FS_CardinalityType
<1> QED
  BY <1>2, <1>3

LEMMA RowOfAll ==
  ASSUME NEW n \in Nat \ {0}, NEW S, NEW row \in [1..n -> S]
  PROVE  row \in Seq(S) /\ Len(row) = n /\ row # <<>> /\ Tail(row) \in Seq(S)
<1>1. row \in Seq(S) /\ Len(row) = n
  OBVIOUS
<1>2. row # <<>>
  BY <1>1
<1> QED
  BY <1>1, <1>2

-----------------------------------------------------------------------------
(***************************************************************************)
(* Counting in sequences.                                                  *)
(***************************************************************************)
Count(q, S) == Cardinality({i \in 1..Len(q) : q[i] \in S})

LEMMA CountConcat ==
  ASSUME NEW X, NEW q \in Seq(X), NEW r \in Seq(X), NEW S
  PROVE  /\ Count(q \o r, S) = Count(q, S) + Count(r, S)
         /\ Count(q, S) \in Nat
<1> DEFINE l == Len(q)
           A == {i \in 1..l : q[i] \in S}
           B == {i \in 1..Len(r) : r[i] \in S}
           C == {l + i : i \in B}
           both == {i \in 1..Len(q \o r) : (q \o r)[i] \in S}
<1>1. /\ l \in Nat /\ Len(r) \in Nat /\ Len(q \o r) = l + Len(r)
      /\ \A i \in 1..l + Len(r) :
           (q \o r)[i] = IF i <= l THEN q[i] ELSE r[i - l]
  OBVIOUS
<1>2. IsFiniteSet(A) /\ IsFiniteSet(B)
  <2>1. IsFiniteSet(1..l) /\ IsFiniteSet(1..Len(r))
    BY <1>1, FS_Interval
  <2> QED
    BY <2>1, FS_Subset
<1>3. IsFiniteSet(C) /\ Cardinality(C) = Cardinality(B)
  <2> DEFINE f == [i \in B |-> l + i]
  <2>1. f \in Bijection(B, C)
    BY <1>1 DEF Bijection, Injection, IsInjective, Surjection
  <2>2. ExistsBijection(B, C)
    BY <2>1 DEF ExistsBijection
  <2> QED
    BY <1>2, <2>2, FS_Bijection
<1>4. both = A \cup C
  <2>1. ASSUME NEW i \in both
        PROVE  i \in A \cup C
    <3>1. i \in 1..l + Len(r) /\ (q \o r)[i] \in S
      BY <1>1
    <3>2. CASE i <= l
      BY <1>1, <3>1, <3>2
    <3>3. CASE i > l
      <4>1. r[i - l] \in S /\ i - l \in 1..Len(r) /\ l + (i - l) = i
        BY <1>1, <3>1, <3>3
      <4>2. i - l \in B
        BY <4>1
      <4> HIDE DEF B
      <4> QED
        BY <4>1, <4>2
    <3> QED
      BY <1>1, <3>1, <3>2, <3>3
  <2>2. ASSUME NEW i \in A
        PROVE  i \in both
    BY <1>1
  <2>3. ASSUME NEW i \in C
        PROVE  i \in both
    <3>1. PICK j \in B : i = l + j
      OBVIOUS
    <3>2. j \in 1..Len(r) /\ r[j] \in S
      BY <3>1
    <3>3. i \in 1..l + Len(r) /\ i > l /\ i - l = j
      BY <1>1, <3>1, <3>2
    <3> QED
      BY <1>1, <3>2, <3>3
  <2> HIDE DEF A, C, both
  <2> QED
    BY <2>1, <2>2, <2>3
<1>5. A \cap C = {}
  BY <1>1
<1> HIDE DEF A, B, C, both
<1>6. Cardinality(both) = Cardinality(A) + Cardinality(C)
  <2>1. Cardinality(A \cup C)
          = Cardinality(A) + Cardinality(C) - Cardinality(A \cap C)
    BY <1>2, <1>3, FS_Union
  <2>2. Cardinality(A) \in Nat /\ Cardinality(C) \in Nat
    BY <1>2, <1>3, FS_CardinalityType
  <2>3. Cardinality(A \cap C) = 0
    BY <1>5, FS_EmptySet
  <2>4. Cardinality(A \cup C) = Cardinality(A) + Cardinality(C)
    BY <2>1, <2>2, <2>3
  <2> QED
    BY <1>4, <2>4
<1>7. Cardinality(A) \in Nat
  BY <1>2, FS_CardinalityType
<1> QED
  BY <1>3, <1>6, <1>7 DEF Count, A, B, both, l

-----------------------------------------------------------------------------
(***************************************************************************)
(* Tables of numbers with three indices, of the sets A, B and I.           *)
(***************************************************************************)
Table(A, B, I) == [A -> [B -> [I -> Nat]]]

\* Table c with v for the indices n, t and u.
Put(c, n, t, u, v) == [c EXCEPT ![n][t][u] = v]

\* Table d is c with v there and is the same elsewhere.
IsPut(A, B, I, d, c, n, t, u, v) ==
  /\ d \in Table(A, B, I)
  /\ d[n][t][u] = v
  /\ \A m \in A, y \in B, w \in I :
       ~ (m = n /\ y = t /\ w = u) => d[m][y][w] = c[m][y][w]

LEMMA PutCount ==
  ASSUME NEW A, NEW B, NEW I, NEW c \in Table(A, B, I),
         NEW n \in A, NEW t \in B, NEW u \in I, NEW v \in Nat
  PROVE  IsPut(A, B, I, Put(c, n, t, u, v), c, n, t, u, v)
<1> DEFINE d == Put(c, n, t, u, v)
<1>1. c[n] \in [B -> [I -> Nat]] /\ c[n][t] \in [I -> Nat]
  BY DEF Table
<1>2. [c[n][t] EXCEPT ![u] = v] \in [I -> Nat]
  BY <1>1
<1>3. d = [c EXCEPT ![n] = [c[n] EXCEPT ![t] = [c[n][t] EXCEPT ![u] = v]]]
  BY DEF Put
<1> HIDE DEF d
<1>4. [c[n] EXCEPT ![t] = [c[n][t] EXCEPT ![u] = v]]
        \in [B -> [I -> Nat]]
  BY <1>1, <1>2
<1>5. d \in Table(A, B, I)
  BY <1>3, <1>4 DEF Table
<1>6. d[n] = [c[n] EXCEPT ![t] = [c[n][t] EXCEPT ![u] = v]]
      /\ \A m \in A : m # n => d[m] = c[m]
  BY <1>3 DEF Table
<1>7. d[n][t] = [c[n][t] EXCEPT ![u] = v]
      /\ \A y \in B : y # t => d[n][y] = c[n][y]
  BY <1>1, <1>6
<1>8. d[n][t][u] = v /\ \A w \in I : w # u => d[n][t][w] = c[n][t][w]
  BY <1>1, <1>7
<1> QED
  BY <1>5, <1>6, <1>7, <1>8 DEF IsPut, d

\* The sum of all numbers of a table.
Cells(A, B, I) == (A \X B) \X I
TotalOf(A, B, I, c) ==
  SumFunctionOnSet([x \in Cells(A, B, I) |-> c[x[1][1]][x[1][2]][x[2]]], Cells(A, B, I))

LEMMA TotalType ==
  ASSUME NEW A, NEW B, NEW I, IsFiniteSet(A), IsFiniteSet(B), IsFiniteSet(I),
         NEW c \in Table(A, B, I)
  PROVE  TotalOf(A, B, I, c) \in Nat
<1> DEFINE S == Cells(A, B, I)
           f == [x \in S |-> c[x[1][1]][x[1][2]][x[2]]]
<1>1. IsFiniteSet(S)
  <2>1. IsFiniteSet(A \X B)
    BY FS_Product
  <2> QED
    BY <2>1, FS_Product DEF Cells
<1>2. ASSUME NEW x \in S
      PROVE  f[x] \in Nat
  <2>1. x[1][1] \in A /\ x[1][2] \in B /\ x[2] \in I
    BY DEF Cells
  <2>2. \A m \in A, y \in B, w \in I : c[m][y][w] \in Nat
    BY DEF Table
  <2>3. f[x] = c[x[1][1]][x[1][2]][x[2]]
    OBVIOUS
  <2> HIDE DEF f, S
  <2> QED
    BY <2>1, <2>2, <2>3
<1>3. TotalOf(A, B, I, c) = SumFunctionOnSet(f, S)
  BY DEF TotalOf
<1> HIDE DEF f, S
<1> QED
  BY <1>1, <1>2, <1>3, SumTypes

LEMMA TotalDrops ==
  ASSUME NEW A, NEW B, NEW I, IsFiniteSet(A), IsFiniteSet(B), IsFiniteSet(I),
         NEW c \in Table(A, B, I), NEW n \in A, NEW t \in B, NEW u \in I,
         c[n][t][u] > 0,
         NEW d, IsPut(A, B, I, d, c, n, t, u, c[n][t][u] - 1)
  PROVE  /\ TotalOf(A, B, I, c) \in Nat
         /\ TotalOf(A, B, I, d) = TotalOf(A, B, I, c) - 1
         /\ TotalOf(A, B, I, d) \in Nat
<1> DEFINE S == Cells(A, B, I)
           z == <<<<n, t>>, u>>
           f(e) == [x \in S |-> e[x[1][1]][x[1][2]][x[2]]]
<1>1. IsFiniteSet(S) /\ z \in S
  <2>1. IsFiniteSet(A \X B)
    BY FS_Product
  <2> QED
    BY <2>1, FS_Product DEF Cells
<1>2. d \in Table(A, B, I)
  BY DEF IsPut
<1>3. ASSUME NEW e \in Table(A, B, I)
      PROVE  /\ \A x \in S : f(e)[x] \in Nat
             /\ f(e)[z] = e[n][t][u]
             /\ SumFunctionOnSet(f(e), S) \in Nat
  <2>1. ASSUME NEW x \in S
        PROVE  f(e)[x] \in Nat
    <3>1. x[1][1] \in A /\ x[1][2] \in B /\ x[2] \in I
      BY DEF Cells
    <3>2. \A m \in A, y \in B, w \in I : e[m][y][w] \in Nat
      BY DEF Table
    <3>3. f(e)[x] = e[x[1][1]][x[1][2]][x[2]]
      OBVIOUS
    <3> HIDE DEF f, S
    <3> QED
      BY <3>1, <3>2, <3>3
  <2>2. f(e)[z] = e[n][t][u]
    BY <1>1
  <2> HIDE DEF f, S
  <2>3. SumFunctionOnSet(f(e), S) \in Nat
    BY <1>1, <2>1, SumTypes
  <2> QED
    BY <2>1, <2>2, <2>3
<1>4. ASSUME NEW x \in S \ {z}
      PROVE  f(d)[x] = f(c)[x]
  <2>1. PICK m \in A, y \in B, w \in I : x = <<<<m, y>>, w>>
    BY DEF Cells
  <2>2. ~ (m = n /\ y = t /\ w = u)
    BY <2>1
  <2>3. d[m][y][w] = c[m][y][w]
    BY <2>2 DEF IsPut
  <2> QED
    BY <2>1, <2>3
<1>5. d[n][t][u] = c[n][t][u] - 1
  BY DEF IsPut
<1> DEFINE F == f(c)
           G == f(d)
           R == S \ {z}
<1>6. /\ \A x \in S : F[x] \in Nat /\ G[x] \in Nat
      /\ F[z] = c[n][t][u] /\ G[z] = F[z] - 1
      /\ SumFunctionOnSet(F, S) \in Nat /\ SumFunctionOnSet(G, S) \in Nat
      /\ \A x \in R : G[x] = F[x]
  BY <1>2, <1>3, <1>4, <1>5
<1>7. TotalOf(A, B, I, c) = SumFunctionOnSet(F, S)
      /\ TotalOf(A, B, I, d) = SumFunctionOnSet(G, S)
  BY DEF TotalOf
<1> HIDE DEF F, G, S, f
<1>8. IsFiniteSet(R)
  BY <1>1, FS_RemoveElement
<1>9. SumFunctionOnSet(F, S) = F[z] + SumFunctionOnSet(F, R)
      /\ SumFunctionOnSet(G, S) = G[z] + SumFunctionOnSet(G, R)
  <2>1. \A x \in S : F[x] \in Int /\ G[x] \in Int
    BY <1>6
  <2> QED
    BY <1>1, <2>1, SumRemove
<1>10. SumFunctionOnSet(F, R) = SumFunctionOnSet(G, R)
  BY <1>6, <1>8, SumSame
<1>11. SumFunctionOnSet(F, R) \in Nat
  BY <1>6, <1>8, SumTypes
<1>12. F[z] \in Nat
  BY <1>1, <1>6
<1> QED
  BY <1>6, <1>7, <1>9, <1>10, <1>11, <1>12

\* Of a rank of rounds and what is left of one, a whole round goes.
LEMMA RoundGone ==
  ASSUME NEW K \in Nat, NEW a \in Nat, NEW i \in Nat, NEW j \in Nat, j < K
  PROVE  K * a + j < K * (a + 1) + i
<1>1. K * (a + 1) = K * a + K /\ K * a \in Nat
  OBVIOUS
<1> QED
  BY <1>1

\* Where all elements of a set are put in a row in the order of dist, and one
\* of them has dist 0, the first one has, and the others come behind it.
IsRow(row, S, dist, N) ==
  /\ row \in [1..N -> S]
  /\ \A i, j \in 1..N : i # j => row[i] # row[j]
  /\ \A i, j \in 1..N : i < j => dist[row[i]] <= dist[row[j]]
Covers(row, S) ==
  \A n \in S : n = row[1] \/ \E i \in 1..Len(Tail(row)) : n = Tail(row)[i]

LEMMA RowCovers ==
  ASSUME NEW S, IsFiniteSet(S), NEW N \in Nat \ {0}, Cardinality(S) = N,
         NEW dist \in [S -> Nat], NEW z \in S, dist[z] = 0,
         NEW row, IsRow(row, S, dist, N)
  PROVE  Covers(row, S) /\ dist[row[1]] = 0
<1> DEFINE I == 1..N
<1>0. /\ row \in [I -> S]
      /\ \A i, j \in I : i # j => row[i] # row[j]
      /\ \A i, j \in I : i < j => dist[row[i]] <= dist[row[j]]
  BY DEF IsRow
<1>1. row \in Injection(I, S)
  BY <1>0 DEF Injection, IsInjective
<1>2. Cardinality(I) = N
  <2>1. 1 \in Int /\ N \in Int
    OBVIOUS
  <2>2. Cardinality(I) = IF 1 > N THEN 0 ELSE N - 1 + 1
    BY <2>1, FS_Interval
  <2> QED
    BY <2>2
<1>3. row \in Surjection(I, S)
  BY <1>1, <1>2, FS_Injection
<1>4. \A n \in S : \E i \in I : n = row[i]
  BY <1>3 DEF Surjection
<1>5. row \in Seq(S) /\ Len(row) = N
  BY <1>0
<1>6. /\ Len(Tail(row)) = N - 1
      /\ \A i \in I : i # 1 => row[i] = Tail(row)[i - 1]
  <2>1. Len(row) \in Nat \ {0}
    BY <1>5
  <2>2. Len(Tail(row)) = N - 1
    BY <1>5, <2>1
  <2>3. \A i \in 1..(Len(row) - 1) : Tail(row)[i] = row[i + 1]
    BY <1>5, <2>1
  <2>4. ASSUME NEW i \in I, i # 1
        PROVE  row[i] = Tail(row)[i - 1]
    <3>1. i - 1 \in 1..(Len(row) - 1) /\ (i - 1) + 1 = i
      BY <1>5, <2>4
    <3>2. Tail(row)[i - 1] = row[(i - 1) + 1]
      BY <2>3, <3>1
    <3> QED
      BY <3>1, <3>2
  <2> QED
    BY <2>2, <2>4
<1>7. ASSUME NEW n \in S
      PROVE  n = row[1] \/ \E i \in 1..Len(Tail(row)) : n = Tail(row)[i]
  <2>1. PICK i \in I : n = row[i]
    BY <1>4
  <2>2. CASE i # 1
    <3>1. i - 1 \in 1..Len(Tail(row)) /\ n = Tail(row)[i - 1]
      BY <1>6, <2>1, <2>2
    <3> QED
      BY <3>1
  <2> QED
    BY <2>1, <2>2
<1>8. dist[row[1]] = 0
  <2>1. PICK j \in I : z = row[j]
    BY <1>4
  <2>2. 1 \in I /\ row[1] \in S
    BY <1>0
  <2>3. dist[row[1]] <= dist[z]
    BY <1>0, <2>1, <2>2
  <2> QED
    BY <2>2, <2>3
<1> QED
  BY <1>7, <1>8 DEF Covers

=============================================================================
