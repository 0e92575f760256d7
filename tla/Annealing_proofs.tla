--------------------------- MODULE Annealing_proofs ---------------------------
(***************************************************************************)
(* Proofs about the annealing of sa_application.cc: the solution, the      *)
(* bandwidth it leaves, the requests it overloads and its delay stay in    *)
(* step, and no link is used beyond its bandwidth.                         *)
(***************************************************************************)
EXTENDS Annealing, NatSums

-----------------------------------------------------------------------------
(***************************************************************************)
(* What push_back collects.                                                *)
(***************************************************************************)
Collects(kept, q, K, n) ==
  kept = [i \in 0..n |-> IF i = 0 THEN <<>>
                         ELSE IF q[i] \in K THEN Append(kept[i - 1], q[i])
                         ELSE kept[i - 1]]

\* k has those of the first i elements of q that are in K.
IsKept(k, q, K, i) ==
  /\ \A j \in 1..Len(k) : k[j] \in K /\ \E a \in 1..i : q[a] = k[j]
  /\ \A a \in 1..i : q[a] \in K => \E j \in 1..Len(k) : k[j] = q[a]
  /\ IsInjective(q) => IsInjective(k)

LEMMA KeptStep ==
  ASSUME NEW S, NEW q \in Seq(S), NEW K, NEW i \in 1..Len(q),
         NEW k \in Seq(S), IsKept(k, q, K, i - 1)
  PROVE  IsKept(IF q[i] \in K THEN Append(k, q[i]) ELSE k, q, K, i)
<1>1. Len(q) \in Nat /\ i - 1 \in Nat /\ i \in 1..i /\ DOMAIN q = 1..Len(q)
      /\ q[i] \in S
  OBVIOUS
<1>2. \A a \in 1..i - 1 : a \in 1..i /\ a # i /\ a \in 1..Len(q)
  BY <1>1
<1>3. \A a \in 1..i : a # i => a \in 1..i - 1
  BY <1>1
<1>4. CASE q[i] \notin K
  <2>1. \A a \in 1..i : q[a] \in K => a \in 1..i - 1
    BY <1>3, <1>4
  <2> QED
    BY <1>2, <1>4, <2>1 DEF IsKept
<1>5. CASE q[i] \in K
  <2> DEFINE m == Append(k, q[i])
  <2>1. /\ Len(k) \in Nat /\ Len(m) = Len(k) + 1 /\ DOMAIN m = 1..Len(k) + 1
        /\ m[Len(k) + 1] = q[i] /\ DOMAIN k = 1..Len(k)
        /\ \A j \in 1..Len(k) : m[j] = k[j]
    BY <1>1
  <2>2. \A j \in 1..Len(m) : j \in 1..Len(k) \/ j = Len(k) + 1
    BY <2>1
  <2>3. \A j \in 1..Len(k) : j \in 1..Len(m) /\ j # Len(k) + 1
    BY <2>1
  <2>4. Len(k) + 1 \in 1..Len(m)
    BY <2>1
  <2> HIDE DEF m
  <2>5. \A j \in 1..Len(m) : m[j] \in K /\ \E a \in 1..i : q[a] = m[j]
    BY <1>1, <1>2, <1>5, <2>1, <2>2 DEF IsKept
  <2>6. \A a \in 1..i : q[a] \in K => \E j \in 1..Len(m) : m[j] = q[a]
    BY <1>3, <2>1, <2>3, <2>4 DEF IsKept
  <2>7. ASSUME IsInjective(q)
        PROVE  IsInjective(m)
    <3>1. IsInjective(k)
      BY <2>7 DEF IsKept
    <3>2. \A j \in 1..Len(k) : k[j] # q[i]
      BY <1>1, <1>2, <2>7 DEF IsKept, IsInjective
    <3>3. ASSUME NEW a \in DOMAIN m, NEW b \in DOMAIN m, m[a] = m[b]
          PROVE  a = b
      BY <2>1, <2>2, <3>1, <3>2, <3>3 DEF IsInjective
    <3> QED
      BY <3>3 DEF IsInjective
  <2> QED
    BY <1>5, <2>5, <2>6, <2>7 DEF IsKept, m
<1> QED
  BY <1>4, <1>5

LEMMA KeptIs ==
  ASSUME NEW S, NEW q \in Seq(S), NEW K
  PROVE  Kept(q, K) \in Seq(S) /\ IsKept(Kept(q, K), q, K, Len(q))
<1> DEFINE n == Len(q)
           T == [i \in 0..n |-> {k \in Seq(S) : IsKept(k, q, K, i)}]
           more(i, k) == IF q[i] \in K THEN Append(k, q[i]) ELSE k
           step == [i \in 1..n |-> [k \in Seq(S) |-> more(i, k)]]
<1>1. /\ n \in Nat /\ 0 \in 0..n /\ n \in 0..n
      /\ \A i \in 1..n : i \in 0..n /\ i - 1 \in 0..n /\ i # 0 /\ q[i] \in S
      /\ \A i \in 0..n : i # 0 => i \in 1..n
  OBVIOUS
<1>2. <<>> \in T[0]
  <2>1. <<>> \in Seq(S) /\ Len(<<>>) = 0 /\ DOMAIN <<>> = {}
    OBVIOUS
  <2>2. 1..0 = {}
    OBVIOUS
  <2>3. IsKept(<<>>, q, K, 0)
    BY <2>1, <2>2 DEF IsKept, IsInjective
  <2> QED
    BY <1>1, <2>1, <2>3
<1>3. ASSUME NEW i \in 1..n, NEW k \in T[i - 1]
      PROVE  more(i, k) \in T[i]
  <2>1. k \in Seq(S) /\ IsKept(k, q, K, i - 1)
    BY <1>1
  <2>2. IsKept(more(i, k), q, K, i)
    BY <2>1, KeptStep
  <2>3. more(i, k) \in Seq(S)
    BY <1>1, <2>1
  <2> QED
    BY <1>1, <2>2, <2>3
<1>4. \A i \in 1..n : \A k \in T[i - 1] : step[i][k] = more(i, k)
  BY <1>1
<1>5. \A i \in 0..n : T[i] \subseteq Seq(S) /\ \A k \in T[i] : IsKept(k, q, K, i)
  OBVIOUS
<1> HIDE DEF T, step, more, n
<1>6. PICK g : Unrolls(g, n, <<>>, step) /\ \A i \in 0..n : g[i] \in T[i]
  <2>1. \A i \in 1..n : \A k \in T[i - 1] : step[i][k] \in T[i]
    BY <1>3, <1>4
  <2> QED
    BY <1>1, <1>2, <2>1, StepsExist
<1>7. \E kept : Collects(kept, q, K, n)
  <2>1. ASSUME NEW i \in 0..n
        PROVE  g[i] = IF i = 0 THEN <<>> ELSE more(i, g[i - 1])
    <3>1. g[i] = IF i = 0 THEN <<>> ELSE step[i][g[i - 1]]
      BY <1>6 DEF Unrolls
    <3>2. i # 0 => i \in 1..n /\ g[i - 1] \in T[i - 1]
      BY <1>1, <1>6
    <3> QED
      BY <1>4, <3>1, <3>2
  <2>2. g = [i \in 0..n |-> g[i]]
    BY <1>6 DEF Unrolls
  <2>3. g = [i \in 0..n |-> IF i = 0 THEN <<>> ELSE more(i, g[i - 1])]
    BY <2>1, <2>2
  <2>4. Collects(g, q, K, n)
    BY <2>3 DEF Collects, more
  <2> QED
    BY <2>4
<1> DEFINE f == CHOOSE kept : Collects(kept, q, K, n)
<1>8. Collects(f, q, K, n)
  BY <1>7
<1>9. Kept(q, K) = f[n]
  BY DEF Kept, Collects, n
<1> HIDE DEF f
<1>10. f[0] = <<>> /\ \A i \in 1..n : f[i] = more(i, f[i - 1])
  <2>1. f = [i \in 0..n |-> IF i = 0 THEN <<>> ELSE more(i, f[i - 1])]
    BY <1>8 DEF Collects, more
  <2>2. \A i \in 0..n : f[i] = IF i = 0 THEN <<>> ELSE more(i, f[i - 1])
    BY <2>1
  <2> QED
    BY <1>1, <2>2
<1>11. \A i \in 0..n : f[i] \in T[i]
  <2>1. \A i \in 1..n : f[i - 1] \in T[i - 1] => f[i] \in T[i]
    BY <1>3, <1>10
  <2>2. f[0] \in T[0] /\ n \in Nat
    BY <1>1, <1>2, <1>10
  <2> QED
    BY <2>1, <2>2, StepsKeep
<1> QED
  BY <1>1, <1>5, <1>9, <1>11 DEF n

\* What the proofs need of it.
LEMMA KeptHas ==
  ASSUME NEW S, NEW q \in Seq(S), NEW K
  PROVE  /\ Kept(q, K) \in Seq(S)
         /\ \A x : Contains(Kept(q, K), x) <=> Contains(q, x) /\ x \in K
         /\ IsInjective(q) => IsInjective(Kept(q, K))
<1> DEFINE k == Kept(q, K)
<1>1. k \in Seq(S) /\ IsKept(k, q, K, Len(q))
  BY KeptIs
<1> HIDE DEF k
<1>2. \A x : Contains(k, x) <=> Contains(q, x) /\ x \in K
  BY <1>1 DEF IsKept, Contains
<1> QED
  BY <1>1, <1>2 DEF IsKept, k

-----------------------------------------------------------------------------
(***************************************************************************)
(* Sequences put one behind the other.                                     *)
(***************************************************************************)
Joins(flatten, q, n) ==
  flatten = [i \in 1..n |-> IF i = 1 THEN q[i] ELSE flatten[i - 1] \o q[i]]

LEMMA JoinExists ==
  ASSUME NEW X, NEW q \in Seq(Seq(X)), Len(q) # 0
  PROVE  \E flatten : Joins(flatten, q, Len(q))
<1> DEFINE n == Len(q)
           T == [i \in 0..n - 1 |-> Seq(X)]
           step == [i \in 1..n - 1 |-> [s \in Seq(X) |-> s \o q[i + 1]]]
<1>1. /\ n \in Nat /\ n - 1 \in Nat /\ 0 \in 0..n - 1
      /\ \A i \in 1..n : q[i] \in Seq(X)
      /\ \A i \in 1..n - 1 : i \in 0..n - 1 /\ i - 1 \in 0..n - 1 /\ i + 1 \in 1..n
      /\ \A i \in 1..n : i - 1 \in 0..n - 1 /\ (i # 1 => i - 1 \in 1..n - 1 /\ i - 1 \in 1..n)
      /\ 1 \in 1..n
  OBVIOUS
<1>2. q[1] \in T[0]
  BY <1>1
<1>3. \A i \in 1..n - 1 : \A s \in T[i - 1] : step[i][s] \in T[i]
  <2> SUFFICES ASSUME NEW i \in 1..n - 1, NEW s \in T[i - 1]
               PROVE  step[i][s] \in T[i]
    OBVIOUS
  <2>1. s \in Seq(X) /\ q[i + 1] \in Seq(X) /\ T[i] = Seq(X)
    BY <1>1
  <2>2. s \o q[i + 1] \in Seq(X)
    BY <2>1
  <2>3. step[i][s] = s \o q[i + 1]
    BY <2>1
  <2> QED
    BY <2>1, <2>2, <2>3
<1>4. \A i \in 1..n - 1 : \A s \in Seq(X) : step[i][s] = s \o q[i + 1]
  OBVIOUS
<1>5. \A i \in 0..n - 1 : T[i] = Seq(X)
  OBVIOUS
<1> HIDE DEF T, step, n
<1>6. PICK g : Unrolls(g, n - 1, q[1], step) /\ \A i \in 0..n - 1 : g[i] \in T[i]
  BY <1>1, <1>2, <1>3, StepsExist
<1> DEFINE f == [i \in 1..n |-> g[i - 1]]
<1>7. ASSUME NEW i \in 1..n
      PROVE  f[i] = IF i = 1 THEN q[i] ELSE f[i - 1] \o q[i]
  <2>1. \A j \in 0..n - 1 : g[j] = IF j = 0 THEN q[1] ELSE step[j][g[j - 1]]
    BY <1>6 DEF Unrolls
  <2>2. CASE i = 1
    <3>1. g[0] = q[1]
      BY <1>1, <2>1
    <3> QED
      BY <2>2, <3>1
  <2>3. CASE i # 1
    <3> DEFINE j == i - 1
    <3>1. j \in 1..n - 1 /\ j \in 0..n - 1 /\ j # 0 /\ j \in 1..n /\ j + 1 = i
          /\ j - 1 \in 0..n - 1
      BY <1>1, <2>3
    <3>2. g[j] = step[j][g[j - 1]] /\ g[j - 1] \in Seq(X)
      BY <1>5, <1>6, <2>1, <3>1
    <3>3. g[j] = g[j - 1] \o q[i]
      BY <1>4, <3>1, <3>2
    <3>4. f[i] = g[j] /\ f[j] = g[j - 1]
      BY <3>1
    <3> QED
      BY <2>3, <3>3, <3>4
  <2> QED
    BY <2>2, <2>3
<1>8. Joins(f, q, n)
  <2>1. f = [i \in 1..n |-> f[i]]
    OBVIOUS
  <2> HIDE DEF f
  <2>2. f = [i \in 1..n |-> IF i = 1 THEN q[i] ELSE f[i - 1] \o q[i]]
    BY <1>7, <2>1
  <2> QED
    BY <2>2 DEF Joins
<1> QED
  BY <1>8 DEF n

\* The elements of the result are those of the parts.
LEMMA Flattened ==
  ASSUME NEW X, NEW q \in Seq(Seq(X)), NEW S
  PROVE  /\ FlattenSeq(q) \in Seq(X)
         /\ \A i \in 1..Len(q) : Count(q[i], S) \in Nat
         /\ Count(FlattenSeq(q), S)
              = SumFunctionOnSet([i \in 1..Len(q) |-> Count(q[i], S)], 1..Len(q))
<1> DEFINE n == Len(q)
           c == [i \in 1..n |-> Count(q[i], S)]
           Sum(i) == SumTo(c, i)
<1>1. n \in Nat /\ \A i \in 1..n : q[i] \in Seq(X)
  OBVIOUS
<1>2. \A i \in 1..n : Count(q[i], S) \in Nat /\ c[i] = Count(q[i], S)
  BY <1>1, CountConcat
<1>3. CASE n = 0
  <2>1. FlattenSeq(q) = <<>> /\ 1..n = {}
    BY <1>3 DEF FlattenSeq
  <2>2. Count(<<>>, S) = 0
    <3>1. {i \in 1..Len(<<>>) : <<>>[i] \in S} = {}
      OBVIOUS
    <3> QED
      BY <3>1, FS_EmptySet DEF Count
  <2>3. SumFunctionOnSet(c, 1..n) = 0
    BY <2>1, SumEmpty
  <2> QED
    BY <1>2, <2>1, <2>2, <2>3
<1>4. CASE n # 0
  <2> DEFINE f == CHOOSE flatten : Joins(flatten, q, n)
  <2>1. Joins(f, q, n)
    BY <1>4, JoinExists
  <2>2. FlattenSeq(q) = f[n]
    BY <1>4 DEF FlattenSeq, Joins
  <2> HIDE DEF f
  <2>3. \A i \in 1..n : f[i] = IF i = 1 THEN q[i] ELSE f[i - 1] \o q[i]
    BY <2>1 DEF Joins
  <2> DEFINE T == [i \in 0..n |-> {s \in Seq(X) : Count(s, S) = Sum(i)}]
             h == [i \in 0..n |-> IF i = 0 THEN <<>> ELSE f[i]]
  <2>4. Sum(0) = 0 /\ \A i \in Nat : Sum(i + 1) = Sum(i) + c[i + 1]
    BY Sums
  <2> HIDE DEF c, Sum
  <2>5. \A i \in 0..n : \A s : s \in T[i] <=> s \in Seq(X) /\ Count(s, S) = Sum(i)
    OBVIOUS
  <2>6. h[0] = <<>> /\ \A i \in 1..n : h[i] = h[i - 1] \o q[i]
    <3>1. h[0] = <<>>
      BY <1>1
    <3>2. ASSUME NEW i \in 1..n
          PROVE  h[i] = h[i - 1] \o q[i]
      <4>1. i \in 0..n /\ i - 1 \in 0..n /\ i # 0 /\ i \in 1..n /\ (i # 1 => i - 1 # 0)
        BY <1>1
      <4>2. h[i] = f[i] /\ h[i - 1] = IF i - 1 = 0 THEN <<>> ELSE f[i - 1]
        BY <4>1
      <4>3. CASE i = 1
        <5>1. h[i - 1] = <<>> /\ f[i] = q[i]
          BY <2>3, <4>2, <4>3
        <5>2. q[i] \in Seq(X)
          BY <1>1
        <5>3. <<>> \o q[i] = q[i]
          BY <5>2
        <5> QED
          BY <4>1, <4>2, <4>3, <5>1, <5>3
      <4>4. CASE i # 1
        BY <2>3, <4>1, <4>2, <4>4
      <4> QED
        BY <4>3, <4>4
    <3> QED
      BY <3>1, <3>2
  <2>7. h[n] = f[n]
    BY <1>1, <1>4
  <2> HIDE DEF T, h, n
  <2>8. h[0] \in T[0]
    <3>1. Count(<<>>, S) = 0
      <4>1. {i \in 1..Len(<<>>) : <<>>[i] \in S} = {}
        OBVIOUS
      <4> QED
        BY <4>1, FS_EmptySet DEF Count
    <3>2. 0 \in 0..n /\ <<>> \in Seq(X) /\ Sum(0) = 0
      BY <1>1, <2>4
    <3>3. <<>> \in T[0]
      BY <2>5, <3>1, <3>2
    <3> QED
      BY <2>6, <3>3
  <2>9. ASSUME NEW i \in 1..n, h[i - 1] \in T[i - 1]
        PROVE  h[i] \in T[i]
    <3>1. i - 1 \in 0..n /\ i \in 0..n /\ i - 1 \in Nat /\ (i - 1) + 1 = i
      BY <1>1
    <3>2. h[i - 1] \in Seq(X) /\ Count(h[i - 1], S) = Sum(i - 1)
      BY <2>5, <2>9, <3>1
    <3>3. q[i] \in Seq(X)
      BY <1>1
    <3>4. Count(h[i - 1] \o q[i], S) = Count(h[i - 1], S) + Count(q[i], S)
      BY <3>2, <3>3, CountConcat
    <3>5. h[i - 1] \o q[i] \in Seq(X)
      BY <3>2, <3>3
    <3>6. Sum(i) = Sum(i - 1) + c[i]
      BY <2>4, <3>1
    <3> QED
      BY <1>2, <2>5, <2>6, <3>1, <3>2, <3>4, <3>5, <3>6
  <2>10. h[n] \in T[n]
    <3>1. \A i \in 1..n : h[i - 1] \in T[i - 1] => h[i] \in T[i]
      BY <2>9
    <3>2. \A i \in 0..n : h[i] \in T[i]
      BY <1>1, <2>8, <3>1, StepsKeep
    <3> QED
      BY <1>1, <3>2
  <2>11. f[n] \in Seq(X) /\ Count(f[n], S) = Sum(n)
    <3>1. n \in 0..n
      BY <1>1
    <3> QED
      BY <2>5, <2>7, <2>10, <3>1
  <2>12. SumFunctionOnSet(c, 1..n) = Sum(n)
    <3>1. \A i \in 1..n : c[i] \in Int
      BY <1>2
    <3> QED
      BY <1>1, <3>1, SumInterval DEF Sum
  <2>13. Count(FlattenSeq(q), S) = SumFunctionOnSet(c, 1..n)
    BY <2>2, <2>11, <2>12
  <2> QED
    BY <1>2, <2>2, <2>11, <2>13 DEF c, n
<1> QED
  BY <1>3, <1>4

-----------------------------------------------------------------------------
(***************************************************************************)
(* Shortest paths.                                                         *)
(***************************************************************************)
Goes(back, u) ==
  back = [w \in Nodes |-> IF w = u THEN <<u>> ELSE Append(back[PredMap[<<u, w>>]], w)]

IsPathTo(p, w) ==
  /\ p \in Seq(Nodes) /\ p # <<>> /\ p[Len(p)] = w
  /\ \A i \in 1..Len(p) - 1 : <<p[i], p[i + 1]>> \in Links

\* A node that is settled m-th has its path after m rounds.
Tree(settled, u) ==
  /\ \A w \in Nodes : settled[w] \in Nat /\ settled[w] <= MaxNode
  /\ \A w \in Nodes : w # u =>
       /\ <<PredMap[<<u, w>>], w>> \in Links
       /\ PredMap[<<u, w>>] \in Nodes
       /\ settled[PredMap[<<u, w>>]] < settled[w]

LEMMA TreeExists ==
  ASSUME NEW u \in Nodes
  PROVE  \E settled : Tree(settled, u)
<1>1. PICK settled \in [Nodes -> Nodes] : \A w \in Nodes \ {u} :
         <<PredMap[<<u, w>>], w>> \in Links /\ settled[PredMap[<<u, w>>]] < settled[w]
  BY AnnealingAssumption
<1>2. \A w \in Nodes \ {u} : PredMap[<<u, w>>] \in Nodes
  BY <1>1, AnnealingAssumption
<1>3. MaxNode \in Nat
  BY AnnealingAssumption
<1>4. \A w \in Nodes : settled[w] \in Nodes
  BY <1>1
<1>5. \A w \in Nodes : settled[w] \in Nat /\ settled[w] <= MaxNode
  BY <1>3, <1>4 DEF Nodes
<1> QED
  BY <1>1, <1>2, <1>5 DEF Tree

LEMMA BackExists ==
  ASSUME NEW u \in Nodes
  PROVE  \E back : Goes(back, u)
<1>1. PICK settled : Tree(settled, u)
  BY TreeExists
<1>2. MaxNode \in Nat
  BY AnnealingAssumption
<1> DEFINE N == MaxNode + 2
           F == [Nodes -> Seq(Nodes)]
           round(b) == [w \in Nodes |-> IF w = u THEN <<u>>
                                        ELSE Append(b[PredMap[<<u, w>>]], w)]
           T == [m \in 0..N |-> F]
           step == [m \in 1..N |-> [b \in F |-> round(b)]]
           none == [w \in Nodes |-> <<u>>]
<1>3. none \in F
  OBVIOUS
<1>4. ASSUME NEW b \in F
      PROVE  round(b) \in F
  <2>1. \A w \in Nodes : w # u => b[PredMap[<<u, w>>]] \in Seq(Nodes)
    BY <1>1 DEF Tree
  <2>2. \A w \in Nodes : (IF w = u THEN <<u>> ELSE Append(b[PredMap[<<u, w>>]], w)) \in Seq(Nodes)
    BY <2>1
  <2> QED
    BY <2>2
<1>5. \A m \in 0..N : T[m] = F
  OBVIOUS
<1>6. \A m \in 1..N : \A b \in F : step[m][b] = round(b)
  OBVIOUS
<1>7. N \in Nat /\ 0 \in 0..N /\ \A m \in 1..N : m \in 0..N /\ m - 1 \in 0..N /\ m # 0
  BY <1>2
<1> HIDE DEF T, step, none, F, round
<1>8. PICK g : Unrolls(g, N, none, step) /\ \A m \in 0..N : g[m] \in T[m]
  <2>1. \A m \in 1..N : \A b \in T[m - 1] : step[m][b] \in T[m]
    BY <1>4, <1>5, <1>6, <1>7
  <2>2. none \in T[0]
    BY <1>3, <1>5, <1>7
  <2> HIDE DEF N
  <2> QED
    BY <1>7, <2>1, <2>2, StepsExist
<1>9. \A m \in 1..N : g[m] = round(g[m - 1])
  <2>1. \A m \in 0..N : g[m] = IF m = 0 THEN none ELSE step[m][g[m - 1]]
    BY <1>8 DEF Unrolls
  <2> QED
    BY <1>5, <1>6, <1>7, <1>8, <2>1
<1> DEFINE D == {m \in Nat : m < N => \A w \in Nodes : settled[w] < m => g[m][w] = g[m + 1][w]}
<1>10. 0 \in D
  <2>1. \A w \in Nodes : ~ (settled[w] < 0)
    BY <1>1 DEF Tree
  <2> QED
    BY <2>1
<1>11. ASSUME NEW m \in D
       PROVE  m + 1 \in D
  <2> SUFFICES ASSUME m + 1 < N, NEW w \in Nodes, settled[w] < m + 1
               PROVE  g[m + 1][w] = g[(m + 1) + 1][w]
    OBVIOUS
  <2>1. m \in Nat /\ m < N /\ m + 1 \in 1..N /\ (m + 1) + 1 \in 1..N
        /\ (m + 1) - 1 = m /\ ((m + 1) + 1) - 1 = m + 1
    BY <1>7
  <2>2. g[m + 1] = round(g[m]) /\ g[(m + 1) + 1] = round(g[m + 1])
    BY <1>9, <2>1
  <2>3. CASE w = u
    BY <2>2, <2>3 DEF round
  <2>4. CASE w # u
    <3> DEFINE v == PredMap[<<u, w>>]
    <3>1. v \in Nodes /\ settled[v] < settled[w] /\ settled[v] \in Nat /\ settled[w] \in Nat
      BY <1>1, <1>2, <2>4 DEF Tree
    <3>2. g[m][v] = g[m + 1][v]
      BY <2>1, <3>1
    <3>3. round(g[m])[w] = Append(g[m][v], w) /\ round(g[m + 1])[w] = Append(g[m + 1][v], w)
      BY <2>4 DEF round
    <3> QED
      BY <2>2, <3>2, <3>3
  <2> QED
    BY <2>3, <2>4
<1>12. D = Nat
  <2>1. D \in SUBSET Nat
    OBVIOUS
  <2> HIDE DEF D
  <2> QED
    BY <1>10, <1>11, <2>1, Induction
<1> DEFINE b == g[MaxNode + 1]
<1>13. \A w \in Nodes : b[w] = g[N][w]
  <2>1. MaxNode + 1 \in Nat /\ MaxNode + 1 < N /\ (MaxNode + 1) + 1 = N
    BY <1>2
  <2>3. \A m \in Nat : m \in D
    <3> HIDE DEF D
    <3> QED
      BY <1>12
  <2>2. \A w \in Nodes : settled[w] < MaxNode + 1
    <3>1. \A w \in Nodes : settled[w] \in Nat /\ settled[w] <= MaxNode
      BY <1>1 DEF Tree
    <3> QED
      BY <1>2, <3>1
  <2> QED
    BY <2>1, <2>2, <2>3
<1>14. b \in F /\ g[N] \in F /\ g[N] = round(b)
  <2>1. MaxNode + 1 \in 0..N /\ N \in 0..N /\ N \in 1..N /\ N - 1 = MaxNode + 1
    BY <1>2
  <2> QED
    BY <1>5, <1>8, <1>9, <2>1
<1>15. b = g[N]
  BY <1>13, <1>14 DEF F
<1>16. b = round(b)
  BY <1>14, <1>15
<1> HIDE DEF b
<1>17. Goes(b, u)
  BY <1>16 DEF round, Goes
<1> QED
  BY <1>17

LEMMA ShortPathIs ==
  ASSUME NEW u \in Nodes, NEW w \in Nodes
  PROVE  IsPathTo(ShortPath[u][w], w)
<1>1. PICK settled : Tree(settled, u)
  BY TreeExists
<1>2. \A v \in Nodes : settled[v] \in Nat
  BY <1>1 DEF Tree
<1> DEFINE b == CHOOSE back : Goes(back, u)
<1>3. Goes(b, u)
  BY BackExists
<1>4. ShortPath[u] = b
  BY DEF ShortPath, Goes
<1> HIDE DEF b
<1>5. \A v \in Nodes : b[v] = IF v = u THEN <<u>> ELSE Append(b[PredMap[<<u, v>>]], v)
  BY <1>3 DEF Goes
<1> DEFINE D == {m \in Nat : \A v \in Nodes : settled[v] < m => IsPathTo(b[v], v)}
<1>6. 0 \in D
  <2>1. \A v \in Nodes : ~ (settled[v] < 0)
    BY <1>2
  <2> QED
    BY <2>1
<1>7. ASSUME NEW m \in D
      PROVE  m + 1 \in D
  <2> SUFFICES ASSUME NEW v \in Nodes, settled[v] < m + 1
               PROVE  IsPathTo(b[v], v)
    OBVIOUS
  <2>1. CASE v = u
    <3>1. /\ b[v] = <<u>>
          /\ <<u>> \in Seq(Nodes) /\ Len(<<u>>) = 1 /\ <<u>>[1] = u
      <4>1. b[v] = <<u>>
        BY <1>5, <2>1
      <4> QED
        BY <4>1
    <3>2. <<u>> # <<>> /\ 1..(1 - 1) = {}
      BY <3>1
    <3> QED
      BY <2>1, <3>1, <3>2 DEF IsPathTo
  <2>2. CASE v # u
    <3> DEFINE q == b[PredMap[<<u, v>>]]
               p == Append(q, v)
    <3>1. PredMap[<<u, v>>] \in Nodes /\ settled[PredMap[<<u, v>>]] < m
          /\ <<PredMap[<<u, v>>], v>> \in Links
      <4>1. PredMap[<<u, v>>] \in Nodes /\ settled[PredMap[<<u, v>>]] < settled[v]
            /\ <<PredMap[<<u, v>>], v>> \in Links
        BY <1>1, <2>2 DEF Tree
      <4> QED
        BY <1>2, <4>1
    <3>2. IsPathTo(q, PredMap[<<u, v>>])
      BY <3>1
    <3>3. b[v] = p
      BY <1>5, <2>2
    <3> HIDE DEF q
    <3>4. q \in Seq(Nodes) /\ Len(q) \in Nat /\ Len(q) # 0 /\ q[Len(q)] = PredMap[<<u, v>>]
      BY <3>2 DEF IsPathTo
    <3>5. /\ p \in Seq(Nodes) /\ Len(p) = Len(q) + 1 /\ p[Len(p)] = v
          /\ \A i \in 1..Len(q) : p[i] = q[i]
      BY <3>4
    <3>6. p # <<>>
      BY <3>4, <3>5
    <3> HIDE DEF p
    <3>7. ASSUME NEW i \in 1..Len(p) - 1
          PROVE  <<p[i], p[i + 1]>> \in Links
      <4>1. CASE i = Len(q)
        BY <3>1, <3>4, <3>5, <4>1
      <4>2. CASE i # Len(q)
        <5>1. i \in 1..Len(q) /\ i + 1 \in 1..Len(q) /\ i \in 1..Len(q) - 1
          BY <3>4, <3>5, <4>2
        <5> QED
          BY <3>2, <3>5, <5>1 DEF IsPathTo
      <4> QED
        BY <4>1, <4>2
    <3> QED
      BY <3>3, <3>5, <3>6, <3>7 DEF IsPathTo
  <2> QED
    BY <2>1, <2>2
<1>8. D = Nat
  <2>1. D \in SUBSET Nat
    OBVIOUS
  <2> HIDE DEF D
  <2> QED
    BY <1>6, <1>7, <2>1, Induction
<1>9. settled[w] + 1 \in D /\ settled[w] < settled[w] + 1
  <2>1. settled[w] \in Nat
    BY <1>2
  <2> QED
    BY <1>8, <2>1
<1> QED
  BY <1>4, <1>9

\* The links of a path, and how often it takes one.
LEMMA HopsOf ==
  ASSUME NEW u \in Nodes, NEW w \in Nodes
  PROVE  /\ Hops(ShortPath[u][w]) \in Seq(Links)
         /\ \A e : Times(Hops(ShortPath[u][w]), e) \in Nat
<1> DEFINE p == ShortPath[u][w]
           n == Len(p) - 1
<1>1. IsPathTo(p, w)
  BY ShortPathIs
<1> HIDE DEF p
<1>2. Len(p) \in Nat /\ Len(p) # 0 /\ n \in Nat
  BY <1>1 DEF IsPathTo
<1>3. \A i \in 1..n : <<p[i], p[i + 1]>> \in Links
  BY <1>1 DEF IsPathTo
<1>4. Hops(p) = [i \in 1..n |-> <<p[i], p[i + 1]>>]
  BY DEF Hops
<1> HIDE DEF n
<1>5. Hops(p) \in [1..n -> Links]
  BY <1>3, <1>4
<1>6. Hops(p) \in Seq(Links)
  BY <1>2, <1>5
<1>7. ASSUME NEW e
      PROVE  Times(Hops(p), e) \in Nat
  <2>1. DOMAIN Hops(p) = 1..n /\ IsFiniteSet(1..n)
    BY <1>2, <1>5, FS_Interval
  <2>2. IsFiniteSet({i \in DOMAIN Hops(p) : Hops(p)[i] = e})
    BY <2>1, FS_Subset
  <2> QED
    BY <2>2, FS_CardinalityType DEF Times
<1> QED
  BY <1>6, <1>7 DEF p

-----------------------------------------------------------------------------
(***************************************************************************)
(* What a placement takes of a link, and how long it takes.                *)
(***************************************************************************)
LEMMA SumNat ==
  ASSUME NEW f, IsFiniteSet(DOMAIN f), \A x \in DOMAIN f : f[x] \in Nat
  PROVE  SumFunction(f) \in Nat
<1>1. SumFunctionOnSet(f, DOMAIN f) \in Nat
  BY SumTypes
<1> QED
  BY <1>1 DEF SumFunction

LEMMA UsesType ==
  ASSUME NEW u \in Nodes, NEW w \in Nodes
  PROVE  /\ \A e \in Links : /\ Uses[<<u, w>>][e] = Times(Hops(ShortPath[u][w]), e)
                             /\ Uses[<<u, w>>][e] \in Nat
         /\ ShortPathDelay[<<u, w>>] \in Nat
<1> DEFINE hops == Hops(ShortPath[u][w])
           cost == [i \in DOMAIN hops |-> Latency[hops[i]]]
<1>1. hops \in Seq(Links) /\ \A e : Times(hops, e) \in Nat
  BY HopsOf
<1>2. Uses[<<u, w>>] = [e \in Links |-> Times(hops, e)]
      /\ ShortPathDelay[<<u, w>>] = SumFunction(cost)
  BY DEF Uses, ShortPathDelay
<1> HIDE DEF hops
<1>3. SumFunction(cost) \in Nat
  <2>1. DOMAIN hops = 1..Len(hops) /\ Len(hops) \in Nat
        /\ \A i \in DOMAIN hops : hops[i] \in Links
    BY <1>1
  <2>2. \A i \in DOMAIN hops : Latency[hops[i]] \in Nat
    BY <2>1, AnnealingAssumption
  <2>3. IsFiniteSet(DOMAIN hops)
    BY <2>1, FS_Interval
  <2>4. DOMAIN cost = DOMAIN hops /\ \A i \in DOMAIN cost : cost[i] \in Nat
    BY <2>2
  <2> HIDE DEF cost
  <2> QED
    BY <2>3, <2>4, SumNat
<1> QED
  BY <1>1, <1>2, <1>3 DEF hops

BatchOK == batch \in Seq(Request)

\* A host for each function of each flow of a request, and of each request.
Placement(r, p) == p \in [FlowIds(r) -> Seq(Nodes)]
Solution(s) == DOMAIN s = Ids /\ \A r \in Ids : Placement(r, s[r])

LEMMA Batch ==
  ASSUME BatchOK
  PROVE  /\ Len(batch) \in Nat /\ Ids = 1..Len(batch) /\ IsFiniteSet(Ids)
         /\ Ids \subseteq Nat
         /\ \A r \in Ids :
              /\ batch[r] \in Request
              /\ batch[r].source \in Nodes /\ batch[r].target \in Nodes
              /\ batch[r].chain \in Nat /\ batch[r].work \in Nat
              /\ Len(batch[r].flows) \in Nat /\ IsFiniteSet(FlowIds(r))
              /\ \A f \in FlowIds(r) : Rate(r, f) \in Nat
<1>1. Len(batch) \in Nat /\ Ids = 1..Len(batch) /\ Ids \subseteq Nat
  BY DEF BatchOK, Ids
<1>2. IsFiniteSet(Ids)
  BY <1>1, FS_Interval
<1>3. ASSUME NEW r \in Ids
      PROVE  /\ batch[r] \in Request
             /\ batch[r].source \in Nodes /\ batch[r].target \in Nodes
             /\ batch[r].chain \in Nat /\ batch[r].work \in Nat
             /\ Len(batch[r].flows) \in Nat /\ IsFiniteSet(FlowIds(r))
             /\ \A f \in FlowIds(r) : Rate(r, f) \in Nat
  <2>1. batch[r] \in Request
    BY <1>1 DEF BatchOK
  <2>2. /\ batch[r].source \in Nodes /\ batch[r].target \in Nodes
        /\ batch[r].chain \in Nat /\ batch[r].work \in Nat
        /\ batch[r].flows \in Seq(Flow)
    BY <2>1 DEF Request
  <2>3. Len(batch[r].flows) \in Nat
    BY <2>2
  <2>4. IsFiniteSet(FlowIds(r))
    BY <2>3, FS_Interval DEF FlowIds
  <2>5. ASSUME NEW f \in FlowIds(r)
        PROVE  Rate(r, f) \in Nat
    <3>1. batch[r].flows[f] \in Flow
      BY <2>2 DEF FlowIds
    <3> QED
      BY <3>1 DEF Rate, Flow
  <2> QED
    BY <2>1, <2>2, <2>3, <2>4, <2>5
<1> QED
  BY <1>1, <1>2, <1>3

LEMMA LegsType ==
  ASSUME BatchOK, NEW r \in Ids, NEW hosts \in Seq(Nodes)
  PROVE  /\ Legs(r, hosts) \in Seq(Nodes \X Nodes)
         /\ DOMAIN Legs(r, hosts) = 1..Len(hosts) + 1
         /\ IsFiniteSet(DOMAIN Legs(r, hosts))
<1> DEFINE stops == Stops(r, hosts)
           n == Len(hosts) + 1
<1>1. batch[r].source \in Nodes /\ batch[r].target \in Nodes
  BY Batch
<1>2. stops \in Seq(Nodes) /\ Len(stops) = n + 1 /\ n \in Nat
  BY <1>1 DEF Stops
<1> HIDE DEF stops, n
<1>3. \A i \in 1..n : stops[i] \in Nodes /\ stops[i + 1] \in Nodes
  BY <1>2
<1>4. Legs(r, hosts) = [i \in 1..n |-> <<stops[i], stops[i + 1]>>]
  BY DEF Legs, stops, n
<1>5. Legs(r, hosts) \in [1..n -> Nodes \X Nodes]
  BY <1>3, <1>4
<1>6. IsFiniteSet(1..n)
  BY <1>2, FS_Interval
<1> QED
  BY <1>2, <1>5, <1>6 DEF n

LEMMA CrossingsType ==
  ASSUME BatchOK, NEW r \in Ids, NEW hosts \in Seq(Nodes)
  PROVE  /\ \A e \in Links : Crossings(r, hosts, e) \in Nat
         /\ FlowDelay(r, hosts) \in Nat
<1> DEFINE legs == Legs(r, hosts)
           use(e) == [i \in DOMAIN legs |-> Uses[legs[i]][e]]
           delay == [i \in DOMAIN legs |-> ShortPathDelay[legs[i]]]
<1>1. IsFiniteSet(DOMAIN legs) /\ \A i \in DOMAIN legs : legs[i] \in Nodes \X Nodes
  BY LegsType
<1>2. ASSUME NEW i \in DOMAIN legs
      PROVE  /\ \A e \in Links : Uses[legs[i]][e] \in Nat
             /\ ShortPathDelay[legs[i]] \in Nat
  <2>1. PICK u \in Nodes, w \in Nodes : legs[i] = <<u, w>>
    BY <1>1
  <2> HIDE DEF legs
  <2> QED
    BY <2>1, UsesType
<1> HIDE DEF legs
<1>3. ASSUME NEW e \in Links
      PROVE  SumFunction(use(e)) \in Nat
  <2>1. DOMAIN use(e) = DOMAIN legs /\ \A i \in DOMAIN use(e) : use(e)[i] \in Nat
    BY <1>2
  <2> HIDE DEF use
  <2> QED
    BY <1>1, <2>1, SumNat
<1>4. SumFunction(delay) \in Nat
  <2>1. DOMAIN delay = DOMAIN legs /\ \A i \in DOMAIN delay : delay[i] \in Nat
    BY <1>2
  <2> HIDE DEF delay
  <2> QED
    BY <1>1, <2>1, SumNat
<1>5. batch[r].work + SumFunction(delay) \in Nat
  <2>1. batch[r].work \in Nat
    BY Batch
  <2> HIDE DEF delay
  <2> QED
    BY <1>4, <2>1
<1>6. \A e \in Links : Crossings(r, hosts, e) \in Nat
  BY <1>3 DEF Crossings, legs
<1> QED
  BY <1>5, <1>6 DEF FlowDelay, legs

LEMMA LoadType ==
  ASSUME BatchOK, NEW r \in Ids, NEW p, Placement(r, p), NEW e \in Links
  PROVE  Load(r, p, e) \in Nat
<1> DEFINE use == [f \in FlowIds(r) |-> Rate(r, f) * Crossings(r, p[f], e)]
<1>1. \A f \in FlowIds(r) : Rate(r, f) \in Nat /\ p[f] \in Seq(Nodes)
  BY Batch DEF Placement
<1>2. \A f \in FlowIds(r) : Crossings(r, p[f], e) \in Nat
  BY <1>1, CrossingsType
<1>3. \A a, b \in Nat : a * b \in Nat
  OBVIOUS
<1>4. \A f \in FlowIds(r) : use[f] \in Nat
  BY <1>1, <1>2, <1>3
<1>5. IsFiniteSet(FlowIds(r)) /\ DOMAIN use = FlowIds(r)
  BY Batch
<1> HIDE DEF use
<1>6. SumFunction(use) \in Nat
  BY <1>4, <1>5, SumNat
<1> QED
  BY <1>6 DEF Load, use

Delay == [sum : Nat, num : Nat]

LEMMA DelayType ==
  ASSUME BatchOK, NEW s, Solution(s), NEW overloaded
  PROVE  AverageDelay(s, overloaded) \in Delay
<1> DEFINE counted == {r \in Ids : ~Contains(overloaded, r)}
           delay(r) == [f \in FlowIds(r) |-> FlowDelay(r, s[r][f])]
           sums == [r \in counted |-> SumFunction(delay(r))]
           nums == [r \in counted |-> Len(batch[r].flows)]
<1>1. IsFiniteSet(counted) /\ counted \subseteq Ids
  BY Batch, FS_Subset
<1>2. ASSUME NEW r \in Ids
      PROVE  SumFunction(delay(r)) \in Nat
  <2>1. IsFiniteSet(FlowIds(r)) /\ \A f \in FlowIds(r) : s[r][f] \in Seq(Nodes)
    BY Batch DEF Solution, Placement
  <2>2. DOMAIN delay(r) = FlowIds(r) /\ \A f \in FlowIds(r) : delay(r)[f] \in Nat
    BY <2>1, CrossingsType
  <2> HIDE DEF delay
  <2> QED
    BY <2>1, <2>2, SumNat
<1> HIDE DEF counted, delay
<1>3. SumFunction(sums) \in Nat
  <2>1. DOMAIN sums = counted /\ \A r \in counted : sums[r] \in Nat
    BY <1>1, <1>2
  <2> HIDE DEF sums
  <2> QED
    BY <1>1, <2>1, SumNat
<1>4. SumFunction(nums) \in Nat
  <2>1. DOMAIN nums = counted /\ \A r \in counted : nums[r] \in Nat
    BY <1>1, Batch
  <2> HIDE DEF nums
  <2> QED
    BY <1>1, <2>1, SumNat
<1>5. AverageDelay(s, overloaded) = [sum |-> SumFunction(sums), num |-> SumFunction(nums)]
  BY DEF AverageDelay, counted, delay
<1> HIDE DEF sums, nums
<1> QED
  BY <1>3, <1>4, <1>5 DEF Delay

-----------------------------------------------------------------------------
(***************************************************************************)
(* The paths of Yen's algorithm, and moves along them.                     *)
(***************************************************************************)
Visits(path, links, n) ==
  path = [i \in 0..n |->
            IF i = 0 THEN <<>>
            ELSE WithEnd(WithEnd(path[i - 1], links[i][1]), links[i][2])]

LEMMA NodesOfType ==
  ASSUME NEW links \in Seq(Links)
  PROVE  NodesOf(links) \in Seq(Nodes)
<1> DEFINE n == Len(links)
           T == [i \in 0..n |-> Seq(Nodes)]
           more(i, p) == WithEnd(WithEnd(p, links[i][1]), links[i][2])
           step == [i \in 1..n |-> [p \in Seq(Nodes) |-> more(i, p)]]
<1>1. /\ n \in Nat /\ 0 \in 0..n /\ n \in 0..n
      /\ \A i \in 1..n : i \in 0..n /\ i - 1 \in 0..n /\ i # 0 /\ links[i] \in Links
      /\ \A i \in 0..n : i # 0 => i \in 1..n
  OBVIOUS
<1>2. \A p \in Seq(Nodes), v \in Nodes : WithEnd(p, v) \in Seq(Nodes)
  BY DEF WithEnd
<1>3. \A i \in 1..n : \A p \in Seq(Nodes) : more(i, p) \in Seq(Nodes)
  <2>1. \A i \in 1..n : links[i][1] \in Nodes /\ links[i][2] \in Nodes
    BY <1>1, AnnealingAssumption
  <2> QED
    BY <1>2, <2>1
<1>4. \A i \in 1..n : \A p \in Seq(Nodes) : step[i][p] = more(i, p)
  OBVIOUS
<1>5. \A i \in 0..n : T[i] = Seq(Nodes)
  OBVIOUS
<1> HIDE DEF T, step, more, n
<1>6. PICK g : Unrolls(g, n, <<>>, step) /\ \A i \in 0..n : g[i] \in T[i]
  <2>1. \A i \in 1..n : \A p \in T[i - 1] : step[i][p] \in T[i]
    BY <1>1, <1>3, <1>4, <1>5
  <2>2. <<>> \in T[0] /\ n \in Nat
    <3>1. <<>> \in Seq(Nodes)
      OBVIOUS
    <3> QED
      BY <1>1, <1>5, <3>1
  <2> QED
    BY <2>1, <2>2, StepsExist
<1>7. \E path : Visits(path, links, n)
  <2>1. ASSUME NEW i \in 0..n
        PROVE  g[i] = IF i = 0 THEN <<>> ELSE more(i, g[i - 1])
    <3>1. g[i] = IF i = 0 THEN <<>> ELSE step[i][g[i - 1]]
      BY <1>6 DEF Unrolls
    <3>2. i # 0 => i \in 1..n /\ g[i - 1] \in Seq(Nodes)
      BY <1>1, <1>5, <1>6
    <3> QED
      BY <1>4, <3>1, <3>2
  <2>2. g = [i \in 0..n |-> g[i]]
    BY <1>6 DEF Unrolls
  <2>3. g = [i \in 0..n |-> IF i = 0 THEN <<>> ELSE more(i, g[i - 1])]
    BY <2>1, <2>2
  <2>4. Visits(g, links, n)
    BY <2>3 DEF Visits, more
  <2> QED
    BY <2>4
<1> DEFINE f == CHOOSE path : Visits(path, links, n)
<1>8. Visits(f, links, n)
  BY <1>7
<1>9. NodesOf(links) = f[n]
  BY DEF NodesOf, Visits, n
<1> HIDE DEF f
<1>10. f[0] = <<>> /\ \A i \in 1..n : f[i] = more(i, f[i - 1])
  <2>1. f = [i \in 0..n |-> IF i = 0 THEN <<>> ELSE more(i, f[i - 1])]
    BY <1>8 DEF Visits, more
  <2>2. \A i \in 0..n : f[i] = IF i = 0 THEN <<>> ELSE more(i, f[i - 1])
    BY <2>1
  <2> QED
    BY <1>1, <2>2
<1>11. \A i \in 0..n : f[i] \in T[i]
  <2>1. \A i \in 1..n : f[i - 1] \in T[i - 1] => f[i] \in T[i]
    BY <1>1, <1>3, <1>5, <1>10
  <2>2. f[0] \in T[0] /\ n \in Nat
    <3>1. <<>> \in Seq(Nodes)
      OBVIOUS
    <3> QED
      BY <1>1, <1>5, <1>10, <3>1
  <2> QED
    BY <2>1, <2>2, StepsKeep
<1> QED
  BY <1>1, <1>5, <1>9, <1>11

LEMMA KspType ==
  ASSUME NEW u \in Nodes, NEW w \in Nodes
  PROVE  Ksp[<<u, w>>] \in Seq(Seq(Nodes))
<1> DEFINE yen == YenPaths[<<u, w>>]
<1>1. <<u, w>> \in DOMAIN YenPaths /\ yen \in Seq(Seq(Links))
  BY AnnealingAssumption
<1> HIDE DEF yen
<1>2. Ksp[<<u, w>>] = IF u = w THEN <<<<u>>>> ELSE [i \in DOMAIN yen |-> NodesOf(yen[i])]
  BY <1>1 DEF Ksp, yen
<1>3. /\ Len(yen) \in Nat /\ DOMAIN yen = 1..Len(yen)
      /\ \A i \in 1..Len(yen) : yen[i] \in Seq(Links)
  BY <1>1
<1>4. \A i \in 1..Len(yen) : NodesOf(yen[i]) \in Seq(Nodes)
  BY <1>3, NodesOfType
<1>5. [i \in DOMAIN yen |-> NodesOf(yen[i])] \in Seq(Seq(Nodes))
  BY <1>3, <1>4
<1>6. <<<<u>>>> \in Seq(Seq(Nodes))
  OBVIOUS
<1> QED
  BY <1>2, <1>5, <1>6

LEMMA MovableType ==
  ASSUME BatchOK, NEW r \in Ids
  PROVE  /\ Movable(r) \in Seq(Seq(Nodes))
         /\ \A i \in DOMAIN Movable(r) : Hosts(r, Movable(r)[i]) \in Seq(Nodes)
<1> DEFINE paths == Ksp[<<batch[r].source, batch[r].target>>]
           K == {path \in ToSet(paths) : Len(path) >= batch[r].chain}
<1>1. paths \in Seq(Seq(Nodes)) /\ batch[r].chain \in Nat
  BY Batch, KspType
<1> HIDE DEF paths
<1>2. CASE batch[r].chain = 0
  <2>1. Movable(r) = <<>>
    BY <1>2 DEF Movable
  <2> QED
    BY <2>1
<1>3. CASE batch[r].chain # 0
  <2> DEFINE m == Kept(paths, K)
  <2>1. Movable(r) = m
    BY <1>3 DEF Movable, paths
  <2>2. m \in Seq(Seq(Nodes)) /\ IsKept(m, paths, K, Len(paths))
    BY <1>1, KeptIs
  <2> HIDE DEF m
  <2>3. ASSUME NEW i \in DOMAIN m
        PROVE  Hosts(r, m[i]) \in Seq(Nodes)
    <3>1. m[i] \in Seq(Nodes) /\ i \in 1..Len(m)
      BY <2>2
    <3>2. Len(m[i]) >= batch[r].chain
      BY <2>2, <3>1 DEF IsKept
    <3>3. SubSeq(m[i], 1, batch[r].chain) \in Seq(Nodes)
      <4> DEFINE p == m[i]
                 c == batch[r].chain
      <4>1. p \in Seq(Nodes) /\ c \in Nat /\ Len(p) >= c
        BY <1>1, <3>1, <3>2
      <4> HIDE DEF p, c
      <4>2. SubSeq(p, 1, c) \in Seq(Nodes)
        BY <4>1
      <4> QED
        BY <4>2 DEF p, c
    <3> QED
      BY <3>3 DEF Hosts
  <2> QED
    BY <2>1, <2>2, <2>3
<1> QED
  BY <1>2, <1>3

LEMMA AlongType ==
  ASSUME BatchOK, NEW r \in Ids, NEW g, NEW old, Placement(r, old)
  PROVE  Placement(r, Along(g, r, old))
<1> DEFINE tried == [i \in DOMAIN Movable(r) |-> Hosts(r, Movable(r)[i])]
           wide(f) == Kept(tried, {hosts \in ToSet(tried) : HasBw(g, r, f, hosts)})
           new(f) == IF tried = <<>> THEN old[f]
                     ELSE IF wide(f) = <<>> THEN Last(tried) ELSE Head(wide(f))
<1>1. tried \in Seq(Seq(Nodes))
  <2> DEFINE m == Movable(r)
  <2>1. m \in Seq(Seq(Nodes)) /\ \A i \in DOMAIN m : Hosts(r, m[i]) \in Seq(Nodes)
    BY MovableType
  <2>2. Len(m) \in Nat /\ DOMAIN m = 1..Len(m)
    BY <2>1
  <2> HIDE DEF m
  <2>3. [i \in DOMAIN m |-> Hosts(r, m[i])] \in [1..Len(m) -> Seq(Nodes)]
    BY <2>1, <2>2
  <2>4. [i \in DOMAIN m |-> Hosts(r, m[i])] \in Seq(Seq(Nodes))
    BY <2>2, <2>3
  <2> QED
    BY <2>4 DEF m
<1>2. Along(g, r, old) = [f \in FlowIds(r) |-> new(f)]
  BY DEF Along
<1> HIDE DEF tried
<1>3. ASSUME NEW f \in FlowIds(r)
      PROVE  new(f) \in Seq(Nodes)
  <2>1. wide(f) \in Seq(Seq(Nodes))
    BY <1>1, KeptIs
  <2>2. old[f] \in Seq(Nodes)
    BY DEF Placement
  <2> HIDE DEF wide
  <2>3. tried # <<>> => Last(tried) \in Seq(Nodes)
    BY <1>1 DEF Last
  <2>4. wide(f) # <<>> => Head(wide(f)) \in Seq(Nodes)
    BY <2>1
  <2> QED
    BY <2>2, <2>3, <2>4
<1> HIDE DEF new
<1>4. [f \in FlowIds(r) |-> new(f)] \in [FlowIds(r) -> Seq(Nodes)]
  BY <1>3
<1> QED
  BY <1>2, <1>4 DEF Placement

-----------------------------------------------------------------------------
(***************************************************************************)
(* What check_solution leaves.                                             *)
(***************************************************************************)
Graph(g) == \A e \in Links : g[e] \in Nat

\* What the requests of a set take of a link.
TakenBy(s, rs, e) == SumFunction([r \in rs |-> Load(r, s[r], e)])

LEMMA TakenByIs ==
  ASSUME BatchOK, NEW s, Solution(s), NEW e \in Links, NEW rs \in SUBSET Ids
  PROVE  /\ IsFiniteSet(rs) /\ TakenBy(s, rs, e) \in Nat
         /\ \A r \in rs : /\ Load(r, s[r], e) \in Nat
                          /\ TakenBy(s, rs, e) = Load(r, s[r], e) + TakenBy(s, rs \ {r}, e)
<1> DEFINE load == [r \in Ids |-> Load(r, s[r], e)]
<1>1. \A r \in Ids : load[r] = Load(r, s[r], e) /\ load[r] \in Nat
  BY LoadType DEF Solution
<1> HIDE DEF load
<1>2. ASSUME NEW q \in SUBSET Ids
      PROVE  IsFiniteSet(q) /\ TakenBy(s, q, e) = SumFunctionOnSet(load, q)
             /\ TakenBy(s, q, e) \in Nat
  <2> DEFINE part == [r \in q |-> Load(r, s[r], e)]
  <2>1. IsFiniteSet(q)
    BY Batch, FS_Subset
  <2>2. DOMAIN part = q /\ \A r \in q : part[r] = load[r]
    BY <1>1
  <2>3. TakenBy(s, q, e) = SumFunctionOnSet(part, q)
    BY DEF TakenBy, SumFunction
  <2> HIDE DEF part
  <2>4. SumFunctionOnSet(part, q) = SumFunctionOnSet(load, q)
    BY <2>1, <2>2, SumSame
  <2>5. SumFunctionOnSet(load, q) \in Nat
    BY <1>1, <2>1, SumTypes
  <2> QED
    BY <2>1, <2>3, <2>4, <2>5
<1>3. ASSUME NEW r \in rs
      PROVE  /\ Load(r, s[r], e) \in Nat
             /\ TakenBy(s, rs, e) = Load(r, s[r], e) + TakenBy(s, rs \ {r}, e)
  <2>1. SumFunctionOnSet(load, rs) = load[r] + SumFunctionOnSet(load, rs \ {r})
    <3>1. IsFiniteSet(rs) /\ \A x \in rs : load[x] \in Int
      BY <1>1, <1>2
    <3> QED
      BY <3>1, SumRemove
  <2>2. rs \ {r} \in SUBSET Ids
    OBVIOUS
  <2> QED
    BY <1>1, <1>2, <2>1, <2>2
<1> QED
  BY <1>2, <1>3

LEMMA LeftIs ==
  ASSUME BatchOK, NEW s, Solution(s), NEW e \in Links, NEW rs \in SUBSET Ids
  PROVE  Left(s, rs)[e] = graph[e] - TakenBy(s, rs, e)
BY DEF Left, TakenBy

\* A part of the requests takes no more than all.
LEMMA TakenGrows ==
  ASSUME BatchOK, NEW s, Solution(s), NEW e \in Links, NEW rs \in SUBSET Ids,
         NEW q \in SUBSET rs
  PROVE  TakenBy(s, q, e) <= TakenBy(s, rs, e)
<1> DEFINE Amount(t) == TakenBy(s, t, e)
           G == {t \in SUBSET rs : q \subseteq t => Amount(q) <= Amount(t)}
<1>0. \A t \in SUBSET rs : t \in SUBSET Ids
  OBVIOUS
<1>1. ASSUME NEW t \in SUBSET rs, \A x \in t : t \ {x} \in G
      PROVE  t \in G
  <2> SUFFICES ASSUME q \subseteq t
               PROVE  Amount(q) <= Amount(t)
    OBVIOUS
  <2>1. Amount(q) \in Nat /\ Amount(t) \in Nat
    BY <1>0, TakenByIs
  <2>2. CASE q = t
    BY <2>1, <2>2
  <2>3. CASE q # t
    <3>1. PICK x \in t : x \notin q
      BY <2>3
    <3>2. Amount(q) <= Amount(t \ {x})
      BY <1>1, <3>1
    <3>3. Load(x, s[x], e) \in Nat /\ Amount(t) = Load(x, s[x], e) + Amount(t \ {x})
      BY <1>0, <3>1, TakenByIs
    <3>4. Amount(t \ {x}) \in Nat
      <4>1. t \ {x} \in SUBSET Ids
        BY <1>0
      <4> QED
        BY <4>1, TakenByIs
    <3> HIDE DEF Amount
    <3> QED
      BY <2>1, <3>2, <3>3, <3>4
  <2> QED
    BY <2>2, <2>3
<1>2. IsFiniteSet(rs)
  BY TakenByIs
<1> HIDE DEF G
<1>3. G = SUBSET rs
  <2>1. G \in SUBSET (SUBSET rs)
    BY DEF G
  <2> QED
    BY <1>1, <1>2, <2>1, FiniteInduction
<1> QED
  BY <1>3 DEF G

\* No request takes what is not there.
LEMMA CheckedLeft ==
  ASSUME BatchOK, NEW s, Solution(s), NEW rs \in SUBSET Ids, Checked(s, rs),
         Graph(graph)
  PROVE  /\ DOMAIN Left(s, rs) = Links
         /\ \A e \in Links : /\ Left(s, rs)[e] \in Nat
                             /\ Left(s, rs)[e] + TakenBy(s, rs, e) = graph[e]
         /\ \A r \in Ids \ rs : ~ Fits(Left(s, rs), r, s[r])
<1> DEFINE before(m) == {q \in rs : q < m}
<1>1. /\ Len(batch) \in Nat /\ Ids = 1..Len(batch) /\ Ids \subseteq Nat
  BY Batch
<1>2. \A m : before(m) \in SUBSET Ids
  OBVIOUS
<1>0. \A q \in rs : q \in Nat /\ q >= 1 /\ q <= Len(batch) /\ q < Len(batch) + 1
  BY <1>1
<1>3. \A r \in Ids : r \in rs <=> Fits(Left(s, before(r)), r, s[r])
  BY DEF Checked
<1>4. ASSUME NEW e \in Links
      PROVE  \A m \in Nat : TakenBy(s, before(m), e) <= graph[e]
  <2> DEFINE D == {m \in Nat : TakenBy(s, before(m), e) <= graph[e]}
  <2>0. graph[e] \in Nat
    BY DEF Graph
  <2>1. 0 \in D
    <3>1. before(0) = {}
      <4>1. \A q \in rs : ~ (q < 0)
        BY <1>0
      <4> QED
        BY <4>1
    <3>2. TakenBy(s, {}, e) = 0
      <4>1. SumFunctionOnSet([r \in {} |-> Load(r, s[r], e)], {}) = 0
        BY SumEmpty
      <4> QED
        BY <4>1 DEF TakenBy, SumFunction
    <3> HIDE DEF before
    <3> QED
      BY <2>0, <3>1, <3>2
  <2>2. ASSUME NEW m \in D
        PROVE  m + 1 \in D
    <3>1. CASE m \notin rs
      <4>1. before(m + 1) = before(m)
        <5>1. \A q \in rs : q < m + 1 <=> q < m
          BY <1>0, <3>1
        <5> QED
          BY <5>1
      <4> HIDE DEF before
      <4> QED
        BY <4>1
    <3>2. CASE m \in rs
      <4>1. before(m + 1) \ {m} = before(m) /\ m \in before(m + 1)
        <5>1. \A q \in rs : q < m + 1 <=> q < m \/ q = m
          BY <1>0
        <5>2. ~ (m < m) /\ m < m + 1
          OBVIOUS
        <5> QED
          BY <3>2, <5>1, <5>2
      <4>2. m \in Ids
        BY <3>2
      <4>3. Fits(Left(s, before(m)), m, s[m])
        BY <1>3, <3>2, <4>2
      <4> HIDE DEF before
      <4>4. Load(m, s[m], e) <= Left(s, before(m))[e]
        BY <4>3 DEF Fits
      <4>5. Left(s, before(m))[e] = graph[e] - TakenBy(s, before(m), e)
        BY <1>2, LeftIs
      <4>6. TakenBy(s, before(m), e) \in Nat /\ TakenBy(s, before(m + 1), e) \in Nat
        BY <1>2, TakenByIs
      <4>7. /\ Load(m, s[m], e) \in Nat
            /\ TakenBy(s, before(m + 1), e) = Load(m, s[m], e) + TakenBy(s, before(m), e)
        BY <1>2, <4>1, TakenByIs
      <4>8. TakenBy(s, before(m + 1), e) <= graph[e]
        BY <2>0, <4>4, <4>5, <4>6, <4>7
      <4> QED
        BY <4>8
    <3> QED
      BY <3>1, <3>2
  <2> HIDE DEF D
  <2>3. D = Nat
    <3>1. D \in SUBSET Nat
      BY DEF D
    <3> QED
      BY <2>1, <2>2, <3>1, Induction
  <2> QED
    BY <2>3 DEF D
<1>5. before(Len(batch) + 1) = rs
  BY <1>0
<1>6. ASSUME NEW e \in Links
      PROVE  /\ Left(s, rs)[e] \in Nat
             /\ Left(s, rs)[e] + TakenBy(s, rs, e) = graph[e]
  <2>1. TakenBy(s, rs, e) <= graph[e]
    BY <1>1, <1>4, <1>5
  <2>2. TakenBy(s, rs, e) \in Nat /\ graph[e] \in Nat
    BY TakenByIs DEF Graph
  <2>3. Left(s, rs)[e] = graph[e] - TakenBy(s, rs, e)
    BY LeftIs
  <2> QED
    BY <2>1, <2>2, <2>3
<1>7. ASSUME NEW r \in Ids \ rs, Fits(Left(s, rs), r, s[r])
      PROVE  FALSE
  <2>1. ~ Fits(Left(s, before(r)), r, s[r])
    BY <1>3
  <2>2. PICK e \in Links : ~ (Load(r, s[r], e) <= Left(s, before(r))[e])
    BY <2>1 DEF Fits
  <2>3. Load(r, s[r], e) <= Left(s, rs)[e]
    BY <1>7 DEF Fits
  <2>4. Load(r, s[r], e) \in Nat
    BY LoadType DEF Solution
  <2>5. before(r) \in SUBSET rs
    OBVIOUS
  <2> HIDE DEF before
  <2>6. TakenBy(s, before(r), e) <= TakenBy(s, rs, e)
    BY <2>5, TakenGrows
  <2>7. /\ Left(s, rs)[e] = graph[e] - TakenBy(s, rs, e)
        /\ Left(s, before(r))[e] = graph[e] - TakenBy(s, before(r), e)
    BY <1>2, LeftIs
  <2>8. TakenBy(s, before(r), e) \in Nat /\ TakenBy(s, rs, e) \in Nat /\ graph[e] \in Nat
    BY <1>2, TakenByIs DEF Graph
  <2> QED
    BY <2>2, <2>3, <2>4, <2>6, <2>7, <2>8
<1>8. DOMAIN Left(s, rs) = Links
  BY DEF Left
<1> QED
  BY <1>6, <1>7, <1>8

-----------------------------------------------------------------------------
(***************************************************************************)
(* What a move does to the bandwidth.                                      *)
(***************************************************************************)
NotIn(o) == {q \in Ids : ~Contains(o, q)}

LEMMA TakenIs ==
  ASSUME NEW s, NEW o, NEW e
  PROVE  Taken(s, o, e) = TakenBy(s, NotIn(o), e)
BY DEF Taken, TakenBy, NotIn

\* Where two solutions agree they take the same.
LEMMA TakenSame ==
  ASSUME BatchOK, NEW s, NEW t, NEW e, NEW rs \in SUBSET Ids,
         \A r \in rs : s[r] = t[r]
  PROVE  TakenBy(s, rs, e) = TakenBy(t, rs, e)
<1> DEFINE f == [r \in rs |-> Load(r, s[r], e)]
           g == [r \in rs |-> Load(r, t[r], e)]
<1>1. f = g
  OBVIOUS
<1> QED
  BY <1>1 DEF TakenBy

Moved(s, r, p, t) ==
  Solution(t) /\ t[r] = p /\ \A q \in Ids \ {r} : t[q] = s[q]

LEMMA MoveIs ==
  ASSUME BatchOK, NEW s, Solution(s), NEW r \in Ids, NEW p, Placement(r, p)
  PROVE  Moved(s, r, p, [s EXCEPT ![r] = p])
BY DEF Moved, Solution

LEMMA MoveTakes ==
  ASSUME BatchOK, NEW s, Solution(s), NEW o \in Seq(Ids), NEW r \in Ids,
         NEW g, Graph(g), Graph(graph), NEW p, Placement(r, p), Fits(g, r, p),
         \A e \in Links : g[e] + Taken(s, o, e) = graph[e],
         NEW t, Moved(s, r, p, t)
  PROVE  \A e \in Links :
           /\ Exchanged(g, r, s[r], p, o)[e] \in Nat
           /\ Exchanged(g, r, s[r], p, o)[e] + Taken(t, Kept(o, Ids \ {r}), e)
                = graph[e]
<1> DEFINE A == NotIn(o)
           B == NotIn(Kept(o, Ids \ {r}))
<1>1. Solution(t) /\ t[r] = p /\ \A q \in Ids \ {r} : t[q] = s[q]
  BY DEF Moved
<1>2. A \in SUBSET Ids /\ B \in SUBSET Ids /\ B = A \cup {r} /\ (r \in A <=> ~Contains(o, r))
  <2>1. \A x : Contains(Kept(o, Ids \ {r}), x) <=> Contains(o, x) /\ x \in Ids \ {r}
    BY KeptHas
  <2> QED
    BY <2>1 DEF NotIn
<1> HIDE DEF A, B
<1>3. ASSUME NEW e \in Links
      PROVE  /\ Exchanged(g, r, s[r], p, o)[e] \in Nat
             /\ Exchanged(g, r, s[r], p, o)[e] + Taken(t, Kept(o, Ids \ {r}), e)
                  = graph[e]
  <2> DEFINE rest == TakenBy(s, A \ {r}, e)
             all0 == TakenBy(s, A, e)
             new == Load(r, p, e)
             old == Load(r, s[r], e)
             x == Exchanged(g, r, s[r], p, o)[e]
  <2>1. x = g[e] - new + IF Contains(o, r) THEN 0 ELSE old
    BY DEF Exchanged
  <2>2. g[e] \in Nat /\ graph[e] \in Nat /\ g[e] + all0 = graph[e]
    BY TakenIs DEF Graph, A
  <2>3. new \in Nat /\ old \in Nat /\ new <= g[e]
    BY LoadType DEF Solution, Fits
  <2>4. Taken(t, Kept(o, Ids \ {r}), e) = new + rest
    <3>1. Taken(t, Kept(o, Ids \ {r}), e) = TakenBy(t, B, e)
      BY TakenIs DEF B
    <3>2. TakenBy(t, B, e) = Load(r, t[r], e) + TakenBy(t, B \ {r}, e)
      <4>1. B \in SUBSET Ids /\ r \in B /\ Solution(t)
        BY <1>1, <1>2
      <4> QED
        BY <4>1, TakenByIs
    <3>3. B \ {r} = A \ {r} /\ A \ {r} \in SUBSET Ids
      BY <1>2
    <3>4. TakenBy(t, A \ {r}, e) = rest
      <4> DEFINE C == A \ {r}
      <4>1. C \in SUBSET Ids /\ \A q \in C : t[q] = s[q]
        BY <1>1, <1>2
      <4> HIDE DEF C
      <4>2. TakenBy(t, C, e) = TakenBy(s, C, e)
        BY <4>1, TakenSame
      <4> QED
        BY <4>2 DEF C
    <3> QED
      BY <1>1, <3>1, <3>2, <3>3, <3>4
  <2>5. rest \in Nat /\ all0 \in Nat
    <3>1. A \ {r} \in SUBSET Ids
      BY <1>2
    <3> QED
      BY <1>2, <3>1, TakenByIs
  <2>6. CASE Contains(o, r)
    <3>1. A \ {r} = A
      BY <1>2, <2>6
    <3>2. rest = all0
      BY <3>1
    <3> HIDE DEF rest, all0, new, old, x
    <3>3. x \in Nat /\ x + (new + rest) = graph[e]
      BY <2>1, <2>2, <2>3, <2>5, <2>6, <3>2
    <3> QED
      BY <2>4, <3>3 DEF x
  <2>7. CASE ~Contains(o, r)
    <3>1. all0 = old + rest
      BY <1>2, <2>7, TakenByIs
    <3> HIDE DEF rest, all0, new, old, x
    <3>2. x \in Nat /\ x + (new + rest) = graph[e]
      BY <2>1, <2>2, <2>3, <2>5, <2>7, <3>1
    <3> QED
      BY <2>4, <3>2 DEF x
  <2> QED
    BY <2>6, <2>7
<1> QED
  BY <1>1, <1>3

LEMMA OverloadedIs ==
  ASSUME BatchOK, NEW rs \in SUBSET Ids
  PROVE  /\ Overloaded(rs) \in Seq(Ids) /\ IsInjective(Overloaded(rs))
         /\ NotIn(Overloaded(rs)) = rs
<1> DEFINE each == [r \in Ids |-> r]
<1>1. each \in Seq(Ids) /\ Len(each) = Len(batch) /\ IsInjective(each)
  <2>1. Len(batch) \in Nat /\ Ids = 1..Len(batch)
    BY Batch
  <2>2. each \in [1..Len(batch) -> Ids]
    BY <2>1
  <2>3. IsInjective(each)
    BY DEF IsInjective
  <2> QED
    BY <2>1, <2>2, <2>3
<1>2. \A x \in Ids : Contains(each, x)
  <2>1. \A x \in Ids : x \in 1..Len(each) /\ each[x] = x
    BY <1>1, Batch
  <2> QED
    BY <2>1 DEF Contains
<1> HIDE DEF each
<1> DEFINE o == Kept(each, Ids \ rs)
<1>3. /\ o \in Seq(Ids) /\ IsInjective(o)
      /\ \A x : Contains(o, x) <=> Contains(each, x) /\ x \in Ids \ rs
  BY <1>1, KeptHas
<1>4. Overloaded(rs) = o
  BY DEF Overloaded, each
<1> HIDE DEF o
<1>5. NotIn(o) = rs
  BY <1>2, <1>3 DEF NotIn
<1> QED
  BY <1>3, <1>4, <1>5

-----------------------------------------------------------------------------
(***************************************************************************)
(* The routes of the result take what the check took.                      *)
(***************************************************************************)
LEMMA RouteIs ==
  ASSUME BatchOK, NEW r \in Ids, NEW hosts \in Seq(Nodes)
  PROVE  /\ Route(r, hosts) \in Seq(Links)
         /\ \A e \in Links : Times(Route(r, hosts), e) = Crossings(r, hosts, e)
<1> DEFINE legs == Legs(r, hosts)
           n == Len(hosts) + 1
           part(i) == Hops(ShortPath[legs[i][1]][legs[i][2]])
           parts == [i \in DOMAIN legs |-> part(i)]
<1>1. n \in Nat /\ DOMAIN legs = 1..n /\ \A i \in 1..n : legs[i] \in Nodes \X Nodes
  BY LegsType
<1>2. Route(r, hosts) = FlattenSeq(parts)
  BY DEF Route
<1>4. ASSUME NEW i \in 1..n
      PROVE  /\ part(i) \in Seq(Links)
             /\ \A e \in Links : Uses[legs[i]][e] = Times(part(i), e)
  <2>1. PICK u \in Nodes, w \in Nodes : legs[i] = <<u, w>>
    BY <1>1
  <2>2. part(i) = Hops(ShortPath[u][w])
    BY <2>1
  <2> HIDE DEF part, legs
  <2> QED
    BY <2>1, <2>2, HopsOf, UsesType
<1> HIDE DEF legs, part
<1>5. parts \in Seq(Seq(Links)) /\ Len(parts) = n /\ \A i \in 1..n : parts[i] = part(i)
  <2>1. parts \in [1..n -> Seq(Links)]
    BY <1>1, <1>4
  <2> QED
    BY <1>1, <2>1
<1> HIDE DEF parts, n
<1>6. \A q \in Seq(Links) : \A e : Times(q, e) = Count(q, {e})
  <2> SUFFICES ASSUME NEW q \in Seq(Links), NEW e
               PROVE  Times(q, e) = Count(q, {e})
    OBVIOUS
  <2>1. {i \in DOMAIN q : q[i] = e} = {i \in 1..Len(q) : q[i] \in {e}}
    OBVIOUS
  <2> QED
    BY <2>1 DEF Times, Count
<1>7. FlattenSeq(parts) \in Seq(Links)
  BY <1>5, Flattened
<1>8. ASSUME NEW e \in Links
      PROVE  Times(FlattenSeq(parts), e) = Crossings(r, hosts, e)
  <2> DEFINE c == [i \in 1..n |-> Count(parts[i], {e})]
             d == [i \in DOMAIN legs |-> Uses[legs[i]][e]]
  <2>1. Count(FlattenSeq(parts), {e}) = SumFunctionOnSet(c, 1..n)
    BY <1>5, Flattened
  <2>2. c = d
    <3>1. \A i \in 1..n : Count(parts[i], {e}) = Uses[legs[i]][e]
      BY <1>4, <1>5, <1>6
    <3> QED
      BY <1>1, <3>1
  <2>3. Crossings(r, hosts, e) = SumFunctionOnSet(d, DOMAIN d)
    BY DEF Crossings, SumFunction, legs
  <2>4. DOMAIN d = 1..n
    BY <1>1
  <2> HIDE DEF c, d
  <2> QED
    BY <1>6, <1>7, <2>1, <2>2, <2>3, <2>4
<1> QED
  BY <1>2, <1>7, <1>8

\* Crossed for any report.
CrossedBy(rep, e) ==
  SumFunction([r \in {q \in Ids : rep[q].succ} |->
    SumFunction([f \in FlowIds(r) |-> Rate(r, f) * Times(rep[r].routes[f], e)])])

LEMMA ReportTakes ==
  ASSUME BatchOK, NEW s, Solution(s), NEW o, NEW e \in Links
  PROVE  CrossedBy(Reported(s, o), e) = Taken(s, o, e)
<1> DEFINE rep == Reported(s, o)
           byReport(r) == [f \in FlowIds(r) |-> Rate(r, f) * Times(rep[r].routes[f], e)]
           byCheck(r) == [f \in FlowIds(r) |-> Rate(r, f) * Crossings(r, s[r][f], e)]
<1>1. \A r \in Ids : /\ rep[r].succ = ~Contains(o, r)
                     /\ \A f \in FlowIds(r) : rep[r].routes[f] = Route(r, s[r][f])
  BY DEF Reported, Succeeds
<1>2. {q \in Ids : rep[q].succ} = NotIn(o)
  BY <1>1 DEF NotIn
<1>3. ASSUME NEW r \in Ids
      PROVE  SumFunction(byReport(r)) = Load(r, s[r], e)
  <2>1. \A f \in FlowIds(r) : s[r][f] \in Seq(Nodes)
    BY DEF Solution, Placement
  <2>2. \A f \in FlowIds(r) : Times(Route(r, s[r][f]), e) = Crossings(r, s[r][f], e)
    BY <2>1, RouteIs
  <2> HIDE DEF rep
  <2>3. byReport(r) = byCheck(r)
    BY <1>1, <2>2
  <2> QED
    BY <2>3 DEF Load
<1> DEFINE N == NotIn(o)
<1>4. N \subseteq Ids
  BY DEF NotIn
<1>5. CrossedBy(rep, e) = SumFunction([r \in N |-> SumFunction(byReport(r))])
  BY <1>2 DEF CrossedBy
<1> HIDE DEF N, byReport, rep
<1>6. [r \in N |-> SumFunction(byReport(r))] = [r \in N |-> Load(r, s[r], e)]
  BY <1>3, <1>4
<1>7. CrossedBy(rep, e) = TakenBy(s, N, e)
  BY <1>5, <1>6 DEF TakenBy
<1> QED
  BY <1>7, TakenIs DEF N, rep

-----------------------------------------------------------------------------
(***************************************************************************)
(* The inductive invariant.                                                *)
(***************************************************************************)
Bounded(g) == DOMAIN g = Links /\ \A e \in Links : g[e] \in 0..Bandwidth[e]

Places == {"check", "create", "loop", "judge", "ended", "overloaded", "update",
           "undefined"}
Working == pc \notin {"check", "create"}

InputOK ==
  /\ all \in Seq(Request) /\ BatchOK
  /\ time \in 0..LastSlot + 1 /\ pc \in Places
  /\ pc # "check" => time <= LastSlot

GraphsOK == Bounded(graph) /\ Bounded(minGraph) /\ Bounded(tmpGraph)

SolutionsOK ==
  Working =>
    /\ Solution(sol) /\ Solution(tmpSol) /\ Solution(best)
    /\ minOver \in Seq(Ids) /\ over \in Seq(Ids)
    /\ fmin \in Delay /\ fbest \in Delay
    /\ loopCount \in 0..Len(batch)

\* No request is twice among the overloaded ones.
OnceOverloaded == IsInjective(minOver) /\ IsInjective(over)

LoopsOK ==
  /\ temp \in 0..Rounds /\ noIm \in 0..NoImLimit /\ next \in Nat \ {0}
  /\ pc \in {"loop", "judge"} => temp # 0 /\ noIm # NoImLimit

\* The records of the accepted solution agree, and those of the moved one.
MinBooks == \A e \in Links : minGraph[e] + Taken(sol, minOver, e) = graph[e]
MinDelay == fmin = AverageDelay(sol, minOver) /\ ~Less(fmin, fbest)
TmpBooks == \A e \in Links : tmpGraph[e] + Taken(tmpSol, over, e) = graph[e]
ResultOK ==
  /\ \A e \in Links : tmpGraph[e] + Crossed(e) = graph[e]
  /\ \A r \in Ids : ~report[r].succ => ~Fits(tmpGraph, r, sol[r])

Books ==
  /\ pc \in {"loop", "judge"} => MinBooks /\ MinDelay
  /\ pc = "judge" => TmpBooks
  /\ JustChecked => ResultOK

RoutesOK ==
  pc = "update" =>
    \A r \in Ids : \A f \in FlowIds(r) : report[r].routes[f] \in Seq(Links)

Inv ==
  /\ InputOK /\ GraphsOK /\ SolutionsOK /\ OnceOverloaded /\ LoopsOK
  /\ Books /\ RoutesOK

LEMMA InvImplies == Inv => TypeOK /\ StatusConsistent
<1> SUFFICES ASSUME Inv PROVE TypeOK /\ StatusConsistent
  OBVIOUS
<1>1. StatusConsistent
  BY DEF Inv, Books, MinBooks, MinDelay, TmpBooks, ResultOK, StatusConsistent
<1>2. TypeOK
  <2>1. /\ time \in 0..LastSlot + 1
        /\ pc \in {"check", "create", "loop", "judge", "ended", "overloaded",
                   "update", "undefined"}
    BY DEF Inv, InputOK, Places
  <2>2. \A g \in {graph, minGraph, tmpGraph} :
          DOMAIN g = Links /\ \A e \in Links : g[e] \in 0..Bandwidth[e]
    BY DEF Inv, GraphsOK, Bounded
  <2>3. pc \notin {"check", "create"} =>
          DOMAIN sol = Ids /\ DOMAIN tmpSol = Ids /\ loopCount \in 0..Len(batch)
    BY DEF Inv, SolutionsOK, Working, Solution
  <2>4. \A o \in {minOver, over} : IsInjective(o)
    BY DEF Inv, OnceOverloaded
  <2>5. temp \in 0..Rounds /\ noIm \in 0..NoImLimit
    BY DEF Inv, LoopsOK
  <2> QED
    BY <2>1, <2>2, <2>3, <2>4, <2>5 DEF TypeOK
<1> QED
  BY <1>1, <1>2

-----------------------------------------------------------------------------
(***************************************************************************)
(* What a step leaves as it was.                                           *)
(***************************************************************************)
LEMMA SameBatch ==
  ASSUME batch' = batch
  PROVE  /\ Ids' = Ids /\ BatchOK' = BatchOK
         /\ \A r : FlowIds(r)' = FlowIds(r)
         /\ Solution(sol)' = Solution(sol')
         /\ Solution(tmpSol)' = Solution(tmpSol')
         /\ Solution(best)' = Solution(best')
         /\ AverageDelay(sol, minOver)' = AverageDelay(sol', minOver')
         /\ \A e : /\ Taken(sol, minOver, e)' = Taken(sol', minOver', e)
                   /\ Taken(tmpSol, over, e)' = Taken(tmpSol', over', e)
                   /\ Crossed(e)' = CrossedBy(report', e)
         /\ \A r : Fits(tmpGraph, r, sol[r])' = Fits(tmpGraph', r, sol'[r])
<1>1. Ids' = Ids /\ BatchOK' = BatchOK /\ \A r : FlowIds(r)' = FlowIds(r)
  BY DEF Ids, BatchOK, FlowIds
<1>2. /\ Solution(sol)' = Solution(sol')
      /\ Solution(tmpSol)' = Solution(tmpSol')
      /\ Solution(best)' = Solution(best')
  BY DEF Solution, Placement, Ids, FlowIds
<1>3. AverageDelay(sol, minOver)' = AverageDelay(sol', minOver')
  BY DEF AverageDelay, FlowDelay, Legs, Stops, FlowIds, Ids
<1>4. \A e : Taken(sol, minOver, e)' = Taken(sol', minOver', e)
  BY DEF Taken, Load, Crossings, Legs, Stops, FlowIds, Rate, Ids
<1>5. \A e : Taken(tmpSol, over, e)' = Taken(tmpSol', over', e)
  BY DEF Taken, Load, Crossings, Legs, Stops, FlowIds, Rate, Ids
<1>6. \A e : Crossed(e)' = CrossedBy(report', e)
  BY DEF Crossed, CrossedBy, FlowIds, Rate, Ids
<1>7. \A r : Fits(tmpGraph, r, sol[r])' = Fits(tmpGraph', r, sol'[r])
  BY DEF Fits, Load, Crossings, Legs, Stops, FlowIds, Rate
<1> QED
  BY <1>1, <1>2, <1>3, <1>4, <1>5, <1>6, <1>7

\* The accepted solution's records, when none of them changes.
LEMMA MinStays ==
  ASSUME UNCHANGED <<batch, graph, minVars, bestVars>>
  PROVE  MinBooks' = MinBooks /\ MinDelay' = MinDelay
<1>1. /\ AverageDelay(sol, minOver)' = AverageDelay(sol, minOver)
      /\ \A e : Taken(sol, minOver, e)' = Taken(sol, minOver, e)
  BY SameBatch DEF minVars
<1> QED
  BY <1>1 DEF MinBooks, MinDelay, minVars, bestVars, Less

-----------------------------------------------------------------------------
(***************************************************************************)
(* Each action preserves it.                                               *)
(***************************************************************************)
LEMMA InitInv == Init => Inv
<1> SUFFICES ASSUME Init PROVE Inv
  OBVIOUS
<1> USE DEF Init
<1>1. /\ LastSlot \in Nat /\ Rounds \in Nat \ {0} /\ NoImLimit \in Nat \ {0}
      /\ Bandwidth \in [Links -> Nat] /\ RequestLists \subseteq Seq(Request)
  BY AnnealingAssumption
<1>2. InputOK
  <2>1. <<>> \in Seq(Request)
    OBVIOUS
  <2> QED
    BY <1>1, <2>1 DEF InputOK, BatchOK, Places
<1>3. GraphsOK
  <2>1. Bounded(Bandwidth)
    BY <1>1 DEF Bounded
  <2> QED
    BY <2>1 DEF GraphsOK
<1>4. SolutionsOK /\ Books /\ RoutesOK
  BY DEF SolutionsOK, Working, Books, JustChecked, RoutesOK
<1>5. OnceOverloaded
  <2>1. IsInjective(<<>>)
    BY DEF IsInjective
  <2> QED
    BY <2>1 DEF OnceOverloaded
<1>6. LoopsOK
  BY <1>1 DEF LoopsOK
<1> QED
  BY <1>2, <1>3, <1>4, <1>5, <1>6 DEF Inv

\* While the batch is the same, what the invariant says of the solutions.
LEMMA SolutionsNext ==
  ASSUME batch' = batch,
         /\ Solution(sol') /\ Solution(tmpSol') /\ Solution(best')
         /\ minOver' \in Seq(Ids) /\ over' \in Seq(Ids)
         /\ fmin' \in Delay /\ fbest' \in Delay
         /\ loopCount' \in 0..Len(batch)
  PROVE  SolutionsOK'
BY SameBatch DEF SolutionsOK, Delay

LEMMA Known ==
  ASSUME Inv, Working
  PROVE  /\ BatchOK /\ Graph(graph) /\ Graph(minGraph) /\ Graph(tmpGraph)
         /\ Bounded(graph) /\ Bounded(minGraph) /\ Bounded(tmpGraph)
         /\ Solution(sol) /\ Solution(tmpSol) /\ Solution(best)
         /\ minOver \in Seq(Ids) /\ over \in Seq(Ids)
         /\ fmin \in Delay /\ fbest \in Delay
         /\ loopCount \in 0..Len(batch) /\ Len(batch) \in Nat
         /\ IsInjective(minOver) /\ IsInjective(over)
<1>1. \A g : Bounded(g) => Graph(g)
  <2>1. \A e \in Links : Bandwidth[e] \in Nat
    BY AnnealingAssumption
  <2> QED
    BY <2>1 DEF Bounded, Graph
<1>2. BatchOK /\ Bounded(graph) /\ Bounded(minGraph) /\ Bounded(tmpGraph)
  BY DEF Inv, InputOK, GraphsOK
<1>3. Len(batch) \in Nat
  BY <1>2, Batch
<1> QED
  BY <1>1, <1>2, <1>3 DEF Inv, SolutionsOK, OnceOverloaded

\* What is part of the bandwidth of a graph is.
LEMMA BoundedBy ==
  ASSUME Graph(graph), Bounded(graph), NEW g, DOMAIN g = Links,
         \A e \in Links : g[e] \in Nat /\ g[e] <= graph[e]
  PROVE  Bounded(g)
<1>1. \A e \in Links : Bandwidth[e] \in Nat /\ graph[e] \in Nat /\ graph[e] <= Bandwidth[e]
  BY AnnealingAssumption DEF Bounded, Graph
<1> QED
  BY <1>1 DEF Bounded

LEMMA LeftBounded ==
  ASSUME BatchOK, Graph(graph), Bounded(graph), NEW s, Solution(s),
         NEW rs \in SUBSET Ids, Checked(s, rs)
  PROVE  Bounded(Left(s, rs))
<1>1. \A e \in Links : /\ Left(s, rs)[e] \in Nat /\ TakenBy(s, rs, e) \in Nat
                       /\ graph[e] \in Nat
                       /\ Left(s, rs)[e] + TakenBy(s, rs, e) = graph[e]
  BY CheckedLeft, TakenByIs DEF Graph
<1>2. DOMAIN Left(s, rs) = Links
  BY CheckedLeft
<1> DEFINE g == Left(s, rs)
           t(e) == TakenBy(s, rs, e)
<1>3. \A e \in Links : g[e] \in Nat /\ t(e) \in Nat /\ graph[e] \in Nat /\ g[e] + t(e) = graph[e]
  BY <1>1
<1> HIDE DEF g, t
<1>4. \A e \in Links : g[e] \in Nat /\ g[e] <= graph[e]
  BY <1>3
<1> QED
  BY <1>2, <1>4, BoundedBy DEF g

\* check_solution leaves the books balanced.
LEMMA CheckedBooks ==
  ASSUME BatchOK, Graph(graph), NEW s, Solution(s),
         NEW rs \in SUBSET Ids, Checked(s, rs)
  PROVE  \A e \in Links : Left(s, rs)[e] + Taken(s, Overloaded(rs), e) = graph[e]
<1>1. NotIn(Overloaded(rs)) = rs
  BY OverloadedIs
<1>2. \A e \in Links : Taken(s, Overloaded(rs), e) = TakenBy(s, rs, e)
  BY <1>1, TakenIs
<1> QED
  BY <1>2, CheckedLeft

LEMMA CheckInv == ASSUME Inv, Check PROVE Inv'
<1> USE DEF Check
<1>0. /\ pc = "check" /\ time <= LastSlot /\ batch' = CheckRequests
      /\ all' = all /\ graph' = graph
      /\ \/ time' = time /\ pc' = "create"
         \/ time' = time + 1 /\ pc' = "check"
      /\ UNCHANGED <<minVars, tmpVars, bestVars, loopVars, next>>
  OBVIOUS
<1> LastSlot \in Nat
  BY AnnealingAssumption
<1>1. InputOK'
  <2>1. CheckRequests \in Seq(Request)
    <3>1. all \in Seq(Request)
      BY DEF Inv, InputOK
    <3> QED
      BY <3>1, KeptHas DEF CheckRequests
  <2>2. BatchOK' /\ all' \in Seq(Request)
    BY <1>0, <2>1 DEF Inv, InputOK, BatchOK
  <2>3. time \in 0..LastSlot + 1
    BY DEF Inv, InputOK
  <2> QED
    BY <1>0, <2>2, <2>3 DEF InputOK, Places
<1>2. GraphsOK'
  BY <1>0 DEF Inv, GraphsOK, Bounded, minVars, tmpVars
<1>3. SolutionsOK' /\ Books' /\ RoutesOK'
  BY <1>0 DEF SolutionsOK, Working, Books, JustChecked, RoutesOK
<1>4. OnceOverloaded'
  BY <1>0 DEF Inv, OnceOverloaded, minVars, tmpVars
<1>5. LoopsOK'
  BY <1>0 DEF Inv, LoopsOK, loopVars
<1> QED
  BY <1>1, <1>2, <1>3, <1>4, <1>5 DEF Inv

\* What a step of main keeps of the batch and of the slot.
LEMMA SlotStays ==
  ASSUME Inv, UNCHANGED <<slotVars, batch>>, pc # "check", pc' \in Places
  PROVE  InputOK'
BY DEF Inv, InputOK, slotVars, BatchOK

LEMMA SlotEnds ==
  ASSUME Inv, UNCHANGED <<all, batch>>, pc # "check", time' = time + 1, pc' = "check"
  PROVE  InputOK'
<1>1. LastSlot \in Nat
  BY AnnealingAssumption
<1>2. time \in 0..LastSlot /\ all \in Seq(Request) /\ batch \in Seq(Request)
  BY <1>1 DEF Inv, InputOK, BatchOK
<1> QED
  BY <1>1, <1>2 DEF InputOK, BatchOK, Places

LEMMA CreateInitSolutionInv == ASSUME Inv, CreateInitSolution PROVE Inv'
<1>0. /\ pc = "create" /\ pc' = "loop"
      /\ UNCHANGED <<slotVars, graph, batch, next>>
      /\ fmin' = AverageDelay(sol', minOver') /\ fbest' = fmin' /\ best' = sol'
      /\ tmpSol' = sol' /\ tmpGraph' = minGraph' /\ over' = minOver'
      /\ temp' = Rounds /\ noIm' = 0 /\ loopCount' = 0
  BY DEF CreateInitSolution
<1>1. BatchOK /\ Bounded(graph) /\ Graph(graph)
  <2>1. BatchOK /\ Bounded(graph)
    BY DEF Inv, InputOK, GraphsOK
  <2>2. \A e \in Links : Bandwidth[e] \in Nat
    BY AnnealingAssumption
  <2> QED
    BY <2>1, <2>2 DEF Bounded, Graph
<1>2. PICK host \in [Spots -> 1..MaxNode] : sol' = Placed(host)
  BY DEF CreateInitSolution
<1>3. PICK rs \in SUBSET Ids : /\ Checked(sol', rs)
                               /\ minGraph' = Left(sol', rs)
                               /\ minOver' = Overloaded(rs)
  BY DEF CreateInitSolution
<1>4. Solution(sol')
  <2>1. \A r \in Ids : batch[r].chain \in Nat
    BY <1>1, Batch
  <2>2. ASSUME NEW r \in Ids, NEW f \in FlowIds(r)
        PROVE  [k \in 1..batch[r].chain |-> host[<<r, f, k>>]] \in Seq(Nodes)
    <3>1. \A k \in 1..batch[r].chain : <<r, f, k>> \in Spots
      BY DEF Spots
    <3>2. \A k \in 1..batch[r].chain : host[<<r, f, k>>] \in Nodes
      <4>1. MaxNode \in Nat
        BY AnnealingAssumption
      <4>2. \A x \in 1..MaxNode : x \in Nodes
        BY <4>1 DEF Nodes
      <4> QED
        BY <3>1, <4>2
    <3>3. batch[r].chain \in Nat
      BY <2>1
    <3> DEFINE c == batch[r].chain
               h(k) == host[<<r, f, k>>]
    <3>4. c \in Nat /\ \A k \in 1..c : h(k) \in Nodes
      BY <3>2, <3>3
    <3> HIDE DEF c, h
    <3>5. [k \in 1..c |-> h(k)] \in Seq(Nodes)
      BY <3>4
    <3> QED
      BY <3>5 DEF c, h
  <2> QED
    BY <1>2, <2>2 DEF Placed, Solution, Placement
<1> DEFINE s == sol'
<1>5. Bounded(Left(s, rs))
  BY <1>1, <1>3, <1>4, LeftBounded
<1>6. \A e \in Links : Left(s, rs)[e] + Taken(s, Overloaded(rs), e) = graph[e]
  BY <1>1, <1>3, <1>4, CheckedBooks
<1>7. Overloaded(rs) \in Seq(Ids) /\ IsInjective(Overloaded(rs))
  BY <1>1, OverloadedIs
<1>8. AverageDelay(s, Overloaded(rs)) \in Delay
  BY <1>1, <1>4, DelayType
<1>9. fmin' \in Delay /\ minOver' \in Seq(Ids)
  BY <1>0, <1>3, <1>7, <1>8
<1> HIDE DEF s
<1>10. InputOK'
  <2>1. pc' \in Places /\ pc # "check"
    BY <1>0 DEF Places
  <2> QED
    BY <1>0, <2>1, SlotStays
<1>11. GraphsOK'
  BY <1>0, <1>1, <1>3, <1>5 DEF GraphsOK, Bounded, s
<1>12. SolutionsOK'
  <2>1. loopCount' \in 0..Len(batch)
    BY <1>0, <1>1, Batch
  <2> QED
    BY <1>0, <1>4, <1>9, <2>1, SolutionsNext
<1>13. OnceOverloaded'
  BY <1>0, <1>3, <1>7 DEF OnceOverloaded
<1>14. LoopsOK'
  <2>1. Rounds \in Nat \ {0} /\ NoImLimit \in Nat \ {0}
    BY AnnealingAssumption
  <2> QED
    BY <1>0, <2>1 DEF LoopsOK, Inv
<1>15. MinBooks' /\ MinDelay'
  <2>1. \A e : Taken(sol, minOver, e)' = Taken(sol', minOver', e)
    BY <1>0, SameBatch
  <2>2. AverageDelay(sol, minOver)' = AverageDelay(sol', minOver')
    BY <1>0, SameBatch
  <2>3. MinBooks'
    BY <1>0, <1>3, <1>6, <2>1 DEF MinBooks, s
  <2>4. ~Less(fmin', fmin')
    BY <1>9 DEF Delay, Less
  <2>5. ~Less(fmin, fbest)'
    BY <1>0, <2>4 DEF Less
  <2> QED
    BY <1>0, <2>2, <2>3, <2>5 DEF MinDelay
<1>16. Books' /\ RoutesOK'
  BY <1>0, <1>15 DEF Books, JustChecked, RoutesOK
<1> QED
  BY <1>10, <1>11, <1>12, <1>13, <1>14, <1>16 DEF Inv

LEMMA ReturnNanInv == ASSUME Inv, ReturnNan PROVE Inv'
<1>0. /\ pc = "loop" /\ pc' = "check" /\ time' = time + 1
      /\ UNCHANGED <<all, graph, batch, minVars, tmpVars, bestVars, loopVars, next>>
  BY DEF ReturnNan
<1>1. InputOK'
  BY <1>0, SlotEnds
<1>2. GraphsOK' /\ OnceOverloaded'
  BY <1>0 DEF Inv, GraphsOK, Bounded, OnceOverloaded, minVars, tmpVars
<1>3. SolutionsOK' /\ Books' /\ RoutesOK'
  BY <1>0 DEF SolutionsOK, Working, Books, JustChecked, RoutesOK
<1>4. LoopsOK'
  BY <1>0 DEF Inv, LoopsOK, loopVars
<1> QED
  BY <1>1, <1>2, <1>3, <1>4 DEF Inv

LEMMA FinishInv == ASSUME Inv, Finish PROVE Inv'
<1>0. /\ pc = "update" /\ pc' = "check" /\ time' = time + 1
      /\ UNCHANGED <<all, graph, batch, minVars, tmpVars, bestVars, loopVars, next>>
  BY DEF Finish
<1>1. InputOK'
  BY <1>0, SlotEnds
<1>2. GraphsOK' /\ OnceOverloaded'
  BY <1>0 DEF Inv, GraphsOK, Bounded, OnceOverloaded, minVars, tmpVars
<1>3. SolutionsOK' /\ Books' /\ RoutesOK'
  BY <1>0 DEF SolutionsOK, Working, Books, JustChecked, RoutesOK
<1>4. LoopsOK'
  BY <1>0 DEF Inv, LoopsOK, loopVars
<1> QED
  BY <1>1, <1>2, <1>3, <1>4 DEF Inv

\* m_loop_count stays in its range, and names a request.
LEMMA Counted ==
  ASSUME Len(batch) \in Nat, loopCount \in 0..Len(batch)
  PROVE  Min({loopCount + 1, Len(batch)}) \in 0..Len(batch)
<1> DEFINE S == {loopCount + 1, Len(batch)}
<1>1. \E x \in S : \A y \in S : x <= y
  OBVIOUS
<1>2. Min(S) \in S /\ \A y \in S : Min(S) <= y
  BY <1>1 DEF Min
<1>3. Min(S) <= Len(batch) /\ (Min(S) = loopCount + 1 \/ Min(S) = Len(batch))
  BY <1>2
<1> DEFINE m == Min(S)
<1> HIDE DEF m
<1>4. m \in 0..Len(batch)
  BY <1>3 DEF m
<1> QED
  BY <1>4 DEF m

LEMMA TurnsType ==
  ASSUME Len(batch) \in Nat, loopCount \in 0..Len(batch)
  PROVE  Turns \subseteq Ids
BY DEF Turns, Ids

LEMMA TakenNat ==
  ASSUME BatchOK, NEW s, Solution(s), NEW o, NEW e \in Links
  PROVE  Taken(s, o, e) \in Nat
<1>1. NotIn(o) \in SUBSET Ids
  BY DEF NotIn
<1>2. TakenBy(s, NotIn(o), e) \in Nat
  BY <1>1, TakenByIs
<1> QED
  BY <1>2, TakenIs

LEMMA MoveFailsInv == ASSUME Inv, MoveFails PROVE Inv'
<1>0. /\ pc = "loop" /\ pc' = "loop" /\ loopCount' = Min({loopCount + 1, Len(batch)})
      /\ UNCHANGED <<slotVars, graph, batch, minVars, tmpVars, bestVars, temp,
                     noIm, next>>
  BY DEF MoveFails
<1>1. Working
  BY <1>0 DEF Working
<1>2. InputOK'
  BY <1>0, SlotStays DEF Places
<1>3. GraphsOK' /\ OnceOverloaded'
  BY <1>0 DEF Inv, GraphsOK, Bounded, OnceOverloaded, minVars, tmpVars
<1>4. SolutionsOK'
  <2>1. loopCount' \in 0..Len(batch)
    BY <1>0, <1>1, Known, Counted
  <2> QED
    BY <1>0, <1>1, <2>1, Known, SolutionsNext DEF minVars, tmpVars, bestVars
<1>5. LoopsOK'
  BY <1>0 DEF Inv, LoopsOK
<1>6. Books' /\ RoutesOK'
  <2>1. MinBooks /\ MinDelay
    BY <1>0 DEF Inv, Books
  <2>2. MinBooks' /\ MinDelay'
    BY <1>0, <2>1, MinStays
  <2> QED
    BY <1>0, <2>2 DEF Books, JustChecked, RoutesOK
<1> QED
  BY <1>2, <1>3, <1>4, <1>5, <1>6 DEF Inv

LEMMA MoveRequestInv == ASSUME Inv, MoveRequest PROVE Inv'
<1>0. /\ pc = "loop" /\ pc' = "judge" /\ loopCount' = Min({loopCount + 1, Len(batch)})
      /\ UNCHANGED <<slotVars, graph, batch, minVars, bestVars, temp, noIm, next>>
  BY DEF MoveRequest
<1>1. Working
  BY <1>0 DEF Working
<1>2. PICK r \in Turns :
        /\ tmpSol' = [sol EXCEPT ![r] = Along(minGraph, r, sol[r])]
        /\ Fits(minGraph, r, tmpSol'[r])
        /\ tmpGraph' = Exchanged(minGraph, r, sol[r], tmpSol'[r], minOver)
        /\ over' = Kept(minOver, Ids \ {r})
  BY DEF MoveRequest
<1>3. r \in Ids
  BY <1>1, Known, TurnsType
<1> DEFINE p == Along(minGraph, r, sol[r])
<1>4. Placement(r, p)
  BY <1>1, <1>3, Known, AlongType DEF Solution
<1>5. Moved(sol, r, p, tmpSol')
  BY <1>1, <1>2, <1>3, <1>4, Known, MoveIs
<1> HIDE DEF p
<1>6. Solution(tmpSol') /\ tmpSol'[r] = p
  BY <1>5 DEF Moved
<1>7. MinBooks /\ MinDelay
  BY <1>0 DEF Inv, Books
<1> DEFINE t == tmpSol'
           o == Kept(minOver, Ids \ {r})
           g == Exchanged(minGraph, r, sol[r], p, minOver)
<1>8. \A e \in Links : g[e] \in Nat /\ g[e] + Taken(t, o, e) = graph[e]
  <2>1. Fits(minGraph, r, p) /\ Moved(sol, r, p, t)
    BY <1>2, <1>5, <1>6
  <2> HIDE DEF t
  <2> QED
    BY <1>1, <1>3, <1>4, <1>7, <2>1, Known, MoveTakes DEF MinBooks
<1>9. o \in Seq(Ids) /\ IsInjective(o)
  BY <1>1, Known, KeptHas
<1>10. DOMAIN g = Links
  BY DEF Exchanged
<1>11. tmpGraph' = g /\ over' = o
  BY <1>2, <1>6
<1>12. Bounded(g)
  <2>1. \A e \in Links : Taken(t, o, e) \in Nat
    BY <1>1, <1>6, Known, TakenNat
  <2> HIDE DEF g, t, o
  <2>2. \A e \in Links : g[e] \in Nat /\ g[e] <= graph[e]
    BY <1>1, <1>8, <2>1, Known DEF Graph
  <2> QED
    BY <1>1, <1>10, <2>2, Known, BoundedBy DEF g
<1> HIDE DEF g, t, o
<1>13. InputOK'
  BY <1>0, SlotStays DEF Places
<1>14. GraphsOK'
  BY <1>0, <1>1, <1>11, <1>12, Known DEF GraphsOK, Bounded, minVars
<1>15. OnceOverloaded'
  BY <1>0, <1>1, <1>9, <1>11, Known DEF OnceOverloaded, minVars
<1>16. SolutionsOK'
  <2>1. loopCount' \in 0..Len(batch)
    BY <1>0, <1>1, Known, Counted
  <2> QED
    BY <1>0, <1>1, <1>6, <1>9, <1>11, <2>1, Known, SolutionsNext DEF minVars, bestVars
<1>17. LoopsOK'
  BY <1>0 DEF Inv, LoopsOK
<1>18. Books' /\ RoutesOK'
  <2>1. MinBooks' /\ MinDelay'
    BY <1>0, <1>7, MinStays
  <2>2. \A e : Taken(tmpSol, over, e)' = Taken(tmpSol', over', e)
    BY <1>0, SameBatch
  <2>3. TmpBooks'
    BY <1>0, <1>8, <1>11, <2>2 DEF TmpBooks, t
  <2> QED
    BY <1>0, <2>1, <2>3 DEF Books, JustChecked, RoutesOK
<1> QED
  BY <1>13, <1>14, <1>15, <1>16, <1>17, <1>18 DEF Inv

\* The rounds without improvement, and the delay they are counted by.
LEMMA Judged ==
  ASSUME Inv, pc = "judge"
  PROVE  /\ Working /\ NewDelay \in Delay
         /\ NoIm \in 0..noIm + 1 /\ NoIm \in 0..NoImLimit
         /\ temp \in 1..Rounds /\ Rounds \in Nat
         /\ noIm \in Nat /\ NoImLimit \in Nat \ {0}
         /\ MinBooks /\ MinDelay /\ TmpBooks
<1>1. Working
  BY DEF Working
<1>2. NewDelay \in Delay
  BY <1>1, Known, DelayType DEF NewDelay
<1>3. NoImLimit \in Nat \ {0} /\ Rounds \in Nat \ {0}
  BY AnnealingAssumption
<1>4. temp \in 0..Rounds /\ temp # 0 /\ noIm \in 0..NoImLimit /\ noIm # NoImLimit
  BY DEF Inv, LoopsOK
<1>5. NoIm = 0 \/ NoIm = noIm + 1
  BY DEF NoIm
<1>6. MinBooks /\ MinDelay /\ TmpBooks
  BY DEF Inv, Books
<1> QED
  BY <1>1, <1>2, <1>3, <1>4, <1>5, <1>6

LEMMA BreakLoopInv == ASSUME Inv, BreakLoop PROVE Inv'
<1>0. /\ pc = "judge" /\ pc' = "ended" /\ noIm' = NoIm
      /\ UNCHANGED <<slotVars, graph, batch, minVars, tmpVars, bestVars, temp,
                     loopCount, next>>
  BY DEF BreakLoop
<1>1. Working /\ NoIm \in 0..NoImLimit
  BY <1>0, Judged
<1>2. InputOK'
  BY <1>0, SlotStays DEF Places
<1>3. GraphsOK' /\ OnceOverloaded'
  BY <1>0 DEF Inv, GraphsOK, Bounded, OnceOverloaded, minVars, tmpVars
<1>4. SolutionsOK'
  BY <1>0, <1>1, Known, SolutionsNext DEF minVars, tmpVars, bestVars
<1>5. LoopsOK'
  BY <1>0, <1>1 DEF Inv, LoopsOK
<1>6. Books' /\ RoutesOK'
  BY <1>0 DEF Books, JustChecked, RoutesOK
<1> QED
  BY <1>2, <1>3, <1>4, <1>5, <1>6 DEF Inv

\* What both ends of a round have in common.
LEMMA Cooled ==
  ASSUME Inv, pc = "judge", NoIm < NoImLimit, Cool
  PROVE  /\ InputOK' /\ LoopsOK' /\ RoutesOK' /\ pc' \in {"loop", "ended"}
         /\ UNCHANGED <<graph, batch, tmpVars, loopCount>>
<1>0. /\ noIm' = NoIm /\ temp' = temp - 1
      /\ pc' = IF temp = 1 THEN "ended" ELSE "loop"
      /\ UNCHANGED <<slotVars, graph, batch, tmpVars, loopCount, next>>
  BY DEF Cool
<1>1. InputOK'
  BY <1>0, SlotStays DEF Places
<1>2. LoopsOK'
  <2>1. NoIm \in 0..NoImLimit /\ temp \in 1..Rounds /\ Rounds \in Nat
        /\ NoImLimit \in Nat
    BY Judged
  <2>2. next' \in Nat \ {0}
    BY <1>0 DEF Inv, LoopsOK
  <2> DEFINE n == NoIm
  <2> HIDE DEF n
  <2>3. n \in 0..NoImLimit /\ n # NoImLimit /\ noIm' = n
    BY <1>0, <2>1 DEF n
  <2>4. temp' \in 0..Rounds /\ (pc' \in {"loop", "judge"} => temp' # 0)
    BY <1>0, <2>1
  <2> QED
    BY <2>2, <2>3, <2>4 DEF LoopsOK
<1> QED
  BY <1>0, <1>1, <1>2 DEF RoutesOK

LEMMA AcceptInv == ASSUME Inv, Accept PROVE Inv'
<1>0. /\ pc = "judge" /\ NoIm < NoImLimit /\ Cool
      /\ sol' = tmpSol /\ minGraph' = tmpGraph /\ minOver' = over
      /\ fmin' = NewDelay
      /\ \/ Less(fmin', fbest) /\ best' = sol' /\ fbest' = fmin'
         \/ ~Less(fmin', fbest) /\ best' = best /\ fbest' = fbest
  BY DEF Accept, bestVars
<1>1. Working /\ NewDelay \in Delay /\ TmpBooks
  BY <1>0, Judged
<1>2. /\ InputOK' /\ LoopsOK' /\ RoutesOK' /\ pc' \in {"loop", "ended"}
      /\ UNCHANGED <<graph, batch, tmpVars, loopCount>>
  BY <1>0, Cooled
<1>3. GraphsOK' /\ OnceOverloaded'
  BY <1>0, <1>2 DEF Inv, GraphsOK, Bounded, OnceOverloaded, tmpVars
<1>4. SolutionsOK'
  <2>1. Solution(sol') /\ Solution(tmpSol') /\ Solution(best')
    BY <1>0, <1>1, <1>2, Known DEF tmpVars
  <2>2. fmin' \in Delay /\ fbest' \in Delay
    BY <1>0, <1>1, Known
  <2>3. minOver' \in Seq(Ids) /\ over' \in Seq(Ids) /\ loopCount' \in 0..Len(batch)
    BY <1>0, <1>1, <1>2, Known DEF tmpVars
  <2> QED
    BY <1>2, <2>1, <2>2, <2>3, SolutionsNext
<1>5. MinBooks' /\ MinDelay'
  <2>1. \A e : Taken(sol, minOver, e)' = Taken(sol', minOver', e)
    BY <1>2, SameBatch
  <2>2. AverageDelay(sol, minOver)' = AverageDelay(sol', minOver')
    BY <1>2, SameBatch
  <2>3. MinBooks'
    BY <1>0, <1>1, <1>2, <2>1 DEF MinBooks, TmpBooks
  <2>4. fmin' = AverageDelay(sol, minOver)'
    BY <1>0, <2>2 DEF NewDelay
  <2>5. ~Less(fmin', fbest')
    <3>1. \A d \in Delay : ~Less(d, d)
      BY DEF Less, Delay
    <3> QED
      BY <1>0, <1>1, <3>1
  <2>6. ~Less(fmin, fbest)'
    BY <2>5 DEF Less
  <2> QED
    BY <2>3, <2>4, <2>6 DEF MinDelay
<1>6. Books'
  BY <1>2, <1>5 DEF Books, JustChecked
<1> QED
  BY <1>2, <1>3, <1>4, <1>6 DEF Inv

LEMMA RejectInv == ASSUME Inv, Reject PROVE Inv'
<1>0. pc = "judge" /\ NoIm < NoImLimit /\ Cool /\ UNCHANGED <<minVars, bestVars>>
  BY DEF Reject
<1>1. Working /\ MinBooks /\ MinDelay
  BY <1>0, Judged
<1>2. /\ InputOK' /\ LoopsOK' /\ RoutesOK' /\ pc' \in {"loop", "ended"}
      /\ UNCHANGED <<graph, batch, tmpVars, loopCount>>
  BY <1>0, Cooled
<1>3. GraphsOK' /\ OnceOverloaded'
  BY <1>0, <1>2 DEF Inv, GraphsOK, Bounded, OnceOverloaded, minVars, tmpVars
<1>4. SolutionsOK'
  BY <1>0, <1>1, <1>2, Known, SolutionsNext DEF minVars, tmpVars, bestVars
<1>5. MinBooks' /\ MinDelay'
  BY <1>0, <1>1, <1>2, MinStays
<1>6. Books'
  BY <1>2, <1>5 DEF Books, JustChecked
<1> QED
  BY <1>2, <1>3, <1>4, <1>6 DEF Inv

LEMMA RollBackInv == ASSUME Inv, RollBack PROVE Inv'
<1>0. /\ pc = "ended" /\ pc' = "overloaded" /\ next' = 1
      /\ UNCHANGED <<slotVars, graph, batch, minGraph, minOver, tmpSol, bestVars,
                     loopVars>>
      /\ \/ sol' = best /\ fmin' = fbest
         \/ sol' = sol /\ fmin' = fmin
  BY DEF RollBack
<1>1. Working
  BY <1>0 DEF Working
<1>2. PICK rs \in SUBSET Ids : /\ Checked(sol', rs)
                               /\ tmpGraph' = Left(sol', rs)
                               /\ over' = Overloaded(rs)
  BY DEF RollBack
<1>3. Solution(sol') /\ fmin' \in Delay
  BY <1>0, <1>1, Known
<1>4. Bounded(tmpGraph')
  BY <1>1, <1>2, <1>3, Known, LeftBounded
<1>5. over' \in Seq(Ids) /\ IsInjective(over')
  BY <1>1, <1>2, Known, OverloadedIs
<1>6. InputOK'
  BY <1>0, SlotStays DEF Places
<1>7. GraphsOK'
  BY <1>0, <1>1, <1>4, Known DEF GraphsOK, Bounded
<1>8. SolutionsOK'
  BY <1>0, <1>1, <1>3, <1>5, Known, SolutionsNext DEF bestVars, loopVars
<1>9. OnceOverloaded'
  BY <1>0, <1>1, <1>5, Known DEF OnceOverloaded
<1>10. LoopsOK'
  BY <1>0 DEF Inv, LoopsOK, loopVars
<1>11. Books' /\ RoutesOK'
  BY <1>0 DEF Books, JustChecked, RoutesOK
<1> QED
  BY <1>6, <1>7, <1>8, <1>9, <1>10, <1>11 DEF Inv

LEMMA MoveOverloadedInv == ASSUME Inv, MoveOverloaded PROVE Inv'
<1>0. /\ pc = "overloaded" /\ next <= Len(over) /\ next' = next + 1
      /\ pc' \in {"overloaded", "undefined"}
      /\ UNCHANGED <<slotVars, graph, batch, minVars, bestVars, loopVars>>
  BY DEF MoveOverloaded
<1>1. Working
  BY <1>0 DEF Working
<1> DEFINE r == over[next]
<1>2. r \in Ids /\ Contains(over, r)
  <2>1. over \in Seq(Ids) /\ next \in 1..Len(over)
    BY <1>0, <1>1, Known DEF Inv, LoopsOK
  <2> QED
    BY <2>1 DEF Contains
<1>3. \/ UNCHANGED tmpVars
      \/ /\ CanMove(tmpGraph, tmpSol, r)
         /\ tmpSol' = [tmpSol EXCEPT ![r] = Along(tmpGraph, r, tmpSol[r])]
         /\ tmpGraph' = Exchanged(tmpGraph, r, tmpSol[r], tmpSol'[r], over)
         /\ over' = Kept(over, Ids \ {r})
  BY DEF MoveOverloaded
<1> HIDE DEF r
<1>4. Bounded(tmpGraph') /\ Solution(tmpSol') /\ over' \in Seq(Ids) /\ IsInjective(over')
  <2>1. CASE UNCHANGED tmpVars
    BY <1>1, <2>1, Known DEF tmpVars
  <2>2. CASE /\ CanMove(tmpGraph, tmpSol, r)
             /\ tmpSol' = [tmpSol EXCEPT ![r] = Along(tmpGraph, r, tmpSol[r])]
             /\ tmpGraph' = Exchanged(tmpGraph, r, tmpSol[r], tmpSol'[r], over)
             /\ over' = Kept(over, Ids \ {r})
    <3> DEFINE p == Along(tmpGraph, r, tmpSol[r])
               g == Exchanged(tmpGraph, r, tmpSol[r], p, over)
    <3>1. Placement(r, p)
      BY <1>1, <1>2, Known, AlongType DEF Solution
    <3>2. Fits(tmpGraph, r, p)
      BY <2>2 DEF CanMove
    <3> HIDE DEF p
    <3>3. Moved(tmpSol, r, p, tmpSol')
      BY <1>1, <1>2, <2>2, <3>1, Known, MoveIs DEF p
    <3>4. Solution(tmpSol') /\ tmpSol'[r] = p
      BY <3>3 DEF Moved
    <3>5. over' \in Seq(Ids) /\ IsInjective(over')
      BY <1>1, <2>2, Known, KeptHas
    <3>6. DOMAIN g = Links /\ \A e \in Links : g[e] = tmpGraph[e] - Load(r, p, e) + 0
      BY <1>2 DEF Exchanged
    <3>7. ASSUME NEW e \in Links
          PROVE  g[e] \in 0..Bandwidth[e]
      <4>1. Load(r, p, e) \in Nat /\ Load(r, p, e) <= tmpGraph[e]
        BY <1>1, <1>2, <3>1, <3>2, Known, LoadType DEF Fits
      <4>2. tmpGraph[e] \in 0..Bandwidth[e] /\ Bandwidth[e] \in Nat
        BY <1>1, Known, AnnealingAssumption DEF Bounded
      <4>3. g[e] = tmpGraph[e] - Load(r, p, e) + 0
        BY <3>6
      <4> QED
        BY <4>1, <4>2, <4>3
    <3>8. tmpGraph' = g
      BY <2>2, <3>4
    <3> HIDE DEF g
    <3> QED
      BY <3>4, <3>5, <3>6, <3>7, <3>8 DEF Bounded
  <2> QED
    BY <1>3, <2>1, <2>2
<1>5. InputOK'
  BY <1>0, SlotStays DEF Places
<1>6. GraphsOK'
  BY <1>0, <1>1, <1>4, Known DEF GraphsOK, Bounded, minVars
<1>7. SolutionsOK'
  BY <1>0, <1>1, <1>4, Known, SolutionsNext DEF minVars, bestVars, loopVars
<1>8. OnceOverloaded'
  BY <1>0, <1>1, <1>4, Known DEF OnceOverloaded, minVars
<1>9. LoopsOK'
  BY <1>0 DEF Inv, LoopsOK, loopVars
<1>10. Books' /\ RoutesOK'
  BY <1>0 DEF Books, JustChecked, RoutesOK
<1> QED
  BY <1>5, <1>6, <1>7, <1>8, <1>9, <1>10 DEF Inv

LEMMA CheckAgainInv == ASSUME Inv, CheckAgain PROVE Inv'
<1>0. /\ pc = "overloaded" /\ pc' = "update" /\ next' = 1
      /\ report' = Reported(sol, over')
      /\ UNCHANGED <<all, time, graph, batch, minVars, tmpSol, bestVars, loopVars>>
  BY DEF CheckAgain
<1>1. Working
  BY <1>0 DEF Working
<1>2. PICK rs \in SUBSET Ids : /\ Checked(sol, rs)
                               /\ tmpGraph' = Left(sol, rs)
                               /\ over' = Overloaded(rs)
  BY DEF CheckAgain
<1>3. BatchOK /\ Graph(graph) /\ Bounded(graph) /\ Solution(sol)
  BY <1>1, Known
<1>4. Bounded(tmpGraph')
  BY <1>2, <1>3, LeftBounded
<1>5. over' \in Seq(Ids) /\ IsInjective(over') /\ NotIn(over') = rs
  BY <1>2, <1>3, OverloadedIs
<1>6. InputOK'
  BY <1>0 DEF Inv, InputOK, BatchOK, Places
<1>7. GraphsOK'
  BY <1>0, <1>1, <1>4, Known DEF GraphsOK, Bounded, minVars
<1>8. SolutionsOK'
  BY <1>0, <1>1, <1>5, Known, SolutionsNext DEF minVars, bestVars, loopVars
<1>9. OnceOverloaded'
  BY <1>0, <1>1, <1>5, Known DEF OnceOverloaded, minVars
<1>10. LoopsOK'
  BY <1>0 DEF Inv, LoopsOK, loopVars
<1> DEFINE o == Overloaded(rs)
<1>11. ResultOK'
  <2>1. ASSUME NEW e \in Links
        PROVE  (tmpGraph[e] + Crossed(e) = graph[e])'
    <3>1. Left(sol, rs)[e] + Taken(sol, o, e) = graph[e]
      BY <1>2, <1>3, CheckedBooks
    <3>2. CrossedBy(Reported(sol, o), e) = Taken(sol, o, e)
      BY <1>3, ReportTakes
    <3>3. Crossed(e)' = CrossedBy(report', e)
      BY <1>0, SameBatch
    <3> HIDE DEF o
    <3> QED
      BY <1>0, <1>2, <3>1, <3>2, <3>3 DEF o
  <2>2. ASSUME NEW r \in Ids, ~report'[r].succ
        PROVE  ~Fits(tmpGraph, r, sol[r])'
    <3>1. Contains(over', r)
      BY <1>0, <2>2 DEF Reported, Succeeds
    <3>2. r \in Ids \ rs
      BY <1>5, <3>1 DEF NotIn
    <3>3. ~Fits(Left(sol, rs), r, sol[r])
      BY <1>2, <1>3, <3>2, CheckedLeft
    <3>4. Fits(tmpGraph, r, sol[r])' = Fits(tmpGraph', r, sol'[r])
      BY <1>0, SameBatch
    <3>5. sol' = sol
      BY <1>0 DEF minVars
    <3> QED
      BY <1>2, <3>3, <3>4, <3>5
  <2>3. Ids' = Ids
    BY <1>0, SameBatch
  <2> QED
    BY <2>1, <2>2, <2>3 DEF ResultOK
<1>12. Books'
  BY <1>0, <1>11 DEF Books
<1>13. RoutesOK'
  <2>1. ASSUME NEW r \in Ids, NEW f \in FlowIds(r)
        PROVE  report'[r].routes[f] \in Seq(Links)
    <3>1. sol[r][f] \in Seq(Nodes)
      BY <1>3 DEF Solution, Placement
    <3>2. Route(r, sol[r][f]) \in Seq(Links)
      BY <1>3, <3>1, RouteIs
    <3>3. report'[r].routes[f] = Route(r, sol[r][f])
      BY <1>0 DEF Reported
    <3> QED
      BY <3>2, <3>3
  <2>2. Ids' = Ids /\ \A r : FlowIds(r)' = FlowIds(r)
    BY <1>0, SameBatch
  <2> QED
    BY <2>1, <2>2 DEF RoutesOK
<1> QED
  BY <1>6, <1>7, <1>8, <1>9, <1>10, <1>12, <1>13 DEF Inv

\* A link is taken last where minus_path_bw comes to it last.
LEMMA LastPassage ==
  ASSUME NEW S, NEW route \in Seq(S), NEW i \in 0..Len(route), NEW e
  PROVE  /\ Times(SubSeq(route, 1, i), e) \in Nat
         /\ \/ Times(SubSeq(route, 1, i), e) = 0
            \/ \E j \in 1..i : /\ route[j] = e
                               /\ Times(SubSeq(route, 1, j), e)
                                    = Times(SubSeq(route, 1, i), e)
<1> DEFINE P(k) == {x \in 1..k : route[x] = e}
<1>1. Len(route) \in Nat /\ i \in Nat
  OBVIOUS
<1>2. ASSUME NEW k \in 0..Len(route)
      PROVE  Times(SubSeq(route, 1, k), e) = Cardinality(P(k))
  <2> DEFINE s == SubSeq(route, 1, k)
  <2>1. DOMAIN s = 1..k /\ \A x \in 1..k : s[x] = route[x]
    OBVIOUS
  <2> HIDE DEF s
  <2>2. {x \in DOMAIN s : s[x] = e} = P(k)
    BY <2>1
  <2> QED
    BY <2>2 DEF Times, s
<1>3. Cardinality(P(i)) \in Nat
  <2>1. P(i) \in SUBSET (1..i)
    OBVIOUS
  <2> HIDE DEF P
  <2>2. Cardinality(P(i)) \in 0..i
    BY <1>1, <2>1, Chosen
  <2> QED
    BY <1>1, <2>2
<1>4. CASE P(i) = {}
  <2>1. Cardinality(P(i)) = 0
    BY <1>4, FS_EmptySet
  <2> QED
    BY <1>2, <1>3, <2>1
<1>5. CASE P(i) # {}
  <2> DEFINE D == {d \in Nat : i - d \in P(i)}
  <2>1. D \in SUBSET Nat /\ D # {}
    <3>1. PICK x \in P(i) : TRUE
      BY <1>5
    <3>2. x \in 1..i
      OBVIOUS
    <3>3. i - x \in Nat /\ i - (i - x) = x
      BY <1>1, <3>2
    <3>4. i - x \in D
      BY <3>1, <3>3
    <3> QED
      BY <3>4
  <2> HIDE DEF D
  <2>2. PICK d \in D : \A m \in D : d <= m
    BY <2>1, Least
  <2> DEFINE j == i - d
  <2>3. d \in Nat /\ j \in P(i)
    BY <2>2 DEF D
  <2>4. ASSUME NEW x \in P(i)
        PROVE  x <= j
    <3>1. x \in 1..i
      OBVIOUS
    <3>2. i - x \in Nat /\ i - (i - x) = x
      BY <1>1, <3>1
    <3>3. i - x \in D
      BY <3>2 DEF D
    <3>4. d <= i - x
      BY <2>2, <3>3
    <3> QED
      BY <1>1, <2>3, <3>1, <3>4
  <2> HIDE DEF j
  <2>5. j \in 1..i /\ route[j] = e /\ j \in 0..Len(route)
    BY <2>3
  <2>6. P(j) = P(i)
    BY <1>1, <2>4, <2>5
  <2>7. Times(SubSeq(route, 1, j), e) = Times(SubSeq(route, 1, i), e)
    BY <1>2, <2>5, <2>6
  <2> QED
    BY <1>2, <1>3, <2>5, <2>7
<1> QED
  BY <1>4, <1>5

\* minus_path_bw takes only what is there.
LEMMA StopsInTime ==
  ASSUME Graph(graph), NEW route \in Seq(Links), NEW rate \in Nat,
         NEW i \in 0..Len(route), StopsAfter(graph, route, rate, i), NEW e \in Links
  PROVE  /\ graph[e] - rate * Times(SubSeq(route, 1, i), e) \in Nat
         /\ graph[e] - rate * Times(SubSeq(route, 1, i), e) <= graph[e]
<1> DEFINE n(j) == Times(SubSeq(route, 1, j), e)
<1>1. \A j \in 1..i : graph[route[j]] >= rate * Times(SubSeq(route, 1, j), route[j])
  BY DEF StopsAfter
<1>2. n(i) \in Nat /\ (n(i) = 0 \/ \E j \in 1..i : route[j] = e /\ n(j) = n(i))
  BY LastPassage
<1>3. graph[e] \in Nat
  BY DEF Graph
<1> DEFINE m == n(i)
<1>4. m = 0 \/ graph[e] >= rate * m
  BY <1>1, <1>2
<1>5. m \in Nat
  BY <1>2
<1> HIDE DEF n, m
<1> DEFINE b == rate * m
<1>6. b \in Nat /\ (m = 0 => b = 0)
  BY <1>5
<1>7. b = 0 \/ graph[e] >= b
  BY <1>4, <1>6
<1> HIDE DEF b
<1>8. graph[e] - b \in Nat /\ graph[e] - b <= graph[e]
  BY <1>3, <1>6, <1>7
<1> QED
  BY <1>8 DEF b, m, n

LEMMA AllFlowsType ==
  ASSUME BatchOK
  PROVE  AllFlows \in Seq({x \in Ids \X Nat : x[2] \in FlowIds(x[1])})
<1> DEFINE X == {x \in Ids \X Nat : x[2] \in FlowIds(x[1])}
           q == [r \in Ids |-> [f \in FlowIds(r) |-> <<r, f>>]]
<1>1. ASSUME NEW r \in Ids
      PROVE  [f \in FlowIds(r) |-> <<r, f>>] \in Seq(X)
  <2> DEFINE n == Len(batch[r].flows)
  <2>1. n \in Nat /\ FlowIds(r) = 1..n
    BY Batch DEF FlowIds
  <2> HIDE DEF n
  <2>2. \A f \in 1..n : <<r, f>> \in X
    BY <2>1
  <2> HIDE DEF X
  <2>3. [f \in 1..n |-> <<r, f>>] \in Seq(X)
    BY <2>1, <2>2
  <2> QED
    BY <2>1, <2>3
<1> HIDE DEF X
<1>2. q \in Seq(Seq(X))
  <2>1. Len(batch) \in Nat /\ Ids = 1..Len(batch)
    BY Batch
  <2> QED
    BY <1>1, <2>1
<1> HIDE DEF q
<1>3. FlattenSeq(q) \in Seq(X)
  BY <1>2, Flattened
<1> QED
  BY <1>3 DEF AllFlows, q, X

LEMMA UpdateGraphInv == ASSUME Inv, UpdateGraph PROVE Inv'
<1>0. /\ pc = "update" /\ next <= Len(AllFlows) /\ next' = next + 1
      /\ UNCHANGED <<slotVars, pc, batch, minVars, tmpVars, bestVars, loopVars>>
  BY DEF UpdateGraph
<1>1. Working /\ next \in Nat \ {0}
  BY <1>0 DEF Working, Inv, LoopsOK
<1> DEFINE r == AllFlows[next][1]
           f == AllFlows[next][2]
           route == report[r].routes[f]
<1>2. r \in Ids /\ f \in FlowIds(r)
  <2>1. AllFlows[next] \in {x \in Ids \X Nat : x[2] \in FlowIds(x[1])}
    <3> DEFINE A == AllFlows
               X == {x \in Ids \X Nat : x[2] \in FlowIds(x[1])}
    <3>1. A \in Seq(X) /\ next \in 1..Len(A)
      BY <1>0, <1>1, Known, AllFlowsType
    <3> HIDE DEF A, X
    <3>2. A[next] \in X
      BY <3>1
    <3> QED
      BY <3>2 DEF A, X
  <2> QED
    BY <2>1
<1>3. PICK i \in 0..Len(route) :
        /\ StopsAfter(graph, route, Rate(r, f), i)
        /\ graph' = [e \in Links |->
             graph[e] - Rate(r, f) * Times(SubSeq(route, 1, i), e)]
  BY DEF UpdateGraph
<1>4. route \in Seq(Links) /\ Rate(r, f) \in Nat
  BY <1>0, <1>1, <1>2, Known, Batch DEF Inv, RoutesOK
<1> HIDE DEF r, f, route
<1>5. Bounded(graph')
  <2>1. ASSUME NEW e \in Links
        PROVE  graph'[e] \in Nat /\ graph'[e] <= graph[e]
    <3>1. graph'[e] = graph[e] - Rate(r, f) * Times(SubSeq(route, 1, i), e)
      BY <1>3
    <3> DEFINE rate == Rate(r, f)
    <3>2. rate \in Nat /\ StopsAfter(graph, route, rate, i)
      BY <1>3, <1>4
    <3> HIDE DEF rate
    <3>3. /\ graph[e] - rate * Times(SubSeq(route, 1, i), e) \in Nat
          /\ graph[e] - rate * Times(SubSeq(route, 1, i), e) <= graph[e]
      BY <1>1, <1>3, <1>4, <3>2, Known, StopsInTime
    <3> QED
      BY <3>1, <3>3 DEF rate
  <2>2. DOMAIN graph' = Links
    BY <1>3
  <2> QED
    BY <1>1, <2>1, <2>2, Known, BoundedBy
<1>6. InputOK'
  BY <1>0, SlotStays DEF Places
<1>7. GraphsOK'
  BY <1>0, <1>1, <1>5, Known DEF GraphsOK, Bounded, minVars, tmpVars
<1>8. SolutionsOK'
  BY <1>0, <1>1, Known, SolutionsNext DEF minVars, tmpVars, bestVars, loopVars
<1>9. OnceOverloaded'
  BY <1>0, <1>1, Known DEF OnceOverloaded, minVars, tmpVars
<1>10. LoopsOK'
  BY <1>0 DEF Inv, LoopsOK, loopVars
<1>11. Books'
  <2>1. ~ JustChecked'
    BY <1>0, <1>1 DEF JustChecked
  <2> QED
    BY <1>0, <2>1 DEF Books
<1>12. RoutesOK'
  <2>1. Ids' = Ids /\ \A q : FlowIds(q)' = FlowIds(q)
    BY <1>0, SameBatch
  <2>2. report' = report /\ pc' = pc
    BY <1>0 DEF slotVars
  <2> QED
    BY <1>0, <2>1, <2>2 DEF Inv, RoutesOK
<1> QED
  BY <1>6, <1>7, <1>8, <1>9, <1>10, <1>11, <1>12 DEF Inv

LEMMA StutterInv == ASSUME Inv, UNCHANGED vars PROVE Inv'
<1>0. UNCHANGED <<slotVars, pc, graph, batch, minVars, tmpVars, bestVars,
                  loopVars, next>>
  BY DEF vars
<1>1. InputOK' /\ GraphsOK' /\ OnceOverloaded' /\ LoopsOK'
  BY <1>0 DEF Inv, InputOK, BatchOK, GraphsOK, Bounded, OnceOverloaded, LoopsOK,
              slotVars, minVars, tmpVars, loopVars
<1>2. SolutionsOK'
  <2>1. CASE Working
    BY <1>0, <2>1, Known, SolutionsNext DEF minVars, tmpVars, bestVars, loopVars
  <2>2. CASE ~Working
    BY <1>0, <2>2 DEF SolutionsOK, Working
  <2> QED
    BY <2>1, <2>2
<1>3. Books'
  <2>1. MinBooks' = MinBooks /\ MinDelay' = MinDelay
    BY <1>0, MinStays
  <2>2. TmpBooks' = TmpBooks
    <3>1. \A e : Taken(tmpSol, over, e)' = Taken(tmpSol, over, e)
      BY <1>0, SameBatch DEF tmpVars
    <3> QED
      BY <1>0, <3>1 DEF TmpBooks, tmpVars
  <2>3. ResultOK' = ResultOK
    <3>1. \A e : Crossed(e)' = Crossed(e)
      BY <1>0, SameBatch DEF slotVars, Crossed, CrossedBy
    <3>2. \A q : Fits(tmpGraph, q, sol[q])' = Fits(tmpGraph, q, sol[q])
      BY <1>0, SameBatch DEF minVars, tmpVars
    <3>3. Ids' = Ids /\ report' = report
      BY <1>0, SameBatch DEF slotVars
    <3> QED
      BY <1>0, <3>1, <3>2, <3>3 DEF ResultOK, tmpVars
  <2> QED
    BY <1>0, <2>1, <2>2, <2>3 DEF Inv, Books, JustChecked
<1>4. RoutesOK'
  <2>1. Ids' = Ids /\ \A q : FlowIds(q)' = FlowIds(q)
    BY <1>0, SameBatch
  <2> QED
    BY <1>0, <2>1 DEF Inv, RoutesOK, slotVars
<1> QED
  BY <1>1, <1>2, <1>3, <1>4 DEF Inv

LEMMA StepInv == Inv /\ [Next]_vars => Inv'
<1> SUFFICES ASSUME Inv, [Next]_vars PROVE Inv'
  OBVIOUS
<1>1. CASE Check
  BY <1>1, CheckInv
<1>2. CASE CreateInitSolution
  BY <1>2, CreateInitSolutionInv
<1>3. CASE ReturnNan
  BY <1>3, ReturnNanInv
<1>4. CASE MoveRequest
  BY <1>4, MoveRequestInv
<1>5. CASE MoveFails
  BY <1>5, MoveFailsInv
<1>6. CASE BreakLoop
  BY <1>6, BreakLoopInv
<1>7. CASE Accept
  BY <1>7, AcceptInv
<1>8. CASE Reject
  BY <1>8, RejectInv
<1>9. CASE RollBack
  BY <1>9, RollBackInv
<1>10. CASE MoveOverloaded
  BY <1>10, MoveOverloadedInv
<1>11. CASE CheckAgain
  BY <1>11, CheckAgainInv
<1>12. CASE UpdateGraph
  BY <1>12, UpdateGraphInv
<1>13. CASE Finish
  BY <1>13, FinishInv
<1>14. CASE UNCHANGED vars
  BY <1>14, StutterInv
<1> QED
  BY <1>1, <1>2, <1>3, <1>4, <1>5, <1>6, <1>7, <1>8, <1>9, <1>10, <1>11, <1>12,
     <1>13, <1>14 DEF Next

LEMMA InvAlways == Spec => []Inv
<1>1. Init => Inv
  BY InitInv
<1>2. Inv /\ [Next]_vars => Inv'
  BY StepInv
<1> QED
  BY <1>1, <1>2, PTL DEF Spec

-----------------------------------------------------------------------------
(***************************************************************************)
(* main_online never leaves a link with less than nothing or with more     *)
(* than its bandwidth, in any of the three graphs, whatever it checks,     *)
(* moves, takes back or hands out; its vectors of overloaded requests name *)
(* requests, each once; and its counters stay in their bounds              *)
(* (sa_application.cc:1718-1990).                                          *)
(***************************************************************************)
THEOREM WellTyped == Spec => []TypeOK
<1>1. Inv => TypeOK
  BY InvImplies
<1> QED
  BY <1>1, InvAlways, PTL

(***************************************************************************)
(* The records of a solution agree, however many requests there are and    *)
(* whatever paths the graph has: the free bandwidth of the accepted        *)
(* solution and of the moved one is what their requests leave, m_Fmin is   *)
(* the delay of the accepted one, Fbest is no larger, and the routes of    *)
(* the result take what check_solution took, while no failed request would *)
(* still fit beside them (sa_application.cc:1223, 1296, 1836, 1928).       *)
(***************************************************************************)
THEOREM RecordsAgree == Spec => []StatusConsistent
<1>1. Inv => StatusConsistent
  BY InvImplies
<1> QED
  BY <1>1, InvAlways, PTL

-----------------------------------------------------------------------------
(***************************************************************************)
(* How long a slot may take.                                               *)
(***************************************************************************)
\* The parts of main_online a slot goes through, and what is left of one.
Stage ==
  CASE pc = "check" -> 6 [] pc = "create" -> 5 [] pc \in {"loop", "judge"} -> 4
    [] pc = "ended" -> 3 [] pc = "overloaded" -> 2 [] pc = "update" -> 1
    [] OTHER -> 0
Turning == IF pc = "loop" THEN 1 ELSE 0
LoopLeft == 2 * temp + (Len(batch) - loopCount) + Turning
PartLeft ==
  CASE pc \in {"loop", "judge"} -> LoopLeft
    [] pc = "overloaded" -> Len(batch) + 1 - next
    [] pc = "update" -> Len(AllFlows) + 1 - next
    [] OTHER -> 0

\* A step ends the slot or a part of it, or brings its end nearer.
GoesOn ==
  \/ time' = time + 1
  \/ time' = time /\ Stage' < Stage
  \/ /\ time' = time /\ Stage' = Stage
     /\ PartLeft \in Nat /\ PartLeft' \in Nat /\ PartLeft' < PartLeft

\* No vector of overloaded requests is longer than that of the requests.
LEMMA OverloadedFew ==
  ASSUME BatchOK, NEW o \in Seq(Ids), IsInjective(o)
  PROVE  Len(o) <= Len(batch)
<1>1. Len(batch) \in Nat /\ Ids = 1..Len(batch) /\ IsFiniteSet(Ids)
  BY Batch
<1>2. Len(o) \in Nat /\ DOMAIN o = 1..Len(o) /\ o \in [1..Len(o) -> Ids]
  OBVIOUS
<1>3. o \in Injection(1..Len(o), Ids)
  BY <1>2 DEF IsInjective, Injection
<1>4. Cardinality(1..Len(o)) <= Cardinality(Ids)
  BY <1>1, <1>3, FS_Injection
<1>5. 1 \in Int /\ Len(o) \in Int /\ Len(batch) \in Int
  BY <1>1, <1>2
<1>6. Cardinality(1..Len(o)) = Len(o)
  <2>1. Cardinality(1..Len(o)) = IF 1 > Len(o) THEN 0 ELSE Len(o) - 1 + 1
    BY <1>5, FS_Interval
  <2> QED
    BY <1>2, <2>1
<1>7. Cardinality(Ids) = Len(batch)
  <2>1. Cardinality(1..Len(batch)) = IF 1 > Len(batch) THEN 0 ELSE Len(batch) - 1 + 1
    BY <1>5, FS_Interval
  <2> QED
    BY <1>1, <2>1
<1> QED
  BY <1>4, <1>6, <1>7

LEMMA CountedOn ==
  ASSUME Len(batch) \in Nat, loopCount \in 0..Len(batch)
  PROVE  LET m == Min({loopCount + 1, Len(batch)})
         IN  /\ m \in loopCount..Len(batch)
             /\ m = loopCount => loopCount = Len(batch)
<1> DEFINE S == {loopCount + 1, Len(batch)}
           m == Min(S)
<1>1. \E x \in S : \A y \in S : x <= y
  OBVIOUS
<1>2. Min(S) \in S /\ \A y \in S : Min(S) <= y
  BY <1>1 DEF Min
<1>3. m <= Len(batch) /\ (m = loopCount + 1 \/ m = Len(batch))
  BY <1>2
<1> HIDE DEF m
<1>4. m \in loopCount..Len(batch) /\ (m = loopCount => loopCount = Len(batch))
  BY <1>3
<1> QED
  BY <1>4 DEF m

LEMMA NextGoesOn == Inv /\ [Next]_vars => [GoesOn]_vars
<1> SUFFICES ASSUME Inv, Next, ~ UNCHANGED vars
             PROVE  GoesOn
  OBVIOUS
<1>1. time \in Nat
  BY AnnealingAssumption DEF Inv, InputOK
<1>2. CASE Check
  <2>1. \/ time' = time + 1
        \/ time' = time /\ pc = "check" /\ pc' = "create"
    BY <1>2 DEF Check
  <2> QED
    BY <2>1 DEF GoesOn, Stage
<1>3. CASE ReturnNan \/ Finish
  BY <1>3 DEF ReturnNan, Finish, GoesOn
<1>4. ASSUME UNCHANGED slotVars,
             \/ pc = "create" /\ pc' = "loop"
             \/ pc = "judge" /\ pc' = "ended"
             \/ pc = "ended" /\ pc' = "overloaded"
             \/ pc = "overloaded" /\ pc' \in {"update", "undefined"}
      PROVE  GoesOn
  BY <1>4 DEF slotVars, GoesOn, Stage
<1>5. CASE CreateInitSolution
  BY <1>4, <1>5 DEF CreateInitSolution
<1>6. ASSUME pc \in {"loop", "judge"}
      PROVE  /\ temp \in Nat \ {0} /\ Len(batch) \in Nat
             /\ loopCount \in 0..Len(batch)
  <2>1. Working
    BY <1>6 DEF Working
  <2>2. temp \in Nat \ {0}
    BY <1>6, AnnealingAssumption DEF Inv, LoopsOK
  <2> QED
    BY <2>1, <2>2, Known
<1>7. ASSUME UNCHANGED slotVars, pc \in {"loop", "judge"}, pc' \in {"loop", "judge"},
             LoopLeft \in Nat, LoopLeft' \in Nat, LoopLeft' < LoopLeft
      PROVE  GoesOn
  <2>1. Stage = 4 /\ Stage' = 4 /\ time' = time
    BY <1>7 DEF Stage, slotVars
  <2>2. PartLeft = LoopLeft /\ PartLeft' = LoopLeft'
    BY <1>7 DEF PartLeft
  <2> QED
    BY <1>7, <2>1, <2>2 DEF GoesOn
<1>8. CASE MoveRequest \/ MoveFails
  <2> DEFINE m == Min({loopCount + 1, Len(batch)})
  <2>1. /\ pc = "loop" /\ loopCount' = m /\ batch' = batch /\ temp' = temp
        /\ UNCHANGED slotVars
        /\ \/ pc' = "judge"
           \/ pc' = pc /\ MoveFails
    BY <1>8 DEF MoveRequest, MoveFails
  <2>2. m \in loopCount..Len(batch) /\ (m = loopCount => loopCount = Len(batch))
    BY <1>6, <2>1, CountedOn
  <2> HIDE DEF m
  <2>3. pc' = pc => m # loopCount
    <3> SUFFICES ASSUME pc' = pc, m = loopCount
                 PROVE  FALSE
      OBVIOUS
    <3>1. UNCHANGED <<slotVars, pc, graph, batch, minVars, tmpVars, bestVars, temp,
                      noIm, next>>
      BY <2>1 DEF MoveFails
    <3>2. loopCount' = loopCount
      BY <2>1
    <3> QED
      BY <3>1, <3>2 DEF vars, loopVars
  <2>4. /\ LoopLeft = 2 * temp + (Len(batch) - loopCount) + 1
        /\ LoopLeft' = 2 * temp + (Len(batch) - m) + IF pc' = pc THEN 1 ELSE 0
    BY <2>1 DEF LoopLeft, Turning
  <2>5. temp \in Nat /\ Len(batch) \in Nat /\ loopCount \in 0..Len(batch)
    BY <1>6, <2>1
  <2>6. LoopLeft \in Nat /\ LoopLeft' \in Nat /\ LoopLeft' < LoopLeft
    BY <2>2, <2>3, <2>4, <2>5
  <2> QED
    BY <1>7, <2>1, <2>6
<1>9. CASE BreakLoop
  BY <1>4, <1>9 DEF BreakLoop
<1>10. CASE Accept \/ Reject
  <2>1. /\ pc = "judge" /\ temp' = temp - 1 /\ UNCHANGED slotVars
        /\ batch' = batch /\ loopCount' = loopCount
        /\ pc' \in {"ended", "loop"}
    BY <1>10 DEF Accept, Reject, Cool
  <2>2. CASE pc' = "ended"
    BY <1>4, <2>1, <2>2
  <2>3. CASE pc' = "loop"
    <3>1. temp \in Nat \ {0} /\ Len(batch) \in Nat /\ loopCount \in 0..Len(batch)
      BY <1>6, <2>1
    <3>2. /\ LoopLeft = 2 * temp + (Len(batch) - loopCount) + 0
          /\ LoopLeft' = 2 * (temp - 1) + (Len(batch) - loopCount) + 1
      BY <2>1, <2>3 DEF LoopLeft, Turning
    <3>3. LoopLeft \in Nat /\ LoopLeft' \in Nat /\ LoopLeft' < LoopLeft
      BY <3>1, <3>2
    <3> QED
      BY <1>7, <2>1, <2>3, <3>3
  <2> QED
    BY <2>1, <2>2, <2>3
<1>11. CASE RollBack
  BY <1>4, <1>11 DEF RollBack
<1>12. CASE MoveOverloaded
  <2>1. /\ pc = "overloaded" /\ next <= Len(over) /\ next' = next + 1
        /\ pc' \in {"overloaded", "undefined"}
        /\ UNCHANGED <<slotVars, batch>>
    BY <1>12 DEF MoveOverloaded
  <2>2. CASE pc' = "undefined"
    BY <1>4, <2>1, <2>2
  <2>3. CASE pc' = "overloaded"
    <3>1. Working
      BY <2>1 DEF Working
    <3>2. /\ BatchOK /\ over \in Seq(Ids) /\ IsInjective(over)
          /\ Len(batch) \in Nat /\ Len(over) \in Nat
      BY <3>1, Known
    <3>3. Len(over) <= Len(batch)
      BY <3>2, OverloadedFew
    <3>4. next \in Nat
      BY DEF Inv, LoopsOK
    <3>5. PartLeft = Len(batch) + 1 - next /\ PartLeft' = Len(batch) + 1 - (next + 1)
      BY <2>1, <2>3 DEF PartLeft
    <3>6. Stage' = Stage /\ time' = time
      BY <2>1, <2>3 DEF Stage, slotVars
    <3> QED
      BY <2>1, <3>2, <3>3, <3>4, <3>5, <3>6 DEF GoesOn
  <2> QED
    BY <2>1, <2>2, <2>3
<1>13. CASE CheckAgain
  BY <1>13 DEF CheckAgain, GoesOn, Stage
<1>14. CASE UpdateGraph
  <2>1. /\ pc = "update" /\ pc' = "update" /\ next <= Len(AllFlows)
        /\ next' = next + 1 /\ UNCHANGED <<slotVars, batch>>
    BY <1>14 DEF UpdateGraph
  <2>2. AllFlows' = AllFlows
    BY <2>1 DEF AllFlows, Ids, FlowIds
  <2>3. Working
    BY <2>1 DEF Working
  <2>4. Len(AllFlows) \in Nat
    BY <2>3, Known, AllFlowsType
  <2>5. next \in Nat
    BY DEF Inv, LoopsOK
  <2> DEFINE n == Len(AllFlows)
  <2>6. PartLeft = n + 1 - next /\ PartLeft' = n + 1 - (next + 1)
    BY <2>1, <2>2 DEF PartLeft
  <2>7. n \in Nat /\ next <= n
    BY <2>1, <2>4
  <2> HIDE DEF n
  <2>8. Stage' = Stage /\ time' = time
    BY <2>1 DEF Stage, slotVars
  <2> QED
    BY <2>5, <2>6, <2>7, <2>8 DEF GoesOn
<1> QED
  BY <1>2, <1>3, <1>5, <1>8, <1>9, <1>10, <1>11, <1>12, <1>13, <1>14 DEF Next

(***************************************************************************)
(* No slot goes on for ever, however the moves are drawn and accepted:     *)
(* each step of main_online ends the slot, leaves one of its parts, or     *)
(* brings the end of the part nearer, and there is no way back to an       *)
(* earlier part.  What can go on for ever is only a move that fails and    *)
(* changes nothing (sa_application.cc:1796).                               *)
(***************************************************************************)
THEOREM SlotsEnd == Spec => [][GoesOn]_vars
<1>1. Inv /\ [Next]_vars => [GoesOn]_vars
  BY NextGoesOn
<1> QED
  BY <1>1, InvAlways, PTL DEF Spec

=============================================================================
