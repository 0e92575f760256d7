--------------------------- MODULE DrawLoop_proofs ---------------------------
(***************************************************************************)
(* Proofs about the loop of getEvictedContainer: it returns what Drawable  *)
(* allows, all of it and no more, and it always returns a type.            *)
(***************************************************************************)
EXTENDS DrawLoop, TLAPS

-----------------------------------------------------------------------------
(***************************************************************************)
(* Arithmetic.                                                             *)
(***************************************************************************)
\* The quotient rounded up is the least number that is not too small.
LEMMA Ceiling ==
  ASSUME NEW a \in Nat, NEW n \in Nat \ {0}, NEW v \in Nat, a <= v * n
  PROVE  /\ (a + n - 1) \div n \in Nat
         /\ a <= ((a + n - 1) \div n) * n
         /\ ((a + n - 1) \div n) * n <= v * n
<1> DEFINE b == a + n - 1
           q == b \div n
           m == b % n
<1>1. b \in Nat
  OBVIOUS
<1> HIDE DEF b
<1>2. q \in Nat /\ m \in 0..(n - 1) /\ b = q * n + m
  BY <1>1
<1>3. q * n \in Nat /\ v * n \in Nat
  BY <1>2
<1>4. a <= q * n
  BY <1>2, <1>3 DEF b
<1>5. q <= v
  <2> SUFFICES ASSUME q >= v + 1
               PROVE  FALSE
    BY <1>2
  <2> DEFINE d == q - (v + 1)
  <2>0. d \in Nat /\ q = v + 1 + d
    BY <1>2
  <2> HIDE DEF q, d
  <2>1. q * n >= (v + 1) * n
    <3>1. d * n \in Nat
      BY <2>0
    <3>2. q * n = (v + 1) * n + d * n
      BY <2>0
    <3> QED
      BY <2>0, <3>1, <3>2
  <2>2. (v + 1) * n = v * n + n
    OBVIOUS
  <2> QED
    BY <1>2, <1>3, <2>1, <2>2 DEF b
<1>6. q * n <= v * n
  BY <1>2, <1>5
<1> QED
  BY <1>2, <1>4, <1>6 DEF b

\* A divisor of a positive product does not exceed it.
LEMMA QuotientPositive ==
  ASSUME NEW x \in Nat \ {0}, NEW y \in Nat \ {0}
  PROVE  (x * y) \div x = y
OBVIOUS

\* Every type has a weight.
LEMMA WeightsPositive ==
  ASSUME NEW b \in [FuncTypes -> Nat \ {0}]
  PROVE  Weights(b) \in [FuncTypes -> Nat \ {0}]
<1> DEFINE p == b[1] * b[2] * b[3] * b[4]
<1>1. /\ b[1] \in Nat \ {0} /\ b[2] \in Nat \ {0}
      /\ b[3] \in Nat \ {0} /\ b[4] \in Nat \ {0}
  BY DEF FuncTypes
<1>2. ASSUME NEW t \in FuncTypes
      PROVE  p \div b[t] \in Nat \ {0}
  <2>1. \A x, y \in Nat \ {0} : x * y \in Nat \ {0}
    OBVIOUS
  <2>2. \E y \in Nat \ {0} : p = b[t] * y
    <3>1. CASE t = 1
      <4>1. b[2] * b[3] * b[4] \in Nat \ {0}
        BY <1>1, <2>1
      <4>2. p = b[1] * (b[2] * b[3] * b[4])
        BY <1>1
      <4> QED
        BY <3>1, <4>1, <4>2
    <3>2. CASE t = 2
      <4>1. b[1] * b[3] * b[4] \in Nat \ {0}
        BY <1>1, <2>1
      <4>2. p = b[2] * (b[1] * b[3] * b[4])
        BY <1>1
      <4> QED
        BY <3>2, <4>1, <4>2
    <3>3. CASE t = 3
      <4>1. b[1] * b[2] * b[4] \in Nat \ {0}
        BY <1>1, <2>1
      <4>2. p = b[3] * (b[1] * b[2] * b[4])
        BY <1>1
      <4> QED
        BY <3>3, <4>1, <4>2
    <3>4. CASE t = 4
      <4>1. b[1] * b[2] * b[3] \in Nat \ {0}
        BY <1>1, <2>1
      <4>2. p = b[4] * (b[1] * b[2] * b[3])
        BY <1>1
      <4> QED
        BY <3>4, <4>1, <4>2
    <3> QED
      BY <3>1, <3>2, <3>3, <3>4 DEF FuncTypes
  <2>3. PICK y \in Nat \ {0} : p = b[t] * y
    BY <2>2
  <2>4. b[t] \in Nat \ {0}
    OBVIOUS
  <2> HIDE DEF p
  <2> QED
    BY <2>3, <2>4, QuotientPositive
<1> HIDE DEF p
<1>3. ASSUME NEW t \in FuncTypes
      PROVE  Size[t] * (p \div b[t]) \in Nat \ {0}
  <2>1. Size[t] \in Nat \ {0}
    BY SizeAssumption
  <2>2. p \div b[t] \in Nat \ {0}
    BY <1>2
  <2> DEFINE q == p \div b[t]
  <2> HIDE DEF q
  <2>3. q \in Nat \ {0}
    BY <2>2 DEF q
  <2>4. Size[t] * q \in Nat \ {0}
    BY <2>1, <2>3
  <2> QED
    BY <2>4 DEF q
<1> QED
  BY <1>3 DEF Weights, p

-----------------------------------------------------------------------------
(***************************************************************************)
(* Sums of weights.                                                        *)
(***************************************************************************)
LEMMA WeightOfType ==
  ASSUME NEW w \in [FuncTypes -> Nat \ {0}], NEW T
  PROVE  WeightOf(w, T) \in Nat
<1>1. \A t \in FuncTypes : (IF t \in T THEN w[t] ELSE 0) \in Nat
  OBVIOUS
<1> QED
  BY <1>1 DEF WeightOf, FuncTypes

LEMMA WeightOfAll ==
  ASSUME NEW w \in [FuncTypes -> Nat \ {0}]
  PROVE  WeightOf(w, FuncTypes) \in Nat \ {0}
<1>1. /\ w[1] \in Nat \ {0} /\ w[2] \in Nat \ {0}
      /\ w[3] \in Nat \ {0} /\ w[4] \in Nat \ {0}
  BY DEF FuncTypes
<1>2. WeightOf(w, FuncTypes) = w[1] + w[2] + w[3] + w[4]
  BY DEF WeightOf, FuncTypes
<1> QED
  BY <1>1, <1>2

LEMMA WeightOfOne ==
  ASSUME NEW w \in [FuncTypes -> Nat \ {0}], NEW T, NEW t \in FuncTypes, t \notin T
  PROVE  WeightOf(w, T \cup {t}) = WeightOf(w, T) + w[t]
<1> DEFINE in(u) == IF u \in T THEN w[u] ELSE 0
           now(u) == IF u \in T \cup {t} THEN w[u] ELSE 0
<1>1. \A u \in FuncTypes : in(u) \in Nat /\ w[u] \in Nat
  OBVIOUS
<1>2. \A u \in FuncTypes : now(u) = IF u = t THEN in(u) + w[u] ELSE in(u)
  BY <1>1
<1>3. WeightOf(w, T) = in(1) + in(2) + in(3) + in(4)
  BY DEF WeightOf
<1>4. WeightOf(w, T \cup {t}) = now(1) + now(2) + now(3) + now(4)
  BY DEF WeightOf
<1> HIDE DEF in, now
<1>5. /\ in(1) \in Nat /\ in(2) \in Nat /\ in(3) \in Nat /\ in(4) \in Nat
      /\ w[1] \in Nat /\ w[2] \in Nat /\ w[3] \in Nat /\ w[4] \in Nat
      /\ now(1) = IF 1 = t THEN in(1) + w[1] ELSE in(1)
      /\ now(2) = IF 2 = t THEN in(2) + w[2] ELSE in(2)
      /\ now(3) = IF 3 = t THEN in(3) + w[3] ELSE in(3)
      /\ now(4) = IF 4 = t THEN in(4) + w[4] ELSE in(4)
  BY <1>1, <1>2 DEF FuncTypes
<1>6. t = 1 \/ t = 2 \/ t = 3 \/ t = 4
  BY DEF FuncTypes
<1> QED
  BY <1>3, <1>4, <1>5, <1>6

-----------------------------------------------------------------------------
(***************************************************************************)
(* The loop.                                                               *)
(***************************************************************************)
\* The types the loop has passed before its k-th place.
Passed(k) == {order[j] : j \in 1..(k - 1)}

W == Weights(base)

\* accum is the weight of the types passed, and the draw lies beyond it.
Inv ==
  /\ base \in Bases
  /\ order \in SortedVec(W)
  /\ val \in Draws
  /\ i \in 1..5
  /\ accum = WeightOf(W, Passed(i))
  /\ 100 * accum <= val * Total
  /\ type # 0 => i <= 4 /\ type = order[i] /\ Reached

LEMMA WeightsNow ==
  ASSUME base \in Bases
  PROVE  W \in [FuncTypes -> Nat \ {0}] /\ Total = WeightOf(W, FuncTypes)
BY BasesAssumption, WeightsPositive DEF W, Total

LEMMA InitInv == Init => Inv
<1> SUFFICES ASSUME Init
             PROVE  Inv
  OBVIOUS
<1> USE DEF Init
<1>1. Passed(1) = {}
  BY DEF Passed
<1>2. WeightOf(W, {}) = 0
  BY DEF WeightOf
<1>3. Total \in Nat
  BY WeightsNow, WeightOfAll
<1>4. val \in Nat
  BY DEF Draws
<1>5. 100 * 0 <= val * Total
  BY <1>3, <1>4
<1> QED
  BY <1>1, <1>2, <1>5 DEF Inv, W

\* One place further the weight of one type more is passed.
LEMMA PassOne ==
  ASSUME Inv, i <= 4
  PROVE  Accumulated = WeightOf(W, Passed(i + 1))
<1> USE DEF Inv
<1>1. i \in 1..4 /\ order \in [1..4 -> FuncTypes]
  BY DEF SortedVec
<1>2. \A j \in 1..4 : j # i => order[j] # order[i]
  BY <1>1 DEF SortedVec
<1>3. order[i] \notin Passed(i)
  BY <1>1, <1>2 DEF Passed
<1>4. Passed(i + 1) = Passed(i) \cup {order[i]}
  BY <1>1 DEF Passed
<1>5. order[i] \in FuncTypes
  BY <1>1
<1> QED
  BY <1>3, <1>4, <1>5, WeightsNow, WeightOfOne DEF Accumulated, W

LEMMA InvStep ==
  ASSUME Inv, [Next]_vars
  PROVE  Inv'
<1>0. W' = W /\ Total' = Total /\ base' = base /\ order' = order /\ val' = val
  BY DEF Next, vars, ReturnType, Pass, Returned, W, Total
<1>1. CASE ReturnType
  BY <1>0, <1>1 DEF ReturnType, Inv, Passed, Reached, Accumulated, W
<1>2. CASE Pass
  <2>1. i \in 1..4 /\ i' = i + 1 /\ i' \in 1..5
    BY <1>2 DEF Pass, Inv
  <2>2. accum' = WeightOf(W, Passed(i + 1))
    BY <1>2, <2>1, PassOne DEF Pass
  <2>3. Passed(i)' = Passed(i + 1)
    BY <1>0, <2>1 DEF Passed
  <2>4. accum' \in Nat /\ val \in Nat /\ Total \in Nat
    BY <2>2, WeightsNow, WeightOfAll, WeightOfType DEF Inv, Draws
  <2>5. ~(val * Total < accum' * 100)
    BY <1>2 DEF Pass, Reached
  <2>6. 100 * accum' <= val * Total
    <3>1. val * Total \in Nat
      BY <2>4
    <3>2. \A p, a \in Nat : ~(p < a * 100) => 100 * a <= p
      OBVIOUS
    <3> QED
      BY <2>4, <2>5, <3>1, <3>2
  <2>7. type' = 0
    BY <1>2 DEF Pass
  <2> QED
    BY <1>0, <2>1, <2>2, <2>3, <2>6, <2>7 DEF Inv
<1>3. CASE UNCHANGED vars
  BY <1>0, <1>3 DEF vars, Inv, Passed, Reached, Accumulated, W
<1> QED
  BY <1>1, <1>2, <1>3 DEF Next, Returned

LEMMA InvAlways == Spec => []Inv
BY InitInv, InvStep, PTL DEF Spec

-----------------------------------------------------------------------------
\* The types passed are types that may precede the one at the loop's place.
LEMMA PassedMayPrecede ==
  ASSUME Inv, i <= 4
  PROVE  Passed(i) \in MayPrecede(W, order[i])
<1> USE DEF Inv
<1>1. i \in 1..4 /\ order \in [1..4 -> FuncTypes]
  BY DEF SortedVec
<1>2. \A j, k \in 1..4 : j # k => order[j] # order[k]
  BY DEF SortedVec
<1>3. \A j, k \in 1..4 : j < k => W[order[j]] <= W[order[k]]
  BY DEF SortedVec
<1>4. \A u \in FuncTypes : \E j \in 1..4 : order[j] = u
  <2>1. \A j \in 1..4 : order[j] \in 1..4
    BY <1>1 DEF FuncTypes
  <2>2. /\ order[1] \in 1..4 /\ order[2] \in 1..4
        /\ order[3] \in 1..4 /\ order[4] \in 1..4
        /\ order[1] # order[2] /\ order[1] # order[3] /\ order[1] # order[4]
        /\ order[2] # order[3] /\ order[2] # order[4] /\ order[3] # order[4]
    BY <1>2, <2>1
  <2>3. \A u \in 1..4 :
          u = order[1] \/ u = order[2] \/ u = order[3] \/ u = order[4]
    BY <2>2
  <2> QED
    BY <2>3 DEF FuncTypes
<1>5. Passed(i) \in SUBSET (FuncTypes \ {order[i]})
  BY <1>1, <1>2 DEF Passed
<1>6. ASSUME NEW u \in FuncTypes \ {order[i]}, W[u] < W[order[i]]
      PROVE  u \in Passed(i)
  <2>1. PICK j \in 1..4 : order[j] = u
    BY <1>4
  <2>2. W[u] \in Nat /\ W[order[i]] \in Nat
    BY <1>1, WeightsNow
  <2>3. ~(i < j)
    BY <1>1, <1>3, <1>6, <2>1, <2>2
  <2>4. j # i
    BY <2>1
  <2> QED
    BY <1>1, <2>1, <2>3, <2>4 DEF Passed
<1>7. ASSUME NEW u \in Passed(i)
      PROVE  W[u] <= W[order[i]]
  BY <1>1, <1>3 DEF Passed
<1> QED
  BY <1>5, <1>6, <1>7 DEF MayPrecede

LEMMA DrawnFalls ==
  ASSUME Inv, type # 0
  PROVE  Falls(W, type, Passed(i), LeastDraw(W, Passed(i)))
<1> USE DEF Inv
<1> DEFINE before == WeightOf(W, Passed(i))
           least == LeastDraw(W, Passed(i))
<1>1. W \in [FuncTypes -> Nat \ {0}] /\ Total = WeightOf(W, FuncTypes)
  BY WeightsNow
<1>2. Total \in Nat \ {0} /\ before \in Nat /\ val \in Nat
  BY <1>1, WeightOfAll, WeightOfType DEF Draws
<1>3. i \in 1..4 /\ type = order[i] /\ W[type] \in Nat
  BY <1>1 DEF SortedVec
<1>4. val * Total < (before + W[type]) * 100
  BY <1>3 DEF Reached, Accumulated, W
<1>5. 100 * before <= val * Total
  OBVIOUS
<1>6. 100 * before \in Nat
  BY <1>2
<1>7. least = (100 * before + Total - 1) \div Total
  BY <1>1 DEF LeastDraw
<1> HIDE DEF before, least
<1>8. least \in Nat /\ 100 * before <= least * Total /\ least * Total <= val * Total
  BY <1>2, <1>5, <1>6, <1>7, Ceiling
<1>9. val * Total \in Nat /\ least * Total \in Nat
  BY <1>2, <1>8
<1>10. least * Total < 100 * (before + W[type])
  BY <1>2, <1>3, <1>4, <1>8, <1>9
<1> QED
  BY <1>1, <1>8, <1>10 DEF Falls, before, least

\* The loop of getEvictedContainer (myAlgorithm.cc:885) returns only types that
\* MyAlgorithm lets be drawn, whatever sizes, frequencies and recencies are.
THEOREM LoopImplementsDraw == Spec => []DrawnIsDrawable
<1>1. Inv => DrawnIsDrawable
  <2> SUFFICES ASSUME Inv, type # 0
               PROVE  type \in Drawable(base)
    BY DEF DrawnIsDrawable
  <2>1. i <= 4 /\ type = order[i] /\ type \in FuncTypes
    BY DEF Inv, SortedVec
  <2>2. Passed(i) \in MayPrecede(W, type)
    BY <2>1, PassedMayPrecede
  <2>3. Falls(W, type, Passed(i), LeastDraw(W, Passed(i)))
    BY DrawnFalls
  <2> QED
    BY <2>1, <2>2, <2>3 DEF Drawable, W
<1> QED
  BY <1>1, InvAlways, PTL

\* The loop never comes to its end without a type: the weights add up to the
\* whole, and a draw is below 100 percent of it.
THEOREM NeverPastTheLast == Spec => [](i <= 4)
<1>1. Inv => i <= 4
  <2> SUFFICES ASSUME Inv, i = 5
               PROVE  FALSE
    BY DEF Inv
  <2> USE DEF Inv
  <2>1. W \in [FuncTypes -> Nat \ {0}] /\ Total = WeightOf(W, FuncTypes)
    BY WeightsNow
  <2>2. Passed(5) = FuncTypes
    <3>1. \A j \in 1..4 : order[j] \in 1..4
      BY DEF SortedVec, FuncTypes
    <3>2. /\ order[1] \in 1..4 /\ order[2] \in 1..4
          /\ order[3] \in 1..4 /\ order[4] \in 1..4
          /\ order[1] # order[2] /\ order[1] # order[3] /\ order[1] # order[4]
          /\ order[2] # order[3] /\ order[2] # order[4] /\ order[3] # order[4]
      BY <3>1 DEF SortedVec
    <3>3. \A u \in 1..4 :
            u = order[1] \/ u = order[2] \/ u = order[3] \/ u = order[4]
      BY <3>2
    <3> QED
      BY <3>1, <3>3 DEF Passed, FuncTypes
  <2>3. Total \in Nat \ {0} /\ val \in 0..99
    BY <2>1, WeightOfAll DEF Draws
  <2>4. 100 * Total <= val * Total
    BY <2>1, <2>2
  <2> HIDE DEF Inv
  <2>5. val * Total < 100 * Total
    BY <2>3
  <2>6. val * Total \in Nat /\ 100 * Total \in Nat
    BY <2>3
  <2> QED
    BY <2>4, <2>5, <2>6
<1> QED
  BY <1>1, InvAlways, PTL

-----------------------------------------------------------------------------
(***************************************************************************)
(* An arrangement with given types before a type.                          *)
(***************************************************************************)
\* Some type of a set has the least key.
LEMMA LeastKey ==
  ASSUME NEW key \in [FuncTypes -> Nat], NEW T \in SUBSET FuncTypes, T # {}
  PROVE  \E t \in T : \A u \in T : key[t] <= key[u]
<1> DEFINE P(S) == S # {} => \E t \in S : \A u \in S : key[t] <= key[u]
<1>1. \A t \in FuncTypes : key[t] \in Nat
  OBVIOUS
<1>2. ASSUME NEW S \in SUBSET FuncTypes, P(S), NEW x \in FuncTypes
      PROVE  P(S \cup {x})
  <2>1. CASE S = {}
    BY <1>1, <2>1
  <2>2. CASE S # {}
    <3>1. PICK t \in S : \A u \in S : key[t] <= key[u]
      BY <1>2, <2>2
    <3>2. CASE key[t] <= key[x]
      BY <1>1, <3>1, <3>2
    <3>3. CASE key[x] <= key[t]
      <4>1. \A u \in S : key[x] <= key[u]
        BY <1>1, <3>1, <3>3
      <4> QED
        BY <1>1, <4>1
    <3>4. key[t] \in Nat /\ key[x] \in Nat
      BY <1>1
    <3> QED
      BY <3>2, <3>3, <3>4
  <2> QED
    BY <2>1, <2>2
<1> DEFINE Of(k) == {t \in T : t <= k}
<1>0. \A t \in T : t \in 1..4
  BY DEF FuncTypes
<1>3. P(Of(0))
  <2>1. Of(0) = {}
    <3>1. \A t \in T : ~(t <= 0)
      BY <1>0
    <3> QED
      BY <3>1
  <2> QED
    BY <2>1
<1>4. ASSUME NEW k \in {1, 2, 3, 4}, P(Of(k - 1))
      PROVE  P(Of(k))
  <2>1. \A t \in T : t <= k <=> t <= k - 1 \/ t = k
    BY <1>0
  <2>2. CASE k \in T
    <3>1. Of(k) = Of(k - 1) \cup {k}
      BY <2>1, <2>2
    <3>2. Of(k - 1) \in SUBSET FuncTypes /\ k \in FuncTypes
      BY <2>2
    <3> HIDE DEF P, Of
    <3> QED
      BY <1>2, <1>4, <3>1, <3>2
  <2>3. CASE k \notin T
    <3>1. Of(k) = Of(k - 1)
      BY <2>1, <2>3
    <3> HIDE DEF P, Of
    <3> QED
      BY <1>4, <3>1
  <2> QED
    BY <2>2, <2>3
<1>5. Of(4) = T
  <2>1. \A t \in T : t <= 4
    BY <1>0
  <2> QED
    BY <2>1
<1> HIDE DEF P, Of
<1>6. P(Of(1 - 1)) /\ P(Of(2 - 1)) /\ P(Of(3 - 1)) /\ P(Of(4 - 1)) /\ P(Of(4))
  <2>1. P(Of(1 - 1))
    BY <1>3
  <2>2. P(Of(1))
    BY <1>4, <2>1
  <2>3. P(Of(2 - 1))
    BY <2>2
  <2>4. P(Of(2))
    BY <1>4, <2>3
  <2>5. P(Of(3 - 1))
    BY <2>4
  <2>6. P(Of(3))
    BY <1>4, <2>5
  <2>7. P(Of(4 - 1))
    BY <2>6
  <2>8. P(Of(4))
    BY <1>4, <2>7
  <2> QED
    BY <2>1, <2>3, <2>5, <2>7, <2>8
<1> QED
  BY <1>5, <1>6 DEF P

\* Different keys put the types in an order.
LEMMA OrderByKey ==
  ASSUME NEW key \in [FuncTypes -> Nat],
         \A t, u \in FuncTypes : t # u => key[t] # key[u]
  PROVE  \E vec \in [1..4 -> FuncTypes] :
           /\ \A j, k \in 1..4 : j < k => key[vec[j]] < key[vec[k]]
           /\ \A t \in FuncTypes : \E j \in 1..4 : vec[j] = t
<1>1. \A t \in FuncTypes : key[t] \in Nat
  OBVIOUS
<1>2. PICK a \in FuncTypes : \A u \in FuncTypes : key[a] <= key[u]
  <2>1. FuncTypes # {} /\ FuncTypes \in SUBSET FuncTypes
    BY DEF FuncTypes
  <2> QED
    BY <2>1, LeastKey
<1>3. PICK b \in FuncTypes \ {a} : \A u \in FuncTypes \ {a} : key[b] <= key[u]
  <2>1. FuncTypes \ {a} # {} /\ FuncTypes \ {a} \in SUBSET FuncTypes
    BY DEF FuncTypes
  <2> QED
    BY <2>1, LeastKey
<1>4. PICK c \in FuncTypes \ {a, b} : \A u \in FuncTypes \ {a, b} : key[c] <= key[u]
  <2>1. FuncTypes \ {a, b} # {} /\ FuncTypes \ {a, b} \in SUBSET FuncTypes
    BY <1>2, <1>3 DEF FuncTypes
  <2> QED
    BY <2>1, LeastKey
<1>5. PICK d \in FuncTypes \ {a, b, c} : FuncTypes = {a, b, c, d}
  BY <1>2, <1>3, <1>4 DEF FuncTypes
<1>6. key[a] < key[b] /\ key[b] < key[c] /\ key[c] < key[d]
  <2>1. key[a] <= key[b] /\ key[b] <= key[c] /\ key[c] <= key[d]
    BY <1>2, <1>3, <1>4, <1>5
  <2>2. key[a] # key[b] /\ key[b] # key[c] /\ key[c] # key[d]
    BY <1>2, <1>3, <1>4, <1>5
  <2> QED
    BY <1>1, <1>2, <1>3, <1>4, <1>5, <2>1, <2>2
<1> DEFINE vec == [j \in 1..4 |-> IF j = 1 THEN a ELSE IF j = 2 THEN b
                                  ELSE IF j = 3 THEN c ELSE d]
<1>7. vec \in [1..4 -> FuncTypes]
  BY <1>2, <1>3, <1>4, <1>5
<1>8. vec[1] = a /\ vec[2] = b /\ vec[3] = c /\ vec[4] = d
  OBVIOUS
<1> HIDE DEF vec
<1>9. ASSUME NEW j \in 1..4, NEW k \in 1..4, j < k
      PROVE  key[vec[j]] < key[vec[k]]
  <2>1. key[a] \in Nat /\ key[b] \in Nat /\ key[c] \in Nat /\ key[d] \in Nat
    BY <1>1, <1>2, <1>3, <1>4, <1>5
  <2>2. \/ j = 1 /\ k \in {2, 3, 4}
        \/ j = 2 /\ k \in {3, 4}
        \/ j = 3 /\ k = 4
    BY <1>9
  <2> QED
    BY <1>6, <1>8, <2>1, <2>2
<1>10. \A t \in FuncTypes : \E j \in 1..4 : vec[j] = t
  <2>1. 1 \in 1..4 /\ 2 \in 1..4 /\ 3 \in 1..4 /\ 4 \in 1..4
    OBVIOUS
  <2> QED
    BY <1>5, <1>8, <2>1
<1> QED
  BY <1>7, <1>9, <1>10

\* The types that come before place k of an arrangement.
Ahead(vec, k) == {vec[j] : j \in 1..(k - 1)}

\* Whatever may precede a type does in some arrangement.
LEMMA Arranged ==
  ASSUME NEW w \in [FuncTypes -> Nat \ {0}], NEW t \in FuncTypes,
         NEW before \in MayPrecede(w, t)
  PROVE  \E vec \in SortedVec(w), k \in 1..4 : vec[k] = t /\ Ahead(vec, k) = before
<1>1. /\ before \in SUBSET FuncTypes /\ t \notin before
      /\ \A u \in FuncTypes \ {t} : w[u] < w[t] => u \in before
      /\ \A u \in FuncTypes \ {t} : u \in before => w[u] <= w[t]
  BY DEF MayPrecede
<1>2. \A u \in FuncTypes : w[u] \in Nat
  OBVIOUS
\* Equal weights are told apart by the side of t, and on one side by number.
<1> DEFINE side(u) == IF u \in before THEN 0 ELSE IF u = t THEN 5 ELSE 10
           key == [u \in FuncTypes |-> 16 * w[u] + side(u) + u]
<1>3. \A u \in FuncTypes : side(u) \in {0, 5, 10} /\ u \in 1..4
  BY DEF FuncTypes
<1>4. side(t) = 5 /\ \A u \in FuncTypes : (u \in before <=> side(u) = 0) /\ (u = t <=> side(u) = 5)
  BY <1>1
<1> HIDE DEF side
<1>5. \A u \in FuncTypes : key[u] = 16 * w[u] + side(u) + u
  OBVIOUS
<1>6. key \in [FuncTypes -> Nat]
  BY <1>2, <1>3
<1> HIDE DEF key
<1>7. ASSUME NEW u \in FuncTypes, NEW v \in FuncTypes
      PROVE  /\ u # v => key[u] # key[v]
             /\ key[u] < key[v] => w[u] <= w[v]
             /\ w[u] < w[v] => key[u] < key[v]
             /\ w[u] = w[v] /\ side(u) < side(v) => key[u] < key[v]
  <2>1. key[u] = 16 * w[u] + side(u) + u /\ key[v] = 16 * w[v] + side(v) + v
    BY <1>5
  <2>2. /\ side(u) \in {0, 5, 10} /\ side(v) \in {0, 5, 10}
        /\ u \in 1..4 /\ v \in 1..4 /\ w[u] \in Nat /\ w[v] \in Nat
    BY <1>2, <1>3
  <2> QED
    BY <2>1, <2>2
<1>8. PICK vec \in [1..4 -> FuncTypes] :
           /\ \A j, k \in 1..4 : j < k => key[vec[j]] < key[vec[k]]
           /\ \A u \in FuncTypes : \E j \in 1..4 : vec[j] = u
  <2>1. \A u, v \in FuncTypes : u # v => key[u] # key[v]
    BY <1>7
  <2> QED
    BY <1>6, <2>1, OrderByKey
<1>9. \A u \in FuncTypes : key[u] \in Nat
  BY <1>6
<1>10. vec \in SortedVec(w)
  <2>1. ASSUME NEW j \in 1..4, NEW k \in 1..4, j # k
        PROVE  vec[j] # vec[k]
    <3>1. j < k \/ k < j
      BY <2>1
    <3>2. key[vec[j]] < key[vec[k]] \/ key[vec[k]] < key[vec[j]]
      BY <1>8, <3>1
    <3>3. key[vec[j]] \in Nat
      BY <1>8, <1>9
    <3> QED
      BY <3>2, <3>3
  <2>2. ASSUME NEW j \in 1..4, NEW k \in 1..4, j < k
        PROVE  w[vec[j]] <= w[vec[k]]
    <3>1. key[vec[j]] < key[vec[k]] /\ vec[j] \in FuncTypes /\ vec[k] \in FuncTypes
      BY <1>8, <2>2
    <3> QED
      BY <1>7, <3>1
  <2> QED
    BY <1>8, <2>1, <2>2 DEF SortedVec
<1>11. PICK k \in 1..4 : vec[k] = t
  BY <1>8
<1>12. ASSUME NEW u \in before
       PROVE  u \in Ahead(vec, k)
  <2>1. PICK j \in 1..4 : vec[j] = u
    BY <1>1, <1>8
  <2>2. u \in FuncTypes \ {t} /\ w[u] <= w[t]
    BY <1>1
  <2>3. key[u] < key[t]
    <3>1. side(u) = 0 /\ side(t) = 5 /\ w[u] \in Nat /\ w[t] \in Nat
      BY <1>2, <1>4, <2>2
    <3>2. w[u] < w[t] \/ (w[u] = w[t] /\ side(u) < side(t))
      BY <2>2, <3>1
    <3> QED
      BY <1>7, <2>2, <3>2
  <2>4. ~(k < j) /\ j # k
    <3>1. key[u] \in Nat /\ key[t] \in Nat
      BY <1>9, <2>2
    <3>2. k < j => key[t] < key[u]
      BY <1>8, <1>11, <2>1
    <3> QED
      BY <1>11, <2>1, <2>2, <2>3, <3>1, <3>2
  <2>5. j \in 1..(k - 1)
    BY <2>4
  <2> QED
    BY <2>1, <2>5 DEF Ahead
<1>13. ASSUME NEW j \in 1..(k - 1)
       PROVE  vec[j] \in before
  <2>1. j \in 1..4 /\ j < k
    BY <1>13
  <2>2. key[vec[j]] < key[t] /\ vec[j] \in FuncTypes
    BY <1>8, <1>11, <2>1
  <2>3. ASSUME vec[j] \notin before
        PROVE  FALSE
    <3>1. vec[j] # t
      BY <1>9, <2>2
    <3>2. ~(w[vec[j]] < w[t]) /\ side(vec[j]) = 10 /\ side(t) = 5
      BY <1>1, <1>3, <1>4, <2>2, <2>3, <3>1
    <3>3. w[vec[j]] \in Nat /\ w[t] \in Nat
      BY <1>2, <2>2
    <3>4. w[t] < w[vec[j]] \/ (w[t] = w[vec[j]] /\ side(t) < side(vec[j]))
      BY <3>2, <3>3
    <3>5. key[t] < key[vec[j]]
      BY <1>7, <2>2, <3>4
    <3> QED
      BY <1>9, <2>2, <3>5
  <2> QED
    BY <2>3
<1>14. Ahead(vec, k) = before
  BY <1>12, <1>13 DEF Ahead
<1> QED
  BY <1>10, <1>11, <1>14

\* Fewer types weigh no more.
LEMMA WeightOfFewer ==
  ASSUME NEW w \in [FuncTypes -> Nat \ {0}], NEW T, NEW U, T \subseteq U
  PROVE  WeightOf(w, T) <= WeightOf(w, U)
<1> DEFINE in(u) == IF u \in T THEN w[u] ELSE 0
           now(u) == IF u \in U THEN w[u] ELSE 0
<1>1. \A u \in FuncTypes : in(u) \in Nat /\ now(u) \in Nat /\ in(u) <= now(u)
  OBVIOUS
<1>2. WeightOf(w, T) = in(1) + in(2) + in(3) + in(4)
  BY DEF WeightOf
<1>3. WeightOf(w, U) = now(1) + now(2) + now(3) + now(4)
  BY DEF WeightOf
<1> HIDE DEF in, now
<1>4. /\ in(1) \in Nat /\ in(2) \in Nat /\ in(3) \in Nat /\ in(4) \in Nat
      /\ now(1) \in Nat /\ now(2) \in Nat /\ now(3) \in Nat /\ now(4) \in Nat
      /\ in(1) <= now(1) /\ in(2) <= now(2) /\ in(3) <= now(3) /\ in(4) <= now(4)
  BY <1>1 DEF FuncTypes
<1> QED
  BY <1>2, <1>3, <1>4

\* A draw that falls to a type after the types ahead of it returns it.
LEMMA FallsDraws ==
  ASSUME NEW w \in [FuncTypes -> Nat \ {0}], NEW vec \in SortedVec(w),
         NEW k \in 1..4, NEW v \in Nat, Falls(w, vec[k], Ahead(vec, k), v)
  PROVE  v \in 0..99 /\ IsDrawnBy(vec[k], w, vec, v)
<1> DEFINE t == vec[k]
           before == WeightOf(w, Ahead(vec, k))
           all == WeightOf(w, FuncTypes)
           Sum(m) == WeightOf(w, {vec[j] : j \in 1..m})
<1>1. vec \in [1..4 -> FuncTypes] /\ \A j, m \in 1..4 : j # m => vec[j] # vec[m]
  BY DEF SortedVec
<1>2. t \in FuncTypes /\ w[t] \in Nat
  BY <1>1
<1>3. before \in Nat /\ all \in Nat \ {0} /\ \A m : Sum(m) \in Nat
  BY WeightOfAll, WeightOfType
<1>4. 100 * before <= v * all /\ v * all < 100 * (before + w[t])
  BY DEF Falls
<1>5. Sum(k) = before + w[t]
  <2>1. t \notin Ahead(vec, k)
    BY <1>1 DEF Ahead
  <2>2. {vec[j] : j \in 1..k} = Ahead(vec, k) \cup {t}
    BY DEF Ahead
  <2> QED
    BY <1>2, <2>1, <2>2, WeightOfOne
<1>6. Sum(k) <= all
  <2>1. {vec[j] : j \in 1..k} \subseteq FuncTypes
    BY <1>1
  <2> QED
    BY <2>1, WeightOfFewer
<1>7. \A m \in 1..(k - 1) : Sum(m) <= before
  <2>1. \A m \in 1..(k - 1) : {vec[j] : j \in 1..m} \subseteq Ahead(vec, k)
    BY DEF Ahead
  <2> QED
    BY <2>1, WeightOfFewer
<1> HIDE DEF before, all, Sum, t
<1> DEFINE part == v * all
<1>8. part \in Nat /\ part < 100 * all
  <2>1. part \in Nat
    BY <1>3
  <2>2. part < 100 * Sum(k)
    BY <1>4, <1>5
  <2> QED
    BY <1>3, <1>6, <2>1, <2>2
<1>9. v \in 0..99
  <2>1. ASSUME v >= 100
        PROVE  FALSE
    <3>1. PICK d \in Nat : v = 100 + d
      <4>1. v - 100 \in Nat /\ v = 100 + (v - 100)
        BY <2>1
      <4> QED
        BY <4>1
    <3>2. part = 100 * all + d * all /\ d * all \in Nat
      BY <1>3, <3>1
    <3> QED
      BY <1>3, <1>8, <3>2
  <2> QED
    BY <2>1
<1> HIDE DEF part
<1>10. part < 100 * Sum(k)
  BY <1>4, <1>5 DEF part
<1>11. ASSUME NEW m \in 1..(k - 1)
       PROVE  ~(part < 100 * Sum(m))
  <2>1. Sum(m) <= before /\ Sum(m) \in Nat /\ 100 * before <= part
    BY <1>3, <1>4, <1>7 DEF part
  <2> QED
    BY <1>3, <1>8, <2>1
<1>12. /\ v * WeightOf(w, FuncTypes) < 100 * WeightOf(w, {vec[j] : j \in 1..k})
       /\ \A m \in 1..(k - 1) :
            ~(v * WeightOf(w, FuncTypes) < 100 * WeightOf(w, {vec[j] : j \in 1..m}))
  BY <1>10, <1>11 DEF part, all, Sum
<1> QED
  BY <1>9, <1>12 DEF IsDrawnBy

\* And MyAlgorithm lets no other type be drawn: for each there are an
\* arrangement that sortVec may leave and a percentage that return it.
THEOREM DrawImplementsLoop == Spec => []DrawableIsDrawn
<1>1. Inv => DrawableIsDrawn
  <2> SUFFICES ASSUME Inv, NEW t \in Drawable(base)
               PROVE  \E vec \in SortedVec(W), v \in 0..99 : IsDrawnBy(t, W, vec, v)
    BY DEF DrawableIsDrawn, W
  <2>1. W \in [FuncTypes -> Nat \ {0}]
    BY WeightsNow DEF Inv
  <2>2. t \in FuncTypes
    BY DEF Drawable
  <2>3. PICK before \in MayPrecede(W, t) : Falls(W, t, before, LeastDraw(W, before))
    BY DEF Drawable, W
  <2>4. PICK vec \in SortedVec(W), k \in 1..4 : vec[k] = t /\ Ahead(vec, k) = before
    BY <2>1, <2>2, Arranged
  <2> DEFINE v == LeastDraw(W, before)
  <2>5. v \in Nat
    <3> DEFINE sum == WeightOf(W, before)
               all == WeightOf(W, FuncTypes)
    <3>1. sum \in Nat /\ all \in Nat \ {0}
      BY <2>1, WeightOfAll, WeightOfType
    <3>2. v = (100 * sum + all - 1) \div all
      BY DEF LeastDraw
    <3> HIDE DEF sum, all, v
    <3>3. 100 * sum + all - 1 \in Nat
      BY <3>1
    <3>4. \A a \in Nat, b \in Nat \ {0} : a \div b \in Nat
      OBVIOUS
    <3> QED
      BY <3>1, <3>2, <3>3, <3>4
  <2> HIDE DEF v
  <2>6. Falls(W, vec[k], Ahead(vec, k), v)
    BY <2>3, <2>4 DEF v
  <2>7. v \in 0..99 /\ IsDrawnBy(vec[k], W, vec, v)
    BY <2>1, <2>4, <2>5, <2>6, FallsDraws
  <2> QED
    BY <2>4, <2>7
<1> QED
  BY <1>1, InvAlways, PTL

=============================================================================
