----------------------------- MODULE EvictionDraw -----------------------------
(***************************************************************************)
(* getEvictedContainer of myAlgorithm.cc: the random choice of the type of *)
(* container to evict.  A type weighs Size / (freq + recency); the draw    *)
(* takes a whole number of percent, 0..99, and returns the type in whose   *)
(* interval it falls, the types laid out in ascending order of weight.     *)
(*                                                                         *)
(* base[t] is freq + recency of type t at the node.  Weights are brought   *)
(* to the common denominator base[1] * ... * base[4], so that they are     *)
(* whole numbers; the code computes them in single precision, which may    *)
(* move an interval's end by a rounding error.                             *)
(***************************************************************************)
EXTENDS EdgeCloud

Weights(base) ==
  [t \in FuncTypes |->
     Size[t] * ((base[1] * base[2] * base[3] * base[4]) \div base[t])]

\* The weight of a set of types.
WeightOf(w, types) ==
  LET In(t) == IF t \in types THEN w[t] ELSE 0
  IN  In(1) + In(2) + In(3) + In(4)

\* A slip: any types may come before t.
AnyMayPrecede(w, t) == SUBSET (FuncTypes \ {t})

\* ProbPairVec.sortVec: the types that may come before t, ties either way.
MayPrecede(w, t) ==
  {before \in SUBSET (FuncTypes \ {t}) :
     \A u \in FuncTypes \ {t} :
       /\ w[u] < w[t] => u \in before
       /\ u \in before => w[u] <= w[t]}

\* The draw of val returns t when t follows the types in before: accum_prob
\* first exceeds val / 100 at t.
Falls(w, t, before, val) ==
  /\ 100 * WeightOf(w, before) <= val * WeightOf(w, FuncTypes)
  /\ val * WeightOf(w, FuncTypes) < 100 * (WeightOf(w, before) + w[t])

\* The least draw that is not below the interval of t after before.
LeastDraw(w, before) ==
  LET Total == WeightOf(w, FuncTypes)
  IN  (100 * WeightOf(w, before) + Total - 1) \div Total

\* The types some draw of rand() % 100 may return.
Drawable(base) ==
  LET w == Weights(base)
  IN  {t \in FuncTypes :
         \E before \in MayPrecede(w, t) :
           Falls(w, t, before, LeastDraw(w, before))}

=============================================================================
