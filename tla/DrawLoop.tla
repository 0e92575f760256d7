------------------------------- MODULE DrawLoop -------------------------------
(***************************************************************************)
(* getEvictedContainer of myAlgorithm.cc step by step: the loop over the   *)
(* sorted weights that looks for the interval of the draw.  EvictionDraw   *)
(* says at once which types it may return, and MyAlgorithm uses that; here *)
(* the two are compared.                                                   *)
(***************************************************************************)
EXTENDS EvictionDraw

CONSTANT Bases   \* the values freq + recency of the node may have, by type

ASSUME BasesAssumption == Bases \subseteq [FuncTypes -> Nat \ {0}]

VARIABLES
  base,          \* freq + recency by type, as getProb finds them
  order,         \* probPV after sortVec: the types
  val,           \* the draw, rand() % 100
  i,             \* the loop's place in probPV
  accum,         \* accum_prob before that place
  type           \* the type returned, 0 for none yet

vars == <<base, order, val, i, accum, type>>

\* What rand() % 100 may give.
Draws == 0..99

\* A slip: the weights are not sorted.
UnsortedVec(w) ==
  {v \in [1..4 -> FuncTypes] : \A j, k \in 1..4 : j # k => v[j] # v[k]}

\* sortVec leaves the order of equal weights open.
SortedVec(w) ==
  {v \in [1..4 -> FuncTypes] :
     /\ \A j, k \in 1..4 : j # k => v[j] # v[k]
     /\ \A j, k \in 1..4 : j < k => w[v[j]] <= w[v[k]]}

Total == WeightOf(Weights(base), FuncTypes)

\* accum_prob at the loop's place, that place included.
Accumulated == accum + Weights(base)[order[i]]

Init ==
  /\ base \in Bases
  /\ order \in SortedVec(Weights(base))
  /\ val \in Draws
  /\ i = 1
  /\ accum = 0
  /\ type = 0

\* The comparison val < accum_prob * 100.
Reached == val * Total < Accumulated * 100

\* The draw falls into the interval of the type at the loop's place.
ReturnType ==
  /\ type = 0
  /\ i <= 4
  /\ Reached
  /\ type' = order[i]
  /\ UNCHANGED <<base, order, val, i, accum>>

\* A slip: the interval is not added to those passed.
PassUncounted ==
  /\ type = 0
  /\ i <= 4
  /\ ~ Reached
  /\ i' = i + 1
  /\ UNCHANGED <<base, order, val, accum, type>>

\* It lies beyond that.
Pass ==
  /\ type = 0
  /\ i <= 4
  /\ ~ Reached
  /\ i' = i + 1
  /\ accum' = Accumulated
  /\ UNCHANGED <<base, order, val, type>>

\* The function has returned.
Returned == (type # 0 \/ i = 5) /\ UNCHANGED vars

Next == ReturnType \/ Pass \/ Returned

Spec == Init /\ [][Next]_vars /\ WF_vars(ReturnType \/ Pass)

-----------------------------------------------------------------------------
\* The loop returns only types that EvictionDraw, and with it MyAlgorithm,
\* lets be drawn.
DrawnIsDrawable == type # 0 => type \in Drawable(base)

\* The type that a draw of v returns from the arrangement vec: the first one
\* at which the sum of the weights exceeds v percent.
IsDrawnBy(t, w, vec, v) ==
  \E k \in 1..4 :
    LET Sum(m) == WeightOf(w, {vec[j] : j \in 1..m})
        Ends(m) == v * WeightOf(w, FuncTypes) < 100 * Sum(m)
    IN  vec[k] = t /\ Ends(k) /\ \A m \in 1..(k - 1) : ~ Ends(m)

\* And EvictionDraw lets no other be drawn: for each of its types there are an
\* arrangement and a draw that return it.
DrawableIsDrawn ==
  val = 0 /\ i = 1 =>
    \A t \in Drawable(base) :
      \E vec \in SortedVec(Weights(base)), v \in 0..99 :
        IsDrawnBy(t, Weights(base), vec, v)

\* The loop finds a type for every draw: its "No need to evict" and the 0 it
\* would return, which createToCurrent guards against, never come up.
AlwaysDraws == <>(type # 0)

=============================================================================
