----------------------------- MODULE MCLifeTime -----------------------------
(***************************************************************************)
(* Values for the constants of LifeTimeCaching.                            *)
(***************************************************************************)
EXTENDS LifeTimeCaching

\* The sizes of initFuncMap.
SizeOfCode == <<55, 158, 332, 92>>

\* Two nodes 20 apart: with cpuFreq 3, near enough for all types but type 1.
TwoNodes == <<<<0, 20>>, <<20, 0>>>>

\* The demands of a slot with at most k requests, of the types in T.
SmallDemands(T, k) ==
  {[t \in FuncTypes |-> [n \in Nodes |->
      Cardinality({i \in 1..k : r[i] = <<t, n>>})]] :
    r \in [1..k -> (T \X Nodes) \cup {<<0, 0>>}]}

\* Up to two requests in the odd slots and one in the even ones.
TurnWorkloads ==
  {w \in [Slots -> SmallDemands({1, 3, 4}, 2)] :
     \A s \in Slots : s % 2 = 0 => w[s] \in SmallDemands({1, 3, 4}, 1)}

\* At most one request in a slot.
LightWorkloads == [Slots -> SmallDemands({1, 3, 4}, 1)]

=============================================================================
