---------------------------- MODULE ContainerPool ----------------------------
(***************************************************************************)
(* What a scheduler promises about the containers of the edge nodes, with  *)
(* no word on requests, distances or eviction order: a container is idle   *)
(* (in the cache) or busy (active), it is created only where it fits, only *)
(* an idle container is reused or evicted, and the busy containers of all  *)
(* nodes become idle together, at the end of a slot.                       *)
(***************************************************************************)
EXTENDS Integers

CONSTANTS
  Nodes,    \* the edge nodes
  Size,     \* Size[t]: memory of a container of type t
  MemCap    \* memory of a node

VARIABLES
  idle,     \* idle[n][t]: idle containers of type t on node n
  busy      \* busy[n][t]: busy ones

FuncTypes == 1..4

None == [n \in Nodes |-> [t \in FuncTypes |-> 0]]

Count(n, t) == idle[n][t] + busy[n][t]

\* The memory the containers of node n take.
Used(n) == Size[1] * Count(n, 1) + Size[2] * Count(n, 2)
         + Size[3] * Count(n, 3) + Size[4] * Count(n, 4)

Init == idle = None /\ busy = None

Reuse(n, t) ==
  /\ idle[n][t] > 0
  /\ idle' = [idle EXCEPT ![n][t] = @ - 1]
  /\ busy' = [busy EXCEPT ![n][t] = @ + 1]

Create(n, t) ==
  /\ Used(n) + Size[t] <= MemCap
  /\ busy' = [busy EXCEPT ![n][t] = @ + 1]
  /\ UNCHANGED idle

Evict(n, t) ==
  /\ idle[n][t] > 0
  /\ idle' = [idle EXCEPT ![n][t] = @ - 1]
  /\ UNCHANGED busy

Recycle ==
  /\ idle' = [n \in Nodes |-> [t \in FuncTypes |-> Count(n, t)]]
  /\ busy' = None

Next ==
  \/ \E n \in Nodes, t \in FuncTypes : Reuse(n, t) \/ Create(n, t) \/ Evict(n, t)
  \/ Recycle

Spec == Init /\ [][Next]_<<idle, busy>>

=============================================================================
