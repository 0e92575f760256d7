------------------------------ MODULE EdgeCloud ------------------------------
(***************************************************************************)
(* What the four container schedulers (myAlgorithm.cc, lru.cc, hist.cc and *)
(* fixedcaching.cc) share: the edge nodes with their distances, the four   *)
(* function types with the size of their containers, and the workload, a   *)
(* number of requests for each time slot, function type and ingress node.  *)
(*                                                                         *)
(* Distances, sizes and memory are floats in the code and whole numbers    *)
(* here: the schedulers only compare and add them.                         *)
(*                                                                         *)
(* The four files hold copies of this code; some of the definitions below  *)
(* are mapped to myAlgorithm.cc, some to the same lines of lru.cc.         *)
(*                                                                         *)
(* A slip is a spoilt form of the next definition, to test properties on.  *)
(***************************************************************************)
EXTENDS Integers, Sequences, FiniteSets

CONSTANTS
  NodeNum,       \* number of edge nodes of the topology file
  SlotNum,       \* number of time slots of the request file
  Size,          \* Size[t]: memory a container of type t occupies
  MemCap,        \* memory of every node (MemCap of the configuration)
  cpuFreq,       \* CPU frequency of every node
  CommCostPara,  \* communication cost of a unit of distance
  Dist,          \* Dist[m][n]: distance between nodes m and n
  Workloads      \* the workloads the request files may hold

\* The types initFuncMap enters in the function map.
FuncTypes == 1..4

\* Node ids and slot numbers start from 1.
Nodes == 1..NodeNum
Slots == 1..SlotNum

ASSUME NodeNumAssumption      == NodeNum \in Nat \ {0}
ASSUME SlotNumAssumption      == SlotNum \in Nat \ {0}
ASSUME SizeAssumption         == Size \in [FuncTypes -> Nat \ {0}]
ASSUME MemCapAssumption       == MemCap \in Nat
ASSUME cpuFreqAssumption      == cpuFreq \in Nat \ {0}
ASSUME CommCostParaAssumption == CommCostPara \in Nat
ASSUME DistAssumption         == Dist \in [Nodes -> [Nodes -> Nat]]
ASSUME DistSelfAssumption     == \A n \in Nodes : Dist[n][n] = 0
ASSUME WorkloadsAssumption    ==
  Workloads \subseteq [Slots -> [FuncTypes -> [Nodes -> Nat]]]

-----------------------------------------------------------------------------
(***************************************************************************)
(* The requests of a slot are deployed in the order createRequests made    *)
(* them: by type, then by ingress node.  The requests still to be deployed *)
(* are kept as their numbers, demand[t][n].                                *)
(***************************************************************************)
NoDemand(demand) == \A t \in FuncTypes, n \in Nodes : demand[t][n] = 0

FirstRequest(demand, t, n) ==
  /\ demand[t][n] > 0
  /\ \A u \in FuncTypes, m \in Nodes :
       demand[u][m] > 0 => t < u \/ (t = u /\ n <= m)

\* m_request_map.size(): createRequestInSlot makes an entry for a slot only
\* when it adds a request to it.
MapSize(workload) == Cardinality({s \in Slots : ~ NoDemand(workload[s])})

-----------------------------------------------------------------------------
(***************************************************************************)
(* sortPhyNodes: the nodes in ascending order of their distance to the     *)
(* ingress node.  std::sort leaves the order of equal distances open, so   *)
(* every sorted arrangement is a possible result.                          *)
(***************************************************************************)
\* A slip: the comparison of Distance the wrong way round.
FarthestFirst(ingress) ==
  {ds \in [1..NodeNum -> Nodes] :
     /\ \A i, j \in 1..NodeNum : i # j => ds[i] # ds[j]
     /\ \A i, j \in 1..NodeNum :
          i < j => Dist[ingress][ds[i]] >= Dist[ingress][ds[j]]}

SortedPhyNodes(ingress) ==
  {ds \in [1..NodeNum -> Nodes] :
     /\ \A i, j \in 1..NodeNum : i # j => ds[i] # ds[j]
     /\ \A i, j \in 1..NodeNum :
          i < j => Dist[ingress][ds[i]] <= Dist[ingress][ds[j]]}

\* The test of deployToNeighbour: reaching an idle container on node n costs
\* less than creating one, distance * CommCostPara < size / cpuFreq.
Worthwhile(ingress, n, t) ==
  Dist[ingress][n] * CommCostPara * cpuFreq < Size[t]

=============================================================================
