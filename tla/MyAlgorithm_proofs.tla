-------------------------- MODULE MyAlgorithm_proofs --------------------------
(***************************************************************************)
(* Proofs about the scheduler of MyAlgorithm.                              *)
(***************************************************************************)
EXTENDS MyAlgorithm, NatSums

USE NodeNumAssumption, SlotNumAssumption, SizeAssumption, MemCapAssumption,
    WorkloadsAssumption, MaxTriesAssumption

\* The number of slots with requests is at most the number of slots.
LEMMA MapSizeBound ==
  ASSUME NEW w
  PROVE  MapSize(w) \in 0..SlotNum
<1>1. {s \in Slots : ~ NoDemand(w[s])} \in SUBSET (1..SlotNum)
  BY DEF Slots
<1>2. SlotNum \in Nat
  BY SlotNumAssumption
<1> QED
  BY <1>1, <1>2, Chosen DEF MapSize

\* Every sorted arrangement of the nodes is a non-empty sequence of nodes.
LEMMA SortedPhyNodesType ==
  ASSUME NEW n \in Nodes, NEW slice \in SortedPhyNodes(n)
  PROVE  slice \in Seq(Nodes) /\ slice # <<>> /\ Tail(slice) \in Seq(Nodes)
<1>1. slice \in [1..NodeNum -> Nodes]
  BY DEF SortedPhyNodes
<1> QED
  BY <1>1, NodeNumAssumption, RowOfAll

LEMMA NodesFinite == IsFiniteSet(Nodes) /\ Cardinality(Nodes) = NodeNum
<1>1. 1 \in Int /\ NodeNum \in Int
  OBVIOUS
<1>2. IsFiniteSet(Nodes) /\ Cardinality(Nodes) = IF 1 > NodeNum THEN 0 ELSE NodeNum - 1 + 1
  BY <1>1, FS_Interval DEF Nodes
<1> QED
  BY <1>2

\* A sorted arrangement has every node, the first one at no distance.
LEMMA SortedPhyNodesCover ==
  ASSUME NEW ingress \in Nodes, NEW slice \in SortedPhyNodes(ingress)
  PROVE  /\ \A n \in Nodes :
              n = slice[1] \/ \E i \in 1..Len(Tail(slice)) : n = Tail(slice)[i]
         /\ Dist[ingress][slice[1]] = 0
<1> DEFINE dist == [n \in Nodes |-> Dist[ingress][n]]
<1>1. IsFiniteSet(Nodes) /\ Cardinality(Nodes) = NodeNum
  BY NodesFinite
<1>2. IsRow(slice, Nodes, dist, NodeNum)
  BY DEF SortedPhyNodes, IsRow
<1>3. NodeNum \in Nat \ {0} /\ dist \in [Nodes -> Nat] /\ dist[ingress] = 0
  BY NodeNumAssumption, DistAssumption, DistSelfAssumption
<1>4. dist[slice[1]] = Dist[ingress][slice[1]]
  BY <1>3 DEF SortedPhyNodes
<1> HIDE DEF dist
<1>5. Covers(slice, Nodes) /\ dist[slice[1]] = 0
  BY <1>1, <1>2, <1>3, RowCovers
<1> QED
  BY <1>4, <1>5 DEF Covers

-----------------------------------------------------------------------------
(***************************************************************************)
(* Type correctness.                                                       *)
(***************************************************************************)

LEMMA InitType == Init => TypeOK
<1> SUFFICES ASSUME Init PROVE TypeOK
  OBVIOUS
<1>1. lastSlot \in 0..SlotNum
  BY MapSizeBound DEF Init
<1>2. slot \in Nat \ {0} /\ slot <= lastSlot + 1
  BY <1>1 DEF Init
<1>3. todo \in [Slots -> [FuncTypes -> [Nodes -> Nat]]]
  BY DEF Init
<1>4. tries \in 0..MaxTries
  BY DEF Init
<1> QED
  BY <1>1, <1>2, <1>3, <1>4
  DEF Init, TypeOK, PerContainer, NoContainer, NoRequest

LEMMA NoteUseType ==
  ASSUME TypeOK, NEW t \in FuncTypes, NoteUse(t)
  PROVE  /\ freq' \in [Nodes -> [FuncTypes -> Int]]
         /\ recency' \in [FuncTypes -> Nat]
<1>1. \A n \in Nodes : [freq[n] EXCEPT ![t] = @ + 1] \in [FuncTypes -> Int]
  BY DEF TypeOK
<1>2. freq' \in [Nodes -> [FuncTypes -> Int]]
  BY <1>1 DEF NoteUse
<1>3. recency' \in [FuncTypes -> Nat]
  BY DEF TypeOK, NoteUse
<1> QED
  BY <1>2, <1>3

LEMMA ActivateType ==
  ASSUME TypeOK, NEW n \in Nodes, NEW t \in FuncTypes, cache[n][t] > 0,
         Activate(n, t)
  PROVE  /\ cache' \in PerContainer
         /\ active' \in PerContainer
         /\ mem' \in [Nodes -> Int]
         /\ freq' \in [Nodes -> [FuncTypes -> Int]]
         /\ recency' \in [FuncTypes -> Nat]
<1>1. cache[n][t] - 1 \in Nat /\ active[n][t] + 1 \in Nat
  BY DEF TypeOK, PerContainer
<1>2. cache' \in PerContainer
  BY <1>1 DEF TypeOK, PerContainer, Activate
<1>3. active' \in PerContainer
  BY <1>1 DEF TypeOK, PerContainer, Activate
<1>4. mem' \in [Nodes -> Int]
  BY DEF TypeOK, Activate
<1>5. freq' \in [Nodes -> [FuncTypes -> Int]] /\ recency' \in [FuncTypes -> Nat]
  BY NoteUseType DEF Activate
<1> QED
  BY <1>2, <1>3, <1>4, <1>5

LEMMA ServeType ==
  ASSUME TypeOK, NEW n \in Nodes, NEW t \in FuncTypes, NEW cold \in BOOLEAN,
         Serve(n, t, cold)
  PROVE  hosted' \in PerContainer /\ servedNum' \in Nat /\ coldNum' \in Nat
<1>1. hosted \in PerContainer /\ servedNum \in Nat /\ coldNum \in Nat
  BY DEF TypeOK
<1>2. hosted' = [hosted EXCEPT ![n][t] = @ + 1]
  BY DEF Serve
<1>3. hosted' \in PerContainer
  BY <1>1, <1>2 DEF PerContainer
<1>4. servedNum' \in Nat /\ coldNum' \in Nat
  BY <1>1 DEF Serve
<1> QED
  BY <1>3, <1>4

LEMMA ReturnType ==
  ASSUME TypeOK, Return
  PROVE  /\ pc' \in {"next", "neighbours", "create"}
         /\ req' \in Request \cup {NoRequest}
         /\ (pc = "next" <=> req = NoRequest)'
         /\ ds' \in Seq(Nodes)
         /\ tries' \in 0..MaxTries
BY DEF TypeOK, Return

LEMMA TakeRequestType ==
  ASSUME TypeOK, NEW t \in FuncTypes, NEW n \in Nodes, TakeRequest(t, n)
  PROVE  /\ slot' \in Nat \ {0}
         /\ lastSlot' \in 0..SlotNum
         /\ (slot <= lastSlot + 1)'
         /\ todo' \in [Slots -> [FuncTypes -> [Nodes -> Nat]]]
         /\ totalNum' \in Nat
<1>1. slot \in Slots
  BY DEF TypeOK, TakeRequest, Slots
<1>2. todo[slot] \in [FuncTypes -> [Nodes -> Nat]] /\ todo[slot][t][n] > 0
  BY <1>1 DEF TypeOK, TakeRequest, FirstRequest
<1>3. todo' \in [Slots -> [FuncTypes -> [Nodes -> Nat]]]
  BY <1>1, <1>2 DEF TypeOK, TakeRequest
<1> QED
  BY <1>3 DEF TypeOK, TakeRequest

\* While a request is deployed, req holds it.
LEMMA ReqType ==
  ASSUME TypeOK, pc # "next"
  PROVE  /\ req \in Request
         /\ req.type \in FuncTypes /\ req.ingress \in Nodes
         /\ req.host \in Nodes \cup {0}
BY DEF TypeOK, Request

LEMMA NextType == TypeOK /\ [Next]_vars => TypeOK'
<1> SUFFICES ASSUME TypeOK, [Next]_vars PROVE TypeOK'
  OBVIOUS
<1> USE DEF progress, control, outcome, resources
<1>1. ASSUME NEW t \in FuncTypes, NEW n \in Nodes, PlaceToCurrent(t, n)
      PROVE  TypeOK'
  <2>1. TakeRequest(t, n) /\ cache[n][t] > 0 /\ Activate(n, t)
        /\ Serve(n, t, FALSE) /\ UNCHANGED control
    BY <1>1 DEF PlaceToCurrent
  <2> QED
    BY <2>1, ActivateType, ServeType, TakeRequestType DEF TypeOK
<1>2. ASSUME NEW t \in FuncTypes, NEW n \in Nodes, ScanNeighbours(t, n)
      PROVE  TypeOK'
  <2>1. TakeRequest(t, n)
    BY <1>2 DEF ScanNeighbours
  <2>2. ds' \in Seq(Nodes)
    BY <1>2, SortedPhyNodesType DEF ScanNeighbours
  <2>3. req' \in Request /\ req' # NoRequest
    BY <1>2 DEF ScanNeighbours, Request, NoRequest, Nodes
  <2> QED
    BY <1>2, <2>1, <2>2, <2>3, TakeRequestType DEF TypeOK, ScanNeighbours
<1>3. ASSUME NEW n \in Nodes, PlaceToNeighbour(n)
      PROVE  TypeOK'
  <2>1. pc = "neighbours" /\ ds # <<>> /\ Usable(n)
        /\ Activate(n, req.type) /\ req' = [req EXCEPT !.host = n]
    BY <1>3 DEF PlaceToNeighbour, Visit
  <2>2. req.type \in FuncTypes /\ cache[n][req.type] > 0
    BY <2>1, ReqType DEF Usable
  <2>3. req \in Request
    BY <2>1, ReqType
  <2>4. req' \in Request /\ req'.host = n
    BY <2>1, <2>3 DEF Request
  <2>5. req' # NoRequest
    BY <2>4 DEF NoRequest, Nodes
  <2>6. ds' \in Seq(Nodes)
    BY <1>3, <2>1 DEF PlaceToNeighbour, Visit, TypeOK
  <2> QED
    BY <1>3, <2>1, <2>2, <2>4, <2>5, <2>6, ActivateType
    DEF TypeOK, PlaceToNeighbour, Visit
<1>4. ASSUME NEW n \in Nodes, SkipNeighbour(n)
      PROVE  TypeOK'
  <2>1. ds' \in Seq(Nodes)
    BY <1>4 DEF SkipNeighbour, Visit, TypeOK
  <2> QED
    BY <1>4, <2>1 DEF TypeOK, SkipNeighbour, Visit
<1>5. CASE ServedByNeighbour
  <2>1. req.host \in Nodes /\ req.type \in FuncTypes
    BY <1>5, ReqType DEF ServedByNeighbour
  <2> QED
    BY <1>5, <2>1, ServeType, ReturnType DEF TypeOK, ServedByNeighbour
<1>6. CASE NoNeighbour
  BY <1>6 DEF TypeOK, NoNeighbour
<1>7. CASE CreateToCurrent
  <2>1. req.ingress \in Nodes /\ req.type \in FuncTypes
    BY <1>7, ReqType DEF CreateToCurrent
  <2>2. /\ active' \in PerContainer
        /\ mem' \in [Nodes -> Int]
        /\ freq' \in [Nodes -> [FuncTypes -> Int]]
        /\ recency' \in [FuncTypes -> Nat]
    <3>1. active[req.ingress][req.type] + 1 \in Nat /\ Size[req.type] \in Nat
      BY <2>1 DEF TypeOK, PerContainer
    <3>2. active' \in PerContainer
      BY <1>7, <2>1, <3>1 DEF TypeOK, CreateToCurrent, PerContainer
    <3>3. mem' \in [Nodes -> Int]
      <4>1. mem \in [Nodes -> Int]
        BY DEF TypeOK
      <4>2. mem' = [mem EXCEPT ![req.ingress] = @ - Size[req.type]]
        BY <1>7 DEF CreateToCurrent, Charge
      <4> QED
        BY <2>1, <3>1, <4>1, <4>2
    <3> QED
      BY <1>7, <2>1, <3>2, <3>3, NoteUseType DEF CreateToCurrent
  <2> QED
    BY <1>7, <2>1, <2>2, ServeType, ReturnType DEF TypeOK, CreateToCurrent
<1>8. ASSUME NEW t \in FuncTypes, Evict(t)
      PROVE  TypeOK'
  <2>1. req.ingress \in Nodes
    BY <1>8, ReqType DEF Evict, Draw
  <2>2. /\ cache' \in PerContainer
        /\ mem' \in [Nodes -> Int]
        /\ freq' \in [Nodes -> [FuncTypes -> Int]]
    <3>1. cache[req.ingress][t] - 1 \in Nat /\ Size[t] \in Nat
      <4>1. cache[req.ingress][t] > 0
        BY <1>8 DEF Evict
      <4>2. cache[req.ingress][t] \in Nat
        BY <2>1 DEF TypeOK, PerContainer
      <4>3. Size[t] \in Nat
        BY SizeAssumption
      <4> QED
        BY <4>1, <4>2, <4>3
    <3>2. /\ cache' = [cache EXCEPT ![req.ingress][t] = @ - 1]
          /\ freq' = [freq EXCEPT ![req.ingress][t] = @ - 1]
          /\ mem' = [mem EXCEPT ![req.ingress] = @ + Size[t]]
      BY <1>8 DEF Evict, Refund
    <3>3. /\ cache \in PerContainer
          /\ mem \in [Nodes -> Int]
          /\ freq \in [Nodes -> [FuncTypes -> Int]]
      BY DEF TypeOK
    <3>4. mem' \in [Nodes -> Int]
      BY <2>1, <3>1, <3>2, <3>3
    <3>5. cache' \in PerContainer
      BY <2>1, <3>1, <3>2, <3>3 DEF PerContainer
    <3>6. freq' \in [Nodes -> [FuncTypes -> Int]]
      BY <2>1, <3>2, <3>3
    <3> QED
      BY <3>4, <3>5, <3>6
  <2>3. tries' \in 0..MaxTries
    <3>1. tries \in 0..MaxTries
      BY DEF TypeOK
    <3>2. tries < MaxTries /\ tries' = tries + 1
      BY <1>8 DEF Evict, Draw
    <3> QED
      BY <3>1, <3>2, MaxTriesAssumption
  <2>4. UNCHANGED <<active, recency, slot, lastSlot, todo, pc, req, ds, hosted,
                    totalNum, servedNum, coldNum>>
    BY <1>8 DEF Evict
  <2> QED
    BY <2>2, <2>3, <2>4 DEF TypeOK
<1>9. CASE Unserved
  BY <1>9, ReturnType DEF TypeOK, Unserved
<1>10. CASE UpdateCache
  <2>1. cache' \in PerContainer
    <3>1. cache \in PerContainer /\ active \in PerContainer
      BY DEF TypeOK
    <3>2. cache' = [n \in Nodes |-> [t \in FuncTypes |->
                                      cache[n][t] + active[n][t]]]
      BY <1>10 DEF UpdateCache
    <3> QED
      BY <3>1, <3>2 DEF PerContainer
  <2>2. active' \in PerContainer /\ hosted' \in PerContainer
    BY <1>10 DEF UpdateCache, PerContainer, NoContainer
  <2>3. slot' \in Nat \ {0} /\ (slot <= lastSlot + 1)'
    BY <1>10 DEF TypeOK, UpdateCache
  <2> QED
    BY <1>10, <2>1, <2>2, <2>3 DEF TypeOK, UpdateCache
<1>11. CASE UNCHANGED vars
  BY <1>11 DEF TypeOK, vars
<1> QED
  BY <1>1, <1>2, <1>3, <1>4, <1>5, <1>6, <1>7, <1>8, <1>9, <1>10, <1>11
  DEF Next, Step, Terminating, DrewOwnType, NothingToDelete, TriesExhausted

\* The variables keep the types TypeOK states, for every topology, workload
\* and configuration.
THEOREM TypeCorrect == Spec => []TypeOK
<1> QED
  BY InitType, NextType, PTL DEF Spec

-----------------------------------------------------------------------------
(***************************************************************************)
(* Memory.  What a step adds to the containers of a node it takes from the *)
(* node's free memory, and the other way round.                            *)
(***************************************************************************)

\* The sum over the four types changes by the size of the one type whose
\* number of containers changes.
LEMMA ResidentChange ==
  ASSUME TypeOK, NEW n \in Nodes, NEW t \in FuncTypes, NEW d \in Int,
         cache'[n] \in [FuncTypes -> Int], active'[n] \in [FuncTypes -> Int],
         \A u \in FuncTypes : cache'[n][u] + active'[n][u]
              = cache[n][u] + active[n][u] + (IF u = t THEN d ELSE 0)
  PROVE  Resident(n)' = Resident(n) + Size[t] * d
<1> DEFINE Total(u) == cache[n][u] + active[n][u]
           d_(u)    == IF u = t THEN d ELSE 0
<1>1. \A u \in FuncTypes : /\ Total(u) \in Int /\ Size[u] \in Int /\ d_(u) \in Int
                           /\ (cache'[n][u] + active'[n][u]) = Total(u) + d_(u)
  <2> SUFFICES ASSUME NEW u \in FuncTypes
               PROVE  /\ Total(u) \in Int /\ Size[u] \in Int /\ d_(u) \in Int
                      /\ (cache'[n][u] + active'[n][u]) = Total(u) + d_(u)
    OBVIOUS
  <2>1. cache[n][u] \in Int /\ active[n][u] \in Int
    BY DEF TypeOK, PerContainer
  <2>2. Size[u] \in Int
    BY SizeAssumption
  <2> QED
    BY <2>1, <2>2
<1> HIDE DEF Total, d_
<1>2. \A a, b, c \in Int : a * (b + c) = a * b + a * c
  OBVIOUS
<1>3. \A u \in FuncTypes : Size[u] * (cache'[n][u] + active'[n][u])
                             = Size[u] * Total(u) + Size[u] * d_(u)
  BY <1>1, <1>2
<1>4. \A u \in FuncTypes : Size[u] * Total(u) \in Int /\ Size[u] * d_(u) \in Int
  BY <1>1
<1>5. 1 \in FuncTypes /\ 2 \in FuncTypes /\ 3 \in FuncTypes /\ 4 \in FuncTypes
  BY DEF FuncTypes
<1>6. Resident(n)' = (Size[1] * Total(1) + Size[1] * d_(1))
                   + (Size[2] * Total(2) + Size[2] * d_(2))
                   + (Size[3] * Total(3) + Size[3] * d_(3))
                   + (Size[4] * Total(4) + Size[4] * d_(4))
  BY <1>3, <1>5 DEF Resident
<1>7. Resident(n) = Size[1] * Total(1) + Size[2] * Total(2)
                  + Size[3] * Total(3) + Size[4] * Total(4)
  BY DEF Resident, Total
<1>8. \A u \in FuncTypes : Size[u] * d_(u) = IF u = t THEN Size[t] * d ELSE 0
  BY <1>1 DEF d_
<1>9. Size[1] * d_(1) + Size[2] * d_(2) + Size[3] * d_(3) + Size[4] * d_(4)
        = Size[t] * d
  <2>1. Size[t] * d \in Int
    OBVIOUS
  <2>2. t = 1 \/ t = 2 \/ t = 3 \/ t = 4
    BY DEF FuncTypes
  <2> QED
    BY <1>5, <1>8, <2>1, <2>2
<1> QED
  BY <1>4, <1>5, <1>6, <1>7, <1>9

\* The part of the types that the arithmetic on containers needs.
CountsOK == /\ cache \in [Nodes -> [FuncTypes -> Nat]]
            /\ active \in [Nodes -> [FuncTypes -> Nat]]
            /\ mem \in [Nodes -> Int]

LEMMA CountsType == (TypeOK => CountsOK) /\ (TypeOK' => CountsOK')
BY DEF TypeOK, CountsOK, PerContainer

LEMMA ResidentType ==
  ASSUME TypeOK, NEW n \in Nodes
  PROVE  Resident(n) \in Int
<1>1. \A t \in FuncTypes : Size[t] * (cache[n][t] + active[n][t]) \in Int
  BY DEF TypeOK, PerContainer
<1> QED
  BY <1>1 DEF Resident, FuncTypes

\* A node keeps its balance when its counts of containers stay the same.
LEMMA ResidentKept ==
  ASSUME TypeOK, TypeOK', NEW n \in Nodes,
         \A u \in FuncTypes :
           cache'[n][u] + active'[n][u] = cache[n][u] + active[n][u]
  PROVE  Resident(n)' = Resident(n)
<1>1. 1 \in FuncTypes /\ Size[1] * 0 = 0 /\ 0 \in Int
  BY DEF FuncTypes
<1>2. cache'[n] \in [FuncTypes -> Int] /\ active'[n] \in [FuncTypes -> Int]
  BY CountsType DEF CountsOK
<1>3. \A u \in FuncTypes : cache'[n][u] + active'[n][u]
          = cache[n][u] + active[n][u] + (IF u = 1 THEN 0 ELSE 0)
  BY CountsType DEF CountsOK
<1>4. Resident(n)' = Resident(n) + Size[1] * 0
  BY ResidentChange, <1>1, <1>2, <1>3
<1> QED
  BY <1>1, <1>4, ResidentType

\* So it does when one container comes and its size leaves the free memory,
\* or the other way round.
LEMMA BalanceKept ==
  ASSUME TypeOK, TypeOK', NEW n \in Nodes, NEW t \in FuncTypes, NEW d \in Int,
         mem[n] + Resident(n) = MemCap,
         \A u \in FuncTypes : cache'[n][u] + active'[n][u]
              = cache[n][u] + active[n][u] + (IF u = t THEN d ELSE 0),
         mem'[n] = mem[n] - Size[t] * d
  PROVE  mem'[n] + Resident(n)' = MemCap
<1>1. cache'[n] \in [FuncTypes -> Int] /\ active'[n] \in [FuncTypes -> Int]
  BY CountsType DEF CountsOK
<1>2. Resident(n)' = Resident(n) + Size[t] * d
  BY ResidentChange, <1>1
<1>3. mem[n] \in Int /\ Resident(n) \in Int
  BY ResidentType, CountsType DEF CountsOK
<1>4. Size[t] \in Int
  OBVIOUS
<1>5. Size[t] * d \in Int
  BY <1>4
<1> QED
  BY <1>2, <1>3, <1>5

LEMMA InitMemory == Init => MemoryConserved
<1> SUFFICES ASSUME Init, NEW n \in Nodes
             PROVE  mem[n] >= 0 /\ mem[n] + Resident(n) = MemCap
  BY DEF MemoryConserved
<1>1. \A t \in FuncTypes : cache[n][t] = 0 /\ active[n][t] = 0 /\ Size[t] * 0 = 0
  BY DEF Init, NoContainer
<1>2. Resident(n) = 0
  BY <1>1 DEF Resident, FuncTypes
<1> QED
  BY <1>2 DEF Init

LEMMA NextMemory ==
  TypeOK /\ TypeOK' /\ MemoryConserved /\ [Next]_vars => MemoryConserved'
<1> SUFFICES ASSUME TypeOK, TypeOK', MemoryConserved, [Next]_vars, NEW n \in Nodes
             PROVE  mem'[n] >= 0 /\ mem'[n] + Resident(n)' = MemCap
  BY DEF MemoryConserved
<1>c. CountsOK
  BY CountsType
<1>0. /\ mem[n] \in Int /\ mem[n] >= 0 /\ mem[n] + Resident(n) = MemCap
      /\ \A u \in FuncTypes : cache[n][u] \in Nat /\ active[n][u] \in Nat
  BY <1>c DEF MemoryConserved, CountsOK
<1>a. ASSUME UNCHANGED <<cache, active, mem>>
      PROVE  mem'[n] >= 0 /\ mem'[n] + Resident(n)' = MemCap
  BY <1>0, <1>a DEF Resident
<1>b. ASSUME NEW m \in Nodes, NEW t \in FuncTypes, cache[m][t] > 0, Activate(m, t)
      PROVE  mem'[n] >= 0 /\ mem'[n] + Resident(n)' = MemCap
  <2>1. \A u \in FuncTypes :
          cache'[n][u] + active'[n][u] = cache[n][u] + active[n][u]
    BY <1>0, <1>b, <1>c DEF Activate, CountsOK
  <2> QED
    BY <1>0, <1>b, <2>1, ResidentKept DEF Activate
<1>1. ASSUME NEW t \in FuncTypes, NEW m \in Nodes, PlaceToCurrent(t, m)
      PROVE  mem'[n] >= 0 /\ mem'[n] + Resident(n)' = MemCap
  BY <1>1, <1>b DEF PlaceToCurrent
<1>2. ASSUME NEW t \in FuncTypes, NEW m \in Nodes, ScanNeighbours(t, m)
      PROVE  mem'[n] >= 0 /\ mem'[n] + Resident(n)' = MemCap
  BY <1>2, <1>a DEF ScanNeighbours, resources
<1>3. ASSUME NEW m \in Nodes, PlaceToNeighbour(m)
      PROVE  mem'[n] >= 0 /\ mem'[n] + Resident(n)' = MemCap
  <2>1. req.type \in FuncTypes
    BY <1>3, ReqType DEF PlaceToNeighbour, Visit
  <2> QED
    BY <1>3, <1>b, <2>1 DEF PlaceToNeighbour, Usable
<1>4. ASSUME NEW m \in Nodes, SkipNeighbour(m)
      PROVE  mem'[n] >= 0 /\ mem'[n] + Resident(n)' = MemCap
  BY <1>4, <1>a DEF SkipNeighbour, resources
<1>5. CASE ServedByNeighbour \/ NoNeighbour \/ Unserved \/ UNCHANGED vars
  BY <1>5, <1>a DEF ServedByNeighbour, NoNeighbour, Unserved, resources, vars
<1>6. CASE CreateToCurrent
  <2> DEFINE i == req.ingress
             t == req.type
  <2>1. i \in Nodes /\ t \in FuncTypes /\ Size[t] \in Nat
    BY <1>6, ReqType DEF CreateToCurrent
  <2>2. /\ Size[t] <= mem[i]
        /\ cache' = cache
        /\ active' = [active EXCEPT ![i][t] = @ + 1]
        /\ mem' = [mem EXCEPT ![i] = @ - Size[t]]
    BY <1>6 DEF CreateToCurrent, Charge
  <2> HIDE DEF i, t
  <2>3. CASE n = i
    <3>1. \A u \in FuncTypes : cache'[n][u] + active'[n][u]
             = cache[n][u] + active[n][u] + (IF u = t THEN 1 ELSE 0)
      BY <1>0, <1>c, <2>1, <2>2, <2>3 DEF CountsOK
    <3>2. mem'[n] = mem[n] - Size[t] * 1 /\ mem'[n] >= 0
      BY <1>0, <1>c, <2>1, <2>2, <2>3 DEF CountsOK
    <3> QED
      BY <1>0, <2>1, <3>1, <3>2, BalanceKept
  <2>4. CASE n # i
    <3>1. /\ mem'[n] = mem[n]
          /\ \A u \in FuncTypes :
               cache'[n][u] + active'[n][u] = cache[n][u] + active[n][u]
      BY <1>c, <2>1, <2>2, <2>4 DEF CountsOK
    <3> QED
      BY <1>0, <3>1, ResidentKept
  <2> QED
    BY <2>3, <2>4
<1>7. ASSUME NEW t \in FuncTypes, Evict(t)
      PROVE  mem'[n] >= 0 /\ mem'[n] + Resident(n)' = MemCap
  <2> DEFINE i == req.ingress
  <2>1. i \in Nodes /\ Size[t] \in Nat
    BY <1>7, ReqType DEF Evict, Draw
  <2>2. /\ cache' = [cache EXCEPT ![i][t] = @ - 1]
        /\ active' = active
        /\ mem' = [mem EXCEPT ![i] = @ + Size[t]]
    BY <1>7 DEF Evict, Refund
  <2> HIDE DEF i
  <2>3. CASE n = i
    <3>1. \A u \in FuncTypes : cache'[n][u] + active'[n][u]
             = cache[n][u] + active[n][u] + (IF u = t THEN -1 ELSE 0)
      BY <1>0, <1>c, <2>1, <2>2, <2>3 DEF CountsOK
    <3>2. mem'[n] = mem[n] - Size[t] * (-1) /\ mem'[n] >= 0
      BY <1>0, <1>c, <2>1, <2>2, <2>3 DEF CountsOK
    <3> QED
      BY <1>0, <2>1, <3>1, <3>2, BalanceKept
  <2>4. CASE n # i
    <3>1. /\ mem'[n] = mem[n]
          /\ \A u \in FuncTypes :
               cache'[n][u] + active'[n][u] = cache[n][u] + active[n][u]
      BY <1>c, <2>1, <2>2, <2>4 DEF CountsOK
    <3> QED
      BY <1>0, <3>1, ResidentKept
  <2> QED
    BY <2>3, <2>4
<1>8. CASE UpdateCache
  <2>1. \A u \in FuncTypes :
          cache'[n][u] + active'[n][u] = cache[n][u] + active[n][u]
    BY <1>0, <1>8 DEF UpdateCache, NoContainer
  <2> QED
    BY <1>0, <1>8, <2>1, ResidentKept DEF UpdateCache
<1> QED
  BY <1>1, <1>2, <1>3, <1>4, <1>5, <1>6, <1>7, <1>8
  DEF Next, Step, Terminating, DrewOwnType, NothingToDelete, TriesExhausted

\* On every node free memory and containers add up to MemCap at all times, and
\* free memory is never negative: MyAlgorithm neither leaks nor overcommits.
THEOREM MemoryIsConserved == Spec => []MemoryConserved
<1>1. TypeOK /\ MemoryConserved /\ [Next]_vars => (TypeOK /\ MemoryConserved)'
  BY NextType, NextMemory
<1> QED
  BY InitType, InitMemory, <1>1, PTL DEF Spec

-----------------------------------------------------------------------------
(***************************************************************************)
(* The frequencies of a node cover its containers.                         *)
(***************************************************************************)

\* The part of the types that the arithmetic on frequencies needs.
FreqOK == /\ CountsOK
          /\ freq \in [Nodes -> [FuncTypes -> Int]]

LEMMA FreqType == (TypeOK => FreqOK) /\ (TypeOK' => FreqOK')
BY CountsType DEF TypeOK, FreqOK

LEMMA NextFreq == TypeOK /\ FreqCoversContainers /\ [Next]_vars => FreqCoversContainers'
<1> SUFFICES ASSUME TypeOK, FreqCoversContainers, [Next]_vars,
                    NEW n \in Nodes, NEW t \in FuncTypes
             PROVE  cache'[n][t] + active'[n][t] <= freq'[n][t]
  BY DEF FreqCoversContainers
<1>0. FreqOK /\ CountsOK
  BY FreqType DEF FreqOK
<1>1. /\ cache[n][t] \in Nat /\ active[n][t] \in Nat /\ freq[n][t] \in Int
      /\ cache[n][t] + active[n][t] <= freq[n][t]
  BY <1>0 DEF FreqOK, CountsOK, FreqCoversContainers
<1>a. ASSUME UNCHANGED <<cache, active, freq>>
      PROVE  cache'[n][t] + active'[n][t] <= freq'[n][t]
  BY <1>1, <1>a
<1>b. ASSUME NEW u \in FuncTypes, NoteUse(u)
      PROVE  freq'[n][t] = freq[n][t] + (IF u = t THEN 1 ELSE 0)
  BY <1>0, <1>b DEF NoteUse, FreqOK
<1>c. ASSUME NEW m \in Nodes, NEW u \in FuncTypes, Activate(m, u)
      PROVE  cache'[n][t] + active'[n][t] <= freq'[n][t]
  <2>1. cache'[n][t] + active'[n][t] = cache[n][t] + active[n][t]
    BY <1>0, <1>1, <1>c DEF Activate, CountsOK
  <2>2. freq'[n][t] = freq[n][t] + (IF u = t THEN 1 ELSE 0)
    BY <1>b, <1>c DEF Activate
  <2> QED
    BY <1>1, <2>1, <2>2
<1>2. ASSUME NEW u \in FuncTypes, NEW m \in Nodes, PlaceToCurrent(u, m)
      PROVE  cache'[n][t] + active'[n][t] <= freq'[n][t]
  BY <1>2, <1>c DEF PlaceToCurrent
<1>3. ASSUME NEW m \in Nodes, PlaceToNeighbour(m)
      PROVE  cache'[n][t] + active'[n][t] <= freq'[n][t]
  BY <1>3, <1>c, ReqType DEF PlaceToNeighbour, Visit
<1>4. CASE CreateToCurrent
  <2> DEFINE i == req.ingress
             u == req.type
  <2>1. i \in Nodes /\ u \in FuncTypes
    BY <1>4, ReqType DEF CreateToCurrent
  <2>2. /\ cache' = cache
        /\ active' = [active EXCEPT ![i][u] = @ + 1]
        /\ NoteUse(u)
    BY <1>4 DEF CreateToCurrent
  <2> HIDE DEF i, u
  <2>3. cache'[n][t] + active'[n][t]
          <= cache[n][t] + active[n][t] + (IF u = t THEN 1 ELSE 0)
    BY <1>0, <1>1, <2>1, <2>2 DEF CountsOK
  <2> QED
    BY <1>1, <1>b, <2>1, <2>2, <2>3
<1>5. ASSUME NEW u \in FuncTypes, Evict(u)
      PROVE  cache'[n][t] + active'[n][t] <= freq'[n][t]
  <2> DEFINE i == req.ingress
  <2>1. i \in Nodes
    BY <1>5, ReqType DEF Evict, Draw
  <2>2. /\ cache' = [cache EXCEPT ![i][u] = @ - 1]
        /\ freq' = [freq EXCEPT ![i][u] = @ - 1]
        /\ active' = active
    BY <1>5 DEF Evict
  <2> HIDE DEF i
  <2> QED
    BY <1>0, <1>1, <2>1, <2>2 DEF FreqOK, CountsOK
<1>6. CASE UpdateCache
  BY <1>1, <1>6 DEF UpdateCache, NoContainer
<1>7. ASSUME UNCHANGED resources
      PROVE  cache'[n][t] + active'[n][t] <= freq'[n][t]
  BY <1>7, <1>a DEF resources
<1> QED
  BY <1>2, <1>3, <1>4, <1>5, <1>6, <1>7
  DEF Next, Step, Terminating, DrewOwnType, NothingToDelete, TriesExhausted,
      ScanNeighbours, SkipNeighbour, ServedByNeighbour, NoNeighbour, Unserved, vars

\* The frequency a node keeps of a type never falls below the containers of
\* that type it holds, so getFreq weighs every evictable type by its count.
THEOREM FreqCovers == Spec => []FreqCoversContainers
<1>1. Init => FreqCoversContainers
  BY DEF Init, FreqCoversContainers, NoContainer
<1>2. TypeOK /\ FreqCoversContainers /\ [Next]_vars
        => (TypeOK /\ FreqCoversContainers)'
  BY NextType, NextFreq
<1> QED
  BY InitType, <1>1, <1>2, PTL DEF Spec

-----------------------------------------------------------------------------
(***************************************************************************)
(* No two requests share a container.                                      *)
(***************************************************************************)

\* The part of the types that the count of served requests needs.
HostedOK == /\ CountsOK
            /\ hosted \in [Nodes -> [FuncTypes -> Nat]]

LEMMA HostedType == TypeOK => HostedOK
BY CountsType DEF TypeOK, HostedOK, PerContainer

LEMMA NextOwn == TypeOK /\ OwnContainer /\ [Next]_vars => OwnContainer'
<1> SUFFICES ASSUME TypeOK, OwnContainer, [Next]_vars,
                    NEW n \in Nodes, NEW t \in FuncTypes
             PROVE  hosted'[n][t] + Placed(n, t)' <= active'[n][t]
  BY DEF OwnContainer
<1>0. HostedOK /\ CountsOK
  BY HostedType DEF HostedOK
<1>1. /\ hosted[n][t] \in Nat /\ active[n][t] \in Nat /\ Placed(n, t) \in {0, 1}
      /\ hosted[n][t] + Placed(n, t) <= active[n][t]
  BY <1>0 DEF HostedOK, CountsOK, OwnContainer, Placed
<1>2. ASSUME NEW u \in FuncTypes, NEW m \in Nodes, PlaceToCurrent(u, m)
      PROVE  hosted'[n][t] + Placed(n, t)' <= active'[n][t]
  <2>1. /\ hosted' = [hosted EXCEPT ![m][u] = @ + 1]
        /\ active' = [active EXCEPT ![m][u] = @ + 1]
        /\ req' = req
    BY <1>2 DEF PlaceToCurrent, Activate, Serve, control
  <2> QED
    BY <1>0, <1>1, <2>1 DEF HostedOK, CountsOK, Placed
<1>3. ASSUME NEW u \in FuncTypes, NEW m \in Nodes, ScanNeighbours(u, m)
      PROVE  hosted'[n][t] + Placed(n, t)' <= active'[n][t]
  <2>1. hosted' = hosted /\ active' = active /\ req'.host = 0
    BY <1>3 DEF ScanNeighbours, resources
  <2> QED
    BY <1>1, <2>1 DEF Placed, Nodes
<1>4. ASSUME NEW m \in Nodes, PlaceToNeighbour(m)
      PROVE  hosted'[n][t] + Placed(n, t)' <= active'[n][t]
  <2> DEFINE u == req.type
  <2>1. /\ hosted' = hosted
        /\ active' = [active EXCEPT ![m][u] = @ + 1]
        /\ req' = [req EXCEPT !.host = m]
    BY <1>4 DEF PlaceToNeighbour, Visit, outcome, Activate
  <2>2. req \in Request /\ u \in FuncTypes
    BY <1>4, ReqType DEF PlaceToNeighbour, Visit
  <2>3. req'.host = m /\ req'.type = u
    BY <2>1, <2>2 DEF Request
  <2>4. Placed(n, t)' = IF m = n /\ u = t THEN 1 ELSE 0
    BY <2>3 DEF Placed
  <2> HIDE DEF u
  <2>5. active'[n][t] = active[n][t] + (IF m = n /\ u = t THEN 1 ELSE 0)
    BY <1>0, <2>1, <2>2 DEF CountsOK
  <2> QED
    BY <1>1, <2>1, <2>4, <2>5
<1>5. CASE ServedByNeighbour
  <2>1. /\ hosted' = [hosted EXCEPT ![req.host][req.type] = @ + 1]
        /\ active' = active
        /\ req'.host = 0
    BY <1>5 DEF ServedByNeighbour, Serve, Return, NoRequest, resources
  <2>2. hosted'[n][t] = hosted[n][t] + Placed(n, t)
    BY <1>0, <2>1 DEF HostedOK, Placed
  <2> QED
    BY <1>1, <2>1, <2>2 DEF Placed, Nodes
<1>6. CASE CreateToCurrent
  <2> DEFINE i == req.ingress
             u == req.type
  <2>1. /\ hosted' = [hosted EXCEPT ![i][u] = @ + 1]
        /\ active' = [active EXCEPT ![i][u] = @ + 1]
        /\ req'.host = 0
    BY <1>6 DEF CreateToCurrent, Serve, Return, NoRequest
  <2>2. Placed(n, t)' = 0
    BY <2>1 DEF Placed, Nodes
  <2> HIDE DEF i, u
  <2> QED
    BY <1>0, <1>1, <2>1, <2>2 DEF HostedOK, CountsOK
<1>7. CASE Unserved
  <2>1. hosted' = hosted /\ active' = active /\ req'.host = 0
    BY <1>7 DEF Unserved, Return, NoRequest, resources, outcome
  <2> QED
    BY <1>1, <2>1 DEF Placed, Nodes
<1>8. CASE UpdateCache
  <2>1. hosted'[n][t] = 0 /\ active'[n][t] = 0 /\ req' = req
    BY <1>8 DEF UpdateCache, NoContainer, control
  <2>2. req = NoRequest
    BY <1>8 DEF UpdateCache, TypeOK
  <2> QED
    BY <2>1, <2>2 DEF Placed, NoRequest, Nodes
<1>9. ASSUME UNCHANGED <<hosted, active, req>>
      PROVE  hosted'[n][t] + Placed(n, t)' <= active'[n][t]
  BY <1>1, <1>9 DEF Placed
<1> QED
  BY <1>2, <1>3, <1>4, <1>5, <1>6, <1>7, <1>8, <1>9
  DEF Next, Step, Terminating, DrewOwnType, NothingToDelete, TriesExhausted,
      SkipNeighbour, Visit, NoNeighbour, Evict, vars, resources, outcome, control

\* Every served request of a slot has a busy container of its own on the node
\* recorded as its deployNode.
THEOREM OwnContainers == Spec => []OwnContainer
<1>1. Init => OwnContainer
  BY DEF Init, OwnContainer, Placed, NoContainer, NoRequest, Nodes
<1>2. TypeOK /\ OwnContainer /\ [Next]_vars => (TypeOK /\ OwnContainer)'
  BY NextType, NextOwn
<1> QED
  BY InitType, <1>1, <1>2, PTL DEF Spec

-----------------------------------------------------------------------------
(***************************************************************************)
(* The totals of CountersBalance: how a step moves each of them.           *)
(***************************************************************************)

LEMMA CountsOnNodes ==
  ASSUME FreqOK, NEW n \in Nodes
  PROVE  ContainersOn(n) \in Nat /\ UsesOn(n) \in Int
<1>1. 1 \in FuncTypes /\ 2 \in FuncTypes /\ 3 \in FuncTypes /\ 4 \in FuncTypes
  BY DEF FuncTypes
<1>2. \A t \in FuncTypes :
        cache[n][t] \in Nat /\ active[n][t] \in Nat /\ freq[n][t] \in Int
  BY DEF FreqOK, CountsOK
<1> QED
  BY <1>1, <1>2 DEF ContainersOn, UsesOn

\* The four counts of a node, one of which changes by d.
AllTypes(c) == c[1] + c[2] + c[3] + c[4]
Changed(c, e, t, d) == e[t] = c[t] + d /\ \A u \in FuncTypes : u # t => e[u] = c[u]

LEMMA FourChange ==
  ASSUME NEW c \in [FuncTypes -> Int], NEW t \in FuncTypes, NEW d \in Int,
         NEW e \in [FuncTypes -> Int], Changed(c, e, t, d)
  PROVE  AllTypes(e) = AllTypes(c) + d
<1>1. t = 1 \/ t = 2 \/ t = 3 \/ t = 4
  BY DEF FuncTypes
<1>2. 1 \in FuncTypes /\ 2 \in FuncTypes /\ 3 \in FuncTypes /\ 4 \in FuncTypes
  BY DEF FuncTypes
<1>3. c[1] \in Int /\ c[2] \in Int /\ c[3] \in Int /\ c[4] \in Int
  BY <1>2
<1> QED
  BY <1>1, <1>2, <1>3 DEF AllTypes, Changed

\* One container comes to node i (d = 1), goes from it (-1), or none does.
ContainersMove(i, t, d) ==
  /\ cache'[i][t] + active'[i][t] = cache[i][t] + active[i][t] + d
  /\ \A n \in Nodes, u \in FuncTypes : n # i \/ u # t =>
       cache'[n][u] + active'[n][u] = cache[n][u] + active[n][u]

LEMMA ContainersChange ==
  ASSUME FreqOK, FreqOK', NEW i \in Nodes, NEW t \in FuncTypes, NEW d \in Int,
         ContainersMove(i, t, d)
  PROVE  Containers' = Containers + d /\ Containers \in Int
<1> DEFINE f == [n \in Nodes |-> ContainersOn(n)]
           g == [n \in Nodes |-> ContainersOn(n)']
           C(n) == [u \in FuncTypes |-> cache[n][u] + active[n][u]]
           E(n) == [u \in FuncTypes |-> cache'[n][u] + active'[n][u]]
<1>1. \A n \in Nodes : C(n) \in [FuncTypes -> Int] /\ E(n) \in [FuncTypes -> Int]
  BY DEF FreqOK, CountsOK
<1>2. \A n \in Nodes : f[n] = AllTypes(C(n)) /\ g[n] = AllTypes(E(n))
  BY DEF ContainersOn, AllTypes, FuncTypes
<1>3. Changed(C(i), E(i), t, d)
  BY DEF ContainersMove, Changed
<1>4. \A n \in Nodes \ {i} : E(n) = C(n)
  BY DEF ContainersMove
<1>5. Containers = SumFunctionOnSet(f, Nodes) /\ Containers' = SumFunctionOnSet(g, Nodes)
  BY DEF Containers
<1>6. \A n \in Nodes : f[n] \in Int
  BY CountsOnNodes
<1> HIDE DEF f, g, C, E
<1>7. g[i] = f[i] + d
  BY <1>1, <1>2, <1>3, FourChange
<1>8. \A n \in Nodes \ {i} : g[n] = f[n]
  BY <1>2, <1>4
<1> QED
  BY <1>5, <1>6, <1>7, <1>8, NodesFinite, SumOneChange

\* The books of node i change by d uses of type t.
UsesMove(i, t, d) ==
  /\ Changed(freq[i], freq'[i], t, d)
  /\ \A n \in Nodes \ {i} : freq'[n] = freq[n]

LEMMA UsesChange ==
  ASSUME FreqOK, FreqOK', NEW i \in Nodes, NEW t \in FuncTypes, NEW d \in Int,
         UsesMove(i, t, d)
  PROVE  Frequencies' = Frequencies + d /\ Frequencies \in Int
<1> DEFINE f == [n \in Nodes |-> UsesOn(n)]
           g == [n \in Nodes |-> UsesOn(n)']
<1>1. \A n \in Nodes : freq[n] \in [FuncTypes -> Int] /\ freq'[n] \in [FuncTypes -> Int]
  BY DEF FreqOK
<1>2. Changed(freq[i], freq'[i], t, d) /\ \A n \in Nodes \ {i} : freq'[n] = freq[n]
  BY DEF UsesMove
<1>3. \A n \in Nodes : f[n] = AllTypes(freq[n]) /\ g[n] = AllTypes(freq'[n])
  BY DEF UsesOn, AllTypes
<1>4. Frequencies = SumFunctionOnSet(f, Nodes) /\ Frequencies' = SumFunctionOnSet(g, Nodes)
  BY DEF Frequencies
<1>5. \A n \in Nodes : f[n] \in Int
  BY CountsOnNodes
<1> HIDE DEF f, g
<1>6. g[i] = f[i] + d
  BY <1>1, <1>2, <1>3, FourChange
<1>7. \A n \in Nodes \ {i} : g[n] = f[n]
  BY <1>2, <1>3
<1> QED
  BY <1>4, <1>5, <1>6, <1>7, NodesFinite, SumOneChange

\* A placement enters one use in the books of every node.
LEMMA UsesRise ==
  ASSUME FreqOK, NEW t \in FuncTypes, NoteUse(t)
  PROVE  Frequencies' = Frequencies + NodeNum /\ Frequencies \in Int
<1> DEFINE f == [n \in Nodes |-> UsesOn(n)]
           g == [n \in Nodes |-> UsesOn(n)']
<1>1. ASSUME NEW n \in Nodes
      PROVE  f[n] \in Int /\ g[n] = f[n] + 1
  <2>1. freq[n] \in [FuncTypes -> Int] /\ freq'[n] = [freq[n] EXCEPT ![t] = @ + 1]
    BY DEF FreqOK, NoteUse
  <2>2. freq'[n] \in [FuncTypes -> Int] /\ Changed(freq[n], freq'[n], t, 1)
    BY <2>1 DEF Changed
  <2>3. AllTypes(freq'[n]) = AllTypes(freq[n]) + 1
    BY <2>1, <2>2, FourChange
  <2> QED
    BY <2>3, CountsOnNodes DEF UsesOn, AllTypes
<1>2. Frequencies = SumFunctionOnSet(f, Nodes) /\ Frequencies' = SumFunctionOnSet(g, Nodes)
  BY DEF Frequencies
<1> HIDE DEF f, g
<1>3. SumFunctionOnSet(g, Nodes) = SumFunctionOnSet(f, Nodes) + Cardinality(Nodes)
  BY <1>1, NodesFinite, SumAllUp
<1>4. SumFunctionOnSet(f, Nodes) \in Int
  BY <1>1, NodesFinite, SumTypes
<1> QED
  BY <1>2, <1>3, <1>4, NodesFinite

\* CountersBalance without its bound on uses, which TLC needs to find them.
TotalUses == Frequencies + Evicted
Balanced ==
  /\ Evicted >= 0
  /\ \E uses \in Nat : servedNum + Pending <= uses /\ NodeNum * uses = TotalUses

LEMMA BalanceBound == TypeOK /\ Balanced => CountersBalance
<1> SUFFICES ASSUME TypeOK, Balanced PROVE CountersBalance
  OBVIOUS
<1>1. PICK uses \in Nat : servedNum + Pending <= uses /\ NodeNum * uses = TotalUses
  BY DEF Balanced
<1>2. \A a, b \in Nat : b # 0 => a <= b * a
  <2> SUFFICES ASSUME NEW a \in Nat, NEW b \in Nat, b # 0
               PROVE  a <= b * a
    OBVIOUS
  <2>1. b * a = (b - 1) * a + a /\ (b - 1) * a \in Nat
    OBVIOUS
  <2> QED
    BY <2>1
<1>3. NodeNum \in Nat /\ NodeNum # 0
  OBVIOUS
<1>4. uses <= NodeNum * uses /\ NodeNum * uses \in Nat
  BY <1>2, <1>3
<1>5. uses \in (servedNum + Pending)..TotalUses
  <2>1. servedNum + Pending \in Nat
    BY DEF TypeOK, Pending
  <2> QED
    BY <1>1, <1>4, <2>1
<1> QED
  BY <1>1, <1>5 DEF Balanced, CountersBalance, TotalUses

\* A step that is no placement, and one that is.
LEMMA BalanceStays ==
  ASSUME Balanced, servedNum' + Pending' <= servedNum + Pending,
         servedNum + Pending \in Nat, servedNum' + Pending' \in Nat,
         Evicted' >= 0, TotalUses' = TotalUses
  PROVE  Balanced'
<1>1. PICK uses \in Nat : servedNum + Pending <= uses /\ NodeNum * uses = TotalUses
  BY DEF Balanced
<1>2. servedNum' + Pending' <= uses /\ NodeNum * uses = TotalUses'
  BY <1>1
<1> QED
  BY <1>1, <1>2 DEF Balanced

LEMMA BalanceGrows ==
  ASSUME Balanced, servedNum' + Pending' <= servedNum + Pending + 1,
         servedNum + Pending \in Nat, servedNum' + Pending' \in Nat,
         Evicted' >= 0, TotalUses' = TotalUses + NodeNum
  PROVE  Balanced'
<1>1. PICK uses \in Nat : servedNum + Pending <= uses /\ NodeNum * uses = TotalUses
  BY DEF Balanced
<1>2. servedNum' + Pending' <= uses + 1
  BY <1>1
<1>3. NodeNum * (uses + 1) = NodeNum * uses + NodeNum
  BY NodeNumAssumption
<1>4. NodeNum * (uses + 1) = TotalUses'
  BY <1>1, <1>3
<1>5. uses + 1 \in Nat
  OBVIOUS
<1> QED
  BY <1>2, <1>4, <1>5 DEF Balanced

LEMMA NextBalanced == TypeOK /\ Balanced /\ [Next]_vars => Balanced'
<1> SUFFICES ASSUME TypeOK, Balanced, [Next]_vars PROVE Balanced'
  OBVIOUS
<1>1. TypeOK' /\ FreqOK /\ FreqOK'
  BY NextType, FreqType
<1>2. /\ servedNum \in Nat /\ servedNum' \in Nat /\ coldNum \in Nat
      /\ servedNum + Pending \in Nat /\ servedNum' + Pending' \in Nat
      /\ Pending \in {0, 1} /\ Pending' \in {0, 1}
  BY <1>1 DEF TypeOK, Pending
<1>3. Containers \in Int /\ Frequencies \in Int /\ Evicted >= 0
  <2>1. IsFiniteSet(Nodes)
    BY NodesFinite
  <2> DEFINE f == [n \in Nodes |-> ContainersOn(n)]
             g == [n \in Nodes |-> UsesOn(n)]
  <2>2. \A n \in Nodes : f[n] \in Int /\ g[n] \in Int
    BY <1>1, CountsOnNodes
  <2>3. Containers = SumFunctionOnSet(f, Nodes) /\ Frequencies = SumFunctionOnSet(g, Nodes)
    BY DEF Containers, Frequencies
  <2> HIDE DEF f, g
  <2> QED
    BY <2>1, <2>2, <2>3, SumTypes DEF Balanced
<1>4. 0 \in Int /\ 1 \in Int /\ 1 \in Nodes /\ 1 \in FuncTypes
  BY DEF Nodes, FuncTypes
<1>5. ASSUME NEW n \in Nodes, NEW t \in FuncTypes, Activate(n, t), coldNum' = coldNum,
             servedNum' + Pending' <= servedNum + Pending + 1
      PROVE  Balanced'
  <2>1. ContainersMove(n, t, 0)
    <3>1. /\ cache' = [cache EXCEPT ![n][t] = @ - 1]
          /\ active' = [active EXCEPT ![n][t] = @ + 1]
      BY <1>5 DEF Activate
    <3>2. /\ cache'[n][t] = cache[n][t] - 1 /\ active'[n][t] = active[n][t] + 1
          /\ cache[n][t] \in Nat /\ active[n][t] \in Nat
      BY <1>1, <3>1 DEF FreqOK, CountsOK
    <3>3. ASSUME NEW m \in Nodes, NEW u \in FuncTypes, m # n \/ u # t
          PROVE  cache'[m][u] = cache[m][u] /\ active'[m][u] = active[m][u]
      BY <1>1, <3>1, <3>3 DEF FreqOK, CountsOK
    <3>4. cache'[n][t] + active'[n][t] = cache[n][t] + active[n][t] + 0
      <4>1. \A a, b \in Nat : (a - 1) + (b + 1) = a + b + 0
        OBVIOUS
      <4> QED
        BY <3>2, <4>1
    <3>5. \A m \in Nodes, u \in FuncTypes : m # n \/ u # t =>
            cache'[m][u] + active'[m][u] = cache[m][u] + active[m][u]
      BY <3>3
    <3> QED
      BY <3>4, <3>5 DEF ContainersMove
  <2>2. Containers' = Containers
    BY <1>1, <1>3, <1>4, <2>1, ContainersChange
  <2>3. Frequencies' = Frequencies + NodeNum
    BY <1>1, <1>5, UsesRise DEF Activate
  <2>4. Evicted' >= 0 /\ TotalUses' = TotalUses + NodeNum
    BY <1>2, <1>3, <1>5, <2>2, <2>3 DEF Evicted, TotalUses
  <2> QED
    BY <1>2, <1>5, <2>4, BalanceGrows
<1>6. ASSUME UNCHANGED <<cache, active, freq, coldNum>>,
             servedNum' + Pending' <= servedNum + Pending
      PROVE  Balanced'
  <2>1. Containers' = Containers /\ Frequencies' = Frequencies
    BY <1>6 DEF Containers, Frequencies, ContainersOn, UsesOn
  <2>2. Evicted' >= 0 /\ TotalUses' = TotalUses
    BY <1>3, <1>6, <2>1 DEF Evicted, TotalUses
  <2> QED
    BY <1>2, <1>6, <2>2, BalanceStays
<1>7. ASSUME NEW t \in FuncTypes, NEW n \in Nodes, PlaceToCurrent(t, n)
      PROVE  Balanced'
  <2>1. servedNum' = servedNum + 1 /\ coldNum' = coldNum /\ req' = req
    BY <1>7 DEF PlaceToCurrent, Serve, control
  <2>2. Pending' = Pending
    BY <2>1 DEF Pending
  <2> QED
    BY <1>2, <1>5, <1>7, <2>1, <2>2 DEF PlaceToCurrent
<1>8. ASSUME NEW t \in FuncTypes, NEW n \in Nodes, ScanNeighbours(t, n)
      PROVE  Balanced'
  <2>1. Pending' = 0
    BY <1>8 DEF ScanNeighbours, Pending
  <2> QED
    BY <1>2, <1>6, <1>8, <2>1 DEF ScanNeighbours, resources
<1>9. ASSUME NEW n \in Nodes, PlaceToNeighbour(n)
      PROVE  Balanced'
  <2>1. pc = "neighbours" /\ Activate(n, req.type) /\ UNCHANGED outcome
    BY <1>9 DEF PlaceToNeighbour, Visit
  <2>2. req.type \in FuncTypes
    BY <2>1, ReqType
  <2>3. coldNum' = coldNum /\ servedNum' = servedNum
    BY <2>1 DEF outcome
  <2>4. servedNum' + Pending' <= servedNum + Pending + 1
    <3>1. \A a \in Nat, p, q \in {0, 1} : a + q <= a + p + 1
      OBVIOUS
    <3> QED
      BY <1>2, <2>3, <3>1
  <2> QED
    BY <1>5, <2>1, <2>2, <2>3, <2>4
<1>10. ASSUME NEW n \in Nodes, SkipNeighbour(n)
       PROVE  Balanced'
  BY <1>2, <1>6, <1>10 DEF SkipNeighbour, Visit, Pending, resources, outcome
<1>11. CASE ServedByNeighbour
  <2>1. /\ servedNum' = servedNum + 1 /\ coldNum' = coldNum /\ UNCHANGED resources
        /\ Pending = 1 /\ Pending' = 0
    BY <1>11 DEF ServedByNeighbour, Serve, Return, NoRequest, Pending
  <2> QED
    BY <1>2, <1>6, <2>1 DEF resources
<1>12. CASE NoNeighbour
  BY <1>2, <1>6, <1>12 DEF NoNeighbour, Pending, resources, outcome
<1>13. CASE CreateToCurrent
  <2> DEFINE i == req.ingress
             t == req.type
  <2>1. i \in Nodes /\ t \in FuncTypes
    BY <1>13, ReqType DEF CreateToCurrent
  <2>2. /\ cache' = cache /\ active' = [active EXCEPT ![i][t] = @ + 1]
        /\ NoteUse(t) /\ coldNum' = coldNum + 1 /\ servedNum' = servedNum + 1
        /\ Pending' = 0
    BY <1>13 DEF CreateToCurrent, Serve, Return, NoRequest, Pending
  <2> HIDE DEF i, t
  <2>3. ContainersMove(i, t, 1)
    <3>1. /\ cache' = cache /\ active'[i][t] = active[i][t] + 1
          /\ cache[i][t] \in Nat /\ active[i][t] \in Nat
      BY <1>1, <2>1, <2>2 DEF FreqOK, CountsOK
    <3>2. ASSUME NEW m \in Nodes, NEW u \in FuncTypes, m # i \/ u # t
          PROVE  active'[m][u] = active[m][u]
      BY <1>1, <2>1, <2>2, <3>2 DEF FreqOK, CountsOK
    <3> QED
      BY <3>1, <3>2 DEF ContainersMove
  <2>4. Containers' = Containers + 1
    BY <1>1, <1>4, <2>1, <2>3, ContainersChange
  <2>5. Frequencies' = Frequencies + NodeNum
    BY <1>1, <2>1, <2>2, UsesRise
  <2>6. Evicted' >= 0 /\ TotalUses' = TotalUses + NodeNum
    BY <1>2, <1>3, <2>2, <2>4, <2>5 DEF Evicted, TotalUses
  <2>7. servedNum' + Pending' <= servedNum + Pending + 1
    BY <1>2, <2>2
  <2> QED
    BY <1>2, <2>6, <2>7, BalanceGrows
<1>14. ASSUME NEW t \in FuncTypes, Evict(t)
       PROVE  Balanced'
  <2> DEFINE i == req.ingress
  <2>1. i \in Nodes
    BY <1>14, ReqType DEF Evict, Draw
  <2>2. /\ cache' = [cache EXCEPT ![i][t] = @ - 1] /\ active' = active
        /\ freq' = [freq EXCEPT ![i][t] = @ - 1]
        /\ coldNum' = coldNum /\ servedNum' = servedNum /\ Pending' = Pending
    BY <1>14 DEF Evict, Pending, outcome
  <2> HIDE DEF i
  <2>3. -1 \in Int
    OBVIOUS
  <2>4. ContainersMove(i, t, -1)
    BY <1>1, <2>1, <2>2 DEF ContainersMove, FreqOK, CountsOK
  <2>5. UsesMove(i, t, -1)
    BY <1>1, <2>1, <2>2 DEF UsesMove, Changed, FreqOK
  <2>6. Containers' = Containers + (-1)
    BY <1>1, <2>1, <2>3, <2>4, ContainersChange
  <2>7. Frequencies' = Frequencies + (-1)
    BY <1>1, <2>1, <2>3, <2>5, UsesChange
  <2>8. Evicted' = Evicted + 1 /\ Evicted \in Int
    <3>1. Containers' = Containers - 1
      BY <1>3, <2>6
    <3>2. Evicted' = coldNum - (Containers - 1)
      BY <2>2, <3>1 DEF Evicted
    <3> QED
      BY <1>2, <1>3, <3>2 DEF Evicted
  <2>9. Evicted' >= 0 /\ TotalUses' = TotalUses
    BY <1>3, <2>7, <2>8 DEF TotalUses
  <2> QED
    BY <1>2, <2>2, <2>9, BalanceStays
<1>15. CASE Unserved
  <2>1. Pending' = 0
    BY <1>15 DEF Unserved, Return, NoRequest, Pending
  <2> QED
    BY <1>2, <1>6, <1>15, <2>1 DEF Unserved, resources, outcome
<1>16. CASE UpdateCache
  <2>1. /\ UNCHANGED <<freq, coldNum, servedNum>> /\ Pending' = Pending
        /\ ContainersMove(1, 1, 0)
    BY <1>1, <1>4, <1>16
    DEF UpdateCache, NoContainer, ContainersMove, FreqOK, CountsOK, Pending, control
  <2>2. Containers' = Containers
    BY <1>1, <1>3, <1>4, <2>1, ContainersChange
  <2>3. Frequencies' = Frequencies
    BY <2>1 DEF Frequencies, UsesOn
  <2>4. Evicted' >= 0 /\ TotalUses' = TotalUses
    BY <1>3, <2>1, <2>2, <2>3 DEF Evicted, TotalUses
  <2> QED
    BY <1>2, <2>1, <2>4, BalanceStays
<1>17. CASE UNCHANGED vars
  BY <1>2, <1>6, <1>17 DEF vars, resources, control, outcome, Pending
<1> QED
  BY <1>7, <1>8, <1>9, <1>10, <1>11, <1>12, <1>13, <1>14, <1>15, <1>16, <1>17
  DEF Next, Step, Terminating, DrewOwnType, NothingToDelete, TriesExhausted

LEMMA InitBalanced == Init => Balanced
<1> SUFFICES ASSUME Init PROVE Balanced
  OBVIOUS
<1> DEFINE f == [n \in Nodes |-> ContainersOn(n)]
           g == [n \in Nodes |-> UsesOn(n)]
<1>1. \A n \in Nodes : f[n] = 0 /\ g[n] = 0
  BY DEF Init, NoContainer, ContainersOn, UsesOn, FuncTypes
<1>2. Containers = SumFunctionOnSet(f, Nodes) /\ Frequencies = SumFunctionOnSet(g, Nodes)
  BY DEF Containers, Frequencies
<1> HIDE DEF f, g
<1>3. Containers = 0 /\ Frequencies = 0
  <2>1. \A n \in Nodes : f[n] \in Nat /\ f[n] <= 0 /\ g[n] \in Nat /\ g[n] <= 0
    BY <1>1
  <2>2. /\ SumFunctionOnSet(f, Nodes) <= Cardinality(Nodes) * 0
        /\ SumFunctionOnSet(g, Nodes) <= Cardinality(Nodes) * 0
    BY <2>1, NodesFinite, SumBound
  <2>3. SumFunctionOnSet(f, Nodes) \in Nat /\ SumFunctionOnSet(g, Nodes) \in Nat
    BY <2>1, NodesFinite, SumTypes
  <2>4. Cardinality(Nodes) * 0 = 0
    BY NodesFinite
  <2> QED
    BY <1>2, <2>2, <2>3, <2>4
<1>4. servedNum = 0 /\ coldNum = 0 /\ Pending = 0
  BY DEF Init, NoRequest, Pending
<1>5. NodeNum * 0 = 0
  BY NodeNumAssumption
<1> QED
  BY <1>3, <1>4, <1>5 DEF Balanced, TotalUses, Evicted

\* The cold starts, the containers held, the frequencies of all nodes and the
\* served requests account for one another at all times: no container is lost
\* or entered twice, no placement or eviction left out of the books.
THEOREM CountersAlwaysBalance == Spec => []CountersBalance
<1>1. TypeOK /\ Balanced /\ [Next]_vars => (TypeOK /\ Balanced)'
  BY NextType, NextBalanced
<1> QED
  BY InitType, InitBalanced, BalanceBound, <1>1, PTL DEF Spec

-----------------------------------------------------------------------------
(***************************************************************************)
(* The eviction loop of createToCurrent.                                   *)
(***************************************************************************)

LEMMA SmallestSizeBound ==
  /\ SmallestSize \in Nat \ {0}
  /\ \A t \in FuncTypes : SmallestSize <= Size[t]
<1> DEFINE Sizes == {Size[t] : t \in FuncTypes}
<1>1. \E s \in Sizes : \A t \in FuncTypes : s <= Size[t]
  <2>1. \A t \in FuncTypes : Size[t] \in Nat /\ Size[t] \in Sizes
    OBVIOUS
  <2>2. \E u \in FuncTypes : \A t \in {1, 2} : Size[u] <= Size[t]
    BY <2>1 DEF FuncTypes
  <2>3. \E u \in FuncTypes : \A t \in {1, 2, 3} : Size[u] <= Size[t]
    BY <2>1, <2>2 DEF FuncTypes
  <2>4. \E u \in FuncTypes : \A t \in {1, 2, 3, 4} : Size[u] <= Size[t]
    BY <2>1, <2>3 DEF FuncTypes
  <2> QED
    BY <2>1, <2>4 DEF FuncTypes
<1>2. SmallestSize \in Sizes /\ \A t \in FuncTypes : SmallestSize <= Size[t]
  BY <1>1 DEF SmallestSize
<1> QED
  BY <1>2

\* Outside the loop its count is 0, inside it the evictions have paid off.
EvictionInv == /\ pc # "create" => tries = 0
               /\ EvictionsPayOff

LEMMA NextEviction ==
  TypeOK /\ MemoryConserved /\ EvictionInv /\ [Next]_vars => EvictionInv'
<1> SUFFICES ASSUME TypeOK, MemoryConserved, EvictionInv, [Next]_vars
             PROVE  EvictionInv'
  OBVIOUS
<1> USE DEF EvictionInv, EvictionsPayOff
<1>1. SmallestSize \in Nat /\ SmallestSize' = SmallestSize
  BY SmallestSizeBound DEF SmallestSize
<1>2. CASE ServedByNeighbour \/ CreateToCurrent \/ Unserved
  BY <1>2 DEF ServedByNeighbour, CreateToCurrent, Unserved, Return
<1>3. ASSUME pc' # "create", pc # "create", tries' = tries
      PROVE  EvictionInv'
  BY <1>3
<1>4. CASE NoNeighbour
  <2>1. tries' = 0 /\ pc' = "create" /\ mem' = mem /\ req' = req /\ pc = "neighbours"
    BY <1>4 DEF NoNeighbour, resources
  <2>2. req.ingress \in Nodes /\ mem[req.ingress] >= 0
    BY <2>1, ReqType DEF MemoryConserved
  <2> QED
    BY <1>1, <2>1, <2>2
<1>5. ASSUME NEW t \in FuncTypes, Evict(t)
      PROVE  EvictionInv'
  <2> DEFINE i == req.ingress
  <2>1. i \in Nodes /\ Size[t] \in Nat /\ SmallestSize <= Size[t]
    BY <1>5, ReqType, SmallestSizeBound DEF Evict, Draw
  <2>2. tries \in Nat /\ mem \in [Nodes -> Int]
    BY DEF TypeOK
  <2>3. /\ pc = "create" /\ pc' = "create" /\ req' = req
        /\ mem'[i] = mem[i] + Size[t] /\ tries' = tries + 1
    BY <1>5, <2>1, <2>2 DEF Evict, Refund, Draw
  <2>4. tries * SmallestSize <= mem[i]
    BY <2>3
  <2>5. (tries + 1) * SmallestSize = tries * SmallestSize + SmallestSize
    BY <1>1, <2>2
  <2>6. tries * SmallestSize \in Int /\ mem[i] \in Int
    BY <1>1, <2>1, <2>2
  <2>7. (tries + 1) * SmallestSize <= mem[i] + Size[t]
    BY <1>1, <2>1, <2>4, <2>5, <2>6
  <2> QED
    BY <1>1, <2>3, <2>7
<1>6. CASE UNCHANGED vars
  <2>1. pc' = pc /\ tries' = tries /\ mem' = mem /\ req' = req
    BY <1>6 DEF vars, control, resources
  <2> QED
    BY <1>1, <2>1
<1> QED
  BY <1>2, <1>3, <1>4, <1>5, <1>6
  DEF Next, Step, Terminating, DrewOwnType, NothingToDelete, TriesExhausted,
      PlaceToCurrent, ScanNeighbours, TakeRequest, PlaceToNeighbour, SkipNeighbour,
      Visit, UpdateCache, control

LEMMA InitEviction == Init => EvictionInv
BY DEF Init, EvictionInv, EvictionsPayOff

\* Every round of the loop that evicts frees at least the smallest container.
THEOREM EvictionLoopPaysOff == Spec => []EvictionsPayOff
<1>1. TypeOK /\ MemoryConserved /\ EvictionInv /\ [Next]_vars
        => (TypeOK /\ MemoryConserved /\ EvictionInv)'
  BY NextType, NextMemory, NextEviction
<1>2. EvictionInv => EvictionsPayOff
  BY DEF EvictionInv
<1> QED
  BY InitType, InitMemory, InitEviction, <1>1, <1>2, PTL DEF Spec

\* The limit of 1000 rounds never ends the loop of createToCurrent when no
\* container is 1000 times the size of another (332 and 55 in the code).
THEOREM CountNeverEndsTheLoop ==
  ASSUME \A t \in FuncTypes : Size[t] <= MaxTries * SmallestSize
  PROVE  Spec => []~(pc = "create" /\ Size[req.type] > mem[req.ingress] /\ tries = MaxTries)
<1> DEFINE Exhausted ==
      pc = "create" /\ Size[req.type] > mem[req.ingress] /\ tries = MaxTries
<1>1. TypeOK /\ EvictionsPayOff => ~ Exhausted
  <2> SUFFICES ASSUME TypeOK, EvictionsPayOff, Exhausted PROVE FALSE
    OBVIOUS
  <2>1. req.type \in FuncTypes /\ req.ingress \in Nodes
    BY ReqType
  <2>2. Size[req.type] <= MaxTries * SmallestSize
    BY <2>1
  <2>3. MaxTries * SmallestSize <= mem[req.ingress]
    BY DEF EvictionsPayOff
  <2>4. MaxTries * SmallestSize \in Int /\ Size[req.type] \in Int
        /\ mem[req.ingress] \in Int
    BY <2>1, SmallestSizeBound DEF TypeOK
  <2> QED
    BY <2>2, <2>3, <2>4
<1> QED
  BY TypeCorrect, EvictionLoopPaysOff, <1>1, PTL

-----------------------------------------------------------------------------
(***************************************************************************)
(* How much of the request file deployRequests walks over.                 *)
(***************************************************************************)
\* The slots of workload w that are over are deployed, those to come and
\* those behind the last one the loop will reach are as the file has them.
Walked(w) ==
  /\ lastSlot = MapSize(w)
  /\ \A s \in Slots : s < slot => NoDemand(todo[s])
  /\ \A s \in Slots : s > slot \/ s > lastSlot => todo[s] = w[s]

LEMMA NextWalked ==
  ASSUME NEW w, TypeOK, Walked(w), [Next]_vars
  PROVE  Walked(w)'
<1>0. /\ slot \in Int /\ lastSlot \in Int
      /\ todo \in [Slots -> [FuncTypes -> [Nodes -> Nat]]]
      /\ \A s \in Slots : s \in Int
  BY DEF TypeOK, Slots
<1>1. ASSUME NEW t \in FuncTypes, NEW n \in Nodes, TakeRequest(t, n)
      PROVE  Walked(w)'
  <2>1. /\ slot' = slot /\ lastSlot' = lastSlot /\ slot <= lastSlot
        /\ todo' = [todo EXCEPT ![slot][t][n] = @ - 1]
    BY <1>1 DEF TakeRequest
  <2>2. \A s \in Slots : s # slot => todo'[s] = todo[s]
    BY <1>0, <2>1
  <2>3. \A s \in Slots : s < slot \/ s > slot \/ s > lastSlot => s # slot
    BY <1>0, <2>1
  <2> QED
    BY <2>1, <2>2, <2>3 DEF Walked
<1>2. CASE UpdateCache
  <2>1. /\ slot' = slot + 1 /\ lastSlot' = lastSlot /\ todo' = todo
        /\ NoDemand(todo[slot])
    BY <1>2 DEF UpdateCache
  <2>2. ASSUME NEW s \in Slots
        PROVE  (s < slot + 1 => s < slot \/ s = slot) /\ (s > slot + 1 => s > slot)
    <3>1. s \in Int
      BY <1>0
    <3> QED
      BY <1>0, <3>1
  <2> QED
    BY <2>1, <2>2 DEF Walked
<1>3. ASSUME UNCHANGED progress
      PROVE  Walked(w)'
  BY <1>3 DEF Walked, progress
<1> QED
  BY <1>1, <1>2, <1>3
  DEF Next, Step, Terminating, DrewOwnType, NothingToDelete, TriesExhausted,
      PlaceToCurrent, ScanNeighbours, PlaceToNeighbour, SkipNeighbour, Visit,
      ServedByNeighbour, NoNeighbour, CreateToCurrent, Evict, Unserved, vars

\* What is left of w when the walk ends: all of the slots behind the first
\* MapSize(w), and as many of them hold requests as there are gaps before.
LeftOut(w) ==
  /\ \A s \in 1..MapSize(w) : NoDemand(todo[s])
  /\ \A s \in Slots \ (1..MapSize(w)) : todo[s] = w[s]
  /\ Cardinality({s \in Slots : ~ NoDemand(todo[s])})
       = Cardinality({s \in 1..MapSize(w) : NoDemand(w[s])})

LEMMA LeftOutAtEnd ==
  ASSUME NEW w, TypeOK, Walked(w), Done
  PROVE  LeftOut(w)
<1> DEFINE F == 1..MapSize(w)
           A == {s \in Slots : ~ NoDemand(w[s])}
<1>1. MapSize(w) \in Nat /\ MapSize(w) <= SlotNum /\ SlotNum \in Nat
  BY MapSizeBound, SlotNumAssumption
<1>2. lastSlot = MapSize(w) /\ slot = MapSize(w) + 1
  BY DEF Walked, Done
<1>3. F \subseteq Slots
  BY <1>1 DEF Slots
<1>4. \A s \in F : NoDemand(todo[s])
  <2>1. \A s \in F : s \in Slots /\ s < MapSize(w) + 1
    BY <1>1, <1>3
  <2> QED
    BY <1>2, <2>1 DEF Walked
<1>5. \A s \in Slots \ F : todo[s] = w[s]
  <2>1. \A s \in Slots \ F : s > MapSize(w)
    BY <1>1 DEF Slots
  <2> QED
    BY <1>2, <2>1 DEF Walked
<1>6. IsFiniteSet(F) /\ Cardinality(F) = MapSize(w)
  <2>1. 1 \in Int /\ MapSize(w) \in Int
    BY <1>1
  <2>2. IsFiniteSet(F) /\ Cardinality(F) = IF 1 > MapSize(w) THEN 0 ELSE MapSize(w) - 1 + 1
    BY <2>1, FS_Interval
  <2> QED
    BY <1>1, <2>2
<1>7. IsFiniteSet(A) /\ Cardinality(A) = MapSize(w)
  <2>1. IsFiniteSet(Slots)
    <3>1. 1 \in Int /\ SlotNum \in Int
      OBVIOUS
    <3> QED
      BY <3>1, FS_Interval DEF Slots
  <2> QED
    BY <2>1, FS_Subset DEF MapSize
<1>8. {s \in Slots : ~ NoDemand(todo[s])} = A \ F
  BY <1>4, <1>5
<1>9. {s \in F : NoDemand(w[s])} = F \ A
  BY <1>3
<1>10. LeftOut(w) <=> /\ \A s \in F : NoDemand(todo[s])
                      /\ \A s \in Slots \ F : todo[s] = w[s]
                      /\ Cardinality({s \in Slots : ~ NoDemand(todo[s])})
                           = Cardinality({s \in F : NoDemand(w[s])})
  BY DEF LeftOut
<1> HIDE DEF F, A
<1>11. Cardinality(A \ F) = Cardinality(F \ A)
  BY <1>6, <1>7, SameSizeDifference
<1> QED
  BY <1>4, <1>5, <1>8, <1>9, <1>10, <1>11

\* Exactly how far deployRequests fails EveryRequestDeployed.  Its loop bound
\* m_request_map.size() counts the slots with requests, not the last of them:
\* for every request file w, all requests of the first MapSize(w) slots are
\* deployed, none of the others, and as many slots with requests are left out
\* as there are empty slots among the first MapSize(w).
THEOREM GapsLeaveSlotsOut ==
  ASSUME NEW w \in Workloads
  PROVE  Spec /\ todo = w => [](Done => LeftOut(w))
<1>1. Init /\ todo = w => Walked(w)
  <2> SUFFICES ASSUME Init, todo = w
               PROVE  Walked(w)
    OBVIOUS
  <2>1. slot = 1 /\ lastSlot = MapSize(w)
    BY DEF Init
  <2>2. \A s \in Slots : ~ (s < 1)
    BY DEF Slots
  <2> QED
    BY <2>1, <2>2 DEF Walked
<1>2. TypeOK /\ Walked(w) /\ [Next]_vars => (TypeOK /\ Walked(w))'
  BY NextType, NextWalked
<1>3. TypeOK /\ Walked(w) => (Done => LeftOut(w))
  BY LeftOutAtEnd
<1> QED
  BY InitType, <1>1, <1>2, <1>3, PTL DEF Spec

-----------------------------------------------------------------------------
(***************************************************************************)
(* The counts of printResult.                                              *)
(***************************************************************************)
\* A request in the middle of its deployment is counted but not yet served.
CountsAgree ==
  /\ coldNum <= servedNum
  /\ servedNum <= totalNum
  /\ pc # "next" => servedNum < totalNum

LEMMA NextCounts == TypeOK /\ CountsAgree /\ [Next]_vars => CountsAgree'
<1> SUFFICES ASSUME TypeOK, CountsAgree, [Next]_vars PROVE CountsAgree'
  OBVIOUS
<1>1. totalNum \in Nat /\ servedNum \in Nat /\ coldNum \in Nat
  BY DEF TypeOK
<1> USE <1>1 DEF CountsAgree
<1>2. ASSUME NEW t \in FuncTypes, NEW n \in Nodes, PlaceToCurrent(t, n)
      PROVE  CountsAgree'
  BY <1>2 DEF PlaceToCurrent, TakeRequest, Serve, control
<1>3. ASSUME NEW t \in FuncTypes, NEW n \in Nodes, ScanNeighbours(t, n)
      PROVE  CountsAgree'
  BY <1>3 DEF ScanNeighbours, TakeRequest
<1>4. CASE ServedByNeighbour
  BY <1>4 DEF ServedByNeighbour, Serve, Return
<1>5. CASE CreateToCurrent
  BY <1>5 DEF CreateToCurrent, Serve, Return
<1>6. CASE Unserved
  BY <1>6 DEF Unserved, Return, outcome
<1>7. ASSUME pc' = pc \/ pc # "next", UNCHANGED <<totalNum, servedNum, coldNum>>
      PROVE  CountsAgree'
  BY <1>7
<1> QED
  BY <1>2, <1>3, <1>4, <1>5, <1>6, <1>7
  DEF Next, Step, Terminating, PlaceToNeighbour, SkipNeighbour, Visit, NoNeighbour,
      Evict, Draw, DrewOwnType, NothingToDelete, TriesExhausted, UpdateCache, vars,
      control, outcome

\* Before the first cold start no node holds a container, so that no request
\* can have been deployed but by going on to that cold start.
NothingBeforeColdStart ==
  coldNum = 0 =>
    /\ \A n \in Nodes :
         /\ mem[n] = MemCap
         /\ \A t \in FuncTypes : cache[n][t] = 0 /\ active[n][t] = 0
    /\ req.host = 0
    /\ pc = "next" => totalNum = 0

LEMMA NextColdStart ==
  ASSUME \A t \in FuncTypes : Size[t] <= MemCap
  PROVE  TypeOK /\ NothingBeforeColdStart /\ [Next]_vars
           => NothingBeforeColdStart'
<1> SUFFICES ASSUME TypeOK, NothingBeforeColdStart, [Next]_vars, coldNum' = 0
             PROVE  NothingBeforeColdStart'
  BY DEF NothingBeforeColdStart
<1> USE DEF NothingBeforeColdStart
<1>1. coldNum \in Nat
  BY DEF TypeOK
<1>2. ASSUME NEW t \in FuncTypes, NEW n \in Nodes, PlaceToCurrent(t, n)
      PROVE  FALSE
  <2>1. coldNum = 0 /\ cache[n][t] > 0
    BY <1>2 DEF PlaceToCurrent, Serve
  <2> QED
    BY <2>1
<1>3. ASSUME NEW t \in FuncTypes, NEW n \in Nodes, ScanNeighbours(t, n)
      PROVE  NothingBeforeColdStart'
  <2>1. /\ coldNum = 0 /\ cache' = cache /\ active' = active /\ mem' = mem
        /\ req'.host = 0 /\ pc' # "next"
    BY <1>3 DEF ScanNeighbours, resources
  <2> QED
    BY <2>1
<1>4. ASSUME NEW n \in Nodes, PlaceToNeighbour(n)
      PROVE  FALSE
  <2>1. req.type \in FuncTypes
    BY <1>4, ReqType DEF PlaceToNeighbour, Visit
  <2>2. coldNum = 0 /\ cache[n][req.type] > 0
    BY <1>4 DEF PlaceToNeighbour, Visit, Usable, outcome
  <2> QED
    BY <2>1, <2>2
<1>5. ServedByNeighbour => FALSE
  BY DEF ServedByNeighbour, Serve
<1>6. ~ CreateToCurrent
  BY <1>1 DEF CreateToCurrent, Serve
<1>7. ASSUME NEW t \in FuncTypes, Evict(t)
      PROVE  FALSE
  <2>1. req.ingress \in Nodes
    BY <1>7, ReqType DEF Evict, Draw
  <2>2. coldNum = 0 /\ cache[req.ingress][t] > 0
    BY <1>7 DEF Evict, outcome
  <2> QED
    BY <2>1, <2>2
<1>8. ASSUME pc = "create", Size[req.type] > mem[req.ingress], coldNum = 0
      PROVE  FALSE
  <2>1. req.type \in FuncTypes /\ req.ingress \in Nodes
    BY <1>8, ReqType
  <2>2. mem[req.ingress] = MemCap /\ Size[req.type] <= MemCap
    BY <1>8, <2>1
  <2>3. MemCap \in Int /\ Size[req.type] \in Int
    BY <2>1
  <2> QED
    BY <1>8, <2>2, <2>3
<1>9. ~ DrewOwnType /\ ~ TriesExhausted
  BY <1>8 DEF DrewOwnType, Draw, TriesExhausted, Unserved, outcome
<1>10. \A t \in FuncTypes : ~ NothingToDelete(t)
  BY <1>8 DEF NothingToDelete, Draw, Unserved, outcome
<1>11. CASE UpdateCache
  <2>1. /\ coldNum = 0 /\ mem' = mem /\ pc' = pc /\ req' = req
        /\ totalNum' = totalNum /\ active' = NoContainer
    BY <1>11 DEF UpdateCache, control
  <2>2. \A n \in Nodes, t \in FuncTypes :
          cache'[n][t] = cache[n][t] + active[n][t]
    BY <1>11 DEF UpdateCache
  <2>3. \A n \in Nodes, t \in FuncTypes : cache'[n][t] = 0
    BY <2>1, <2>2
  <2> QED
    BY <2>1, <2>3 DEF NoContainer
<1>12. ASSUME UNCHANGED <<cache, active, mem, req, totalNum, coldNum>>,
              pc' = pc \/ pc' = "create"
       PROVE  NothingBeforeColdStart'
  BY <1>12
<1> QED
  BY <1>2, <1>3, <1>4, <1>5, <1>6, <1>7, <1>9, <1>10, <1>11, <1>12
  DEF Next, Step, Terminating, SkipNeighbour, Visit, NoNeighbour, vars, resources,
      control, outcome

\* printResult divides by zero only without requests, and counts a cold start
\* wherever a request was deployed.
THEOREM Rates == Spec => []RatesDefined
<1>1. CASE \A t \in FuncTypes : Size[t] <= MemCap
  <2>1. Init => CountsAgree /\ NothingBeforeColdStart
    BY DEF Init, CountsAgree, NothingBeforeColdStart, NoContainer, NoRequest
  <2>2. TypeOK /\ CountsAgree /\ NothingBeforeColdStart /\ [Next]_vars
          => (TypeOK /\ CountsAgree /\ NothingBeforeColdStart)'
    BY <1>1, NextType, NextCounts, NextColdStart
  <2>3. TypeOK /\ CountsAgree /\ NothingBeforeColdStart => RatesDefined
    BY DEF TypeOK, CountsAgree, NothingBeforeColdStart, RatesDefined, Done
  <2> QED
    BY InitType, <2>1, <2>2, <2>3, PTL DEF Spec
<1>2. CASE ~ \A t \in FuncTypes : Size[t] <= MemCap
  <2>1. RatesDefined
    BY <1>2 DEF RatesDefined
  <2> QED
    BY <2>1, PTL
<1> QED
  BY <1>1, <1>2

-----------------------------------------------------------------------------
(***************************************************************************)
(* Cold starts and warm containers.                                        *)
(***************************************************************************)
\* As long as no node has taken the request, there was no warm container for
\* it on the nodes passed so far.
PassedNoWarm ==
  /\ pc # "next" /\ req.host = 0 =>
       /\ cache[req.ingress][req.type] = 0
       /\ \A n \in Nodes : (\E i \in 1..Len(ds) : n = ds[i]) \/ NoWarm(n)
  /\ pc = "create" => ds = <<>> /\ req.host = 0

LEMMA NextPassed == TypeOK /\ PassedNoWarm /\ [Next]_vars => PassedNoWarm'
<1> SUFFICES ASSUME TypeOK, PassedNoWarm, [Next]_vars PROVE PassedNoWarm'
  OBVIOUS
<1> USE DEF PassedNoWarm
<1>1. ASSUME pc' = "next"
      PROVE  PassedNoWarm'
  BY <1>1
<1>2. ASSUME NEW t \in FuncTypes, NEW n \in Nodes, ScanNeighbours(t, n)
      PROVE  PassedNoWarm'
  <2>1. PICK slice \in SortedPhyNodes(n) : ds' = Tail(slice)
    BY <1>2 DEF ScanNeighbours
  <2>2. /\ pc' = "neighbours" /\ req'.type = t /\ req'.ingress = n
        /\ cache' = cache /\ cache[n][t] = 0
    BY <1>2 DEF ScanNeighbours, resources
  <2>3. ASSUME NEW m \in Nodes, ~ \E i \in 1..Len(ds') : m = ds'[i]
        PROVE  NoWarm(m)'
    <3>1. m = slice[1]
      BY <2>1, <2>3, SortedPhyNodesCover
    <3>2. Dist[n][m] = 0
      BY <3>1, SortedPhyNodesCover
    <3> QED
      BY <2>2, <3>2 DEF NoWarm
  <2> QED
    BY <2>2, <2>3
<1>3. ASSUME NEW n \in Nodes, PlaceToNeighbour(n)
      PROVE  PassedNoWarm'
  <2>1. pc = "neighbours" /\ pc' = pc /\ req' = [req EXCEPT !.host = n]
    BY <1>3 DEF PlaceToNeighbour, Visit
  <2>2. req \in Request
    BY <2>1, ReqType
  <2>3. req'.host = n /\ n # 0
    BY <2>1, <2>2 DEF Request, Nodes
  <2> QED
    BY <2>1, <2>3
<1>4. ASSUME NEW n \in Nodes, SkipNeighbour(n)
      PROVE  PassedNoWarm'
  <2>1. /\ pc = "neighbours" /\ pc' = pc /\ req' = req /\ cache' = cache
        /\ ds # <<>> /\ n = ds[1] /\ ds' = Tail(ds)
    BY <1>4 DEF SkipNeighbour, Visit, resources
  <2>2. ds \in Seq(Nodes) /\ Len(ds) \in Nat \ {0}
    BY <2>1 DEF TypeOK
  <2>3. /\ Len(Tail(ds)) = Len(ds) - 1
        /\ \A i \in 1..(Len(ds) - 1) : Tail(ds)[i] = ds[i + 1]
    BY <2>2
  <2>4. ASSUME NEW i \in 1..Len(ds), i # 1
        PROVE  i - 1 \in 1..Len(ds') /\ ds'[i - 1] = ds[i]
    <3>1. i - 1 \in 1..(Len(ds) - 1) /\ (i - 1) + 1 = i
      BY <2>2, <2>4
    <3> QED
      BY <2>1, <2>3, <3>1
  <2>5. ASSUME req.host = 0
        PROVE  NoWarm(n)
    <3>1. req.type \in FuncTypes /\ cache[n][req.type] \in Nat
      BY <2>1, ReqType DEF TypeOK, PerContainer
    <3>2. CASE n = req.ingress
      BY <2>1, <2>5, <3>2 DEF NoWarm
    <3>3. CASE n # req.ingress
      BY <1>4, <3>1, <3>3 DEF SkipNeighbour, Usable, NoWarm
    <3> QED
      BY <3>2, <3>3
  <2>6. ASSUME NEW m \in Nodes, req.host = 0, ~ \E i \in 1..Len(ds') : m = ds'[i]
        PROVE  NoWarm(m)'
    <3>1. NoWarm(m)
      <4>1. ASSUME NEW i \in 1..Len(ds), m = ds[i]
            PROVE  NoWarm(m)
        <5>1. i = 1
          BY <2>4, <2>6, <4>1
        <5> QED
          BY <2>1, <2>5, <2>6, <4>1, <5>1
      <4> QED
        BY <2>1, <2>6, <4>1
    <3> QED
      BY <2>1, <3>1 DEF NoWarm
  <2> QED
    BY <2>1, <2>5, <2>6
<1>5. CASE NoNeighbour
  <2>1. /\ pc = "neighbours" /\ req' = req /\ req.host = 0 /\ cache' = cache
        /\ ds' = ds /\ ds = <<>>
    BY <1>5 DEF NoNeighbour, resources
  <2> QED
    BY <2>1 DEF NoWarm
<1>6. ASSUME NEW t \in FuncTypes, Evict(t)
      PROVE  PassedNoWarm'
  <2>1. req.ingress \in Nodes /\ req.type \in FuncTypes
    BY <1>6, ReqType DEF Evict, Draw
  <2>2. \A n \in Nodes : cache'[n][req.type] = cache[n][req.type]
    BY <1>6, <2>1 DEF Evict, TypeOK, PerContainer
  <2>3. pc = "create" /\ pc' = pc /\ req' = req /\ ds' = ds
    BY <1>6 DEF Evict, Draw
  <2> QED
    BY <2>1, <2>2, <2>3 DEF NoWarm
<1>7. CASE UNCHANGED vars
  <2>1. pc' = pc /\ req' = req /\ ds' = ds /\ cache' = cache
    BY <1>7 DEF vars, resources, control
  <2> QED
    BY <2>1 DEF NoWarm
<1> QED
  BY <1>1, <1>2, <1>3, <1>4, <1>5, <1>6, <1>7
  DEF Next, Step, Terminating, PlaceToCurrent, TakeRequest, ServedByNeighbour,
      CreateToCurrent, DrewOwnType, NothingToDelete, TriesExhausted, Unserved,
      Return, UpdateCache, control

\* No container is created while a warm one of its type is near enough.
THEOREM ColdIsLastResort == Spec => ColdOnlyWithoutWarm
<1> DEFINE A == coldNum' > coldNum => \A n \in Nodes : NoWarm(n)
<1>1. TypeOK /\ PassedNoWarm /\ [Next]_vars => A
  <2> SUFFICES ASSUME TypeOK, PassedNoWarm, [Next]_vars, coldNum' > coldNum
               PROVE  A
    OBVIOUS
  <2>1. coldNum \in Nat
    BY DEF TypeOK
  <2>2. CreateToCurrent
    <3>1. \A t \in FuncTypes, n \in Nodes :
            ~ PlaceToCurrent(t, n) /\ ~ ScanNeighbours(t, n)
      BY <2>1 DEF PlaceToCurrent, ScanNeighbours, Serve
    <3>2. \A n \in Nodes : ~ PlaceToNeighbour(n) /\ ~ SkipNeighbour(n)
      BY <2>1 DEF PlaceToNeighbour, SkipNeighbour, Visit, outcome
    <3>3. ~ ServedByNeighbour /\ ~ NoNeighbour
      BY <2>1 DEF ServedByNeighbour, NoNeighbour, Serve, outcome
    <3>4. \A t \in FuncTypes : ~ Evict(t) /\ ~ NothingToDelete(t)
      BY <2>1 DEF Evict, NothingToDelete, Unserved, outcome
    <3>5. ~ DrewOwnType /\ ~ TriesExhausted /\ ~ UpdateCache
      BY <2>1 DEF DrewOwnType, TriesExhausted, Unserved, UpdateCache, outcome
    <3>6. ~ UNCHANGED vars
      BY <2>1 DEF vars, outcome
    <3> QED
      BY <3>1, <3>2, <3>3, <3>4, <3>5, <3>6 DEF Next, Step, Terminating
  <2>3. pc = "create"
    BY <2>2 DEF CreateToCurrent
  <2> QED
    BY <2>3 DEF PassedNoWarm
<1>2. Init => PassedNoWarm
  BY DEF Init, PassedNoWarm
<1>3. TypeOK /\ PassedNoWarm /\ [Next]_vars => (TypeOK /\ PassedNoWarm)'
  BY NextType, NextPassed
<1> QED
  BY InitType, <1>1, <1>2, <1>3, PTL DEF Spec, ColdOnlyWithoutWarm

-----------------------------------------------------------------------------
(***************************************************************************)
(* The implementation of ContainerPool: every step of the scheduler is a   *)
(* step of the pool or leaves the containers alone.                        *)
(***************************************************************************)

LEMMA PoolInit == Init => Pool!Init
BY DEF Init, NoContainer, Pool!Init, Pool!None, Pool!FuncTypes, FuncTypes

LEMMA PoolNext ==
  TypeOK /\ MemoryConserved /\ [Next]_vars => [Pool!Next]_<<cache, active>>
<1> SUFFICES ASSUME TypeOK, MemoryConserved, [Next]_vars
             PROVE  [Pool!Next]_<<cache, active>>
  OBVIOUS
<1>0. Pool!FuncTypes = FuncTypes
  BY DEF Pool!FuncTypes, FuncTypes
<1>1. ASSUME NEW n \in Nodes, NEW t \in FuncTypes, cache[n][t] > 0, Activate(n, t)
      PROVE  Pool!Next
  <2>1. Pool!Reuse(n, t)
    BY <1>1 DEF Activate, Pool!Reuse
  <2> QED
    BY <1>0, <2>1 DEF Pool!Next
<1>2. ASSUME NEW t \in FuncTypes, NEW n \in Nodes, PlaceToCurrent(t, n)
      PROVE  Pool!Next
  BY <1>1, <1>2 DEF PlaceToCurrent
<1>3. ASSUME NEW n \in Nodes, PlaceToNeighbour(n)
      PROVE  Pool!Next
  <2>1. req.type \in FuncTypes
    BY <1>3, ReqType DEF PlaceToNeighbour, Visit
  <2> QED
    BY <1>1, <1>3, <2>1 DEF PlaceToNeighbour, Usable
<1>4. CASE CreateToCurrent
  <2> DEFINE i == req.ingress
             t == req.type
  <2>1. i \in Nodes /\ t \in FuncTypes
    BY <1>4, ReqType DEF CreateToCurrent
  <2>2. /\ Size[t] <= mem[i]
        /\ cache' = cache
        /\ active' = [active EXCEPT ![i][t] = @ + 1]
    BY <1>4 DEF CreateToCurrent
  <2> HIDE DEF i, t
  <2>3. Pool!Used(i) = Resident(i)
    BY DEF Pool!Used, Pool!Count, Resident
  <2>4. Resident(i) + Size[t] <= MemCap
    <3>1. mem[i] + Resident(i) = MemCap /\ mem[i] \in Int /\ Resident(i) \in Int
          /\ Size[t] \in Int
      BY <2>1, ResidentType DEF MemoryConserved, TypeOK
    <3> QED
      BY <2>2, <3>1
  <2>5. Pool!Create(i, t)
    BY <2>2, <2>3, <2>4 DEF Pool!Create
  <2> QED
    BY <1>0, <2>1, <2>5 DEF Pool!Next
<1>5. ASSUME NEW t \in FuncTypes, Evict(t)
      PROVE  Pool!Next
  <2>1. req.ingress \in Nodes
    BY <1>5, ReqType DEF Evict, Draw
  <2>2. Pool!Evict(req.ingress, t)
    BY <1>5 DEF Evict, Pool!Evict
  <2> QED
    BY <1>0, <2>1, <2>2 DEF Pool!Next
<1>6. CASE UpdateCache
  <2>1. Pool!Recycle
    BY <1>0, <1>6 DEF UpdateCache, NoContainer, Pool!Recycle, Pool!None, Pool!Count
  <2> QED
    BY <2>1 DEF Pool!Next
<1>7. ASSUME UNCHANGED <<cache, active>>
      PROVE  [Pool!Next]_<<cache, active>>
  BY <1>7
<1> QED
  BY <1>2, <1>3, <1>4, <1>5, <1>6, <1>7
  DEF Next, Step, Terminating, DrewOwnType, NothingToDelete, TriesExhausted,
      ScanNeighbours, SkipNeighbour, ServedByNeighbour, NoNeighbour, Unserved,
      vars, resources

\* MyAlgorithm implements ContainerPool: containers are created only where
\* they fit, and only idle ones are reused or evicted.
THEOREM ImplementsPool == Spec => PoolSpec
<1>1. Spec => []TypeOK /\ []MemoryConserved
  BY TypeCorrect, MemoryIsConserved
<1> QED
  BY PoolInit, PoolNext, <1>1, PTL DEF Spec, PoolSpec, Pool!Spec

-----------------------------------------------------------------------------
(***************************************************************************)
(* How long deployRequests may run.                                        *)
(***************************************************************************)
\* The requests and the slots still to come, and what is left of a request's
\* own loops; no request takes more steps than Round.
Requests == TotalOf(Slots, FuncTypes, Nodes, todo)
Ahead == Requests + (lastSlot + 1 - slot)
Round == NodeNum + MaxTries + 2
RoundLeft ==
  IF pc = "neighbours" THEN MaxTries + 2 + Len(ds)
  ELSE IF pc = "create" THEN MaxTries + 1 - tries
  ELSE 0
StepsLeft == Round * Ahead + RoundLeft

LEMMA IndexSets == IsFiniteSet(Slots) /\ IsFiniteSet(FuncTypes) /\ IsFiniteSet(Nodes)
<1>1. 1 \in Int /\ 4 \in Int /\ SlotNum \in Int /\ NodeNum \in Int
  OBVIOUS
<1> QED
  BY <1>1, FS_Interval DEF Slots, FuncTypes, Nodes

LEMMA StepsLeftType ==
  ASSUME TypeOK
  PROVE  /\ Requests \in Nat /\ Ahead \in Nat /\ lastSlot + 1 - slot \in Nat
         /\ RoundLeft \in Nat /\ Round \in Nat /\ StepsLeft \in Nat
<1>1. IsFiniteSet(Slots) /\ IsFiniteSet(FuncTypes) /\ IsFiniteSet(Nodes)
  BY IndexSets
<1>2. Requests \in Nat
  BY <1>1, TotalType DEF Requests, TypeOK, Table
<1>3. lastSlot + 1 - slot \in Nat
  BY DEF TypeOK
<1>4. Ahead \in Nat
  BY <1>2, <1>3 DEF Ahead
<1>5. RoundLeft \in Nat
  BY DEF RoundLeft, TypeOK
<1>6. Round \in Nat
  BY DEF Round
<1>7. \A a, b, c \in Nat : a * b + c \in Nat
  OBVIOUS
<1>8. StepsLeft \in Nat
  BY <1>4, <1>5, <1>6, <1>7 DEF StepsLeft
<1> QED
  BY <1>2, <1>3, <1>4, <1>5, <1>6, <1>8

\* A request that is taken up is one less to come.
LEMMA RequestTaken ==
  ASSUME TypeOK, NEW t \in FuncTypes, NEW n \in Nodes, TakeRequest(t, n)
  PROVE  /\ Requests' = Requests - 1 /\ Requests' \in Nat
         /\ lastSlot' = lastSlot /\ slot' = slot
<1>1. slot \in Slots /\ todo \in Table(Slots, FuncTypes, Nodes)
  <2>1. slot \in Slots
    BY DEF TypeOK, TakeRequest, Slots
  <2>2. todo \in Table(Slots, FuncTypes, Nodes)
    BY DEF TypeOK, Table
  <2> QED
    BY <2>1, <2>2
<1>2. todo[slot][t][n] > 0
  BY DEF TakeRequest, FirstRequest
<1>3. todo[slot][t][n] - 1 \in Nat
  BY <1>1, <1>2 DEF Table
<1>4. todo' = Put(todo, slot, t, n, todo[slot][t][n] - 1)
  BY DEF TakeRequest, Put
<1> DEFINE v == todo[slot][t][n] - 1
<1>5. IsPut(Slots, FuncTypes, Nodes, todo', todo, slot, t, n, v)
  <2>1. v \in Nat /\ todo' = Put(todo, slot, t, n, v)
    BY <1>3, <1>4
  <2> HIDE DEF v
  <2> QED
    BY <1>1, <2>1, PutCount
<1>6. IsFiniteSet(Slots) /\ IsFiniteSet(FuncTypes) /\ IsFiniteSet(Nodes)
  BY IndexSets
<1>7. /\ TotalOf(Slots, FuncTypes, Nodes, todo') = TotalOf(Slots, FuncTypes, Nodes, todo) - 1
      /\ TotalOf(Slots, FuncTypes, Nodes, todo') \in Nat
  BY <1>1, <1>2, <1>5, <1>6, TotalDrops
<1> QED
  BY <1>7 DEF Requests, TakeRequest

\* A step that ends a request or a slot: one less of them is to come.
LEMMA RoundEnds ==
  ASSUME TypeOK, Ahead' \in Nat, Ahead = Ahead' + 1,
         RoundLeft' \in Nat, RoundLeft' < Round
  PROVE  StepsLeft' < StepsLeft
<1>1. RoundLeft \in Nat /\ Round \in Nat
  BY StepsLeftType
<1>2. Round * Ahead' + RoundLeft' < Round * (Ahead' + 1) + RoundLeft
  BY <1>1, RoundGone
<1>3. StepsLeft' = Round * Ahead' + RoundLeft'
  BY DEF StepsLeft, Round
<1> QED
  BY <1>2, <1>3 DEF StepsLeft

\* A step within a request leaves the rest of them alone.
LEMMA RoundGoesOn ==
  ASSUME TypeOK, UNCHANGED progress, RoundLeft' \in Nat, RoundLeft' < RoundLeft
  PROVE  StepsLeft' < StepsLeft
<1>1. Ahead \in Nat /\ RoundLeft \in Nat /\ Round \in Nat
  BY StepsLeftType
<1>2. Ahead' = Ahead
  BY DEF progress, Requests, Ahead
<1>3. StepsLeft' = Round * Ahead + RoundLeft'
  BY <1>2 DEF StepsLeft, Round
<1>4. \A b, i, j \in Nat : j < i => b + j < b + i
  OBVIOUS
<1>5. Round * Ahead \in Nat
  BY <1>1
<1>6. Round * Ahead + RoundLeft' < Round * Ahead + RoundLeft
  BY <1>1, <1>4, <1>5
<1> QED
  BY <1>3, <1>6 DEF StepsLeft

LEMMA StepsDrop == TypeOK /\ [Next]_vars => StepsLeft' < StepsLeft \/ UNCHANGED vars
<1> SUFFICES ASSUME TypeOK, [Next]_vars, ~ UNCHANGED vars
             PROVE  StepsLeft' < StepsLeft
  OBVIOUS
<1>1. MaxTries \in Nat /\ NodeNum \in Nat \ {0} /\ tries \in 0..MaxTries
      /\ ds \in Seq(Nodes)
  BY DEF TypeOK
<1>0. /\ Requests \in Nat /\ lastSlot \in Nat /\ slot \in Nat
      /\ slot <= lastSlot + 1
  BY StepsLeftType DEF TypeOK
<1>2. ASSUME NEW t \in FuncTypes, NEW n \in Nodes, PlaceToCurrent(t, n)
      PROVE  StepsLeft' < StepsLeft
  <2>1. Requests' = Requests - 1 /\ Requests' \in Nat
        /\ lastSlot' = lastSlot /\ slot' = slot /\ slot <= lastSlot /\ pc' = "next"
    BY <1>2, RequestTaken DEF PlaceToCurrent, TakeRequest, control
  <2>2. RoundLeft' = 0 /\ RoundLeft' \in Nat /\ RoundLeft' < Round
    BY <1>1, <2>1 DEF RoundLeft, Round
  <2>3. Ahead' \in Nat /\ Ahead = Ahead' + 1
    BY <2>1, <1>0 DEF Ahead
  <2> QED
    BY <2>2, <2>3, RoundEnds
<1>3. ASSUME NEW t \in FuncTypes, NEW n \in Nodes, ScanNeighbours(t, n)
      PROVE  StepsLeft' < StepsLeft
  <2>1. Requests' = Requests - 1 /\ Requests' \in Nat
        /\ lastSlot' = lastSlot /\ slot' = slot /\ slot <= lastSlot /\ pc' = "neighbours"
    BY <1>3, RequestTaken DEF ScanNeighbours, TakeRequest
  <2>2. PICK slice \in SortedPhyNodes(n) : ds' = Tail(slice)
    BY <1>3 DEF ScanNeighbours
  <2>3. slice \in Seq(Nodes) /\ Len(slice) = NodeNum
    BY <1>1 DEF SortedPhyNodes
  <2>4. Len(ds') = NodeNum - 1
    BY <1>1, <2>2, <2>3
  <2>5. RoundLeft' = MaxTries + 2 + Len(ds')
    BY <2>1 DEF RoundLeft
  <2>6. RoundLeft' \in Nat /\ RoundLeft' < Round
    BY <1>1, <2>4, <2>5 DEF Round
  <2>7. Ahead' \in Nat /\ Ahead = Ahead' + 1
    BY <2>1, <1>0 DEF Ahead
  <2> QED
    BY <2>6, <2>7, RoundEnds
<1>4. ASSUME NEW n \in Nodes, Visit(n)
      PROVE  StepsLeft' < StepsLeft
  <2>1. pc = "neighbours" /\ pc' = "neighbours" /\ UNCHANGED progress
        /\ ds # <<>> /\ ds' = Tail(ds)
    BY <1>4 DEF Visit
  <2>2. Len(ds) \in Nat \ {0} /\ Len(ds') = Len(ds) - 1
    BY <1>1, <2>1
  <2>3. RoundLeft = MaxTries + 2 + Len(ds) /\ RoundLeft' = MaxTries + 2 + Len(ds')
    BY <2>1 DEF RoundLeft
  <2> QED
    BY <1>1, <2>1, <2>2, <2>3, RoundGoesOn
<1>5. ASSUME Return, UNCHANGED progress, pc # "next"
      PROVE  StepsLeft' < StepsLeft
  <2>1. RoundLeft' = 0
    BY <1>5 DEF Return, RoundLeft
  <2>2. RoundLeft \in Nat /\ RoundLeft # 0
    <3>1. pc \in {"neighbours", "create"} /\ Len(ds) \in Nat
      BY <1>5 DEF TypeOK
    <3> QED
      BY <1>1, <3>1 DEF RoundLeft
  <2> QED
    BY <1>5, <2>1, <2>2, RoundGoesOn
<1>6. CASE NoNeighbour
  <2>1. pc = "neighbours" /\ pc' = "create" /\ tries' = tries /\ UNCHANGED progress
    BY <1>6 DEF NoNeighbour
  <2>2. RoundLeft = MaxTries + 2 + Len(ds) /\ RoundLeft' = MaxTries + 1 - tries
        /\ Len(ds) \in Nat
    BY <1>1, <2>1 DEF RoundLeft
  <2> QED
    BY <1>1, <2>1, <2>2, RoundGoesOn
<1>7. ASSUME NEW t \in FuncTypes, Evict(t)
      PROVE  StepsLeft' < StepsLeft
  <2>1. pc = "create" /\ pc' = pc /\ tries' = tries + 1 /\ tries < MaxTries
        /\ UNCHANGED progress
    BY <1>7 DEF Evict, Draw
  <2>2. RoundLeft = MaxTries + 1 - tries /\ RoundLeft' = MaxTries + 1 - tries'
    BY <2>1 DEF RoundLeft
  <2> QED
    BY <1>1, <2>1, <2>2, RoundGoesOn
<1>8. CASE UpdateCache
  <2>1. /\ slot <= lastSlot /\ slot' = slot + 1 /\ lastSlot' = lastSlot
        /\ todo' = todo /\ pc = "next" /\ pc' = "next"
    BY <1>8 DEF UpdateCache, control
  <2>2. RoundLeft' = 0 /\ RoundLeft' \in Nat /\ RoundLeft' < Round
    BY <1>1, <2>1 DEF RoundLeft, Round
  <2>3. Requests' = Requests
    BY <2>1 DEF Requests
  <2>4. Ahead' \in Nat /\ Ahead = Ahead' + 1
    BY <2>1, <2>3, <1>0 DEF Ahead
  <2> QED
    BY <2>2, <2>4, RoundEnds
<1> QED
  BY <1>2, <1>3, <1>4, <1>5, <1>6, <1>7, <1>8
  DEF Next, Step, Terminating, PlaceToNeighbour, SkipNeighbour, ServedByNeighbour,
      CreateToCurrent, DrewOwnType, NothingToDelete, TriesExhausted, Unserved, Draw

\* deployRequests cannot go on for ever, whatever it draws: each of its steps
\* lowers a natural number, and from the start it has Round steps for every
\* request of the file and every slot it walks over.
THEOREM StepsAreBounded ==
  Spec => [](StepsLeft \in Nat) /\ [][StepsLeft' < StepsLeft]_vars
<1>1. TypeOK => StepsLeft \in Nat
  BY StepsLeftType
<1>2. TypeOK /\ [Next]_vars => [StepsLeft' < StepsLeft]_vars
  BY StepsDrop
<1> QED
  BY <1>1, <1>2, TypeCorrect, PTL DEF Spec

=============================================================================
