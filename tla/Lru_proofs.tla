------------------------------ MODULE Lru_proofs ------------------------------
(***************************************************************************)
(* Proofs about the scheduler of Lru.                                      *)
(***************************************************************************)
EXTENDS Lru, NatSums

USE NodeNumAssumption, SlotNumAssumption, SizeAssumption, MemCapAssumption,
    WorkloadsAssumption, MaxTriesAssumption

\* The number of slots with requests is at most the number of slots.
LEMMA MapSizeBound ==
  ASSUME NEW w
  PROVE  MapSize(w) \in 0..SlotNum
<1>1. {s \in Slots : ~ NoDemand(w[s])} \in SUBSET (1..SlotNum)
  BY DEF Slots
<1>2. SlotNum \in Nat
  BY SlotNumAssumption
<1> QED
  BY <1>1, <1>2, Chosen DEF MapSize

\* Every sorted arrangement of the nodes is a non-empty sequence of nodes.
LEMMA SortedPhyNodesType ==
  ASSUME NEW n \in Nodes, NEW slice \in SortedPhyNodes(n)
  PROVE  slice \in Seq(Nodes) /\ slice # <<>> /\ Tail(slice) \in Seq(Nodes)
<1>1. slice \in [1..NodeNum -> Nodes]
  BY DEF SortedPhyNodes
<1> QED
  BY <1>1, NodeNumAssumption, RowOfAll

\* A sorted arrangement has every node, the first one at no distance.
LEMMA SortedPhyNodesCover ==
  ASSUME NEW ingress \in Nodes, NEW slice \in SortedPhyNodes(ingress)
  PROVE  /\ \A n \in Nodes :
              n = slice[1] \/ \E i \in 1..Len(Tail(slice)) : n = Tail(slice)[i]
         /\ Dist[ingress][slice[1]] = 0
<1> DEFINE dist == [n \in Nodes |-> Dist[ingress][n]]
<1>1. IsFiniteSet(Nodes) /\ Cardinality(Nodes) = NodeNum
  <2>1. 1 \in Int /\ NodeNum \in Int
    OBVIOUS
  <2>2. IsFiniteSet(Nodes) /\ Cardinality(Nodes) = IF 1 > NodeNum THEN 0 ELSE NodeNum - 1 + 1
    BY <2>1, FS_Interval DEF Nodes
  <2> QED
    BY <2>2
<1>2. IsRow(slice, Nodes, dist, NodeNum)
  BY DEF SortedPhyNodes, IsRow
<1>3. NodeNum \in Nat \ {0} /\ dist \in [Nodes -> Nat] /\ dist[ingress] = 0
  BY NodeNumAssumption, DistAssumption, DistSelfAssumption
<1>4. dist[slice[1]] = Dist[ingress][slice[1]]
  BY <1>3 DEF SortedPhyNodes
<1> HIDE DEF dist
<1>5. Covers(slice, Nodes) /\ dist[slice[1]] = 0
  BY <1>1, <1>2, <1>3, RowCovers
<1> QED
  BY <1>4, <1>5 DEF Covers

-----------------------------------------------------------------------------
(***************************************************************************)
(* The invariants the proofs need beside the properties: a request is only *)
(* deployed in a slot that has one, and createToCurrent starts without a   *)
(* container it has evicted.                                               *)
(***************************************************************************)
InSlot == pc # "next" => slot <= lastSlot

NoneEvicted == pc # "create" => f = 0

Basic == TypeOK /\ InSlot /\ NoneEvicted

-----------------------------------------------------------------------------
(***************************************************************************)
(* What the steps do to the tables of containers and to the books.         *)
(***************************************************************************)

LEMMA PerContainerTable == PerContainer = Table(Nodes, FuncTypes, Slots)
BY DEF PerContainer, Table

\* What the deployment of an idle container does to the tables.
LEMMA ActivateEffect ==
  ASSUME TypeOK, slot \in Slots,
         NEW n \in Nodes, NEW t \in FuncTypes, Activate(n, t)
  PROVE  /\ cache' \in PerContainer
         /\ active' \in PerContainer
         /\ mem' = mem
         /\ active'[n][t][slot] = active[n][t][slot] + 1
         /\ \A m \in Nodes, y \in FuncTypes, w \in Slots :
              /\ cache'[m][y][w] <= cache[m][y][w]
              /\ ~ (m = n /\ y = t /\ w = slot) =>
                   active'[m][y][w] = active[m][y][w]
<1>1. cache \in PerContainer /\ active \in PerContainer
  BY DEF TypeOK
<1>2. PICK u \in Slots : /\ cache[n][t][u] > 0
                         /\ cache' = [cache EXCEPT ![n][t][u] = @ - 1]
  BY DEF Activate, Oldest
<1>3. \A m \in Nodes, y \in FuncTypes, w \in Slots :
        cache[m][y][w] \in Nat /\ active[m][y][w] \in Nat
  BY <1>1 DEF PerContainer
<1>4. /\ cache[n][t][u] - 1 \in Nat
      /\ cache' = Put(cache, n, t, u, cache[n][t][u] - 1)
  BY <1>2, <1>3 DEF Put
<1>5. IsPut(Nodes, FuncTypes, Slots, cache', cache, n, t, u, cache[n][t][u] - 1)
  BY <1>1, <1>4, PutCount, PerContainerTable
<1>6. \A m \in Nodes, y \in FuncTypes, w \in Slots :
        cache'[m][y][w] <= cache[m][y][w]
  BY <1>3, <1>5 DEF IsPut
<1>7. active[n][t][slot] + 1 \in Nat
  BY <1>3
<1>8. active' = Put(active, n, t, slot, active[n][t][slot] + 1)
  BY DEF Activate, Put
<1>9. IsPut(Nodes, FuncTypes, Slots, active', active, n, t, slot,
            active[n][t][slot] + 1)
  BY <1>1, <1>7, <1>8, PutCount, PerContainerTable
<1>10. mem' = mem
  BY DEF Activate
<1> QED
  BY <1>5, <1>6, <1>9, <1>10, PerContainerTable DEF IsPut

\* What the creation of a container does.
LEMMA CreateEffect ==
  ASSUME TypeOK, slot \in Slots, NEW size \in Nat, Create(size)
  PROVE  /\ req.type \in FuncTypes /\ req.ingress \in Nodes
         /\ cache' = cache
         /\ active' \in PerContainer
         /\ mem' \in [Nodes -> Int]
         /\ mem'[req.ingress] = mem[req.ingress] - size
         /\ \A m \in Nodes : m # req.ingress => mem'[m] = mem[m]
         /\ active'[req.ingress][req.type][slot]
              = active[req.ingress][req.type][slot] + 1
         /\ \A m \in Nodes, y \in FuncTypes, w \in Slots :
              ~ (m = req.ingress /\ y = req.type /\ w = slot) =>
                active'[m][y][w] = active[m][y][w]
<1>1. req.type \in FuncTypes /\ req.ingress \in Nodes
  BY DEF TypeOK, Create, Request
<1>2. active \in PerContainer /\ mem \in [Nodes -> Int]
  BY DEF TypeOK
<1>3. active[req.ingress][req.type][slot] + 1 \in Nat
  BY <1>1, <1>2 DEF PerContainer
<1>4. active' = Put(active, req.ingress, req.type, slot,
                    active[req.ingress][req.type][slot] + 1)
  BY DEF Create, Put
<1>5. IsPut(Nodes, FuncTypes, Slots, active', active, req.ingress, req.type,
            slot,
            active[req.ingress][req.type][slot] + 1)
  BY <1>1, <1>2, <1>3, <1>4, PutCount, PerContainerTable
<1>6. mem' = [mem EXCEPT ![req.ingress] = @ - size] /\ cache' = cache
  BY DEF Create
<1>7. /\ mem' \in [Nodes -> Int]
      /\ mem'[req.ingress] = mem[req.ingress] - size
      /\ \A m \in Nodes : m # req.ingress => mem'[m] = mem[m]
  BY <1>1, <1>2, <1>6
<1> QED
  BY <1>1, <1>5, <1>6, <1>7, PerContainerTable DEF IsPut

\* What an eviction does.
LEMMA DeleteEffect ==
  ASSUME TypeOK, NEW t \in FuncTypes, NEW u \in Slots, DeleteLeastUse(t, u)
  PROVE  /\ req.ingress \in Nodes
         /\ cache' \in PerContainer
         /\ mem' \in [Nodes -> Int]
         /\ mem'[req.ingress] = mem[req.ingress] + Size[t]
         /\ \A m \in Nodes : m # req.ingress => mem'[m] = mem[m]
         /\ \A m \in Nodes, y \in FuncTypes, w \in Slots :
              cache'[m][y][w] <= cache[m][y][w]
<1>1. req.ingress \in Nodes
  BY DEF TypeOK, DeleteLeastUse, Short, Request
<1>2. cache \in PerContainer /\ mem \in [Nodes -> Int]
  BY DEF TypeOK
<1>3. \A m \in Nodes, y \in FuncTypes, w \in Slots : cache[m][y][w] \in Nat
  BY <1>2 DEF PerContainer
<1>4. cache[req.ingress][t][u] > 0
  BY DEF DeleteLeastUse, Oldest
<1>5. cache[req.ingress][t][u] - 1 \in Nat
  BY <1>1, <1>3, <1>4
<1>6. cache' = Put(cache, req.ingress, t, u, cache[req.ingress][t][u] - 1)
  BY DEF DeleteLeastUse, Put
<1>7. IsPut(Nodes, FuncTypes, Slots, cache', cache, req.ingress, t, u,
            cache[req.ingress][t][u] - 1)
  BY <1>1, <1>2, <1>5, <1>6, PutCount, PerContainerTable
<1>8. \A m \in Nodes, y \in FuncTypes, w \in Slots :
        cache'[m][y][w] <= cache[m][y][w]
  BY <1>3, <1>7 DEF IsPut
<1>9. mem' = [mem EXCEPT ![req.ingress] = @ + Size[t]] /\ Size[t] \in Nat
  BY DEF DeleteLeastUse
<1>10. /\ mem' \in [Nodes -> Int]
       /\ mem'[req.ingress] = mem[req.ingress] + Size[t]
       /\ \A m \in Nodes : m # req.ingress => mem'[m] = mem[m]
  BY <1>1, <1>2, <1>9
<1> QED
  BY <1>1, <1>7, <1>8, <1>10, PerContainerTable DEF IsPut

-----------------------------------------------------------------------------
(***************************************************************************)
(* Type correctness.                                                       *)
(***************************************************************************)

LEMMA InitBasic == Init => Basic
<1> SUFFICES ASSUME Init PROVE Basic
  OBVIOUS
<1>1. lastSlot \in 0..SlotNum
  BY MapSizeBound DEF Init
<1>2. slot \in Nat \ {0} /\ slot <= lastSlot + 1
  BY <1>1 DEF Init
<1>3. cache \in PerContainer /\ active \in PerContainer
  BY DEF Init, PerContainer, NoContainer
<1>4. mem \in [Nodes -> Int] /\ hosted \in [Nodes -> [FuncTypes -> Nat]]
  BY DEF Init, NoneHosted
<1>5. todo \in [Slots -> [FuncTypes -> [Nodes -> Nat]]]
  BY DEF Init
<1>6. /\ pc = "next" /\ req = NoRequest /\ ds \in Seq(Nodes)
      /\ tries \in 0..MaxTries /\ f = 0
  BY DEF Init
<1> QED
  BY <1>1, <1>2, <1>3, <1>4, <1>5, <1>6
  DEF Basic, TypeOK, InSlot, NoneEvicted

LEMMA ServeType ==
  ASSUME TypeOK, NEW n \in Nodes, NEW t \in FuncTypes, Serve(n, t)
  PROVE  /\ hosted' \in [Nodes -> [FuncTypes -> Nat]]
         /\ hosted'[n][t] = hosted[n][t] + 1
         /\ \A m \in Nodes, y \in FuncTypes :
              ~ (m = n /\ y = t) => hosted'[m][y] = hosted[m][y]
<1>1. hosted \in [Nodes -> [FuncTypes -> Nat]]
  BY DEF TypeOK
<1>2. hosted' = [hosted EXCEPT ![n][t] = @ + 1]
  BY DEF Serve
<1>3. hosted[n] \in [FuncTypes -> Nat] /\ hosted[n][t] + 1 \in Nat
  BY <1>1
<1> QED
  BY <1>1, <1>2, <1>3

LEMMA ReturnBasic ==
  ASSUME Return
  PROVE  /\ pc' = "next" /\ req' = NoRequest /\ ds' \in Seq(Nodes)
         /\ tries' \in 0..MaxTries /\ f' = 0
BY DEF Return

LEMMA TakeRequestType ==
  ASSUME TypeOK, NEW t \in FuncTypes, NEW n \in Nodes, TakeRequest(t, n)
  PROVE  /\ slot \in Slots
         /\ pc = "next" /\ slot' = slot /\ lastSlot' = lastSlot
         /\ slot <= lastSlot
         /\ todo' \in [Slots -> [FuncTypes -> [Nodes -> Nat]]]
<1>1. slot \in Slots
  BY DEF TypeOK, TakeRequest, Slots
<1>2. todo[slot] \in [FuncTypes -> [Nodes -> Nat]] /\ todo[slot][t][n] > 0
  BY <1>1 DEF TypeOK, TakeRequest, FirstRequest
<1>3. todo' \in [Slots -> [FuncTypes -> [Nodes -> Nat]]]
  BY <1>1, <1>2 DEF TypeOK, TakeRequest
<1> QED
  BY <1>1, <1>3 DEF TakeRequest

\* While a request is deployed, req holds it and the slot is one of the file.
LEMMA ReqType ==
  ASSUME Basic, pc # "next"
  PROVE  /\ slot \in Slots
         /\ req \in Request
         /\ req.type \in FuncTypes /\ req.ingress \in Nodes
         /\ req.host \in Nodes \cup {0}
<1>1. slot \in Slots
  BY DEF Basic, TypeOK, InSlot, Slots
<1>2. req \in Request
  BY DEF Basic, TypeOK
<1> QED
  BY <1>1, <1>2 DEF Request

LEMMA CreateSize ==
  ASSUME Basic, CreateInFreeSpace \/ CreateInFreedSpace
  PROVE  \E size \in Nat : Create(size)
<1>1. CASE CreateInFreeSpace
  <2>1. req.type \in FuncTypes
    BY <1>1, ReqType DEF CreateInFreeSpace, Create
  <2>2. Size[req.type] \in Nat
    BY <2>1
  <2> QED
    BY <1>1, <2>2 DEF CreateInFreeSpace
<1>2. CASE CreateInFreedSpace
  <2>1. Size[f] \in Nat
    BY <1>2 DEF CreateInFreedSpace, Basic, TypeOK
  <2> QED
    BY <1>2, <2>1 DEF CreateInFreedSpace
<1> QED
  BY <1>1, <1>2

LEMMA NextBasic == Basic /\ [Next]_vars => Basic'
<1> SUFFICES ASSUME Basic, [Next]_vars PROVE Basic'
  OBVIOUS
<1>0. TypeOK
  BY DEF Basic
<1> USE DEF progress, control, resources
<1>1. ASSUME NEW t \in FuncTypes, NEW n \in Nodes, PlaceToCurrent(t, n)
      PROVE  Basic'
  <2>1. TakeRequest(t, n) /\ Activate(n, t) /\ Serve(n, t)
        /\ UNCHANGED control
    BY <1>1 DEF PlaceToCurrent
  <2>2. slot \in Slots
    BY <1>0, <2>1, TakeRequestType
  <2> QED
    BY <1>0, <2>1, <2>2, ActivateEffect, ServeType, TakeRequestType
    DEF Basic, TypeOK, InSlot, NoneEvicted
<1>2. ASSUME NEW t \in FuncTypes, NEW n \in Nodes, ScanNeighbours(t, n)
      PROVE  Basic'
  <2>1. TakeRequest(t, n)
    BY <1>2 DEF ScanNeighbours
  <2>2. ds' \in Seq(Nodes)
    BY <1>2, SortedPhyNodesType DEF ScanNeighbours
  <2>3. req' \in Request /\ req' # NoRequest
    BY <1>2 DEF ScanNeighbours, Request, NoRequest, Nodes
  <2> QED
    BY <1>0, <1>2, <2>1, <2>2, <2>3, TakeRequestType
    DEF Basic, TypeOK, InSlot, NoneEvicted, ScanNeighbours
<1>3. ASSUME NEW n \in Nodes, PlaceToNeighbour(n)
      PROVE  Basic'
  <2>1. pc = "neighbours" /\ ds # <<>> /\ ds' = Tail(ds)
        /\ Activate(n, req.type) /\ req' = [req EXCEPT !.host = n]
    BY <1>3 DEF PlaceToNeighbour, Visit
  <2>2. slot \in Slots /\ req \in Request /\ req.type \in FuncTypes
    BY <2>1, ReqType
  <2>3. req' \in Request /\ req'.host = n
    BY <2>1, <2>2 DEF Request
  <2>4. req' # NoRequest
    BY <2>3 DEF NoRequest, Nodes
  <2>5. ds' \in Seq(Nodes)
    BY <1>0, <2>1 DEF TypeOK
  <2>6. UNCHANGED <<pc, tries, f, progress, hosted>>
    BY <1>3 DEF PlaceToNeighbour, Visit
  <2> QED
    BY <1>0, <2>1, <2>2, <2>3, <2>4, <2>5, <2>6, ActivateEffect
    DEF Basic, TypeOK, InSlot, NoneEvicted
<1>4. ASSUME NEW n \in Nodes, SkipNeighbour(n)
      PROVE  Basic'
  <2>1. ds' \in Seq(Nodes)
    BY <1>0, <1>4 DEF SkipNeighbour, Visit, TypeOK
  <2> QED
    BY <1>0, <1>4, <2>1
    DEF Basic, TypeOK, InSlot, NoneEvicted, SkipNeighbour, Visit
<1>5. CASE ServedByNeighbour
  <2>1. req.host \in Nodes /\ req.type \in FuncTypes
    BY <1>5, ReqType DEF ServedByNeighbour
  <2> QED
    BY <1>0, <1>5, <2>1, ServeType, ReturnBasic
    DEF Basic, TypeOK, InSlot, NoneEvicted, ServedByNeighbour
<1>6. CASE NoNeighbour
  BY <1>0, <1>6 DEF Basic, TypeOK, InSlot, NoneEvicted, NoNeighbour
<1>7. ASSUME NEW size \in Nat, Create(size)
      PROVE  Basic'
  <2>1. Serve(req.ingress, req.type) /\ Return /\ UNCHANGED <<cache, progress>>
    BY <1>7 DEF Create
  <2>2. slot \in Slots
    BY <1>7, ReqType DEF Create
  <2> QED
    BY <1>0, <1>7, <2>1, <2>2, CreateEffect, ServeType, ReturnBasic
    DEF Basic, TypeOK, InSlot, NoneEvicted
<1>8. ASSUME NEW t \in FuncTypes, NEW u \in Slots, DeleteLeastUse(t, u)
      PROVE  Basic'
  <2>1. tries' \in 0..MaxTries
    <3>1. tries \in 0..MaxTries
      BY <1>0 DEF TypeOK
    <3>2. tries < MaxTries /\ tries' = tries + 1
      BY <1>8 DEF DeleteLeastUse
    <3>3. MaxTries \in Nat
      BY MaxTriesAssumption
    <3> QED
      BY <3>1, <3>2, <3>3
  <2>2. UNCHANGED <<active, progress, pc, req, ds, hosted>> /\ f' = t
        /\ pc = "create"
    BY <1>8 DEF DeleteLeastUse, Short
  <2> QED
    BY <1>0, <1>8, <2>1, <2>2, DeleteEffect
    DEF Basic, TypeOK, InSlot, NoneEvicted
<1>9. ASSUME Unserved
      PROVE  Basic'
  BY <1>0, <1>9, ReturnBasic DEF Basic, TypeOK, InSlot, NoneEvicted, Unserved
<1>10. CASE UpdateCache
  <2>1. slot' \in Nat \ {0} /\ slot' <= lastSlot + 1
    BY <1>0, <1>10 DEF TypeOK, UpdateCache
  <2>2. cache' \in PerContainer /\ active' \in PerContainer
    <3>1. \A m \in Nodes, y \in FuncTypes, w \in Slots :
            cache[m][y][w] \in Nat /\ active[m][y][w] \in Nat
      BY <1>0 DEF TypeOK, PerContainer
    <3>2. \A m \in Nodes, y \in FuncTypes, w \in Slots :
            cache[m][y][w] + active[m][y][w] \in Nat
      BY <3>1
    <3>3. cache' \in PerContainer
      BY <1>10, <3>2 DEF UpdateCache, PerContainer
    <3> QED
      BY <1>10, <3>3 DEF UpdateCache, PerContainer, NoContainer
  <2>3. hosted' \in [Nodes -> [FuncTypes -> Nat]]
    BY <1>10 DEF UpdateCache, NoneHosted
  <2> QED
    BY <1>0, <1>10, <2>1, <2>2, <2>3
    DEF Basic, TypeOK, InSlot, NoneEvicted, UpdateCache
<1>11. CASE UNCHANGED vars
  BY <1>11 DEF Basic, TypeOK, InSlot, NoneEvicted, vars
<1> QED
  BY <1>1, <1>2, <1>3, <1>4, <1>5, <1>6, <1>7, <1>8, <1>9, <1>10, <1>11,
     CreateSize
  DEF Next, Step, Terminating, NothingToDelete, TriesExhausted

THEOREM BasicInvariant == Spec => []Basic
<1>1. Init => Basic
  BY InitBasic
<1>2. Basic /\ [Next]_vars => Basic'
  BY NextBasic
<1> QED
  BY <1>1, <1>2, PTL DEF Spec

\* The state keeps its types: free memory stays a number on every node, no
\* table of containers holds a negative number, and the clock stops one
\* beyond the last slot of the request map.
THEOREM TypeCorrect == Spec => []TypeOK
<1>1. Basic => TypeOK
  BY DEF Basic
<1> QED
  BY <1>1, BasicInvariant, PTL

-----------------------------------------------------------------------------
(***************************************************************************)
(* The memory books.                                                       *)
(***************************************************************************)

LEMMA NextMemory ==
  ASSUME Basic, MemNeverNegative, [Next]_vars
  PROVE  MemNeverNegative'
<1>0. TypeOK /\ NoneEvicted
  BY DEF Basic
<1> USE DEF progress, control, resources
<1>1. ASSUME UNCHANGED mem, pc' # "create"
      PROVE  MemNeverNegative'
  BY <1>1 DEF MemNeverNegative
<1>2. ASSUME NEW t \in FuncTypes, NEW n \in Nodes, PlaceToCurrent(t, n)
      PROVE  MemNeverNegative'
  BY <1>1, <1>2 DEF PlaceToCurrent, TakeRequest, Activate
<1>3. ASSUME NEW t \in FuncTypes, NEW n \in Nodes, ScanNeighbours(t, n)
      PROVE  MemNeverNegative'
  BY <1>1, <1>3 DEF ScanNeighbours
<1>4. ASSUME NEW n \in Nodes, PlaceToNeighbour(n) \/ SkipNeighbour(n)
      PROVE  MemNeverNegative'
  BY <1>1, <1>4 DEF PlaceToNeighbour, SkipNeighbour, Visit, Activate
<1>5. CASE ServedByNeighbour
  BY <1>1, <1>5 DEF ServedByNeighbour, Return
<1>6. CASE NoNeighbour
  BY <1>0, <1>6 DEF NoNeighbour, MemNeverNegative, NoneEvicted
<1>7. ASSUME CreateInFreeSpace \/ CreateInFreedSpace
      PROVE  MemNeverNegative'
  <2>1. PICK size \in Nat : Create(size) /\ size <= mem[req.ingress]
    <3>1. CASE CreateInFreeSpace
      <4>1. req.type \in FuncTypes
        BY <3>1, ReqType DEF CreateInFreeSpace, Create
      <4>2. Size[req.type] \in Nat
        BY <4>1
      <4> QED
        BY <3>1, <4>2 DEF CreateInFreeSpace, Create
    <3>2. CASE CreateInFreedSpace
      <4>1. f \in FuncTypes
        BY <1>0, <3>2 DEF CreateInFreedSpace, TypeOK
      <4>2. Size[f] \in Nat
        BY <4>1
      <4>3. Create(Size[f]) /\ Size[f] <= mem[req.ingress]
        BY <3>2 DEF CreateInFreedSpace, Create, MemNeverNegative
      <4> QED
        BY <4>2, <4>3
    <3> QED
      BY <1>7, <3>1, <3>2
  <2>2. slot \in Slots
    BY <2>1, ReqType DEF Create
  <2>3. /\ mem'[req.ingress] = mem[req.ingress] - size
        /\ \A m \in Nodes : m # req.ingress => mem'[m] = mem[m]
        /\ req.ingress \in Nodes
    BY <1>0, <2>1, <2>2, CreateEffect
  <2>4. mem[req.ingress] \in Int
    BY <1>0, <2>3 DEF TypeOK
  <2>5. mem'[req.ingress] >= 0
    BY <2>1, <2>3, <2>4
  <2>6. \A m \in Nodes : mem'[m] >= 0
    BY <2>3, <2>5 DEF MemNeverNegative
  <2>7. pc' = "next"
    BY <2>1 DEF Create, Return
  <2> QED
    BY <2>6, <2>7 DEF MemNeverNegative
<1>8. ASSUME NEW t \in FuncTypes, NEW u \in Slots, DeleteLeastUse(t, u)
      PROVE  MemNeverNegative'
  <2>1. /\ req.ingress \in Nodes
        /\ mem'[req.ingress] = mem[req.ingress] + Size[t]
        /\ \A m \in Nodes : m # req.ingress => mem'[m] = mem[m]
    BY <1>0, <1>8, DeleteEffect
  <2>2. mem[req.ingress] \in Int /\ mem[req.ingress] >= 0 /\ Size[t] \in Nat
    BY <1>0, <2>1 DEF TypeOK, MemNeverNegative
  <2>3. f' = t /\ req' = req
    BY <1>8 DEF DeleteLeastUse
  <2>4. mem'[req.ingress] >= 0 /\ Size[t] <= mem'[req.ingress]
    BY <2>1, <2>2
  <2> QED
    BY <2>1, <2>3, <2>4 DEF MemNeverNegative
<1>9. ASSUME Unserved
      PROVE  MemNeverNegative'
  BY <1>1, <1>9 DEF Unserved, Return
<1>10. CASE UpdateCache
  BY <1>1, <1>10 DEF UpdateCache
<1>11. CASE UNCHANGED vars
  BY <1>11 DEF MemNeverNegative, vars
<1> QED
  BY <1>2, <1>3, <1>4, <1>5, <1>6, <1>7, <1>8, <1>9, <1>10, <1>11
  DEF Next, Step, Terminating, NothingToDelete, TriesExhausted

\* createToCurrent, which subtracts the size of the container evicted last,
\* never drives the free memory of a node below zero: it is only asked to
\* when it has added that size in the same call.
THEOREM MemoryStaysFree == Spec => []MemNeverNegative
<1>1. Init => MemNeverNegative
  BY DEF Init, MemNeverNegative
<1>2. Basic /\ MemNeverNegative /\ [Next]_vars => MemNeverNegative'
  BY NextMemory
<1> QED
  BY <1>1, <1>2, BasicInvariant, PTL DEF Spec

-----------------------------------------------------------------------------
(***************************************************************************)
(* Times of last use.                                                      *)
(***************************************************************************)

LEMMA NextUsed ==
  ASSUME Basic, UsedBefore, [Next]_vars
  PROVE  UsedBefore'
<1>0. TypeOK
  BY DEF Basic
<1> USE DEF progress, control, resources
\* No step but UpdateCache puts a container into the caches or moves the
\* clock, and a step makes containers busy in this slot only.
<1>1. ASSUME slot' = slot,
             \A m \in Nodes, y \in FuncTypes, w \in Slots :
               /\ cache'[m][y][w] <= cache[m][y][w]
               /\ w # slot => active'[m][y][w] = active[m][y][w]
      PROVE  UsedBefore'
  <2>1. ASSUME NEW m \in Nodes, NEW y \in FuncTypes, NEW w \in Slots,
               cache'[m][y][w] > 0
        PROVE  w < slot'
    <3>1. cache'[m][y][w] \in Int /\ cache[m][y][w] \in Nat
      BY <1>0, NextBasic DEF Basic, TypeOK, PerContainer
    <3>2. cache[m][y][w] > 0
      BY <1>1, <2>1, <3>1
    <3> QED
      BY <1>1, <3>2 DEF UsedBefore
  <2>2. ASSUME NEW m \in Nodes, NEW y \in FuncTypes, NEW w \in Slots,
               active'[m][y][w] > 0
        PROVE  w = slot'
    BY <1>1, <2>2 DEF UsedBefore
  <2> QED
    BY <2>1, <2>2 DEF UsedBefore
<1>2. \A m \in Nodes, y \in FuncTypes, w \in Slots : cache[m][y][w] \in Nat
  BY <1>0 DEF TypeOK, PerContainer
<1>3. ASSUME UNCHANGED <<slot, cache, active>>
      PROVE  UsedBefore'
  BY <1>3 DEF UsedBefore
<1>4. ASSUME slot \in Slots, slot' = slot,
             NEW n \in Nodes, NEW t \in FuncTypes, Activate(n, t)
      PROVE  UsedBefore'
  BY <1>0, <1>1, <1>4, ActivateEffect
<1>5. ASSUME NEW t \in FuncTypes, NEW n \in Nodes, PlaceToCurrent(t, n)
      PROVE  UsedBefore'
  <2>1. TakeRequest(t, n) /\ Activate(n, t)
    BY <1>5 DEF PlaceToCurrent
  <2> QED
    BY <1>0, <1>4, <2>1, TakeRequestType
<1>6. ASSUME NEW t \in FuncTypes, NEW n \in Nodes, ScanNeighbours(t, n)
      PROVE  UsedBefore'
  BY <1>3, <1>6 DEF ScanNeighbours, TakeRequest
<1>7. ASSUME NEW n \in Nodes, PlaceToNeighbour(n)
      PROVE  UsedBefore'
  <2>1. Activate(n, req.type) /\ slot' = slot /\ pc = "neighbours"
    BY <1>7 DEF PlaceToNeighbour, Visit
  <2> QED
    BY <1>4, <2>1, ReqType
<1>8. ASSUME NEW n \in Nodes, SkipNeighbour(n)
      PROVE  UsedBefore'
  BY <1>3, <1>8 DEF SkipNeighbour, Visit
<1>9. CASE ServedByNeighbour \/ NoNeighbour
  BY <1>3, <1>9 DEF ServedByNeighbour, NoNeighbour
<1>10. ASSUME NEW size \in Nat, Create(size)
       PROVE  UsedBefore'
  <2>1. slot' = slot /\ pc = "create"
    BY <1>10 DEF Create
  <2>2. slot \in Slots
    BY <2>1, ReqType
  <2> QED
    BY <1>0, <1>1, <1>2, <1>10, <2>1, <2>2, CreateEffect
<1>11. ASSUME NEW t \in FuncTypes, NEW u \in Slots, DeleteLeastUse(t, u)
       PROVE  UsedBefore'
  <2>1. UNCHANGED <<slot, active>>
    BY <1>11 DEF DeleteLeastUse
  <2> QED
    BY <1>0, <1>1, <1>11, <2>1, DeleteEffect
<1>12. ASSUME Unserved
       PROVE  UsedBefore'
  BY <1>3, <1>12 DEF Unserved
<1>13. CASE UpdateCache
  <2>1. slot' = slot + 1
    BY <1>13 DEF UpdateCache
  <2>2. \A m \in Nodes, y \in FuncTypes, w \in Slots :
          /\ cache'[m][y][w] = cache[m][y][w] + active[m][y][w]
          /\ active'[m][y][w] = 0
    BY <1>13 DEF UpdateCache, NoContainer
  <2>3. \A m \in Nodes, y \in FuncTypes, w \in Slots :
          cache[m][y][w] \in Nat /\ active[m][y][w] \in Nat
    BY <1>0 DEF TypeOK, PerContainer
  <2>4. slot \in Nat
    BY <1>0 DEF TypeOK
  <2>5. ASSUME NEW m \in Nodes, NEW y \in FuncTypes, NEW w \in Slots,
               cache'[m][y][w] > 0
        PROVE  w < slot'
    <3>1. cache[m][y][w] > 0 \/ active[m][y][w] > 0
      BY <2>2, <2>3, <2>5
    <3>2. w < slot \/ w = slot
      BY <3>1 DEF UsedBefore
    <3> QED
      BY <2>1, <2>4, <3>2 DEF Slots
  <2> QED
    BY <2>2, <2>5 DEF UsedBefore
<1>14. CASE UNCHANGED vars
  BY <1>3, <1>14 DEF vars
<1> QED
  BY <1>5, <1>6, <1>7, <1>8, <1>9, <1>10, <1>11, <1>12, <1>13, <1>14,
     CreateSize
  DEF Next, Step, Terminating, NothingToDelete, TriesExhausted

\* Whatever is busy was last used in this slot and whatever is idle before
\* it: no use leaves lastUseTime behind, so that deleteLeastUse evicts in the
\* order of use.
THEOREM EvictionOrder == Spec => []UsedBefore
<1>1. Init => UsedBefore
  BY DEF Init, UsedBefore, NoContainer
<1>2. Basic /\ UsedBefore /\ [Next]_vars => UsedBefore'
  BY NextUsed
<1> QED
  BY <1>1, <1>2, BasicInvariant, PTL DEF Spec

-----------------------------------------------------------------------------
(***************************************************************************)
(* A container for every request.                                          *)
(***************************************************************************)

\* OwnContainer without its LET.
Own(n, t) ==
  hosted[n][t] + Placed(n, t) > 0 =>
    slot \in Slots /\ hosted[n][t] + Placed(n, t) <= active[n][t][slot]

LEMMA OwnForm == OwnContainer <=> \A n \in Nodes, t \in FuncTypes : Own(n, t)
BY DEF OwnContainer, Own

LEMMA NextOwn ==
  ASSUME Basic, OwnContainer, [Next]_vars
  PROVE  OwnContainer'
<1> USE DEF progress, control, resources
<1>0. /\ TypeOK /\ TypeOK'
      /\ \A n \in Nodes, t \in FuncTypes : Own(n, t)
  BY NextBasic, OwnForm DEF Basic
<1>1. SUFFICES ASSUME NEW m \in Nodes, NEW y \in FuncTypes
               PROVE  Own(m, y)'
  BY DEF OwnContainer, Own, Placed
<1>2. /\ hosted[m][y] \in Nat /\ hosted'[m][y] \in Nat
      /\ \A w \in Slots : active[m][y][w] \in Nat /\ active'[m][y][w] \in Nat
  BY <1>0 DEF TypeOK, PerContainer
<1>3. Own(m, y)
  BY <1>0
\* A request not placed counts nowhere.
<1>4. ASSUME NEW r, r = NoRequest \/ r.host = 0
      PROVE  ~ (r.host = m /\ r.type = y)
  BY <1>4 DEF NoRequest, Nodes, FuncTypes
<1>5. ASSUME UNCHANGED <<slot, active, hosted, req>>
      PROVE  Own(m, y)'
  BY <1>3, <1>5 DEF Own, Placed
<1>6. ASSUME NEW t \in FuncTypes, NEW n \in Nodes, PlaceToCurrent(t, n)
      PROVE  Own(m, y)'
  <2>1. TakeRequest(t, n) /\ Activate(n, t) /\ Serve(n, t) /\ req' = req
    BY <1>6 DEF PlaceToCurrent
  <2>2. slot \in Slots /\ slot' = slot /\ req = NoRequest
    BY <1>0, <2>1, TakeRequestType DEF TypeOK
  <2>3. Placed(m, y) = 0 /\ Placed(m, y)' = 0
    BY <1>4, <2>1, <2>2 DEF Placed
  <2>4. CASE m = n /\ y = t
    <3>1. active'[m][y][slot] = active[m][y][slot] + 1
      BY <1>0, <2>1, <2>2, <2>4, ActivateEffect
    <3>2. hosted'[m][y] = hosted[m][y] + 1
      BY <1>0, <2>1, <2>4, ServeType
    <3> QED
      BY <1>2, <1>3, <2>2, <2>3, <3>1, <3>2 DEF Own
  <2>5. CASE ~ (m = n /\ y = t)
    <3>1. active'[m][y][slot] = active[m][y][slot]
      BY <1>0, <2>1, <2>2, <2>5, ActivateEffect
    <3>2. hosted'[m][y] = hosted[m][y]
      BY <1>0, <2>1, <2>5, ServeType
    <3> QED
      BY <1>2, <1>3, <2>2, <2>3, <3>1, <3>2 DEF Own
  <2> QED
    BY <2>4, <2>5
<1>7. ASSUME NEW t \in FuncTypes, NEW n \in Nodes, ScanNeighbours(t, n)
      PROVE  Own(m, y)'
  <2>1. TakeRequest(t, n) /\ UNCHANGED <<active, hosted>> /\ req'.host = 0
    BY <1>7 DEF ScanNeighbours
  <2>2. slot' = slot /\ req = NoRequest
    BY <1>0, <2>1, TakeRequestType DEF TypeOK
  <2>3. Placed(m, y) = 0 /\ Placed(m, y)' = 0
    BY <1>4, <2>1, <2>2 DEF Placed
  <2> QED
    BY <1>3, <2>1, <2>2, <2>3 DEF Own
<1>8. ASSUME NEW n \in Nodes, PlaceToNeighbour(n)
      PROVE  Own(m, y)'
  <2>1. /\ pc = "neighbours" /\ Activate(n, req.type)
        /\ req' = [req EXCEPT !.host = n]
        /\ slot' = slot /\ hosted' = hosted
    BY <1>8 DEF PlaceToNeighbour, Visit
  <2>2. slot \in Slots /\ req \in Request /\ req.type \in FuncTypes
    BY <2>1, ReqType
  <2>3. req'.host = n /\ req'.type = req.type
    BY <2>1, <2>2 DEF Request
  <2>4. CASE m = n /\ y = req.type
    <3>1. active'[m][y][slot] = active[m][y][slot] + 1
      BY <1>0, <2>1, <2>2, <2>4, ActivateEffect
    <3>2. Placed(m, y)' = 1 /\ Placed(m, y) \in {0, 1}
      BY <2>3, <2>4 DEF Placed
    <3> QED
      BY <1>2, <1>3, <2>1, <2>2, <3>1, <3>2 DEF Own
  <2>5. CASE ~ (m = n /\ y = req.type)
    <3>1. active'[m][y][slot] = active[m][y][slot]
      BY <1>0, <2>1, <2>2, <2>5, ActivateEffect
    <3>2. Placed(m, y)' = 0 /\ Placed(m, y) \in {0, 1}
      BY <2>3, <2>5 DEF Placed
    <3> QED
      BY <1>2, <1>3, <2>1, <2>2, <3>1, <3>2 DEF Own
  <2> QED
    BY <2>4, <2>5
<1>9. ASSUME NEW n \in Nodes, SkipNeighbour(n)
      PROVE  Own(m, y)'
  BY <1>5, <1>9 DEF SkipNeighbour, Visit
<1>10. CASE ServedByNeighbour
  <2>1. /\ pc = "neighbours" /\ req.host # 0 /\ Serve(req.host, req.type)
        /\ req' = NoRequest /\ UNCHANGED <<slot, active>>
    BY <1>10 DEF ServedByNeighbour, Return
  <2>2. req.host \in Nodes /\ req.type \in FuncTypes
    BY <2>1, ReqType
  <2>3. Placed(m, y)' = 0
    BY <1>4, <2>1 DEF Placed
  <2>4. CASE m = req.host /\ y = req.type
    <3>1. hosted'[m][y] = hosted[m][y] + 1
      BY <1>0, <2>1, <2>2, <2>4, ServeType
    <3>2. Placed(m, y) = 1
      BY <2>4 DEF Placed
    <3> QED
      BY <1>2, <1>3, <2>1, <2>3, <3>1, <3>2 DEF Own
  <2>5. CASE ~ (m = req.host /\ y = req.type)
    <3>1. hosted'[m][y] = hosted[m][y]
      BY <1>0, <2>1, <2>2, <2>5, ServeType
    <3>2. Placed(m, y) = 0
      BY <2>5 DEF Placed
    <3> QED
      BY <1>2, <1>3, <2>1, <2>3, <3>1, <3>2 DEF Own
  <2> QED
    BY <2>4, <2>5
<1>11. CASE NoNeighbour
  BY <1>5, <1>11 DEF NoNeighbour
<1>12. ASSUME NEW size \in Nat, Create(size)
       PROVE  Own(m, y)'
  <2>1. /\ pc = "create" /\ Serve(req.ingress, req.type)
        /\ req' = NoRequest /\ slot' = slot
    BY <1>12 DEF Create, Return
  <2>2. slot \in Slots /\ req.ingress \in Nodes /\ req.type \in FuncTypes
    BY <2>1, ReqType
  <2>3. Placed(m, y)' = 0 /\ Placed(m, y) \in {0, 1}
    BY <1>4, <2>1 DEF Placed
  <2>4. CASE m = req.ingress /\ y = req.type
    <3>1. active'[m][y][slot] = active[m][y][slot] + 1
      BY <1>0, <1>12, <2>2, <2>4, CreateEffect
    <3>2. hosted'[m][y] = hosted[m][y] + 1
      BY <1>0, <2>1, <2>2, <2>4, ServeType
    <3> QED
      BY <1>2, <1>3, <2>1, <2>2, <2>3, <3>1, <3>2 DEF Own
  <2>5. CASE ~ (m = req.ingress /\ y = req.type)
    <3>1. active'[m][y][slot] = active[m][y][slot]
      BY <1>0, <1>12, <2>2, <2>5, CreateEffect
    <3>2. hosted'[m][y] = hosted[m][y]
      BY <1>0, <2>1, <2>2, <2>5, ServeType
    <3> QED
      BY <1>2, <1>3, <2>1, <2>2, <2>3, <3>1, <3>2 DEF Own
  <2> QED
    BY <2>4, <2>5
<1>13. ASSUME NEW t \in FuncTypes, NEW u \in Slots, DeleteLeastUse(t, u)
       PROVE  Own(m, y)'
  BY <1>5, <1>13 DEF DeleteLeastUse
<1>14. ASSUME Unserved
       PROVE  Own(m, y)'
  <2>1. req' = NoRequest /\ UNCHANGED <<slot, active, hosted>>
    BY <1>14 DEF Unserved, Return
  <2>2. Placed(m, y)' = 0 /\ Placed(m, y) \in {0, 1}
    BY <1>4, <2>1 DEF Placed
  <2> QED
    BY <1>2, <1>3, <2>1, <2>2 DEF Own
<1>15. CASE UpdateCache
  <2>1. hosted'[m][y] = 0 /\ req' = req /\ req = NoRequest
    BY <1>0, <1>15 DEF UpdateCache, NoneHosted, TypeOK
  <2>2. Placed(m, y)' = 0
    BY <1>4, <2>1 DEF Placed
  <2> QED
    BY <2>1, <2>2 DEF Own
<1>16. CASE UNCHANGED vars
  BY <1>5, <1>16 DEF vars
<1> QED
  BY <1>6, <1>7, <1>8, <1>9, <1>10, <1>11, <1>12, <1>13, <1>14, <1>15, <1>16,
     CreateSize
  DEF Next, Step, Terminating, NothingToDelete, TriesExhausted

\* Every request served in a slot, and the one being placed, has a busy
\* container of its own type on its deployNode: deployToNeighbour, which goes
\* on after placing a request, never lets two requests share a container.
THEOREM OwnContainers == Spec => []OwnContainer
<1>1. Init => OwnContainer
  BY DEF Init, OwnContainer, NoneHosted, Placed, NoRequest, Nodes, FuncTypes
<1>2. Basic /\ OwnContainer /\ [Next]_vars => OwnContainer'
  BY NextOwn
<1> QED
  BY <1>1, <1>2, BasicInvariant, PTL DEF Spec

-----------------------------------------------------------------------------
(***************************************************************************)
(* Cold starts and warm containers.                                        *)
(***************************************************************************)
\* No container on node n is idle, of the type of the request and near enough
\* to be used.  Nodes at the place of the ingress node are let off: one of
\* them may take its first place in the slice, which is passed over.
NoWarm(n) ==
  \/ ~ Idle(n, req.type)
  \/ n # req.ingress /\ Dist[req.ingress][n] = 0
  \/ n # req.ingress /\ ~ Worthwhile(req.ingress, n, req.type)

ColdOnlyWithoutWarm ==
  [][CreateInFreeSpace \/ CreateInFreedSpace => \A n \in Nodes : NoWarm(n)]_vars

\* As long as no node has taken the request, there was no warm container for
\* it on the nodes passed so far.
PassedNoWarm ==
  /\ pc # "next" /\ req.host = 0 =>
       /\ ~ Idle(req.ingress, req.type)
       /\ \A n \in Nodes : (\E i \in 1..Len(ds) : n = ds[i]) \/ NoWarm(n)
  /\ pc = "create" => ds = <<>> /\ req.host = 0

LEMMA NextPassed == Basic /\ PassedNoWarm /\ [Next]_vars => PassedNoWarm'
<1> SUFFICES ASSUME Basic, PassedNoWarm, [Next]_vars PROVE PassedNoWarm'
  OBVIOUS
<1> USE DEF PassedNoWarm
<1>1. ASSUME pc' = "next"
      PROVE  PassedNoWarm'
  BY <1>1
<1>2. ASSUME NEW t \in FuncTypes, NEW n \in Nodes, ScanNeighbours(t, n)
      PROVE  PassedNoWarm'
  <2>1. PICK slice \in SortedPhyNodes(n) : ds' = Tail(slice)
    BY <1>2 DEF ScanNeighbours
  <2>2. /\ pc' = "neighbours" /\ req'.type = t /\ req'.ingress = n
        /\ cache' = cache /\ ~ Idle(n, t)
    BY <1>2 DEF ScanNeighbours, resources
  <2>3. ASSUME NEW m \in Nodes, ~ \E i \in 1..Len(ds') : m = ds'[i]
        PROVE  NoWarm(m)'
    <3>1. m = slice[1]
      BY <2>1, <2>3, SortedPhyNodesCover
    <3>2. Dist[n][m] = 0
      BY <3>1, SortedPhyNodesCover
    <3> QED
      BY <2>2, <3>2 DEF NoWarm, Idle
  <2> QED
    BY <2>2, <2>3 DEF Idle
<1>3. ASSUME NEW n \in Nodes, PlaceToNeighbour(n)
      PROVE  PassedNoWarm'
  <2>1. pc = "neighbours" /\ pc' = pc
    BY <1>3 DEF PlaceToNeighbour, Visit
  <2>2. req \in Request
    BY <2>1, ReqType
  <2>3. req'.host = n /\ n # 0
    BY <1>3, <2>2 DEF PlaceToNeighbour, Request, Nodes
  <2> QED
    BY <2>1, <2>3
<1>4. ASSUME NEW n \in Nodes, SkipNeighbour(n)
      PROVE  PassedNoWarm'
  <2>1. /\ pc = "neighbours" /\ pc' = pc /\ req' = req /\ cache' = cache
        /\ ds # <<>> /\ n = ds[1] /\ ds' = Tail(ds)
    BY <1>4 DEF SkipNeighbour, Visit, resources
  <2>2. ds \in Seq(Nodes) /\ Len(ds) \in Nat \ {0}
    BY <2>1 DEF Basic, TypeOK
  <2>3. /\ Len(Tail(ds)) = Len(ds) - 1
        /\ \A i \in 1..(Len(ds) - 1) : Tail(ds)[i] = ds[i + 1]
    BY <2>2
  <2>4. ASSUME NEW i \in 1..Len(ds), i # 1
        PROVE  i - 1 \in 1..Len(ds') /\ ds'[i - 1] = ds[i]
    <3>1. i - 1 \in 1..(Len(ds) - 1) /\ (i - 1) + 1 = i
      BY <2>2, <2>4
    <3> QED
      BY <2>1, <2>3, <3>1
  <2>5. ASSUME req.host = 0
        PROVE  NoWarm(n)
    <3>1. CASE n = req.ingress
      BY <2>1, <2>5, <3>1 DEF NoWarm
    <3>2. CASE n # req.ingress
      BY <1>4, <3>2 DEF SkipNeighbour, NoWarm
    <3> QED
      BY <3>1, <3>2
  <2>6. ASSUME NEW m \in Nodes, req.host = 0, ~ \E i \in 1..Len(ds') : m = ds'[i]
        PROVE  NoWarm(m)'
    <3>1. NoWarm(m)
      <4>1. ASSUME NEW i \in 1..Len(ds), m = ds[i]
            PROVE  NoWarm(m)
        <5>1. i = 1
          BY <2>4, <2>6, <4>1
        <5> QED
          BY <2>1, <2>5, <2>6, <4>1, <5>1
      <4> QED
        BY <2>1, <2>6, <4>1
    <3> QED
      BY <2>1, <3>1 DEF NoWarm, Idle
  <2> QED
    BY <2>1, <2>5, <2>6 DEF Idle
<1>5. CASE NoNeighbour
  <2>1. /\ pc = "neighbours" /\ req' = req /\ req.host = 0 /\ cache' = cache
        /\ ds' = ds /\ ds = <<>>
    BY <1>5 DEF NoNeighbour, resources
  <2> QED
    BY <2>1 DEF NoWarm, Idle
<1>6. ASSUME NEW t \in FuncTypes, NEW u \in Slots, DeleteLeastUse(t, u)
      PROVE  PassedNoWarm'
  <2>1. pc = "create" /\ pc' = pc /\ req' = req /\ ds' = ds
    BY <1>6 DEF DeleteLeastUse, Short
  <2>2. req.ingress \in Nodes /\ req.type \in FuncTypes
    BY <2>1, ReqType
  <2>3. ASSUME NEW n \in Nodes, Idle(n, req.type)'
        PROVE  Idle(n, req.type)
    <3>1. PICK v \in Slots : cache'[n][req.type][v] > 0
      BY <2>1, <2>3 DEF Idle
    <3>2. cache \in PerContainer
      BY DEF Basic, TypeOK
    <3>3. cache[n][req.type][v] \in Nat /\ cache'[n][req.type][v] <= cache[n][req.type][v]
      BY <1>6, <2>2, <3>2 DEF DeleteLeastUse, PerContainer
    <3>4. cache'[n][req.type][v] \in Int
      BY <1>6, <2>2, <3>2 DEF DeleteLeastUse, PerContainer
    <3> QED
      BY <3>1, <3>3, <3>4 DEF Idle
  <2> QED
    BY <2>1, <2>2, <2>3 DEF NoWarm
<1>7. CASE UNCHANGED vars
  <2>1. pc' = pc /\ req' = req /\ ds' = ds /\ cache' = cache
    BY <1>7 DEF vars, resources, control
  <2> QED
    BY <2>1 DEF NoWarm, Idle
<1> QED
  BY <1>1, <1>2, <1>3, <1>4, <1>5, <1>6, <1>7
  DEF Next, Step, Terminating, PlaceToCurrent, TakeRequest, ServedByNeighbour,
      CreateInFreeSpace, CreateInFreedSpace, Create, NothingToDelete,
      TriesExhausted, Unserved, Return, UpdateCache, control

(***************************************************************************)
(* A cold start is the last resort of deployRequest: createToCurrent makes *)
(* no container while a warm one of the type is near enough to be used,    *)
(* whatever it has evicted before (lru.cc:716).                            *)
(***************************************************************************)
THEOREM ColdIsLastResort == Spec => ColdOnlyWithoutWarm
<1> DEFINE A == CreateInFreeSpace \/ CreateInFreedSpace => \A n \in Nodes : NoWarm(n)
<1>1. Basic /\ PassedNoWarm /\ [Next]_vars => A
  <2> SUFFICES ASSUME PassedNoWarm, CreateInFreeSpace \/ CreateInFreedSpace
               PROVE  \A n \in Nodes : NoWarm(n)
    OBVIOUS
  <2>1. pc = "create"
    BY DEF CreateInFreeSpace, CreateInFreedSpace, Create
  <2> QED
    BY <2>1 DEF PassedNoWarm
<1>2. Init => PassedNoWarm
  BY DEF Init, PassedNoWarm
<1>3. Basic /\ PassedNoWarm /\ [Next]_vars => PassedNoWarm'
  BY NextPassed
<1> QED
  BY BasicInvariant, <1>1, <1>2, <1>3, PTL DEF Spec, ColdOnlyWithoutWarm

-----------------------------------------------------------------------------
(***************************************************************************)
(* How long deployRequests may run.                                        *)
(***************************************************************************)
\* The requests and the slots still to come, and what is left of a request's
\* own loops; no request takes more steps than Round.
Requests == TotalOf(Slots, FuncTypes, Nodes, todo)
Ahead == Requests + (lastSlot + 1 - slot)
Round == NodeNum + MaxTries + 2
RoundLeft ==
  IF pc = "neighbours" THEN MaxTries + 2 + Len(ds)
  ELSE IF pc = "create" THEN MaxTries + 1 - tries
  ELSE 0
StepsLeft == Round * Ahead + RoundLeft

LEMMA IndexSets == IsFiniteSet(Slots) /\ IsFiniteSet(FuncTypes) /\ IsFiniteSet(Nodes)
<1>1. 1 \in Int /\ 4 \in Int /\ SlotNum \in Int /\ NodeNum \in Int
  OBVIOUS
<1> QED
  BY <1>1, FS_Interval DEF Slots, FuncTypes, Nodes

LEMMA StepsLeftType ==
  ASSUME TypeOK
  PROVE  /\ Requests \in Nat /\ Ahead \in Nat /\ lastSlot + 1 - slot \in Nat
         /\ RoundLeft \in Nat /\ Round \in Nat /\ StepsLeft \in Nat
<1>1. IsFiniteSet(Slots) /\ IsFiniteSet(FuncTypes) /\ IsFiniteSet(Nodes)
  BY IndexSets
<1>2. Requests \in Nat
  BY <1>1, TotalType DEF Requests, TypeOK, Table
<1>3. lastSlot + 1 - slot \in Nat
  BY DEF TypeOK
<1>4. Ahead \in Nat
  BY <1>2, <1>3 DEF Ahead
<1>5. RoundLeft \in Nat
  BY DEF RoundLeft, TypeOK
<1>6. Round \in Nat
  BY DEF Round
<1>7. \A a, b, c \in Nat : a * b + c \in Nat
  OBVIOUS
<1>8. StepsLeft \in Nat
  BY <1>4, <1>5, <1>6, <1>7 DEF StepsLeft
<1> QED
  BY <1>2, <1>3, <1>4, <1>5, <1>6, <1>8

\* A request that is taken up is one less to come.
LEMMA RequestTaken ==
  ASSUME TypeOK, NEW t \in FuncTypes, NEW n \in Nodes, TakeRequest(t, n)
  PROVE  /\ Requests' = Requests - 1 /\ Requests' \in Nat
         /\ lastSlot' = lastSlot /\ slot' = slot
<1>1. slot \in Slots /\ todo \in Table(Slots, FuncTypes, Nodes)
  <2>1. slot \in Slots
    BY DEF TypeOK, TakeRequest, Slots
  <2>2. todo \in Table(Slots, FuncTypes, Nodes)
    BY DEF TypeOK, Table
  <2> QED
    BY <2>1, <2>2
<1>2. todo[slot][t][n] > 0
  BY DEF TakeRequest, FirstRequest
<1>3. todo[slot][t][n] - 1 \in Nat
  BY <1>1, <1>2 DEF Table
<1>4. todo' = Put(todo, slot, t, n, todo[slot][t][n] - 1)
  BY DEF TakeRequest, Put
<1> DEFINE v == todo[slot][t][n] - 1
<1>5. IsPut(Slots, FuncTypes, Nodes, todo', todo, slot, t, n, v)
  <2>1. v \in Nat /\ todo' = Put(todo, slot, t, n, v)
    BY <1>3, <1>4
  <2> HIDE DEF v
  <2> QED
    BY <1>1, <2>1, PutCount
<1>6. IsFiniteSet(Slots) /\ IsFiniteSet(FuncTypes) /\ IsFiniteSet(Nodes)
  BY IndexSets
<1>7. /\ TotalOf(Slots, FuncTypes, Nodes, todo') = TotalOf(Slots, FuncTypes, Nodes, todo) - 1
      /\ TotalOf(Slots, FuncTypes, Nodes, todo') \in Nat
  BY <1>1, <1>2, <1>5, <1>6, TotalDrops
<1> QED
  BY <1>7 DEF Requests, TakeRequest

\* A step that ends a request or a slot: one less of them is to come.
LEMMA RoundEnds ==
  ASSUME TypeOK, Ahead' \in Nat, Ahead = Ahead' + 1,
         RoundLeft' \in Nat, RoundLeft' < Round
  PROVE  StepsLeft' < StepsLeft
<1>1. RoundLeft \in Nat /\ Round \in Nat
  BY StepsLeftType
<1>2. Round * Ahead' + RoundLeft' < Round * (Ahead' + 1) + RoundLeft
  BY <1>1, RoundGone
<1>3. StepsLeft' = Round * Ahead' + RoundLeft'
  BY DEF StepsLeft, Round
<1> QED
  BY <1>2, <1>3 DEF StepsLeft

\* A step within a request leaves the rest of them alone.
LEMMA RoundGoesOn ==
  ASSUME TypeOK, UNCHANGED progress, RoundLeft' \in Nat, RoundLeft' < RoundLeft
  PROVE  StepsLeft' < StepsLeft
<1>1. Ahead \in Nat /\ RoundLeft \in Nat /\ Round \in Nat
  BY StepsLeftType
<1>2. Ahead' = Ahead
  BY DEF progress, Requests, Ahead
<1>3. StepsLeft' = Round * Ahead + RoundLeft'
  BY <1>2 DEF StepsLeft, Round
<1>4. \A b, i, j \in Nat : j < i => b + j < b + i
  OBVIOUS
<1>5. Round * Ahead \in Nat
  BY <1>1
<1>6. Round * Ahead + RoundLeft' < Round * Ahead + RoundLeft
  BY <1>1, <1>4, <1>5
<1> QED
  BY <1>3, <1>6 DEF StepsLeft

LEMMA StepsDrop == TypeOK /\ [Next]_vars => StepsLeft' < StepsLeft \/ UNCHANGED vars
<1> SUFFICES ASSUME TypeOK, [Next]_vars, ~ UNCHANGED vars
             PROVE  StepsLeft' < StepsLeft
  OBVIOUS
<1>1. MaxTries \in Nat /\ NodeNum \in Nat \ {0} /\ tries \in 0..MaxTries
      /\ ds \in Seq(Nodes)
  BY DEF TypeOK
<1>0. /\ Requests \in Nat /\ lastSlot \in Nat /\ slot \in Nat
      /\ slot <= lastSlot + 1
  BY StepsLeftType DEF TypeOK
<1>2. ASSUME NEW t \in FuncTypes, NEW n \in Nodes, PlaceToCurrent(t, n)
      PROVE  StepsLeft' < StepsLeft
  <2>1. Requests' = Requests - 1 /\ Requests' \in Nat
        /\ lastSlot' = lastSlot /\ slot' = slot /\ slot <= lastSlot /\ pc' = "next"
    BY <1>2, RequestTaken DEF PlaceToCurrent, TakeRequest, control
  <2>2. RoundLeft' = 0 /\ RoundLeft' \in Nat /\ RoundLeft' < Round
    BY <1>1, <2>1 DEF RoundLeft, Round
  <2>3. Ahead' \in Nat /\ Ahead = Ahead' + 1
    BY <2>1, <1>0 DEF Ahead
  <2> QED
    BY <2>2, <2>3, RoundEnds
<1>3. ASSUME NEW t \in FuncTypes, NEW n \in Nodes, ScanNeighbours(t, n)
      PROVE  StepsLeft' < StepsLeft
  <2>1. Requests' = Requests - 1 /\ Requests' \in Nat
        /\ lastSlot' = lastSlot /\ slot' = slot /\ slot <= lastSlot /\ pc' = "neighbours"
    BY <1>3, RequestTaken DEF ScanNeighbours, TakeRequest
  <2>2. PICK slice \in SortedPhyNodes(n) : ds' = Tail(slice)
    BY <1>3 DEF ScanNeighbours
  <2>3. slice \in Seq(Nodes) /\ Len(slice) = NodeNum
    BY <1>1 DEF SortedPhyNodes
  <2>4. Len(ds') = NodeNum - 1
    BY <1>1, <2>2, <2>3
  <2>5. RoundLeft' = MaxTries + 2 + Len(ds')
    BY <2>1 DEF RoundLeft
  <2>6. RoundLeft' \in Nat /\ RoundLeft' < Round
    BY <1>1, <2>4, <2>5 DEF Round
  <2>7. Ahead' \in Nat /\ Ahead = Ahead' + 1
    BY <2>1, <1>0 DEF Ahead
  <2> QED
    BY <2>6, <2>7, RoundEnds
<1>4. ASSUME NEW n \in Nodes, Visit(n)
      PROVE  StepsLeft' < StepsLeft
  <2>1. pc = "neighbours" /\ pc' = "neighbours" /\ UNCHANGED progress
        /\ ds # <<>> /\ ds' = Tail(ds)
    BY <1>4 DEF Visit
  <2>2. Len(ds) \in Nat \ {0} /\ Len(ds') = Len(ds) - 1
    BY <1>1, <2>1
  <2>3. RoundLeft = MaxTries + 2 + Len(ds) /\ RoundLeft' = MaxTries + 2 + Len(ds')
    BY <2>1 DEF RoundLeft
  <2> QED
    BY <1>1, <2>1, <2>2, <2>3, RoundGoesOn
<1>5. ASSUME Return, UNCHANGED progress, pc # "next"
      PROVE  StepsLeft' < StepsLeft
  <2>1. RoundLeft' = 0
    BY <1>5 DEF Return, RoundLeft
  <2>2. RoundLeft \in Nat /\ RoundLeft # 0
    <3>1. pc \in {"neighbours", "create"} /\ Len(ds) \in Nat
      BY <1>5 DEF TypeOK
    <3> QED
      BY <1>1, <3>1 DEF RoundLeft
  <2> QED
    BY <1>5, <2>1, <2>2, RoundGoesOn
<1>6. CASE NoNeighbour
  <2>1. pc = "neighbours" /\ pc' = "create" /\ tries' = tries /\ UNCHANGED progress
    BY <1>6 DEF NoNeighbour
  <2>2. RoundLeft = MaxTries + 2 + Len(ds) /\ RoundLeft' = MaxTries + 1 - tries
        /\ Len(ds) \in Nat
    BY <1>1, <2>1 DEF RoundLeft
  <2> QED
    BY <1>1, <2>1, <2>2, RoundGoesOn
<1>7. ASSUME NEW t \in FuncTypes, NEW u \in Slots, DeleteLeastUse(t, u)
      PROVE  StepsLeft' < StepsLeft
  <2>1. pc = "create" /\ pc' = pc /\ tries' = tries + 1 /\ tries < MaxTries
        /\ UNCHANGED progress
    BY <1>7 DEF DeleteLeastUse, Short
  <2>2. RoundLeft = MaxTries + 1 - tries /\ RoundLeft' = MaxTries + 1 - tries'
    BY <2>1 DEF RoundLeft
  <2> QED
    BY <1>1, <2>1, <2>2, RoundGoesOn
<1>8. CASE UpdateCache
  <2>1. /\ slot <= lastSlot /\ slot' = slot + 1 /\ lastSlot' = lastSlot
        /\ todo' = todo /\ pc = "next" /\ pc' = "next"
    BY <1>8 DEF UpdateCache, control
  <2>2. RoundLeft' = 0 /\ RoundLeft' \in Nat /\ RoundLeft' < Round
    BY <1>1, <2>1 DEF RoundLeft, Round
  <2>3. Requests' = Requests
    BY <2>1 DEF Requests
  <2>4. Ahead' \in Nat /\ Ahead = Ahead' + 1
    BY <2>1, <2>3, <1>0 DEF Ahead
  <2> QED
    BY <2>2, <2>4, RoundEnds
<1> QED
  BY <1>2, <1>3, <1>4, <1>5, <1>6, <1>7, <1>8
  DEF Next, Step, Terminating, PlaceToNeighbour, SkipNeighbour, ServedByNeighbour,
      CreateInFreeSpace, CreateInFreedSpace, Create, NothingToDelete, TriesExhausted,
      Short, Unserved

\* deployRequests cannot go on for ever, however it evicts: each of its steps
\* lowers a natural number, and from the start it has Round steps for every
\* request of the file and every slot it walks over.
THEOREM StepsAreBounded ==
  Spec => [](StepsLeft \in Nat) /\ [][StepsLeft' < StepsLeft]_vars
<1>1. TypeOK => StepsLeft \in Nat
  BY StepsLeftType
<1>2. TypeOK /\ [Next]_vars => [StepsLeft' < StepsLeft]_vars
  BY StepsDrop
<1> QED
  BY <1>1, <1>2, TypeCorrect, PTL DEF Spec

=============================================================================
