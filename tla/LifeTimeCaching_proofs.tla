------------------------ MODULE LifeTimeCaching_proofs ------------------------
(***************************************************************************)
(* Proofs about the scheduler of LifeTimeCaching.                          *)
(***************************************************************************)
EXTENDS LifeTimeCaching, NatSums

USE NodeNumAssumption, SlotNumAssumption, SizeAssumption, MemCapAssumption,
    WorkloadsAssumption, LifeTimeAssumption, MaxTriesAssumption

\* The number of slots with requests is at most the number of slots.
LEMMA MapSizeBound ==
  ASSUME NEW w
  PROVE  MapSize(w) \in 0..SlotNum
<1>1. {s \in Slots : ~ NoDemand(w[s])} \in SUBSET (1..SlotNum)
  BY DEF Slots
<1>2. SlotNum \in Nat
  BY SlotNumAssumption
<1> QED
  BY <1>1, <1>2, Chosen DEF MapSize

\* Every sorted arrangement of the nodes is a non-empty sequence of nodes.
LEMMA SortedPhyNodesType ==
  ASSUME NEW n \in Nodes, NEW slice \in SortedPhyNodes(n)
  PROVE  slice \in Seq(Nodes) /\ slice # <<>> /\ Tail(slice) \in Seq(Nodes)
<1>1. slice \in [1..NodeNum -> Nodes]
  BY DEF SortedPhyNodes
<1> QED
  BY <1>1, NodeNumAssumption, RowOfAll

\* A sorted arrangement has every node, the first one at no distance.
LEMMA SortedPhyNodesCover ==
  ASSUME NEW ingress \in Nodes, NEW slice \in SortedPhyNodes(ingress)
  PROVE  /\ \A n \in Nodes :
              n = slice[1] \/ \E i \in 1..Len(Tail(slice)) : n = Tail(slice)[i]
         /\ Dist[ingress][slice[1]] = 0
<1> DEFINE dist == [n \in Nodes |-> Dist[ingress][n]]
<1>1. IsFiniteSet(Nodes) /\ Cardinality(Nodes) = NodeNum
  <2>1. 1 \in Int /\ NodeNum \in Int
    OBVIOUS
  <2>2. IsFiniteSet(Nodes) /\ Cardinality(Nodes) = IF 1 > NodeNum THEN 0 ELSE NodeNum - 1 + 1
    BY <2>1, FS_Interval DEF Nodes
  <2> QED
    BY <2>2
<1>2. IsRow(slice, Nodes, dist, NodeNum)
  BY DEF SortedPhyNodes, IsRow
<1>3. NodeNum \in Nat \ {0} /\ dist \in [Nodes -> Nat] /\ dist[ingress] = 0
  BY NodeNumAssumption, DistAssumption, DistSelfAssumption
<1>4. dist[slice[1]] = Dist[ingress][slice[1]]
  BY <1>3 DEF SortedPhyNodes
<1> HIDE DEF dist
<1>5. Covers(slice, Nodes) /\ dist[slice[1]] = 0
  BY <1>1, <1>2, <1>3, RowCovers
<1> QED
  BY <1>4, <1>5 DEF Covers

-----------------------------------------------------------------------------
(***************************************************************************)
(* The invariants the proofs need beside the properties: a request is only *)
(* deployed in a slot that has one, createToCurrent starts without a       *)
(* container it has evicted, and the function of a request without a       *)
(* container has its full life.                                            *)
(***************************************************************************)
InSlot == pc # "next" => slot <= lastSlot

NoneEvicted == pc # "create" => f = 0

FullLife ==
  /\ pc = "create" => req.host = 0
  /\ pc # "next" /\ req.host = 0 => req.life = LifeTime

Basic == TypeOK /\ InSlot /\ NoneEvicted /\ FullLife

-----------------------------------------------------------------------------
(***************************************************************************)
(* What the steps do to the tables of containers and to the books.         *)
(***************************************************************************)

LEMMA Tables ==
  /\ PerContainer = Table(Nodes, FuncTypes, Lives)
  /\ PerSlot = Table(Nodes, FuncTypes, Slots)
  /\ NoContainer \in PerContainer
  /\ \A n \in Nodes, t \in FuncTypes, l \in Lives : NoContainer[n][t][l] = 0
BY DEF PerContainer, PerSlot, Table, NoContainer

LEMMA Counts ==
  ASSUME TypeOK, NEW n \in Nodes, NEW t \in FuncTypes, NEW l \in Lives
  PROVE  /\ cache[n][t][l] \in Nat /\ active[n][t][l] \in Nat
         /\ hosted[n][t][l] \in Nat
BY DEF TypeOK, PerContainer

LEMMA ActivateEffect ==
  ASSUME TypeOK,
         NEW n \in Nodes, NEW t \in FuncTypes, NEW l \in Lives,
         Activate(n, t, l)
  PROVE  /\ cache[n][t][l] > 0
         /\ IsPut(Nodes, FuncTypes, Lives, cache', cache, n, t, l,
                  cache[n][t][l] - 1)
         /\ IsPut(Nodes, FuncTypes, Lives, active', active, n, t, l,
                  active[n][t][l] + 1)
         /\ mem' = mem
<1>1. /\ cache \in Table(Nodes, FuncTypes, Lives)
      /\ active \in Table(Nodes, FuncTypes, Lives)
  BY Tables DEF TypeOK
<1>2. cache[n][t][l] > 0
  BY DEF Activate, Soonest
<1>3. cache[n][t][l] - 1 \in Nat /\ active[n][t][l] + 1 \in Nat
  BY <1>2, Counts
<1>4. cache' = Put(cache, n, t, l, cache[n][t][l] - 1)
  BY DEF Activate, Put
<1>5. active' = Put(active, n, t, l, active[n][t][l] + 1)
  BY DEF Activate, Put
<1>6. IsPut(Nodes, FuncTypes, Lives, cache', cache, n, t, l, cache[n][t][l] - 1)
  BY <1>1, <1>3, <1>4, PutCount
<1>7. IsPut(Nodes, FuncTypes, Lives, active', active, n, t, l,
            active[n][t][l] + 1)
  BY <1>1, <1>3, <1>5, PutCount
<1> QED
  BY <1>2, <1>6, <1>7 DEF Activate

LEMMA ServeEffect ==
  ASSUME TypeOK,
         NEW n \in Nodes, NEW t \in FuncTypes, NEW l \in Lives, Serve(n, t, l)
  PROVE  IsPut(Nodes, FuncTypes, Lives, hosted', hosted, n, t, l,
               hosted[n][t][l] + 1)
<1>1. hosted \in Table(Nodes, FuncTypes, Lives)
  BY Tables DEF TypeOK
<1>2. hosted[n][t][l] + 1 \in Nat
  BY Counts
<1>3. hosted' = Put(hosted, n, t, l, hosted[n][t][l] + 1)
  BY DEF Serve, Put
<1> QED
  BY <1>1, <1>2, <1>3, PutCount

\* While a request is deployed, req holds it and the slot is one of the file.
LEMMA ReqType ==
  ASSUME Basic, pc # "next"
  PROVE  /\ slot \in Slots
         /\ req \in Request
         /\ req.type \in FuncTypes /\ req.ingress \in Nodes
         /\ req.host \in Nodes \cup {0} /\ req.life \in Lives
<1>1. slot \in Slots
  BY DEF Basic, TypeOK, InSlot, Slots
<1>2. req \in Request
  BY DEF Basic, TypeOK
<1> QED
  BY <1>1, <1>2 DEF Request

LEMMA CreateEffect ==
  ASSUME Basic, NEW size \in Nat, Create(size)
  PROVE  LET n == req.ingress
             t == req.type
         IN  /\ slot \in Slots /\ LifeTime \in Lives
             /\ n \in Nodes /\ t \in FuncTypes
             /\ cache' = cache
             /\ IsPut(Nodes, FuncTypes, Lives, active', active, n, t, LifeTime,
                      active[n][t][LifeTime] + 1)
             /\ IsPut(Nodes, FuncTypes, Lives, hosted', hosted, n, t, LifeTime,
                      hosted[n][t][LifeTime] + 1)
             /\ IsPut(Nodes, FuncTypes, Slots, coldStarts', coldStarts, n, t,
                      slot,
                      coldStarts[n][t][slot] + 1)
             /\ mem' \in [Nodes -> Int]
             /\ mem'[n] = mem[n] - size
             /\ \A m \in Nodes : m # n => mem'[m] = mem[m]
<1> DEFINE n == req.ingress
           t == req.type
<1>1. n \in Nodes /\ t \in FuncTypes /\ slot \in Slots
  BY ReqType DEF Create
<1>2. req.life = LifeTime /\ LifeTime \in Lives
  BY DEF Basic, FullLife, Create, Lives
<1>3. TypeOK
  BY DEF Basic
<1>4. Serve(n, t, LifeTime)
  BY <1>2 DEF Create
<1>5. active' = Put(active, n, t, LifeTime, active[n][t][LifeTime] + 1)
  BY <1>2 DEF Create, Put
<1>6. coldStarts' = Put(coldStarts, n, t, slot, coldStarts[n][t][slot] + 1)
  BY DEF Create, Put
<1>7. mem' = [mem EXCEPT ![n] = @ - size] /\ mem \in [Nodes -> Int]
      /\ cache' = cache
  BY <1>3 DEF Create, TypeOK
<1> HIDE DEF n, t
<1>8. /\ active \in Table(Nodes, FuncTypes, Lives)
      /\ coldStarts \in Table(Nodes, FuncTypes, Slots)
  BY <1>3, Tables DEF TypeOK
<1>9. active[n][t][LifeTime] + 1 \in Nat
  BY <1>1, <1>2, <1>3, Counts
<1>10. coldStarts[n][t][slot] + 1 \in Nat
  BY <1>1, <1>8 DEF Table
<1>11. IsPut(Nodes, FuncTypes, Lives, active', active, n, t, LifeTime,
             active[n][t][LifeTime] + 1)
  BY <1>1, <1>2, <1>5, <1>8, <1>9, PutCount
<1>12. IsPut(Nodes, FuncTypes, Slots, coldStarts', coldStarts, n, t, slot,
             coldStarts[n][t][slot] + 1)
  BY <1>1, <1>6, <1>8, <1>10, PutCount
<1>13. IsPut(Nodes, FuncTypes, Lives, hosted', hosted, n, t, LifeTime,
             hosted[n][t][LifeTime] + 1)
  BY <1>1, <1>2, <1>3, <1>4, ServeEffect
<1>14. /\ mem' \in [Nodes -> Int]
       /\ mem'[n] = mem[n] - size
       /\ \A m \in Nodes : m # n => mem'[m] = mem[m]
  BY <1>1, <1>7
<1> QED
  BY <1>1, <1>2, <1>7, <1>11, <1>12, <1>13, <1>14 DEF n, t

LEMMA CreateSize ==
  ASSUME Basic, CreateInFreeSpace \/ CreateInFreedSpace
  PROVE  \E size \in Nat : Create(size)
<1>1. CASE CreateInFreeSpace
  <2>1. req.type \in FuncTypes
    BY <1>1, ReqType DEF CreateInFreeSpace, Create
  <2>2. Size[req.type] \in Nat
    BY <2>1
  <2> QED
    BY <1>1, <2>2 DEF CreateInFreeSpace
<1>2. CASE CreateInFreedSpace
  <2>1. Size[f] \in Nat
    BY <1>2 DEF CreateInFreedSpace, Basic, TypeOK
  <2> QED
    BY <1>2, <2>1 DEF CreateInFreedSpace
<1> QED
  BY <1>1, <1>2

LEMMA DeleteEffect ==
  ASSUME TypeOK, NEW t \in FuncTypes, NEW l \in Lives,
         DeleteLowestPriority(t, l)
  PROVE  LET n == req.ingress
         IN  /\ n \in Nodes
             /\ cache[n][t][l] > 0
             /\ IsPut(Nodes, FuncTypes, Lives, cache', cache, n, t, l,
                      cache[n][t][l] - 1)
             /\ mem' \in [Nodes -> Int]
             /\ mem'[n] = mem[n] + Size[t]
             /\ \A m \in Nodes : m # n => mem'[m] = mem[m]
<1> DEFINE n == req.ingress
<1>1. n \in Nodes
  BY DEF TypeOK, DeleteLowestPriority, Short, Request
<1>2. cache[n][t][l] > 0
  BY DEF DeleteLowestPriority, Soonest
<1>3. cache' = Put(cache, n, t, l, cache[n][t][l] - 1)
  BY DEF DeleteLowestPriority, Put
<1>4. mem' = [mem EXCEPT ![n] = @ + Size[t]] /\ Size[t] \in Nat
  BY DEF DeleteLowestPriority
<1> HIDE DEF n
<1>5. cache \in Table(Nodes, FuncTypes, Lives) /\ mem \in [Nodes -> Int]
  BY Tables DEF TypeOK
<1>6. cache[n][t][l] - 1 \in Nat
  BY <1>1, <1>2, Counts
<1>7. IsPut(Nodes, FuncTypes, Lives, cache', cache, n, t, l, cache[n][t][l] - 1)
  BY <1>1, <1>3, <1>5, <1>6, PutCount
<1>8. /\ mem' \in [Nodes -> Int]
      /\ mem'[n] = mem[n] + Size[t]
      /\ \A m \in Nodes : m # n => mem'[m] = mem[m]
  BY <1>1, <1>4, <1>5
<1> QED
  BY <1>1, <1>2, <1>7, <1>8 DEF n

\* The containers of a node free no less than nothing when they expire.
LEMMA OfLifeType ==
  ASSUME TypeOK, NEW n \in Nodes, NEW l \in Lives
  PROVE  OfLife(n, l) \in Nat
<1> DEFINE Of(t) == Size[t] * Held(n, t, l)
<1>1. \A t \in FuncTypes : Size[t] \in Nat /\ Held(n, t, l) \in Nat
  BY Counts DEF Held
<1>2. \A t \in FuncTypes : Of(t) \in Nat
  <2> SUFFICES ASSUME NEW t \in FuncTypes PROVE Of(t) \in Nat
    OBVIOUS
  <2>1. ASSUME NEW a \in Nat, NEW b \in Nat PROVE a * b \in Nat
    BY <2>1
  <2> QED
    BY <1>1, <2>1
<1> HIDE DEF Of
<1>3. Of(1) \in Nat /\ Of(2) \in Nat /\ Of(3) \in Nat /\ Of(4) \in Nat
  BY <1>2 DEF FuncTypes
<1>4. Of(1) + Of(2) + Of(3) + Of(4) \in Nat
  BY <1>3
<1> QED
  BY <1>4 DEF OfLife, Of

LEMMA ExpiringType ==
  ASSUME TypeOK, NEW n \in Nodes
  PROVE  Expiring(n) \in Nat
BY OfLifeType DEF Expiring, Lives

\* What the end of a slot does.
LEMMA UpdateEffect ==
  ASSUME TypeOK, UpdateCache
  PROVE  /\ pc = "next" /\ req = NoRequest /\ req' = req /\ pc' = pc /\ f' = f
         /\ slot' = slot + 1 /\ lastSlot' = lastSlot
         /\ slot' \in Nat \ {0} /\ slot' <= lastSlot + 1
         /\ cache' \in PerContainer
         /\ \A n \in Nodes, t \in FuncTypes, l \in Lives :
              cache'[n][t][l]
                = IF l < LifeTime THEN Held(n, t, l + 1) ELSE 0
         /\ active' = NoContainer /\ hosted' = NoContainer
         /\ coldStarts' = coldStarts
         /\ mem' \in [Nodes -> Int]
         /\ \A n \in Nodes : mem'[n] >= mem[n]
<1> USE DEF progress, control, resources
<1>1. /\ pc = "next" /\ req = NoRequest /\ req' = req /\ pc' = pc /\ f' = f
      /\ slot' = slot + 1 /\ lastSlot' = lastSlot
      /\ active' = NoContainer /\ hosted' = NoContainer
      /\ coldStarts' = coldStarts
  BY DEF UpdateCache, TypeOK
<1>2. slot' \in Nat \ {0} /\ slot' <= lastSlot + 1
  BY DEF UpdateCache, TypeOK
<1>3. cache' = [n \in Nodes |-> [t \in FuncTypes |-> [l \in Lives |->
                  IF l < LifeTime THEN Held(n, t, l + 1) ELSE 0]]]
  BY DEF UpdateCache
<1>4. ASSUME NEW n \in Nodes, NEW t \in FuncTypes, NEW l \in Lives
      PROVE  (IF l < LifeTime THEN Held(n, t, l + 1) ELSE 0) \in Nat
  <2>1. CASE l < LifeTime
    <3>1. l + 1 \in Lives
      BY <2>1 DEF Lives
    <3> QED
      BY <2>1, <3>1, Counts DEF Held
  <2>2. CASE ~ (l < LifeTime)
    BY <2>2
  <2> QED
    BY <2>1, <2>2
<1>5. cache' \in PerContainer
  BY <1>3, <1>4 DEF PerContainer
<1>6. mem' = [n \in Nodes |-> mem[n] + Expiring(n)] /\ mem \in [Nodes -> Int]
  BY DEF UpdateCache, TypeOK
<1>7. \A n \in Nodes : Expiring(n) \in Nat
  BY ExpiringType
<1>8. mem' \in [Nodes -> Int] /\ \A n \in Nodes : mem'[n] >= mem[n]
  BY <1>6, <1>7
<1> QED
  BY <1>1, <1>2, <1>3, <1>5, <1>8

LEMMA TakeRequestType ==
  ASSUME TypeOK, NEW t \in FuncTypes, NEW n \in Nodes, TakeRequest(t, n)
  PROVE  /\ slot \in Slots
         /\ pc = "next" /\ req = NoRequest
         /\ slot' = slot /\ lastSlot' = lastSlot
         /\ slot <= lastSlot
         /\ todo' \in [Slots -> [FuncTypes -> [Nodes -> Nat]]]
<1>1. slot \in Slots
  BY DEF TypeOK, TakeRequest, Slots
<1>2. todo[slot] \in [FuncTypes -> [Nodes -> Nat]] /\ todo[slot][t][n] > 0
  BY <1>1 DEF TypeOK, TakeRequest, FirstRequest
<1>3. todo' \in [Slots -> [FuncTypes -> [Nodes -> Nat]]]
  BY <1>1, <1>2 DEF TypeOK, TakeRequest
<1> QED
  BY <1>1, <1>3 DEF TakeRequest, TypeOK

LEMMA ReturnBasic ==
  ASSUME Return
  PROVE  /\ pc' = "next" /\ req' = NoRequest /\ ds' \in Seq(Nodes)
         /\ tries' \in 0..MaxTries /\ f' = 0
BY DEF Return

-----------------------------------------------------------------------------
(***************************************************************************)
(* Type correctness.                                                       *)
(***************************************************************************)

LEMMA InitBasic == Init => Basic
<1> SUFFICES ASSUME Init PROVE Basic
  OBVIOUS
<1>1. lastSlot \in 0..SlotNum
  BY MapSizeBound DEF Init
<1>2. slot \in Nat \ {0} /\ slot <= lastSlot + 1
  BY <1>1 DEF Init
<1>3. cache \in PerContainer /\ active \in PerContainer
      /\ hosted \in PerContainer
  BY Tables DEF Init
<1>4. mem \in [Nodes -> Int] /\ coldStarts \in PerSlot
  BY DEF Init, PerSlot
<1>5. todo \in [Slots -> [FuncTypes -> [Nodes -> Nat]]]
  BY DEF Init
<1>6. /\ pc = "next" /\ req = NoRequest /\ ds \in Seq(Nodes)
      /\ tries \in 0..MaxTries /\ f = 0
  BY DEF Init
<1> QED
  BY <1>1, <1>2, <1>3, <1>4, <1>5, <1>6
  DEF Basic, TypeOK, InSlot, NoneEvicted, FullLife

LEMMA NextBasic == Basic /\ [Next]_vars => Basic'
<1> SUFFICES ASSUME Basic, [Next]_vars PROVE Basic'
  OBVIOUS
<1>0. TypeOK
  BY DEF Basic
<1> USE DEF progress, control, resources, outcome
<1>1. ASSUME NEW t \in FuncTypes, NEW n \in Nodes, PlaceToCurrent(t, n)
      PROVE  Basic'
  <2>1. TakeRequest(t, n) /\ UNCHANGED <<control, coldStarts>>
    BY <1>1 DEF PlaceToCurrent
  <2>2. PICK l \in Lives : Activate(n, t, l) /\ Serve(n, t, l)
    BY <1>1 DEF PlaceToCurrent
  <2>3. cache' \in PerContainer /\ active' \in PerContainer /\ mem' = mem
    BY <1>0, <2>2, ActivateEffect, Tables DEF IsPut
  <2>4. hosted' \in PerContainer
    BY <1>0, <2>2, ServeEffect, Tables DEF IsPut
  <2> QED
    BY <1>0, <2>1, <2>3, <2>4, TakeRequestType
    DEF Basic, TypeOK, InSlot, NoneEvicted, FullLife
<1>2. ASSUME NEW t \in FuncTypes, NEW n \in Nodes, ScanNeighbours(t, n)
      PROVE  Basic'
  <2>1. TakeRequest(t, n)
    BY <1>2 DEF ScanNeighbours
  <2>2. ds' \in Seq(Nodes)
    BY <1>2, SortedPhyNodesType DEF ScanNeighbours
  <2>3. req' = [type |-> t, ingress |-> n, host |-> 0, life |-> LifeTime]
    BY <1>2 DEF ScanNeighbours
  <2>4. req' \in Request /\ req' # NoRequest /\ req'.life = LifeTime
    BY <2>3 DEF Request, NoRequest, Nodes, Lives
  <2> QED
    BY <1>0, <1>2, <2>1, <2>2, <2>4, TakeRequestType
    DEF Basic, TypeOK, InSlot, NoneEvicted, FullLife, ScanNeighbours
<1>3. ASSUME NEW n \in Nodes, PlaceToNeighbour(n)
      PROVE  Basic'
  <2>1. /\ pc = "neighbours" /\ ds # <<>> /\ ds' = Tail(ds)
        /\ UNCHANGED <<pc, tries, f, progress, outcome>>
    BY <1>3 DEF PlaceToNeighbour, Visit
  <2>2. PICK l \in Lives : /\ Activate(n, req.type, l)
                           /\ req' = [req EXCEPT !.host = n, !.life = l]
    BY <1>3 DEF PlaceToNeighbour
  <2>3. req \in Request /\ req.type \in FuncTypes
    BY <2>1, ReqType
  <2>4. req' \in Request /\ req'.host = n
    BY <2>2, <2>3 DEF Request
  <2>5. req' # NoRequest /\ req'.host # 0
    BY <2>4 DEF NoRequest, Nodes
  <2>6. ds' \in Seq(Nodes)
    BY <1>0, <2>1 DEF TypeOK
  <2>7. cache' \in PerContainer /\ active' \in PerContainer /\ mem' = mem
    BY <1>0, <2>2, <2>3, ActivateEffect, Tables DEF IsPut
  <2> QED
    BY <1>0, <2>1, <2>4, <2>5, <2>6, <2>7
    DEF Basic, TypeOK, InSlot, NoneEvicted, FullLife
<1>4. ASSUME NEW n \in Nodes, SkipNeighbour(n)
      PROVE  Basic'
  <2>1. ds' \in Seq(Nodes)
    BY <1>0, <1>4 DEF SkipNeighbour, Visit, TypeOK
  <2> QED
    BY <1>0, <1>4, <2>1
    DEF Basic, TypeOK, InSlot, NoneEvicted, FullLife, SkipNeighbour, Visit
<1>5. CASE ServedByNeighbour
  <2>1. /\ pc = "neighbours" /\ req.host # 0
        /\ Serve(req.host, req.type, req.life) /\ Return
        /\ UNCHANGED <<resources, progress, coldStarts>>
    BY <1>5 DEF ServedByNeighbour
  <2>2. req.host \in Nodes /\ req.type \in FuncTypes /\ req.life \in Lives
    BY <2>1, ReqType
  <2>3. hosted' \in PerContainer
    BY <1>0, <2>1, <2>2, ServeEffect, Tables DEF IsPut
  <2> QED
    BY <1>0, <2>1, <2>3, ReturnBasic
    DEF Basic, TypeOK, InSlot, NoneEvicted, FullLife
<1>6. CASE NoNeighbour
  BY <1>0, <1>6 DEF Basic, TypeOK, InSlot, NoneEvicted, FullLife, NoNeighbour
<1>7. ASSUME NEW size \in Nat, Create(size)
      PROVE  Basic'
  <2>1. Return /\ UNCHANGED <<cache, progress>>
    BY <1>7 DEF Create
  <2>2. active' \in PerContainer /\ hosted' \in PerContainer
        /\ coldStarts' \in PerSlot /\ mem' \in [Nodes -> Int]
    BY <1>7, CreateEffect, Tables DEF IsPut
  <2> QED
    BY <1>0, <2>1, <2>2, ReturnBasic
    DEF Basic, TypeOK, InSlot, NoneEvicted, FullLife
<1>8. ASSUME NEW t \in FuncTypes, NEW l \in Lives, DeleteLowestPriority(t, l)
      PROVE  Basic'
  <2>1. tries' \in 0..MaxTries
    <3>1. tries \in 0..MaxTries
      BY <1>0 DEF TypeOK
    <3>2. tries < MaxTries /\ tries' = tries + 1
      BY <1>8 DEF DeleteLowestPriority
    <3>3. MaxTries \in Nat
      BY MaxTriesAssumption
    <3> QED
      BY <3>1, <3>2, <3>3
  <2>2. UNCHANGED <<active, progress, pc, req, ds, outcome>> /\ f' = t
        /\ pc = "create"
    BY <1>8 DEF DeleteLowestPriority, Short
  <2>3. cache' \in PerContainer /\ mem' \in [Nodes -> Int]
    BY <1>0, <1>8, DeleteEffect, Tables DEF IsPut
  <2> QED
    BY <1>0, <2>1, <2>2, <2>3
    DEF Basic, TypeOK, InSlot, NoneEvicted, FullLife
<1>9. ASSUME Unserved
      PROVE  Basic'
  BY <1>0, <1>9, ReturnBasic
  DEF Basic, TypeOK, InSlot, NoneEvicted, FullLife, Unserved
<1>10. CASE UpdateCache
  <2>1. UNCHANGED <<lastSlot, todo, control, coldStarts>>
    BY <1>10 DEF UpdateCache
  <2> QED
    BY <1>0, <1>10, <2>1, UpdateEffect, Tables
    DEF Basic, TypeOK, InSlot, NoneEvicted, FullLife
<1>11. CASE UNCHANGED vars
  BY <1>11 DEF Basic, TypeOK, InSlot, NoneEvicted, FullLife, vars
<1> QED
  BY <1>1, <1>2, <1>3, <1>4, <1>5, <1>6, <1>7, <1>8, <1>9, <1>10, <1>11,
     CreateSize
  DEF Next, Step, Terminating, NothingToDelete, TriesExhausted

THEOREM BasicInvariant == Spec => []Basic
<1>1. Init => Basic
  BY InitBasic
<1>2. Basic /\ [Next]_vars => Basic'
  BY NextBasic
<1> QED
  BY <1>1, <1>2, PTL DEF Spec

\* The state keeps its types: no table of containers holds a negative number,
\* free memory stays a number on every node, and the clock stops one beyond
\* the last slot of the request map.
THEOREM TypeCorrect == Spec => []TypeOK
<1>1. Basic => TypeOK
  BY DEF Basic
<1> QED
  BY <1>1, BasicInvariant, PTL

-----------------------------------------------------------------------------
(***************************************************************************)
(* The memory books.                                                       *)
(***************************************************************************)

LEMMA NextMemory ==
  ASSUME Basic, MemNeverNegative, [Next]_vars
  PROVE  MemNeverNegative'
<1>0. TypeOK /\ NoneEvicted
  BY DEF Basic
<1> USE DEF progress, control, resources
<1>1. ASSUME UNCHANGED mem, pc' # "create"
      PROVE  MemNeverNegative'
  BY <1>1 DEF MemNeverNegative
<1>2. ASSUME NEW t \in FuncTypes, NEW n \in Nodes, PlaceToCurrent(t, n)
      PROVE  MemNeverNegative'
  BY <1>1, <1>2 DEF PlaceToCurrent, TakeRequest, Activate
<1>3. ASSUME NEW t \in FuncTypes, NEW n \in Nodes, ScanNeighbours(t, n)
      PROVE  MemNeverNegative'
  BY <1>1, <1>3 DEF ScanNeighbours
<1>4. ASSUME NEW n \in Nodes, PlaceToNeighbour(n) \/ SkipNeighbour(n)
      PROVE  MemNeverNegative'
  BY <1>1, <1>4 DEF PlaceToNeighbour, SkipNeighbour, Visit, Activate
<1>5. CASE ServedByNeighbour
  BY <1>1, <1>5 DEF ServedByNeighbour, Return
<1>6. CASE NoNeighbour
  BY <1>0, <1>6 DEF NoNeighbour, MemNeverNegative, NoneEvicted
<1>7. ASSUME CreateInFreeSpace \/ CreateInFreedSpace
      PROVE  MemNeverNegative'
  <2>1. PICK size \in Nat : Create(size) /\ size <= mem[req.ingress]
    <3>1. CASE CreateInFreeSpace
      <4>1. req.type \in FuncTypes
        BY <3>1, ReqType DEF CreateInFreeSpace, Create
      <4>2. Size[req.type] \in Nat
        BY <4>1
      <4> QED
        BY <3>1, <4>2 DEF CreateInFreeSpace, Create
    <3>2. CASE CreateInFreedSpace
      <4>1. f \in FuncTypes
        BY <1>0, <3>2 DEF CreateInFreedSpace, TypeOK
      <4>2. Size[f] \in Nat
        BY <4>1
      <4>3. Create(Size[f]) /\ Size[f] <= mem[req.ingress]
        BY <3>2 DEF CreateInFreedSpace, Create, MemNeverNegative
      <4> QED
        BY <4>2, <4>3
    <3> QED
      BY <1>7, <3>1, <3>2
  <2>2. /\ mem'[req.ingress] = mem[req.ingress] - size
        /\ \A m \in Nodes : m # req.ingress => mem'[m] = mem[m]
        /\ req.ingress \in Nodes
    BY <2>1, CreateEffect
  <2>3. mem[req.ingress] \in Int
    BY <1>0, <2>2 DEF TypeOK
  <2>4. mem'[req.ingress] >= 0
    BY <2>1, <2>2, <2>3
  <2>5. \A m \in Nodes : mem'[m] >= 0
    BY <2>2, <2>4 DEF MemNeverNegative
  <2>6. pc' = "next"
    BY <2>1 DEF Create, Return
  <2> QED
    BY <2>5, <2>6 DEF MemNeverNegative
<1>8. ASSUME NEW t \in FuncTypes, NEW l \in Lives, DeleteLowestPriority(t, l)
      PROVE  MemNeverNegative'
  <2>1. /\ req.ingress \in Nodes
        /\ mem'[req.ingress] = mem[req.ingress] + Size[t]
        /\ \A m \in Nodes : m # req.ingress => mem'[m] = mem[m]
    BY <1>0, <1>8, DeleteEffect
  <2>2. mem[req.ingress] \in Int /\ mem[req.ingress] >= 0 /\ Size[t] \in Nat
    BY <1>0, <2>1 DEF TypeOK, MemNeverNegative
  <2>3. f' = t /\ req' = req
    BY <1>8 DEF DeleteLowestPriority
  <2>4. mem'[req.ingress] >= 0 /\ Size[t] <= mem'[req.ingress]
    BY <2>1, <2>2
  <2> QED
    BY <2>1, <2>3, <2>4 DEF MemNeverNegative
<1>9. ASSUME Unserved
      PROVE  MemNeverNegative'
  BY <1>1, <1>9 DEF Unserved, Return
<1>10. CASE UpdateCache
  <2>1. /\ pc' = "next" /\ mem' \in [Nodes -> Int]
        /\ \A m \in Nodes : mem'[m] >= mem[m]
    BY <1>0, <1>10, UpdateEffect
  <2>2. \A m \in Nodes : mem[m] \in Int /\ mem[m] >= 0
    BY <1>0 DEF TypeOK, MemNeverNegative
  <2>3. \A m \in Nodes : mem'[m] >= 0
    BY <2>1, <2>2
  <2> QED
    BY <2>1, <2>3 DEF MemNeverNegative
<1>11. CASE UNCHANGED vars
  BY <1>11 DEF MemNeverNegative, vars
<1> QED
  BY <1>2, <1>3, <1>4, <1>5, <1>6, <1>7, <1>8, <1>9, <1>10, <1>11
  DEF Next, Step, Terminating, NothingToDelete, TriesExhausted

\* createToCurrent, which subtracts the size of the container evicted last,
\* and updateCache, which refunds what expires, never drive the free memory
\* of a node below zero.
THEOREM MemoryStaysFree == Spec => []MemNeverNegative
<1>1. Init => MemNeverNegative
  BY DEF Init, MemNeverNegative
<1>2. Basic /\ MemNeverNegative /\ [Next]_vars => MemNeverNegative'
  BY NextMemory
<1> QED
  BY <1>1, <1>2, BasicInvariant, PTL DEF Spec

\* The memory of a node's containers is the sum over the lives.
ByLife(n) == [l \in Lives |-> OfLife(n, l)]

LEMMA ResidentSum ==
  ASSUME NEW n
  PROVE  /\ Resident(n) = SumTo(ByLife(n), LifeTime)
         /\ Resident(n)' = SumTo(ByLife(n)', LifeTime)
BY DEF Resident, SumTo, AddsUp, ByLife

LEMMA ResidentType ==
  ASSUME TypeOK, NEW n \in Nodes
  PROVE  Resident(n) \in Nat
<1>1. \A l \in 1..LifeTime : ByLife(n)[l] \in Nat
  BY OfLifeType DEF ByLife, Lives
<1>2. \A m \in 0..LifeTime : SumTo(ByLife(n), m) \in Nat
  BY <1>1, SumsNatural
<1>3. LifeTime \in 0..LifeTime
  OBVIOUS
<1> QED
  BY <1>2, <1>3, ResidentSum

\* It stays where the containers of each type and life do, idle or not.
LEMMA ResidentKept ==
  ASSUME NEW n \in Nodes,
         \A t \in FuncTypes, l \in Lives : Held(n, t, l)' = Held(n, t, l)
  PROVE  Resident(n)' = Resident(n)
<1>1. \A l \in Lives : OfLife(n, l)' = OfLife(n, l)
  BY DEF OfLife, FuncTypes
<1>2. ByLife(n)' = ByLife(n)
  BY <1>1 DEF ByLife
<1> QED
  BY <1>2, ResidentSum

\* It grows by d containers of one type and life.
LEMMA ResidentChange ==
  ASSUME TypeOK, NEW n \in Nodes, NEW t \in FuncTypes, NEW l \in Lives,
         NEW d \in Int,
         \A y \in FuncTypes, k \in Lives :
           Held(n, y, k)' = Held(n, y, k) + IF y = t /\ k = l THEN d ELSE 0
  PROVE  Resident(n)' = Resident(n) + Size[t] * d
<1>1. \A y \in FuncTypes, k \in Lives : Held(n, y, k) \in Nat
  BY Counts DEF Held
<1>2. \A y \in FuncTypes : Size[y] \in Nat
  OBVIOUS
<1>3. Size[t] * d \in Int
  BY <1>2
<1>4. \A k \in Lives : k # l => OfLife(n, k)' = OfLife(n, k)
  <2> SUFFICES ASSUME NEW k \in Lives, k # l
               PROVE  OfLife(n, k)' = OfLife(n, k)
    OBVIOUS
  <2>1. \A y \in FuncTypes : Held(n, y, k)' = Held(n, y, k)
    BY <1>1
  <2> QED
    BY <2>1 DEF OfLife, FuncTypes
<1>5. OfLife(n, l)' = OfLife(n, l) + Size[t] * d
  <2> DEFINE Of(y) == Size[y] * Held(n, y, l)
             D(y) == IF y = t THEN Size[t] * d ELSE 0
  <2>1. \A y \in FuncTypes : Of(y) \in Int
    BY <1>1, <1>2
  <2>2. \A y \in FuncTypes : Of(y)' = Of(y) + D(y)
    <3> SUFFICES ASSUME NEW y \in FuncTypes
                 PROVE  Of(y)' = Of(y) + D(y)
      OBVIOUS
    <3>1. Held(n, y, l)' = Held(n, y, l) + IF y = t THEN d ELSE 0
      OBVIOUS
    <3>2. Size[y] \in Int /\ Held(n, y, l) \in Int
      BY <1>1
    <3>3. CASE y = t
      <4>1. Size[y] * (Held(n, y, l) + d) = Size[y] * Held(n, y, l) + Size[y] * d
        BY <3>2
      <4> QED
        BY <3>1, <3>3, <4>1
    <3>4. CASE y # t
      <4>1. Held(n, y, l) + 0 = Held(n, y, l)
        BY <3>2
      <4>2. Of(y) \in Int
        BY <2>1
      <4> QED
        BY <3>1, <3>4, <4>1, <4>2
    <3> QED
      BY <3>3, <3>4
  <2>3. /\ OfLife(n, l) = Of(1) + Of(2) + Of(3) + Of(4)
        /\ OfLife(n, l)' = Of(1)' + Of(2)' + Of(3)' + Of(4)'
    BY DEF OfLife
  <2> HIDE DEF Of
  <2>4. /\ Of(1)' = Of(1) + D(1) /\ Of(2)' = Of(2) + D(2)
        /\ Of(3)' = Of(3) + D(3) /\ Of(4)' = Of(4) + D(4)
    BY <2>2 DEF FuncTypes
  <2>5. Of(1) \in Int /\ Of(2) \in Int /\ Of(3) \in Int /\ Of(4) \in Int
    BY <2>1 DEF FuncTypes
  <2>6. D(1) + D(2) + D(3) + D(4) = Size[t] * d
        /\ D(1) \in Int /\ D(2) \in Int /\ D(3) \in Int /\ D(4) \in Int
    BY <1>3 DEF FuncTypes
  <2> HIDE DEF D
  <2> QED
    BY <2>3, <2>4, <2>5, <2>6
<1>6. /\ \A k \in 1..LifeTime : ByLife(n)[k] \in Int
      /\ ByLife(n)'[l] = ByLife(n)[l] + Size[t] * d
      /\ \A k \in 1..LifeTime : k # l => ByLife(n)'[k] = ByLife(n)[k]
  BY <1>4, <1>5, OfLifeType DEF ByLife, Lives
<1>7. SumTo(ByLife(n)', LifeTime) = SumTo(ByLife(n), LifeTime) + Size[t] * d
  <2> DEFINE g == ByLife(n)
             h == ByLife(n)'
             e == Size[t] * d
  <2>1. l \in 1..LifeTime /\ LifeTime \in Nat /\ e \in Int
    BY <1>3 DEF Lives
  <2>2. /\ \A k \in 1..LifeTime : g[k] \in Int
        /\ h[l] = g[l] + e
        /\ \A k \in 1..LifeTime : k # l => h[k] = g[k]
    BY <1>6
  <2> HIDE DEF g, h, e
  <2>3. SumTo(h, LifeTime) = SumTo(g, LifeTime) + e
    BY <2>1, <2>2, SumIncrement
  <2> QED
    BY <2>3 DEF g, h, e
<1> QED
  BY <1>7, ResidentSum

\* At the end of a slot it loses what expires.
LEMMA ResidentExpires ==
  ASSUME TypeOK, UpdateCache, NEW n \in Nodes
  PROVE  Resident(n)' = Resident(n) - Expiring(n)
<1>1. \A t \in FuncTypes, l \in Lives :
        Held(n, t, l)' = IF l < LifeTime THEN Held(n, t, l + 1) ELSE 0
  <2> SUFFICES ASSUME NEW t \in FuncTypes, NEW l \in Lives
               PROVE  Held(n, t, l)' = IF l < LifeTime THEN Held(n, t, l + 1) ELSE 0
    OBVIOUS
  <2>1. /\ cache'[n][t][l] = IF l < LifeTime THEN Held(n, t, l + 1) ELSE 0
        /\ cache' \in PerContainer
        /\ active' = NoContainer
    BY UpdateEffect
  <2>2. active'[n][t][l] = 0
    BY <2>1, Tables
  <2>3. cache'[n][t][l] \in Nat
    BY <2>1 DEF PerContainer
  <2> QED
    BY <2>1, <2>2, <2>3 DEF Held
<1>2. \A l \in Lives :
        OfLife(n, l)' = IF l < LifeTime THEN OfLife(n, l + 1) ELSE 0
  <2> SUFFICES ASSUME NEW l \in Lives
               PROVE  OfLife(n, l)' = IF l < LifeTime THEN OfLife(n, l + 1) ELSE 0
    OBVIOUS
  <2>1. CASE l < LifeTime
    <3>1. \A t \in FuncTypes : Held(n, t, l)' = Held(n, t, l + 1)
      BY <1>1, <2>1
    <3> QED
      BY <2>1, <3>1 DEF OfLife, FuncTypes
  <2>2. CASE ~ (l < LifeTime)
    <3>1. \A t \in FuncTypes : Held(n, t, l)' = 0 /\ Size[t] * 0 = 0
      BY <1>1, <2>2
    <3> QED
      BY <2>2, <3>1 DEF OfLife, FuncTypes
  <2> QED
    BY <2>1, <2>2
<1> DEFINE g == ByLife(n)
           h == ByLife(n)'
<1>3. /\ \A l \in 1..LifeTime : g[l] \in Int
      /\ \A l \in 1..LifeTime : h[l] = IF l < LifeTime THEN g[l + 1] ELSE 0
      /\ g[1] = Expiring(n)
  BY <1>2, OfLifeType DEF ByLife, Lives, Expiring
<1> HIDE DEF g, h
<1>4. SumTo(h, LifeTime) = SumTo(g, LifeTime) - g[1]
  BY <1>3, SumShift
<1> QED
  BY <1>3, <1>4, ResidentSum DEF g, h

LEMMA BooksStep ==
  ASSUME Basic, [Next]_vars, ~ CreateInFreedSpace, NEW n \in Nodes
  PROVE  mem'[n] + Resident(n)' = mem[n] + Resident(n)
<1>0. TypeOK
  BY DEF Basic
<1> USE DEF progress, control, resources
<1>1. ASSUME cache' = cache, active' = active, mem' = mem
      PROVE  mem'[n] + Resident(n)' = mem[n] + Resident(n)
  <2>1. Resident(n)' = Resident(n)
    BY <1>1, ResidentKept DEF Held
  <2> QED
    BY <1>1, <2>1
<1>2. ASSUME NEW m \in Nodes, NEW t \in FuncTypes, NEW l \in Lives,
             Activate(m, t, l)
      PROVE  mem'[n] + Resident(n)' = mem[n] + Resident(n)
  <2>1. /\ IsPut(Nodes, FuncTypes, Lives, cache', cache, m, t, l,
                 cache[m][t][l] - 1)
        /\ IsPut(Nodes, FuncTypes, Lives, active', active, m, t, l,
                 active[m][t][l] + 1)
        /\ mem' = mem
    BY <1>0, <1>2, ActivateEffect
  <2>2. \A y \in FuncTypes, k \in Lives : Held(n, y, k)' = Held(n, y, k)
    <3> SUFFICES ASSUME NEW y \in FuncTypes, NEW k \in Lives
                 PROVE  Held(n, y, k)' = Held(n, y, k)
      OBVIOUS
    <3>1. cache[n][y][k] \in Nat /\ active[n][y][k] \in Nat
      BY <1>0, Counts
    <3>2. CASE m = n /\ y = t /\ k = l
      <4>1. /\ cache'[n][y][k] = cache[n][y][k] - 1
            /\ active'[n][y][k] = active[n][y][k] + 1
        BY <2>1, <3>2 DEF IsPut
      <4>2. (cache[n][y][k] - 1) + (active[n][y][k] + 1)
              = cache[n][y][k] + active[n][y][k]
        BY <3>1
      <4> QED
        BY <4>1, <4>2 DEF Held
    <3>3. CASE ~ (m = n /\ y = t /\ k = l)
      <4>1. cache'[n][y][k] = cache[n][y][k] /\ active'[n][y][k] = active[n][y][k]
        BY <2>1, <3>3 DEF IsPut
      <4> QED
        BY <4>1 DEF Held
    <3> QED
      BY <3>2, <3>3
  <2>3. Resident(n)' = Resident(n)
    BY <2>2, ResidentKept
  <2> QED
    BY <2>1, <2>3
<1>3. CASE CreateInFreeSpace
  <2> DEFINE t == req.type
             size == Size[t]
  <2>1. t \in FuncTypes /\ size \in Nat /\ Create(size)
    <3>1. pc # "next" /\ Create(size)
      BY <1>3 DEF CreateInFreeSpace, Create
    <3>2. t \in FuncTypes
      BY <3>1, ReqType
    <3> QED
      BY <3>1, <3>2
  <2>2. /\ req.ingress \in Nodes /\ LifeTime \in Lives
        /\ cache' = cache
        /\ IsPut(Nodes, FuncTypes, Lives, active', active, req.ingress, t,
                 LifeTime,
                 active[req.ingress][t][LifeTime] + 1)
        /\ mem'[req.ingress] = mem[req.ingress] - size
        /\ \A m \in Nodes : m # req.ingress => mem'[m] = mem[m]
    BY <2>1, CreateEffect
  <2> HIDE DEF t
  <2>3. CASE n = req.ingress
    <3>1. \A y \in FuncTypes, k \in Lives :
            Held(n, y, k)'
              = Held(n, y, k) + IF y = t /\ k = LifeTime THEN 1 ELSE 0
      <4> SUFFICES ASSUME NEW y \in FuncTypes, NEW k \in Lives
                   PROVE  Held(n, y, k)'
                            = Held(n, y, k) + IF y = t /\ k = LifeTime THEN 1 ELSE 0
        OBVIOUS
      <4>1. cache[n][y][k] \in Nat /\ active[n][y][k] \in Nat
        BY <1>0, Counts
      <4>2. active'[n][y][k]
              = active[n][y][k] + IF y = t /\ k = LifeTime THEN 1 ELSE 0
        <5>1. CASE y = t /\ k = LifeTime
          <6>1. active'[n][t][LifeTime] = active[n][t][LifeTime] + 1
            BY <2>2, <2>3 DEF IsPut
          <6> QED
            BY <5>1, <6>1
        <5>2. CASE ~ (y = t /\ k = LifeTime)
          <6>1. active'[n][y][k] = active[n][y][k]
            BY <2>2, <2>3, <5>2 DEF IsPut
          <6> QED
            BY <4>1, <5>2, <6>1
        <5> QED
          BY <5>1, <5>2
      <4>3. cache'[n][y][k] = cache[n][y][k]
        BY <2>2
      <4> QED
        BY <4>1, <4>2, <4>3 DEF Held
    <3>2. Resident(n)' = Resident(n) + Size[t] * 1
      BY <1>0, <2>1, <2>2, <3>1, ResidentChange
    <3>3. Resident(n) \in Int /\ mem[n] \in Int
      BY <1>0, ResidentType DEF TypeOK
    <3> QED
      BY <2>1, <2>2, <2>3, <3>2, <3>3
  <2>4. CASE n # req.ingress
    <3>1. \A y \in FuncTypes, k \in Lives : Held(n, y, k)' = Held(n, y, k)
      BY <2>2, <2>4 DEF IsPut, Held
    <3> QED
      BY <2>2, <2>4, <3>1, ResidentKept
  <2> QED
    BY <2>3, <2>4
<1>4. ASSUME NEW t \in FuncTypes, NEW l \in Lives, DeleteLowestPriority(t, l)
      PROVE  mem'[n] + Resident(n)' = mem[n] + Resident(n)
  <2>1. /\ req.ingress \in Nodes
        /\ IsPut(Nodes, FuncTypes, Lives, cache', cache, req.ingress, t, l,
                 cache[req.ingress][t][l] - 1)
        /\ mem'[req.ingress] = mem[req.ingress] + Size[t]
        /\ \A m \in Nodes : m # req.ingress => mem'[m] = mem[m]
    BY <1>0, <1>4, DeleteEffect
  <2>2. active' = active
    BY <1>4 DEF DeleteLowestPriority
  <2>3. CASE n = req.ingress
    <3>1. \A y \in FuncTypes, k \in Lives :
            Held(n, y, k)' = Held(n, y, k) + IF y = t /\ k = l THEN -1 ELSE 0
      <4> SUFFICES ASSUME NEW y \in FuncTypes, NEW k \in Lives
                   PROVE  Held(n, y, k)'
                            = Held(n, y, k) + IF y = t /\ k = l THEN -1 ELSE 0
        OBVIOUS
      <4>1. cache[n][y][k] \in Nat /\ active[n][y][k] \in Nat
        BY <1>0, Counts
      <4> QED
        BY <2>1, <2>2, <2>3, <4>1 DEF IsPut, Held
    <3>2. Resident(n)' = Resident(n) + Size[t] * (-1)
      BY <1>0, <3>1, ResidentChange
    <3>3. Resident(n) \in Int /\ mem[n] \in Int /\ Size[t] \in Nat
      BY <1>0, ResidentType DEF TypeOK
    <3> QED
      BY <2>1, <2>3, <3>2, <3>3
  <2>4. CASE n # req.ingress
    <3>1. \A y \in FuncTypes, k \in Lives : Held(n, y, k)' = Held(n, y, k)
      BY <2>1, <2>2, <2>4 DEF IsPut, Held
    <3> QED
      BY <2>1, <2>4, <3>1, ResidentKept
  <2> QED
    BY <2>3, <2>4
<1>5. CASE UpdateCache
  <2>1. mem' = [m \in Nodes |-> mem[m] + Expiring(m)]
    BY <1>5 DEF UpdateCache
  <2>2. Resident(n)' = Resident(n) - Expiring(n)
    BY <1>0, <1>5, ResidentExpires
  <2>3. Resident(n) \in Int /\ mem[n] \in Int /\ Expiring(n) \in Int
    BY <1>0, ResidentType, ExpiringType DEF TypeOK
  <2> QED
    BY <2>1, <2>2, <2>3
<1>6. ASSUME NEW t \in FuncTypes, NEW m \in Nodes, PlaceToCurrent(t, m)
      PROVE  mem'[n] + Resident(n)' = mem[n] + Resident(n)
  BY <1>2, <1>6 DEF PlaceToCurrent
<1>7. ASSUME NEW m \in Nodes, PlaceToNeighbour(m)
      PROVE  mem'[n] + Resident(n)' = mem[n] + Resident(n)
  <2>1. pc # "next"
    BY <1>7 DEF PlaceToNeighbour, Visit
  <2>2. req.type \in FuncTypes
    BY <2>1, ReqType
  <2> QED
    BY <1>2, <1>7, <2>2 DEF PlaceToNeighbour
<1>8. ASSUME \/ \E t \in FuncTypes, m \in Nodes : ScanNeighbours(t, m)
             \/ \E m \in Nodes : SkipNeighbour(m)
             \/ ServedByNeighbour \/ NoNeighbour
             \/ NothingToDelete \/ TriesExhausted \/ UNCHANGED vars
      PROVE  mem'[n] + Resident(n)' = mem[n] + Resident(n)
  <2>1. cache' = cache /\ active' = active /\ mem' = mem
    BY <1>8 DEF ScanNeighbours, SkipNeighbour, ServedByNeighbour, NoNeighbour,
                NothingToDelete, TriesExhausted, Unserved, vars
  <2> QED
    BY <1>1, <2>1
<1> QED
  BY <1>3, <1>4, <1>5, <1>6, <1>7, <1>8 DEF Next, Step, Terminating

\* createToCurrent after an eviction is the only operation that takes another
\* amount of memory than the container it makes occupies: use, eviction and
\* expiry, also of containers at work, move as much memory as containers.
THEOREM BooksStayBalanced == Spec => BooksBalance
<1>1. Basic /\ [Next]_vars =>
        [\A n \in Nodes :
           CreateInFreedSpace \/ mem'[n] + Resident(n)' = mem[n] + Resident(n)]_vars
  BY BooksStep
<1> QED
  BY <1>1, BasicInvariant, PTL DEF Spec, BooksBalance

-----------------------------------------------------------------------------
(***************************************************************************)
(* Every container from a cold start.                                      *)
(***************************************************************************)

\* FromColdStart without its LET.
Born(l) == slot - (LifeTime - l)

Rooted(n, t, l) ==
  Held(n, t, l) > 0 =>
    Born(l) \in Slots /\ Held(n, t, l) <= coldStarts[n][t][Born(l)]

LEMMA RootedForm ==
  FromColdStart <=>
    \A n \in Nodes, t \in FuncTypes, l \in Lives : Rooted(n, t, l)
BY DEF FromColdStart, Rooted, Born

LEMMA NextRooted ==
  ASSUME Basic, FromColdStart, [Next]_vars
  PROVE  FromColdStart'
<1> USE DEF progress, control, resources, outcome
<1>0. /\ TypeOK /\ TypeOK'
      /\ \A n \in Nodes, t \in FuncTypes, l \in Lives : Rooted(n, t, l)
  BY NextBasic, RootedForm DEF Basic
<1>1. SUFFICES ASSUME NEW m \in Nodes, NEW y \in FuncTypes, NEW k \in Lives
               PROVE  Rooted(m, y, k)'
  BY DEF FromColdStart, Rooted, Held, Born
<1>2. \A l \in Lives :
        /\ cache[m][y][l] \in Nat /\ cache'[m][y][l] \in Nat
        /\ active[m][y][l] \in Nat /\ active'[m][y][l] \in Nat
        /\ Held(m, y, l) \in Nat /\ Held(m, y, l)' \in Nat
  <2>1. \A l \in Lives :
          /\ cache[m][y][l] \in Nat /\ cache'[m][y][l] \in Nat
          /\ active[m][y][l] \in Nat /\ active'[m][y][l] \in Nat
    BY <1>0 DEF TypeOK, PerContainer
  <2> QED
    BY <2>1 DEF Held
<1>3. Rooted(m, y, k)
  BY <1>0
\* A step that neither adds containers nor moves the clock.
<1>4. ASSUME UNCHANGED <<slot, coldStarts>>, Held(m, y, k)' <= Held(m, y, k)
      PROVE  Rooted(m, y, k)'
  <2> SUFFICES ASSUME Held(m, y, k)' > 0
               PROVE  /\ Born(k)' \in Slots
                      /\ Held(m, y, k)' <= coldStarts'[m][y][Born(k)']
    BY DEF Rooted
  <2>1. Held(m, y, k) > 0
    BY <1>2, <1>4
  <2>2. Born(k) \in Slots /\ Held(m, y, k) <= coldStarts[m][y][Born(k)]
    BY <1>3, <2>1 DEF Rooted
  <2>3. coldStarts[m][y][Born(k)] \in Nat
    BY <1>0, <2>2 DEF TypeOK, PerSlot
  <2>4. Born(k)' = Born(k) /\ coldStarts' = coldStarts
    BY <1>4 DEF Born
  <2>5. Held(m, y, k)' <= coldStarts[m][y][Born(k)]
    BY <1>2, <1>4, <2>2, <2>3
  <2> QED
    BY <2>2, <2>4, <2>5
<1>5. ASSUME UNCHANGED <<slot, coldStarts, cache, active>>
      PROVE  Rooted(m, y, k)'
  BY <1>2, <1>4, <1>5 DEF Held
<1>6. ASSUME NEW n \in Nodes, NEW t \in FuncTypes, NEW l \in Lives,
             Activate(n, t, l), UNCHANGED <<slot, coldStarts>>
      PROVE  Rooted(m, y, k)'
  <2>1. /\ IsPut(Nodes, FuncTypes, Lives, cache', cache, n, t, l,
                 cache[n][t][l] - 1)
        /\ IsPut(Nodes, FuncTypes, Lives, active', active, n, t, l,
                 active[n][t][l] + 1)
    BY <1>0, <1>6, ActivateEffect
  <2>2. Held(m, y, k)' = Held(m, y, k)
    <3>1. CASE m = n /\ y = t /\ k = l
      <4>1. PICK a \in Nat : a = cache[m][y][k]
        BY <1>2
      <4>2. PICK b \in Nat : b = active[m][y][k]
        BY <1>2
      <4>3. cache'[m][y][k] = a - 1 /\ active'[m][y][k] = b + 1
        BY <2>1, <3>1, <4>1, <4>2 DEF IsPut
      <4>4. Held(m, y, k) = a + b /\ Held(m, y, k)' = (a - 1) + (b + 1)
        BY <4>1, <4>2, <4>3 DEF Held
      <4> QED
        BY <4>4
    <3>2. CASE ~ (m = n /\ y = t /\ k = l)
      BY <2>1, <3>2 DEF IsPut, Held
    <3> QED
      BY <3>1, <3>2
  <2> QED
    BY <1>2, <1>4, <1>6, <2>2
<1>7. ASSUME NEW t \in FuncTypes, NEW n \in Nodes, PlaceToCurrent(t, n)
      PROVE  Rooted(m, y, k)'
  <2>1. UNCHANGED <<slot, coldStarts>>
    BY <1>7 DEF PlaceToCurrent, TakeRequest
  <2>2. PICK l \in Lives : Activate(n, t, l)
    BY <1>7 DEF PlaceToCurrent
  <2> QED
    BY <1>6, <2>1, <2>2
<1>8. ASSUME NEW t \in FuncTypes, NEW n \in Nodes, ScanNeighbours(t, n)
      PROVE  Rooted(m, y, k)'
  BY <1>5, <1>8 DEF ScanNeighbours, TakeRequest
<1>9. ASSUME NEW n \in Nodes, PlaceToNeighbour(n)
      PROVE  Rooted(m, y, k)'
  <2>1. UNCHANGED <<slot, coldStarts>> /\ pc = "neighbours"
    BY <1>9 DEF PlaceToNeighbour, Visit
  <2>2. req.type \in FuncTypes
    BY <2>1, ReqType
  <2>3. PICK l \in Lives : Activate(n, req.type, l)
    BY <1>9 DEF PlaceToNeighbour
  <2> QED
    BY <1>6, <2>1, <2>2, <2>3
<1>10. ASSUME NEW n \in Nodes, SkipNeighbour(n)
       PROVE  Rooted(m, y, k)'
  BY <1>5, <1>10 DEF SkipNeighbour, Visit
<1>11. CASE ServedByNeighbour \/ NoNeighbour
  BY <1>5, <1>11 DEF ServedByNeighbour, NoNeighbour
<1>12. ASSUME NEW size \in Nat, Create(size)
       PROVE  Rooted(m, y, k)'
  <2> DEFINE n == req.ingress
             t == req.type
  <2>1. /\ slot \in Slots /\ LifeTime \in Lives
        /\ n \in Nodes /\ t \in FuncTypes
        /\ cache' = cache
        /\ IsPut(Nodes, FuncTypes, Lives, active', active, n, t, LifeTime,
                 active[n][t][LifeTime] + 1)
        /\ IsPut(Nodes, FuncTypes, Slots, coldStarts', coldStarts, n, t, slot,
                 coldStarts[n][t][slot] + 1)
    BY <1>12, CreateEffect
  <2>2. slot' = slot
    BY <1>12 DEF Create
  <2> HIDE DEF n, t
  <2>3. \A s \in Slots :
          coldStarts[m][y][s] \in Nat /\ coldStarts'[m][y][s] \in Nat
    BY <1>0 DEF TypeOK, PerSlot
  <2>4. CASE m = n /\ y = t /\ k = LifeTime
    <3>1. Born(k) = slot /\ Born(k)' = slot
      BY <2>1, <2>2, <2>4 DEF Born, Slots
    <3>2. Held(m, y, k)' = Held(m, y, k) + 1
      <4>1. PICK a \in Nat : a = cache[m][y][k]
        BY <1>2
      <4>2. PICK b \in Nat : b = active[m][y][k]
        BY <1>2
      <4>3. cache'[m][y][k] = a /\ active'[m][y][k] = b + 1
        BY <2>1, <2>4, <4>1, <4>2 DEF IsPut
      <4>4. Held(m, y, k) = a + b /\ Held(m, y, k)' = a + (b + 1)
        BY <4>1, <4>2, <4>3 DEF Held
      <4> QED
        BY <4>4
    <3>3. coldStarts'[m][y][slot] = coldStarts[m][y][slot] + 1
      BY <2>1, <2>4 DEF IsPut
    <3>4. Held(m, y, k) <= coldStarts[m][y][slot]
      BY <1>2, <1>3, <2>1, <2>3, <3>1 DEF Rooted
    <3>5. Held(m, y, k)' <= coldStarts'[m][y][slot]
      BY <1>2, <2>1, <2>3, <3>2, <3>3, <3>4
    <3> QED
      BY <2>1, <3>1, <3>5 DEF Rooted
  <2>5. CASE ~ (m = n /\ y = t /\ k = LifeTime)
    <3>1. Held(m, y, k)' = Held(m, y, k)
      BY <2>1, <2>5 DEF IsPut, Held
    <3>2. Born(k)' = Born(k)
      BY <2>2 DEF Born
    <3>3. ASSUME Born(k) \in Slots
          PROVE  coldStarts[m][y][Born(k)] <= coldStarts'[m][y][Born(k)]
      <4>1. CASE m = n /\ y = t /\ Born(k) = slot
        BY <2>1, <2>3, <4>1 DEF IsPut
      <4>2. CASE ~ (m = n /\ y = t /\ Born(k) = slot)
        BY <2>1, <2>3, <3>3, <4>2 DEF IsPut
      <4> QED
        BY <4>1, <4>2
    <3> SUFFICES ASSUME Held(m, y, k) > 0
                 PROVE  /\ Born(k) \in Slots
                        /\ Held(m, y, k) <= coldStarts'[m][y][Born(k)]
      BY <3>1, <3>2 DEF Rooted
    <3>4. Born(k) \in Slots /\ Held(m, y, k) <= coldStarts[m][y][Born(k)]
      BY <1>3 DEF Rooted
    <3> QED
      BY <1>2, <2>3, <3>3, <3>4
  <2> QED
    BY <2>4, <2>5
<1>13. ASSUME NEW t \in FuncTypes, NEW l \in Lives, DeleteLowestPriority(t, l)
       PROVE  Rooted(m, y, k)'
  <2> DEFINE n == req.ingress
  <2>1. IsPut(Nodes, FuncTypes, Lives, cache', cache, n, t, l,
              cache[n][t][l] - 1)
    BY <1>0, <1>13, DeleteEffect
  <2>2. UNCHANGED <<slot, coldStarts, active>>
    BY <1>13 DEF DeleteLowestPriority
  <2> HIDE DEF n
  <2>3. Held(m, y, k)' <= Held(m, y, k)
    <3>1. CASE m = n /\ y = t /\ k = l
      BY <1>2, <2>1, <2>2, <3>1 DEF IsPut, Held
    <3>2. CASE ~ (m = n /\ y = t /\ k = l)
      BY <1>2, <2>1, <2>2, <3>2 DEF IsPut, Held
    <3> QED
      BY <3>1, <3>2
  <2> QED
    BY <1>4, <2>2, <2>3
<1>14. ASSUME Unserved
       PROVE  Rooted(m, y, k)'
  BY <1>5, <1>14 DEF Unserved
\* What is held with life k after the slot was held with k + 1 before.
<1>15. CASE UpdateCache
  <2>1. /\ slot' = slot + 1 /\ coldStarts' = coldStarts
        /\ active' = NoContainer
        /\ cache'[m][y][k] = IF k < LifeTime THEN Held(m, y, k + 1) ELSE 0
    BY <1>0, <1>15, UpdateEffect
  <2>2. Held(m, y, k)' = IF k < LifeTime THEN Held(m, y, k + 1) ELSE 0
    BY <1>2, <2>1, Tables DEF Held
  <2>3. CASE k < LifeTime
    <3>1. k + 1 \in Lives
      BY <2>3 DEF Lives
    <3>2. Born(k)' = Born(k + 1)
      <4>1. slot \in Nat
        BY <1>0 DEF Basic, TypeOK
      <4>2. k \in Nat /\ LifeTime \in Nat
        BY LifeTimeAssumption DEF Lives
      <4>3. (slot + 1) - (LifeTime - k) = slot - (LifeTime - (k + 1))
        BY <4>1, <4>2
      <4> QED
        BY <2>1, <4>3 DEF Born
    <3>3. Rooted(m, y, k + 1)
      BY <1>0, <3>1
    <3>4. Held(m, y, k)' = Held(m, y, k + 1)
      BY <2>2, <2>3
    <3> QED
      BY <2>1, <3>2, <3>3, <3>4 DEF Rooted
  <2>4. CASE ~ (k < LifeTime)
    BY <2>2, <2>4 DEF Rooted
  <2> QED
    BY <2>3, <2>4
<1>16. CASE UNCHANGED vars
  BY <1>5, <1>16 DEF vars
<1> QED
  BY <1>7, <1>8, <1>9, <1>10, <1>11, <1>12, <1>13, <1>14, <1>15, <1>16,
     CreateSize
  DEF Next, Step, Terminating, NothingToDelete, TriesExhausted

\* Every container, idle or busy, goes back to a cold start of its own node
\* and type, as many slots ago as life is gone from it: minusLife runs once
\* a slot whether the container is used or not, and nothing renews it.
THEOREM LivesCountFromColdStart == Spec => []FromColdStart
<1>1. Init => FromColdStart
  BY DEF Init, FromColdStart, Held, NoContainer
<1>2. Basic /\ FromColdStart /\ [Next]_vars => FromColdStart'
  BY NextRooted
<1> QED
  BY <1>1, <1>2, BasicInvariant, PTL DEF Spec

-----------------------------------------------------------------------------
(***************************************************************************)
(* A container for every request.                                          *)
(***************************************************************************)
Own(n, t, l) == hosted[n][t][l] + Placed(n, t, l) <= active[n][t][l]

LEMMA NextOwn ==
  ASSUME Basic, OwnContainer, [Next]_vars
  PROVE  OwnContainer'
<1> USE DEF progress, control, resources, outcome
<1>0. TypeOK /\ TypeOK'
  BY NextBasic DEF Basic
<1>1. SUFFICES ASSUME NEW m \in Nodes, NEW y \in FuncTypes, NEW k \in Lives
               PROVE  Own(m, y, k)'
  BY DEF OwnContainer, Own, Placed
<1>2. /\ hosted[m][y][k] \in Nat /\ hosted'[m][y][k] \in Nat
      /\ active[m][y][k] \in Nat /\ active'[m][y][k] \in Nat
  BY <1>0 DEF TypeOK, PerContainer
<1>3. Own(m, y, k)
  BY DEF OwnContainer, Own
<1>4. Placed(m, y, k) \in {0, 1} /\ Placed(m, y, k)' \in {0, 1}
  BY DEF Placed
\* A request not placed counts nowhere.
<1>5. NoRequest.host # m
  BY DEF NoRequest, Nodes
<1>6. ASSUME UNCHANGED <<active, hosted, req>>
      PROVE  Own(m, y, k)'
  BY <1>3, <1>6 DEF Own, Placed
<1>7. ASSUME NEW t \in FuncTypes, NEW n \in Nodes, PlaceToCurrent(t, n)
      PROVE  Own(m, y, k)'
  <2>1. TakeRequest(t, n) /\ req' = req
    BY <1>7 DEF PlaceToCurrent
  <2>2. PICK l \in Lives : Activate(n, t, l) /\ Serve(n, t, l)
    BY <1>7 DEF PlaceToCurrent
  <2>3. req = NoRequest
    BY <1>0, <2>1, TakeRequestType
  <2>4. Placed(m, y, k) = 0 /\ Placed(m, y, k)' = 0
    BY <1>5, <2>1, <2>3 DEF Placed
  <2>5. /\ IsPut(Nodes, FuncTypes, Lives, active', active, n, t, l,
                 active[n][t][l] + 1)
        /\ IsPut(Nodes, FuncTypes, Lives, hosted', hosted, n, t, l,
                 hosted[n][t][l] + 1)
    BY <1>0, <2>2, ActivateEffect, ServeEffect
  <2>6. CASE m = n /\ y = t /\ k = l
    <3>1. active'[m][y][k] = active[m][y][k] + 1
          /\ hosted'[m][y][k] = hosted[m][y][k] + 1
      BY <2>5, <2>6 DEF IsPut
    <3> QED
      BY <1>2, <1>3, <2>4, <3>1 DEF Own
  <2>7. CASE ~ (m = n /\ y = t /\ k = l)
    <3>1. active'[m][y][k] = active[m][y][k]
          /\ hosted'[m][y][k] = hosted[m][y][k]
      BY <2>5, <2>7 DEF IsPut
    <3> QED
      BY <1>3, <2>4, <3>1 DEF Own
  <2> QED
    BY <2>6, <2>7
<1>8. ASSUME NEW t \in FuncTypes, NEW n \in Nodes, ScanNeighbours(t, n)
      PROVE  Own(m, y, k)'
  <2>1. TakeRequest(t, n) /\ UNCHANGED <<active, hosted>> /\ req'.host = 0
    BY <1>8 DEF ScanNeighbours
  <2>2. req = NoRequest
    BY <1>0, <2>1, TakeRequestType
  <2>3. Placed(m, y, k) = 0
    BY <1>5, <2>2 DEF Placed
  <2>4. Placed(m, y, k)' = 0
    BY <2>1 DEF Placed, Nodes
  <2> QED
    BY <1>3, <2>1, <2>3, <2>4 DEF Own
<1>9. ASSUME NEW n \in Nodes, PlaceToNeighbour(n)
      PROVE  Own(m, y, k)'
  <2>1. pc = "neighbours" /\ hosted' = hosted
    BY <1>9 DEF PlaceToNeighbour, Visit
  <2>2. req \in Request /\ req.type \in FuncTypes
    BY <2>1, ReqType
  <2>3. PICK l \in Lives : /\ Activate(n, req.type, l)
                           /\ req' = [req EXCEPT !.host = n, !.life = l]
    BY <1>9 DEF PlaceToNeighbour
  <2>4. req'.host = n /\ req'.type = req.type /\ req'.life = l
    BY <2>2, <2>3 DEF Request
  <2>5. IsPut(Nodes, FuncTypes, Lives, active', active, n, req.type, l,
              active[n][req.type][l] + 1)
    BY <1>0, <2>2, <2>3, ActivateEffect
  <2>6. CASE m = n /\ y = req.type /\ k = l
    <3>1. active'[m][y][k] = active[m][y][k] + 1
      BY <2>5, <2>6 DEF IsPut
    <3> QED
      BY <1>2, <1>3, <1>4, <2>1, <3>1 DEF Own
  <2>7. CASE ~ (m = n /\ y = req.type /\ k = l)
    <3>1. active'[m][y][k] = active[m][y][k]
      BY <2>5, <2>7 DEF IsPut
    <3>2. Placed(m, y, k)' = 0
      BY <2>4, <2>7 DEF Placed
    <3> QED
      BY <1>2, <1>3, <1>4, <2>1, <3>1, <3>2 DEF Own
  <2> QED
    BY <2>6, <2>7
<1>10. ASSUME NEW n \in Nodes, SkipNeighbour(n)
       PROVE  Own(m, y, k)'
  BY <1>6, <1>10 DEF SkipNeighbour, Visit
<1>11. CASE ServedByNeighbour
  <2>1. /\ pc = "neighbours" /\ req.host # 0
        /\ Serve(req.host, req.type, req.life)
        /\ req' = NoRequest /\ active' = active
    BY <1>11 DEF ServedByNeighbour, Return
  <2>2. req.host \in Nodes /\ req.type \in FuncTypes /\ req.life \in Lives
    BY <2>1, ReqType
  <2>3. IsPut(Nodes, FuncTypes, Lives, hosted', hosted, req.host, req.type,
              req.life,
              hosted[req.host][req.type][req.life] + 1)
    BY <1>0, <2>1, <2>2, ServeEffect
  <2>4. Placed(m, y, k)' = 0
    BY <1>5, <2>1 DEF Placed
  <2>5. CASE m = req.host /\ y = req.type /\ k = req.life
    <3>1. hosted'[m][y][k] = hosted[m][y][k] + 1
      BY <2>3, <2>5 DEF IsPut
    <3>2. Placed(m, y, k) = 1
      BY <2>5 DEF Placed
    <3> QED
      BY <1>2, <1>3, <2>1, <2>4, <3>1, <3>2 DEF Own
  <2>6. CASE ~ (m = req.host /\ y = req.type /\ k = req.life)
    <3>1. hosted'[m][y][k] = hosted[m][y][k]
      BY <2>3, <2>6 DEF IsPut
    <3>2. Placed(m, y, k) = 0
      BY <2>6 DEF Placed
    <3> QED
      BY <1>3, <2>1, <2>4, <3>1, <3>2 DEF Own
  <2> QED
    BY <2>5, <2>6
<1>12. CASE NoNeighbour
  BY <1>6, <1>12 DEF NoNeighbour
<1>13. ASSUME NEW size \in Nat, Create(size)
       PROVE  Own(m, y, k)'
  <2> DEFINE n == req.ingress
             t == req.type
  <2>1. /\ IsPut(Nodes, FuncTypes, Lives, active', active, n, t, LifeTime,
                 active[n][t][LifeTime] + 1)
        /\ IsPut(Nodes, FuncTypes, Lives, hosted', hosted, n, t, LifeTime,
                 hosted[n][t][LifeTime] + 1)
    BY <1>13, CreateEffect
  <2>2. Placed(m, y, k)' = 0
    BY <1>5, <1>13 DEF Create, Return, Placed
  <2> HIDE DEF n, t
  <2>3. CASE m = n /\ y = t /\ k = LifeTime
    <3>1. active'[m][y][k] = active[m][y][k] + 1
          /\ hosted'[m][y][k] = hosted[m][y][k] + 1
      BY <2>1, <2>3 DEF IsPut
    <3> QED
      BY <1>2, <1>3, <1>4, <2>2, <3>1 DEF Own
  <2>4. CASE ~ (m = n /\ y = t /\ k = LifeTime)
    <3>1. active'[m][y][k] = active[m][y][k]
          /\ hosted'[m][y][k] = hosted[m][y][k]
      BY <2>1, <2>4 DEF IsPut
    <3> QED
      BY <1>2, <1>3, <1>4, <2>2, <3>1 DEF Own
  <2> QED
    BY <2>3, <2>4
<1>14. ASSUME NEW t \in FuncTypes, NEW l \in Lives, DeleteLowestPriority(t, l)
       PROVE  Own(m, y, k)'
  BY <1>6, <1>14 DEF DeleteLowestPriority
<1>15. ASSUME Unserved
       PROVE  Own(m, y, k)'
  <2>1. req' = NoRequest /\ UNCHANGED <<active, hosted>>
    BY <1>15 DEF Unserved, Return
  <2>2. Placed(m, y, k)' = 0
    BY <1>5, <2>1 DEF Placed
  <2> QED
    BY <1>2, <1>3, <1>4, <2>1, <2>2 DEF Own
<1>16. CASE UpdateCache
  <2>1. hosted'[m][y][k] = 0 /\ req' = NoRequest
    BY <1>0, <1>16, UpdateEffect, Tables
  <2>2. Placed(m, y, k)' = 0
    BY <1>5, <2>1 DEF Placed
  <2> QED
    BY <1>2, <2>1, <2>2 DEF Own
<1>17. CASE UNCHANGED vars
  BY <1>6, <1>17 DEF vars
<1> QED
  BY <1>7, <1>8, <1>9, <1>10, <1>11, <1>12, <1>13, <1>14, <1>15, <1>16, <1>17,
     CreateSize
  DEF Next, Step, Terminating, NothingToDelete, TriesExhausted

\* Every request served in a slot, and the one being placed, has a busy
\* container of its own on its deployNode, of its type and with the life that
\* its function was given: deployToNeighbour, which goes on after placing a
\* request, never lets two requests share a container.
THEOREM OwnContainers == Spec => []OwnContainer
<1>1. Init => OwnContainer
  <2> SUFFICES ASSUME Init,
                      NEW n \in Nodes, NEW t \in FuncTypes, NEW l \in Lives
               PROVE  Own(n, t, l)
    BY DEF OwnContainer, Own
  <2>1. hosted[n][t][l] = 0 /\ active[n][t][l] = 0
    BY DEF Init, NoContainer
  <2>2. Placed(n, t, l) = 0
    BY DEF Init, Placed, NoRequest, Nodes
  <2> QED
    BY <2>1, <2>2 DEF Own
<1>2. Basic /\ OwnContainer /\ [Next]_vars => OwnContainer'
  BY NextOwn
<1> QED
  BY <1>1, <1>2, BasicInvariant, PTL DEF Spec

-----------------------------------------------------------------------------
(***************************************************************************)
(* Cold starts and warm containers.                                        *)
(***************************************************************************)
\* No container on node n is idle, of the type of the request and near enough
\* to be used.  Nodes at the place of the ingress node are let off: one of
\* them may take its first place in the slice, which is passed over.
NoWarm(n) ==
  \/ ~ Idle(n, req.type)
  \/ n # req.ingress /\ Dist[req.ingress][n] = 0
  \/ n # req.ingress /\ ~ Worthwhile(req.ingress, n, req.type)

ColdOnlyWithoutWarm ==
  [][CreateInFreeSpace \/ CreateInFreedSpace => \A n \in Nodes : NoWarm(n)]_vars

\* As long as no node has taken the request, there was no warm container for
\* it on the nodes passed so far.
PassedNoWarm ==
  /\ pc # "next" /\ req.host = 0 =>
       /\ ~ Idle(req.ingress, req.type)
       /\ \A n \in Nodes : (\E i \in 1..Len(ds) : n = ds[i]) \/ NoWarm(n)
  /\ pc = "create" => ds = <<>> /\ req.host = 0

LEMMA NextPassed == Basic /\ PassedNoWarm /\ [Next]_vars => PassedNoWarm'
<1> SUFFICES ASSUME Basic, PassedNoWarm, [Next]_vars PROVE PassedNoWarm'
  OBVIOUS
<1> USE DEF PassedNoWarm
<1>1. ASSUME pc' = "next"
      PROVE  PassedNoWarm'
  BY <1>1
<1>2. ASSUME NEW t \in FuncTypes, NEW n \in Nodes, ScanNeighbours(t, n)
      PROVE  PassedNoWarm'
  <2>1. PICK slice \in SortedPhyNodes(n) : ds' = Tail(slice)
    BY <1>2 DEF ScanNeighbours
  <2>2. /\ pc' = "neighbours" /\ req'.type = t /\ req'.ingress = n
        /\ cache' = cache /\ ~ Idle(n, t)
    BY <1>2 DEF ScanNeighbours, resources
  <2>3. ASSUME NEW m \in Nodes, ~ \E i \in 1..Len(ds') : m = ds'[i]
        PROVE  NoWarm(m)'
    <3>1. m = slice[1]
      BY <2>1, <2>3, SortedPhyNodesCover
    <3>2. Dist[n][m] = 0
      BY <3>1, SortedPhyNodesCover
    <3> QED
      BY <2>2, <3>2 DEF NoWarm, Idle
  <2> QED
    BY <2>2, <2>3 DEF Idle
<1>3. ASSUME NEW n \in Nodes, PlaceToNeighbour(n)
      PROVE  PassedNoWarm'
  <2>1. pc = "neighbours" /\ pc' = pc
    BY <1>3 DEF PlaceToNeighbour, Visit
  <2>2. req \in Request
    BY <2>1, ReqType
  <2>3. req'.host = n /\ n # 0
    BY <1>3, <2>2 DEF PlaceToNeighbour, Request, Nodes
  <2> QED
    BY <2>1, <2>3
<1>4. ASSUME NEW n \in Nodes, SkipNeighbour(n)
      PROVE  PassedNoWarm'
  <2>1. /\ pc = "neighbours" /\ pc' = pc /\ req' = req /\ cache' = cache
        /\ ds # <<>> /\ n = ds[1] /\ ds' = Tail(ds)
    BY <1>4 DEF SkipNeighbour, Visit, resources
  <2>2. ds \in Seq(Nodes) /\ Len(ds) \in Nat \ {0}
    BY <2>1 DEF Basic, TypeOK
  <2>3. /\ Len(Tail(ds)) = Len(ds) - 1
        /\ \A i \in 1..(Len(ds) - 1) : Tail(ds)[i] = ds[i + 1]
    BY <2>2
  <2>4. ASSUME NEW i \in 1..Len(ds), i # 1
        PROVE  i - 1 \in 1..Len(ds') /\ ds'[i - 1] = ds[i]
    <3>1. i - 1 \in 1..(Len(ds) - 1) /\ (i - 1) + 1 = i
      BY <2>2, <2>4
    <3> QED
      BY <2>1, <2>3, <3>1
  <2>5. ASSUME req.host = 0
        PROVE  NoWarm(n)
    <3>1. CASE n = req.ingress
      BY <2>1, <2>5, <3>1 DEF NoWarm
    <3>2. CASE n # req.ingress
      BY <1>4, <3>2 DEF SkipNeighbour, NoWarm
    <3> QED
      BY <3>1, <3>2
  <2>6. ASSUME NEW m \in Nodes, req.host = 0, ~ \E i \in 1..Len(ds') : m = ds'[i]
        PROVE  NoWarm(m)'
    <3>1. NoWarm(m)
      <4>1. ASSUME NEW i \in 1..Len(ds), m = ds[i]
            PROVE  NoWarm(m)
        <5>1. i = 1
          BY <2>4, <2>6, <4>1
        <5> QED
          BY <2>1, <2>5, <2>6, <4>1, <5>1
      <4> QED
        BY <2>1, <2>6, <4>1
    <3> QED
      BY <2>1, <3>1 DEF NoWarm, Idle
  <2> QED
    BY <2>1, <2>5, <2>6 DEF Idle
<1>5. CASE NoNeighbour
  <2>1. /\ pc = "neighbours" /\ req' = req /\ req.host = 0 /\ cache' = cache
        /\ ds' = ds /\ ds = <<>>
    BY <1>5 DEF NoNeighbour, resources
  <2> QED
    BY <2>1 DEF NoWarm, Idle
<1>6. ASSUME NEW t \in FuncTypes, NEW u \in Lives, DeleteLowestPriority(t, u)
      PROVE  PassedNoWarm'
  <2>1. pc = "create" /\ pc' = pc /\ req' = req /\ ds' = ds
    BY <1>6 DEF DeleteLowestPriority, Short
  <2>2. req.ingress \in Nodes /\ req.type \in FuncTypes
    BY <2>1, ReqType
  <2>3. ASSUME NEW n \in Nodes, Idle(n, req.type)'
        PROVE  Idle(n, req.type)
    <3>1. PICK v \in Lives : cache'[n][req.type][v] > 0
      BY <2>1, <2>3 DEF Idle
    <3>2. cache \in PerContainer
      BY DEF Basic, TypeOK
    <3>3. cache[n][req.type][v] \in Nat /\ cache'[n][req.type][v] <= cache[n][req.type][v]
      BY <1>6, <2>2, <3>2 DEF DeleteLowestPriority, PerContainer
    <3>4. cache'[n][req.type][v] \in Int
      BY <1>6, <2>2, <3>2 DEF DeleteLowestPriority, PerContainer
    <3> QED
      BY <3>1, <3>3, <3>4 DEF Idle
  <2> QED
    BY <2>1, <2>2, <2>3 DEF NoWarm
<1>7. CASE UNCHANGED vars
  <2>1. pc' = pc /\ req' = req /\ ds' = ds /\ cache' = cache
    BY <1>7 DEF vars, resources, control
  <2> QED
    BY <2>1 DEF NoWarm, Idle
<1> QED
  BY <1>1, <1>2, <1>3, <1>4, <1>5, <1>6, <1>7
  DEF Next, Step, Terminating, PlaceToCurrent, TakeRequest, ServedByNeighbour,
      CreateInFreeSpace, CreateInFreedSpace, Create, NothingToDelete,
      TriesExhausted, Unserved, Return, UpdateCache, control

(***************************************************************************)
(* A cold start is the last resort of deployRequest: createToCurrent makes *)
(* no container while a warm one of the type is near enough to be used,    *)
(* whatever it has evicted before (hist.cc:714, fixedcaching.cc:716).      *)
(***************************************************************************)
THEOREM ColdIsLastResort == Spec => ColdOnlyWithoutWarm
<1> DEFINE A == CreateInFreeSpace \/ CreateInFreedSpace => \A n \in Nodes : NoWarm(n)
<1>1. Basic /\ PassedNoWarm /\ [Next]_vars => A
  <2> SUFFICES ASSUME PassedNoWarm, CreateInFreeSpace \/ CreateInFreedSpace
               PROVE  \A n \in Nodes : NoWarm(n)
    OBVIOUS
  <2>1. pc = "create"
    BY DEF CreateInFreeSpace, CreateInFreedSpace, Create
  <2> QED
    BY <2>1 DEF PassedNoWarm
<1>2. Init => PassedNoWarm
  BY DEF Init, PassedNoWarm
<1>3. Basic /\ PassedNoWarm /\ [Next]_vars => PassedNoWarm'
  BY NextPassed
<1> QED
  BY BasicInvariant, <1>1, <1>2, <1>3, PTL DEF Spec, ColdOnlyWithoutWarm

-----------------------------------------------------------------------------
(***************************************************************************)
(* How long deployRequests may run.                                        *)
(***************************************************************************)
\* The requests and the slots still to come, and what is left of a request's
\* own loops; no request takes more steps than Round.
Requests == TotalOf(Slots, FuncTypes, Nodes, todo)
Ahead == Requests + (lastSlot + 1 - slot)
Round == NodeNum + MaxTries + 2
RoundLeft ==
  IF pc = "neighbours" THEN MaxTries + 2 + Len(ds)
  ELSE IF pc = "create" THEN MaxTries + 1 - tries
  ELSE 0
StepsLeft == Round * Ahead + RoundLeft

LEMMA IndexSets == IsFiniteSet(Slots) /\ IsFiniteSet(FuncTypes) /\ IsFiniteSet(Nodes)
<1>1. 1 \in Int /\ 4 \in Int /\ SlotNum \in Int /\ NodeNum \in Int
  OBVIOUS
<1> QED
  BY <1>1, FS_Interval DEF Slots, FuncTypes, Nodes

LEMMA StepsLeftType ==
  ASSUME TypeOK
  PROVE  /\ Requests \in Nat /\ Ahead \in Nat /\ lastSlot + 1 - slot \in Nat
         /\ RoundLeft \in Nat /\ Round \in Nat /\ StepsLeft \in Nat
<1>1. IsFiniteSet(Slots) /\ IsFiniteSet(FuncTypes) /\ IsFiniteSet(Nodes)
  BY IndexSets
<1>2. Requests \in Nat
  BY <1>1, TotalType DEF Requests, TypeOK, Table
<1>3. lastSlot + 1 - slot \in Nat
  BY DEF TypeOK
<1>4. Ahead \in Nat
  BY <1>2, <1>3 DEF Ahead
<1>5. RoundLeft \in Nat
  BY DEF RoundLeft, TypeOK
<1>6. Round \in Nat
  BY DEF Round
<1>7. \A a, b, c \in Nat : a * b + c \in Nat
  OBVIOUS
<1>8. StepsLeft \in Nat
  BY <1>4, <1>5, <1>6, <1>7 DEF StepsLeft
<1> QED
  BY <1>2, <1>3, <1>4, <1>5, <1>6, <1>8

\* A request that is taken up is one less to come.
LEMMA RequestTaken ==
  ASSUME TypeOK, NEW t \in FuncTypes, NEW n \in Nodes, TakeRequest(t, n)
  PROVE  /\ Requests' = Requests - 1 /\ Requests' \in Nat
         /\ lastSlot' = lastSlot /\ slot' = slot
<1>1. slot \in Slots /\ todo \in Table(Slots, FuncTypes, Nodes)
  <2>1. slot \in Slots
    BY DEF TypeOK, TakeRequest, Slots
  <2>2. todo \in Table(Slots, FuncTypes, Nodes)
    BY DEF TypeOK, Table
  <2> QED
    BY <2>1, <2>2
<1>2. todo[slot][t][n] > 0
  BY DEF TakeRequest, FirstRequest
<1>3. todo[slot][t][n] - 1 \in Nat
  BY <1>1, <1>2 DEF Table
<1>4. todo' = Put(todo, slot, t, n, todo[slot][t][n] - 1)
  BY DEF TakeRequest, Put
<1> DEFINE v == todo[slot][t][n] - 1
<1>5. IsPut(Slots, FuncTypes, Nodes, todo', todo, slot, t, n, v)
  <2>1. v \in Nat /\ todo' = Put(todo, slot, t, n, v)
    BY <1>3, <1>4
  <2> HIDE DEF v
  <2> QED
    BY <1>1, <2>1, PutCount
<1>6. IsFiniteSet(Slots) /\ IsFiniteSet(FuncTypes) /\ IsFiniteSet(Nodes)
  BY IndexSets
<1>7. /\ TotalOf(Slots, FuncTypes, Nodes, todo') = TotalOf(Slots, FuncTypes, Nodes, todo) - 1
      /\ TotalOf(Slots, FuncTypes, Nodes, todo') \in Nat
  BY <1>1, <1>2, <1>5, <1>6, TotalDrops
<1> QED
  BY <1>7 DEF Requests, TakeRequest

\* A step that ends a request or a slot: one less of them is to come.
LEMMA RoundEnds ==
  ASSUME TypeOK, Ahead' \in Nat, Ahead = Ahead' + 1,
         RoundLeft' \in Nat, RoundLeft' < Round
  PROVE  StepsLeft' < StepsLeft
<1>1. RoundLeft \in Nat /\ Round \in Nat
  BY StepsLeftType
<1>2. Round * Ahead' + RoundLeft' < Round * (Ahead' + 1) + RoundLeft
  BY <1>1, RoundGone
<1>3. StepsLeft' = Round * Ahead' + RoundLeft'
  BY DEF StepsLeft, Round
<1> QED
  BY <1>2, <1>3 DEF StepsLeft

\* A step within a request leaves the rest of them alone.
LEMMA RoundGoesOn ==
  ASSUME TypeOK, UNCHANGED progress, RoundLeft' \in Nat, RoundLeft' < RoundLeft
  PROVE  StepsLeft' < StepsLeft
<1>1. Ahead \in Nat /\ RoundLeft \in Nat /\ Round \in Nat
  BY StepsLeftType
<1>2. Ahead' = Ahead
  BY DEF progress, Requests, Ahead
<1>3. StepsLeft' = Round * Ahead + RoundLeft'
  BY <1>2 DEF StepsLeft, Round
<1>4. \A b, i, j \in Nat : j < i => b + j < b + i
  OBVIOUS
<1>5. Round * Ahead \in Nat
  BY <1>1
<1>6. Round * Ahead + RoundLeft' < Round * Ahead + RoundLeft
  BY <1>1, <1>4, <1>5
<1> QED
  BY <1>3, <1>6 DEF StepsLeft

LEMMA StepsDrop == TypeOK /\ [Next]_vars => StepsLeft' < StepsLeft \/ UNCHANGED vars
<1> SUFFICES ASSUME TypeOK, [Next]_vars, ~ UNCHANGED vars
             PROVE  StepsLeft' < StepsLeft
  OBVIOUS
<1>1. MaxTries \in Nat /\ NodeNum \in Nat \ {0} /\ tries \in 0..MaxTries
      /\ ds \in Seq(Nodes)
  BY DEF TypeOK
<1>0. /\ Requests \in Nat /\ lastSlot \in Nat /\ slot \in Nat
      /\ slot <= lastSlot + 1
  BY StepsLeftType DEF TypeOK
<1>2. ASSUME NEW t \in FuncTypes, NEW n \in Nodes, PlaceToCurrent(t, n)
      PROVE  StepsLeft' < StepsLeft
  <2>1. Requests' = Requests - 1 /\ Requests' \in Nat
        /\ lastSlot' = lastSlot /\ slot' = slot /\ slot <= lastSlot /\ pc' = "next"
    BY <1>2, RequestTaken DEF PlaceToCurrent, TakeRequest, control
  <2>2. RoundLeft' = 0 /\ RoundLeft' \in Nat /\ RoundLeft' < Round
    BY <1>1, <2>1 DEF RoundLeft, Round
  <2>3. Ahead' \in Nat /\ Ahead = Ahead' + 1
    BY <2>1, <1>0 DEF Ahead
  <2> QED
    BY <2>2, <2>3, RoundEnds
<1>3. ASSUME NEW t \in FuncTypes, NEW n \in Nodes, ScanNeighbours(t, n)
      PROVE  StepsLeft' < StepsLeft
  <2>1. Requests' = Requests - 1 /\ Requests' \in Nat
        /\ lastSlot' = lastSlot /\ slot' = slot /\ slot <= lastSlot /\ pc' = "neighbours"
    BY <1>3, RequestTaken DEF ScanNeighbours, TakeRequest
  <2>2. PICK slice \in SortedPhyNodes(n) : ds' = Tail(slice)
    BY <1>3 DEF ScanNeighbours
  <2>3. slice \in Seq(Nodes) /\ Len(slice) = NodeNum
    BY <1>1 DEF SortedPhyNodes
  <2>4. Len(ds') = NodeNum - 1
    BY <1>1, <2>2, <2>3
  <2>5. RoundLeft' = MaxTries + 2 + Len(ds')
    BY <2>1 DEF RoundLeft
  <2>6. RoundLeft' \in Nat /\ RoundLeft' < Round
    BY <1>1, <2>4, <2>5 DEF Round
  <2>7. Ahead' \in Nat /\ Ahead = Ahead' + 1
    BY <2>1, <1>0 DEF Ahead
  <2> QED
    BY <2>6, <2>7, RoundEnds
<1>4. ASSUME NEW n \in Nodes, Visit(n)
      PROVE  StepsLeft' < StepsLeft
  <2>1. pc = "neighbours" /\ pc' = "neighbours" /\ UNCHANGED progress
        /\ ds # <<>> /\ ds' = Tail(ds)
    BY <1>4 DEF Visit
  <2>2. Len(ds) \in Nat \ {0} /\ Len(ds') = Len(ds) - 1
    BY <1>1, <2>1
  <2>3. RoundLeft = MaxTries + 2 + Len(ds) /\ RoundLeft' = MaxTries + 2 + Len(ds')
    BY <2>1 DEF RoundLeft
  <2> QED
    BY <1>1, <2>1, <2>2, <2>3, RoundGoesOn
<1>5. ASSUME Return, UNCHANGED progress, pc # "next"
      PROVE  StepsLeft' < StepsLeft
  <2>1. RoundLeft' = 0
    BY <1>5 DEF Return, RoundLeft
  <2>2. RoundLeft \in Nat /\ RoundLeft # 0
    <3>1. pc \in {"neighbours", "create"} /\ Len(ds) \in Nat
      BY <1>5 DEF TypeOK
    <3> QED
      BY <1>1, <3>1 DEF RoundLeft
  <2> QED
    BY <1>5, <2>1, <2>2, RoundGoesOn
<1>6. CASE NoNeighbour
  <2>1. pc = "neighbours" /\ pc' = "create" /\ tries' = tries /\ UNCHANGED progress
    BY <1>6 DEF NoNeighbour
  <2>2. RoundLeft = MaxTries + 2 + Len(ds) /\ RoundLeft' = MaxTries + 1 - tries
        /\ Len(ds) \in Nat
    BY <1>1, <2>1 DEF RoundLeft
  <2> QED
    BY <1>1, <2>1, <2>2, RoundGoesOn
<1>7. ASSUME NEW t \in FuncTypes, NEW l \in Lives, DeleteLowestPriority(t, l)
      PROVE  StepsLeft' < StepsLeft
  <2>1. pc = "create" /\ pc' = pc /\ tries' = tries + 1 /\ tries < MaxTries
        /\ UNCHANGED progress
    BY <1>7 DEF DeleteLowestPriority, Short
  <2>2. RoundLeft = MaxTries + 1 - tries /\ RoundLeft' = MaxTries + 1 - tries'
    BY <2>1 DEF RoundLeft
  <2> QED
    BY <1>1, <2>1, <2>2, RoundGoesOn
<1>8. CASE UpdateCache
  <2>1. /\ slot <= lastSlot /\ slot' = slot + 1 /\ lastSlot' = lastSlot
        /\ todo' = todo /\ pc = "next" /\ pc' = "next"
    BY <1>8 DEF UpdateCache, control
  <2>2. RoundLeft' = 0 /\ RoundLeft' \in Nat /\ RoundLeft' < Round
    BY <1>1, <2>1 DEF RoundLeft, Round
  <2>3. Requests' = Requests
    BY <2>1 DEF Requests
  <2>4. Ahead' \in Nat /\ Ahead = Ahead' + 1
    BY <2>1, <2>3, <1>0 DEF Ahead
  <2> QED
    BY <2>2, <2>4, RoundEnds
<1> QED
  BY <1>2, <1>3, <1>4, <1>5, <1>6, <1>7, <1>8
  DEF Next, Step, Terminating, PlaceToNeighbour, SkipNeighbour, ServedByNeighbour,
      CreateInFreeSpace, CreateInFreedSpace, Create, NothingToDelete, TriesExhausted,
      Short, Unserved

\* deployRequests cannot go on for ever, however it evicts: each of its steps
\* lowers a natural number, and from the start it has Round steps for every
\* request of the file and every slot it walks over.
THEOREM StepsAreBounded ==
  Spec => [](StepsLeft \in Nat) /\ [][StepsLeft' < StepsLeft]_vars
<1>1. TypeOK => StepsLeft \in Nat
  BY StepsLeftType
<1>2. TypeOK /\ [Next]_vars => [StepsLeft' < StepsLeft]_vars
  BY StepsDrop
<1> QED
  BY <1>1, <1>2, TypeCorrect, PTL DEF Spec

=============================================================================
