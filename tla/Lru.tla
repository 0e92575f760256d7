--------------------------------- MODULE Lru ---------------------------------
(***************************************************************************)
(* The scheduler of lru.cc, the baseline that evicts the container used    *)
(* longest ago.  It walks over slots and requests as MyAlgorithm does and  *)
(* differs in createToCurrent: the victim is the first of the node's list, *)
(* which updateCache has sorted by lastUseTime, and the memory taken for a *)
(* container created after evictions is that of the last one evicted.      *)
(*                                                                         *)
(* Idle containers are numbers by node, type and slot of last use.  A list *)
(* sorted by lastUseTime leaves the order of equal times open, and         *)
(* containers equal in type and time differ in nothing: choosing the type  *)
(* when a container leaves gives the same runs as choosing the order when  *)
(* the list is sorted.                                                     *)
(*                                                                         *)
(* Slips, as in MyAlgorithm, are spoilt forms for testing the properties.  *)
(***************************************************************************)
EXTENDS EdgeCloud

CONSTANT
  MaxTries       \* the loop limit of createToCurrent, 1000 in the code

ASSUME MaxTriesAssumption == MaxTries \in Nat \ {0}

VARIABLES
  cache,         \* m_cm: cache[n][t][u], idle containers last used in slot u
  active,        \* m_afs: active[n][t][u], containers at work
  mem,           \* PhyNode.mem: free memory of a node
  slot,          \* m_clock, which the loop variable of deployRequests follows
  lastSlot,      \* m_request_map.size(), the bound of that loop
  todo,          \* todo[s][t][n]: requests of m_request_map not yet deployed
  pc,            \* where the deployment of a request stands
  req,           \* the request being deployed; host 0 until it is placed
  ds,            \* nodes deployToNeighbour has still to visit
  tries,         \* count in createToCurrent
  f,             \* type of the container it evicted last, 0 for none
  hosted         \* served requests of this slot, by deployNode and type

resources == <<cache, active, mem>>
progress  == <<slot, lastSlot, todo>>
control   == <<pc, req, ds, tries, f>>
vars      == <<resources, progress, control, hosted>>

NoRequest == [type |-> 0, ingress |-> 0, host |-> 0]
Request   == [type : FuncTypes, ingress : Nodes, host : Nodes \cup {0}]

PerContainer == [Nodes -> [FuncTypes -> [Slots -> Nat]]]
NoContainer  == [n \in Nodes |-> [t \in FuncTypes |-> [u \in Slots |-> 0]]]
NoneHosted   == [n \in Nodes |-> [t \in FuncTypes |-> 0]]

TypeOK ==
  /\ cache \in PerContainer
  /\ active \in PerContainer
  /\ mem \in [Nodes -> Int]
  /\ slot \in Nat \ {0}
  /\ lastSlot \in 0..SlotNum
  /\ slot <= lastSlot + 1
  /\ todo \in [Slots -> [FuncTypes -> [Nodes -> Nat]]]
  /\ pc \in {"next", "neighbours", "create"}
  /\ req \in Request \cup {NoRequest}
  /\ pc = "next" <=> req = NoRequest
  /\ ds \in Seq(Nodes)
  /\ tries \in 0..MaxTries
  /\ f \in FuncTypes \cup {0}
  /\ hosted \in [Nodes -> [FuncTypes -> Nat]]

-----------------------------------------------------------------------------
Idle(n, t) == \E u \in Slots : cache[n][t][u] > 0

\* A slip: the list is not looked into for the container.
OldestUnchecked(n, types, t, u) ==
  /\ t \in types
  /\ \A v \in types, w \in Slots : cache[n][v][w] > 0 => u <= w

\* The container getIdleFunction returns for a type, or deleteLeastUse for
\* any: the first of the list, used no later than the others in question.
Oldest(n, types, t, u) ==
  /\ t \in types
  /\ cache[n][t][u] > 0
  /\ \A v \in types, w \in Slots : cache[n][v][w] > 0 => u <= w

\* The request of type t has been deployed on node n (Request.update).
Serve(n, t) == hosted' = [hosted EXCEPT ![n][t] = @ + 1]

\* A slip: lastUseTime is not renewed.
ActivateStale(n, t) ==
  /\ \E u \in Slots : /\ Oldest(n, {t}, t, u)
                      /\ cache' = [cache EXCEPT ![n][t][u] = @ - 1]
                      /\ active' = [active EXCEPT ![n][t][u] = @ + 1]
  /\ UNCHANGED mem

\* Its least recently used container of type t leaves the cache of node n for
\* the active functions, lastUseTime renewed.
Activate(n, t) ==
  /\ \E u \in Slots : /\ Oldest(n, {t}, t, u)
                      /\ cache' = [cache EXCEPT ![n][t][u] = @ - 1]
  /\ active' = [active EXCEPT ![n][t][slot] = @ + 1]
  /\ UNCHANGED mem

\* deployRequest returns.
Return ==
  /\ pc' = "next"
  /\ req' = NoRequest
  /\ ds' = <<>>
  /\ tries' = 0
  /\ f' = 0

-----------------------------------------------------------------------------
Init ==
  /\ cache = NoContainer
  /\ active = NoContainer
  /\ mem = [n \in Nodes |-> MemCap]
  /\ slot = 1
  /\ todo \in Workloads
  /\ lastSlot = MapSize(todo)
  /\ pc = "next"
  /\ req = NoRequest
  /\ ds = <<>>
  /\ tries = 0
  /\ f = 0
  /\ hosted = NoneHosted

\* deployRequests turns to its next request, of type t at node n.
TakeRequest(t, n) ==
  /\ pc = "next"
  /\ slot <= lastSlot
  /\ FirstRequest(todo[slot], t, n)
  /\ todo' = [todo EXCEPT ![slot][t][n] = @ - 1]
  /\ UNCHANGED <<slot, lastSlot>>

\* deployRequest finds an idle container at the ingress node.
PlaceToCurrent(t, n) ==
  /\ TakeRequest(t, n)
  /\ Activate(n, t)
  /\ Serve(n, t)
  /\ UNCHANGED control

\* It finds none and turns to the other nodes.
ScanNeighbours(t, n) ==
  /\ TakeRequest(t, n)
  /\ ~ Idle(n, t)
  /\ \E slice \in SortedPhyNodes(n) : ds' = Tail(slice)
  /\ pc' = "neighbours"
  /\ req' = [type |-> t, ingress |-> n, host |-> 0]
  /\ UNCHANGED <<resources, tries, f, hosted>>

\* A slip: the loop does not get on to the next node.
VisitAgain(n) ==
  /\ pc = "neighbours"
  /\ ds # <<>>
  /\ n = Head(ds)
  /\ UNCHANGED <<ds, pc, tries, f, progress, hosted>>

\* deployToNeighbour visits node n, the nearest of those left.
Visit(n) ==
  /\ pc = "neighbours"
  /\ ds # <<>>
  /\ n = Head(ds)
  /\ ds' = Tail(ds)
  /\ UNCHANGED <<pc, tries, f, progress, hosted>>

\* An idle container on a node near enough is used; the loop goes on.
PlaceToNeighbour(n) ==
  /\ Visit(n)
  /\ Worthwhile(req.ingress, n, req.type)
  /\ Activate(n, req.type)
  /\ req' = [req EXCEPT !.host = n]

SkipNeighbour(n) ==
  /\ Visit(n)
  /\ ~ (Worthwhile(req.ingress, n, req.type) /\ Idle(n, req.type))
  /\ UNCHANGED <<resources, req>>

\* A slip: the request keeps its ingress node as deployNode.
ServedAtIngress ==
  /\ pc = "neighbours"
  /\ ds = <<>>
  /\ req.host # 0
  /\ Serve(req.ingress, req.type)
  /\ Return
  /\ UNCHANGED <<resources, progress>>

\* deployToNeighbour returns true: some node took the request.
ServedByNeighbour ==
  /\ pc = "neighbours"
  /\ ds = <<>>
  /\ req.host # 0
  /\ Serve(req.host, req.type)
  /\ Return
  /\ UNCHANGED <<resources, progress>>

\* It returns false, and deployRequest calls createToCurrent.
NoNeighbour ==
  /\ pc = "neighbours"
  /\ ds = <<>>
  /\ req.host = 0
  /\ pc' = "create"
  /\ UNCHANGED <<resources, progress, req, ds, tries, f, hosted>>

-----------------------------------------------------------------------------
\* createToCurrent makes a container that fits and takes size from the books.
Create(size) ==
  /\ pc = "create"
  /\ Size[req.type] <= mem[req.ingress]
  /\ active' = [active EXCEPT ![req.ingress][req.type][slot] = @ + 1]
  /\ mem' = [mem EXCEPT ![req.ingress] = @ - size]
  /\ Serve(req.ingress, req.type)
  /\ Return
  /\ UNCHANGED <<cache, progress>>

\* The container fits at once.
CreateInFreeSpace ==
  /\ f = 0
  /\ Create(Size[req.type])

\* A slip: both sizes are taken.
CreateAndChargeBoth ==
  /\ f # 0
  /\ Create(Size[f] + Size[req.type])

\* It fits after evictions, but the size taken is that of the last evicted.
CreateInFreedSpace ==
  /\ f # 0
  /\ Create(Size[f])

\* The container does not fit the free memory.
Short == pc = "create" /\ Size[req.type] > mem[req.ingress]

\* deleteLeastUse: the node's least recently used idle container goes.
DeleteLeastUse(t, u) ==
  /\ Short
  /\ tries < MaxTries
  /\ Oldest(req.ingress, FuncTypes, t, u)
  /\ cache' = [cache EXCEPT ![req.ingress][t][u] = @ - 1]
  /\ mem' = [mem EXCEPT ![req.ingress] = @ + Size[t]]
  /\ f' = t
  /\ tries' = tries + 1
  /\ UNCHANGED <<active, progress, pc, req, ds, hosted>>

\* createToCurrent returns without a container; the request stays unserved.
Unserved ==
  /\ Return
  /\ UNCHANGED <<resources, progress, hosted>>

\* There is no space to delete: the node's cache is empty.
NothingToDelete ==
  /\ Short
  /\ tries < MaxTries
  /\ \A t \in FuncTypes : ~ Idle(req.ingress, t)
  /\ Unserved

\* The loop ends by its count.
TriesExhausted ==
  /\ Short
  /\ tries = MaxTries
  /\ Unserved

-----------------------------------------------------------------------------
\* The slot ends: m_clock advances and updateCache makes every container idle.
UpdateCache ==
  /\ pc = "next"
  /\ slot <= lastSlot
  /\ NoDemand(todo[slot])
  /\ slot' = slot + 1
  /\ cache' = [n \in Nodes |-> [t \in FuncTypes |->
                 [u \in Slots |-> cache[n][t][u] + active[n][t][u]]]]
  /\ active' = NoContainer
  /\ hosted' = NoneHosted
  /\ UNCHANGED <<mem, lastSlot, todo, control>>

Done == pc = "next" /\ slot = lastSlot + 1

\* deployRequests has returned.
Terminating == Done /\ UNCHANGED vars

\* One step of deployRequests.
Step ==
  \/ \E t \in FuncTypes, n \in Nodes : PlaceToCurrent(t, n) \/ ScanNeighbours(t, n)
  \/ \E n \in Nodes : PlaceToNeighbour(n) \/ SkipNeighbour(n)
  \/ ServedByNeighbour
  \/ NoNeighbour
  \/ CreateInFreeSpace
  \/ CreateInFreedSpace
  \/ \E t \in FuncTypes, u \in Slots : DeleteLeastUse(t, u)
  \/ NothingToDelete
  \/ TriesExhausted
  \/ UpdateCache

Next == Step \/ Terminating

\* The scheduler is one thread that nothing blocks.
Spec == Init /\ [][Next]_vars /\ WF_vars(Step)

-----------------------------------------------------------------------------
(***************************************************************************)
(* Safety.                                                                 *)
(***************************************************************************)

\* The free memory never goes below zero, although createToCurrent takes the
\* size of the last evicted container and not that of the created one: what
\* it takes it has given back in the same round.
MemNeverNegative ==
  /\ \A n \in Nodes : mem[n] >= 0
  /\ pc = "create" /\ f # 0 => Size[f] <= mem[req.ingress]

\* No two requests of a slot share a container: each served request, and the
\* one being placed, has a busy one of its own type on its deployNode, its
\* lastUseTime renewed.
Placed(n, t) == IF req.host = n /\ req.type = t THEN 1 ELSE 0

OwnContainer ==
  \A n \in Nodes, t \in FuncTypes :
    LET served == hosted[n][t] + Placed(n, t)
    IN  served > 0 => slot \in Slots /\ served <= active[n][t][slot]

\* Every use renews lastUseTime and updateCache comes after the clock: what
\* is busy was last used in this slot and what is idle before it, so that the
\* order of eviction is that of use.
UsedBefore ==
  \A n \in Nodes, t \in FuncTypes, u \in Slots :
    /\ cache[n][t][u] > 0 => u < slot
    /\ active[n][t][u] > 0 => u = slot

(***************************************************************************)
(* Liveness.                                                               *)
(***************************************************************************)

\* deployRequests comes to its end.
Termination == <>Done

(***************************************************************************)
(* What a comment of the code says and the code does not do.               *)
(***************************************************************************)

\* The memory the containers of node n take.
Resident(n) ==
  LET Held[u \in 0..SlotNum] ==
        IF u = 0
          THEN 0
          ELSE LET Of(t) == Size[t] * (cache[n][t][u] + active[n][t][u])
               IN  Held[u - 1] + Of(1) + Of(2) + Of(3) + Of(4)
  IN  Held[SlotNum]

\* The containers of a node fit its memory.
ResidentFits == \A n \in Nodes : Resident(n) <= MemCap

=============================================================================
