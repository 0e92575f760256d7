--------------------------- MODULE LifeTimeCaching ---------------------------
(***************************************************************************)
(* The scheduler of hist.cc and fixedcaching.cc, which are the same code   *)
(* with another lifeTime (29 and 10 slots).  It walks over slots and       *)
(* requests as MyAlgorithm does.  A container starts with lifeTime, loses  *)
(* one of it at the end of every slot, used or not, and goes when none is  *)
(* left; createToCurrent evicts the container with the least left, and     *)
(* takes the memory for a container created after evictions as lru.cc does.*)
(*                                                                         *)
(* Containers are numbers by node, type and the life they have left.       *)
(* updateCache sorts the lists by lifeTime and leaves the order of equal   *)
(* ones open, as for the lists of Lru.                                     *)
(*                                                                         *)
(* Slips, as in MyAlgorithm, are spoilt forms for testing the properties.  *)
(***************************************************************************)
EXTENDS EdgeCloud

CONSTANTS
  LifeTime,      \* lifeTimeHist_G or lifeTime_G
  MaxTries       \* the loop limit of createToCurrent, 1000 in the code

ASSUME LifeTimeAssumption == LifeTime \in Nat \ {0}
ASSUME MaxTriesAssumption == MaxTries \in Nat \ {0}

Lives == 1..LifeTime

VARIABLES
  cache,         \* m_cm: cache[n][t][l], idle containers with life l left
  active,        \* m_afs: active[n][t][l], containers at work
  mem,           \* PhyNode.mem: free memory of a node
  slot,          \* m_clock, which the loop variable of deployRequests follows
  lastSlot,      \* m_request_map.size(), the bound of that loop
  todo,          \* todo[s][t][n]: requests of m_request_map not yet deployed
  pc,            \* where the deployment of a request stands
  req,           \* the request being deployed; host 0 until it is placed
  ds,            \* nodes deployToNeighbour has still to visit
  tries,         \* count in createToCurrent
  f,             \* type of the container it evicted last, 0 for none
  hosted,        \* served requests of this slot, by deployNode and function
  coldStarts     \* coldStarts[n][t][s]: requests of slot s with isColdStart

resources == <<cache, active, mem>>
progress  == <<slot, lastSlot, todo>>
control   == <<pc, req, ds, tries, f>>
outcome   == <<hosted, coldStarts>>
vars      == <<resources, progress, control, outcome>>

NoRequest == [type |-> 0, ingress |-> 0, host |-> 0, life |-> 0]
Request   == [type : FuncTypes, ingress : Nodes,
              host : Nodes \cup {0}, life : Lives]

PerContainer == [Nodes -> [FuncTypes -> [Lives -> Nat]]]
PerSlot      == [Nodes -> [FuncTypes -> [Slots -> Nat]]]
NoContainer  == [n \in Nodes |-> [t \in FuncTypes |-> [l \in Lives |-> 0]]]

TypeOK ==
  /\ cache \in PerContainer
  /\ active \in PerContainer
  /\ mem \in [Nodes -> Int]
  /\ slot \in Nat \ {0}
  /\ lastSlot \in 0..SlotNum
  /\ slot <= lastSlot + 1
  /\ todo \in [Slots -> [FuncTypes -> [Nodes -> Nat]]]
  /\ pc \in {"next", "neighbours", "create"}
  /\ req \in Request \cup {NoRequest}
  /\ pc = "next" <=> req = NoRequest
  /\ ds \in Seq(Nodes)
  /\ tries \in 0..MaxTries
  /\ f \in FuncTypes \cup {0}
  /\ hosted \in PerContainer
  /\ coldStarts \in PerSlot

-----------------------------------------------------------------------------
Idle(n, t) == \E l \in Lives : cache[n][t][l] > 0

\* A slip: the list is not looked into for the container.
SoonestUnchecked(n, types, t, l) ==
  /\ t \in types
  /\ \A v \in types, k \in Lives : cache[n][v][k] > 0 => l <= k

\* The container getIdleFunction returns for a type, or deleteLowestPriority
\* for any: the first of the list, which expires no later than the others.
Soonest(n, types, t, l) ==
  /\ t \in types
  /\ cache[n][t][l] > 0
  /\ \A v \in types, k \in Lives : cache[n][v][k] > 0 => l <= k

\* A request of type t, whose container has life l, is deployed on node n
\* (Request.update).
Serve(n, t, l) == hosted' = [hosted EXCEPT ![n][t][l] = @ + 1]

\* A slip: the life of the container is renewed.
ActivateRenewed(n, t, l) ==
  /\ Soonest(n, {t}, t, l)
  /\ cache' = [cache EXCEPT ![n][t][l] = @ - 1]
  /\ active' = [active EXCEPT ![n][t][LifeTime] = @ + 1]
  /\ UNCHANGED mem

\* The container of type t with the least life l left moves from the cache of
\* node n to the active functions; its lifeTime stays as it is.
Activate(n, t, l) ==
  /\ Soonest(n, {t}, t, l)
  /\ cache' = [cache EXCEPT ![n][t][l] = @ - 1]
  /\ active' = [active EXCEPT ![n][t][l] = @ + 1]
  /\ UNCHANGED mem

\* deployRequest returns.
Return ==
  /\ pc' = "next"
  /\ req' = NoRequest
  /\ ds' = <<>>
  /\ tries' = 0
  /\ f' = 0

-----------------------------------------------------------------------------
Init ==
  /\ cache = NoContainer
  /\ active = NoContainer
  /\ mem = [n \in Nodes |-> MemCap]
  /\ slot = 1
  /\ todo \in Workloads
  /\ lastSlot = MapSize(todo)
  /\ pc = "next"
  /\ req = NoRequest
  /\ ds = <<>>
  /\ tries = 0
  /\ f = 0
  /\ hosted = NoContainer
  /\ coldStarts = [n \in Nodes |-> [t \in FuncTypes |-> [s \in Slots |-> 0]]]

\* deployRequests turns to its next request, of type t at node n.
TakeRequest(t, n) ==
  /\ pc = "next"
  /\ slot <= lastSlot
  /\ FirstRequest(todo[slot], t, n)
  /\ todo' = [todo EXCEPT ![slot][t][n] = @ - 1]
  /\ UNCHANGED <<slot, lastSlot>>

\* deployRequest finds an idle container at the ingress node.
PlaceToCurrent(t, n) ==
  /\ TakeRequest(t, n)
  /\ \E l \in Lives : Activate(n, t, l) /\ Serve(n, t, l)
  /\ UNCHANGED <<control, coldStarts>>

\* It finds none and turns to the other nodes; createRequest has given the
\* function of the request its full life.
ScanNeighbours(t, n) ==
  /\ TakeRequest(t, n)
  /\ ~ Idle(n, t)
  /\ \E slice \in SortedPhyNodes(n) : ds' = Tail(slice)
  /\ pc' = "neighbours"
  /\ req' = [type |-> t, ingress |-> n, host |-> 0, life |-> LifeTime]
  /\ UNCHANGED <<resources, tries, f, outcome>>

\* A slip: the loop does not get on to the next node.
VisitAgain(n) ==
  /\ pc = "neighbours"
  /\ ds # <<>>
  /\ n = Head(ds)
  /\ UNCHANGED <<ds, pc, tries, f, progress, outcome>>

\* deployToNeighbour visits node n, the nearest of those left.
Visit(n) ==
  /\ pc = "neighbours"
  /\ ds # <<>>
  /\ n = Head(ds)
  /\ ds' = Tail(ds)
  /\ UNCHANGED <<pc, tries, f, progress, outcome>>

\* An idle container on a node near enough is used and becomes the function
\* of the request; the loop goes on.
PlaceToNeighbour(n) ==
  /\ Visit(n)
  /\ Worthwhile(req.ingress, n, req.type)
  /\ \E l \in Lives : /\ Activate(n, req.type, l)
                      /\ req' = [req EXCEPT !.host = n, !.life = l]

SkipNeighbour(n) ==
  /\ Visit(n)
  /\ ~ (Worthwhile(req.ingress, n, req.type) /\ Idle(n, req.type))
  /\ UNCHANGED <<resources, req>>

\* A slip: the request keeps its ingress node as deployNode.
ServedAtIngress ==
  /\ pc = "neighbours"
  /\ ds = <<>>
  /\ req.host # 0
  /\ Serve(req.ingress, req.type, req.life)
  /\ Return
  /\ UNCHANGED <<resources, progress, coldStarts>>

\* deployToNeighbour returns true: some node took the request.
ServedByNeighbour ==
  /\ pc = "neighbours"
  /\ ds = <<>>
  /\ req.host # 0
  /\ Serve(req.host, req.type, req.life)
  /\ Return
  /\ UNCHANGED <<resources, progress, coldStarts>>

\* It returns false, and deployRequest calls createToCurrent.
NoNeighbour ==
  /\ pc = "neighbours"
  /\ ds = <<>>
  /\ req.host = 0
  /\ pc' = "create"
  /\ UNCHANGED <<resources, progress, req, ds, tries, f, outcome>>

-----------------------------------------------------------------------------
\* createToCurrent makes a container that fits and takes size from the books.
Create(size) ==
  /\ pc = "create"
  /\ Size[req.type] <= mem[req.ingress]
  /\ active' = [active EXCEPT ![req.ingress][req.type][req.life] = @ + 1]
  /\ mem' = [mem EXCEPT ![req.ingress] = @ - size]
  /\ Serve(req.ingress, req.type, req.life)
  /\ coldStarts' = [coldStarts EXCEPT ![req.ingress][req.type][slot] = @ + 1]
  /\ Return
  /\ UNCHANGED <<cache, progress>>

\* The container fits at once.
CreateInFreeSpace ==
  /\ f = 0
  /\ Create(Size[req.type])

\* A slip: both sizes are taken.
CreateAndChargeBoth ==
  /\ f # 0
  /\ Create(Size[f] + Size[req.type])

\* It fits after evictions, but the size taken is that of the last evicted.
CreateInFreedSpace ==
  /\ f # 0
  /\ Create(Size[f])

\* The container does not fit the free memory.
Short == pc = "create" /\ Size[req.type] > mem[req.ingress]

\* deleteLowestPriority: the idle container of the node that would expire
\* first goes.
DeleteLowestPriority(t, l) ==
  /\ Short
  /\ tries < MaxTries
  /\ Soonest(req.ingress, FuncTypes, t, l)
  /\ cache' = [cache EXCEPT ![req.ingress][t][l] = @ - 1]
  /\ mem' = [mem EXCEPT ![req.ingress] = @ + Size[t]]
  /\ f' = t
  /\ tries' = tries + 1
  /\ UNCHANGED <<active, progress, pc, req, ds, outcome>>

\* createToCurrent returns without a container; the request stays unserved.
Unserved ==
  /\ Return
  /\ UNCHANGED <<resources, progress, outcome>>

\* There is no space to delete: the node's cache is empty.
NothingToDelete ==
  /\ Short
  /\ tries < MaxTries
  /\ \A t \in FuncTypes : ~ Idle(req.ingress, t)
  /\ Unserved

\* The loop ends by its count.
TriesExhausted ==
  /\ Short
  /\ tries = MaxTries
  /\ Unserved

-----------------------------------------------------------------------------
\* The containers of node n and type t with life l, idle or at work.
Held(n, t, l) == cache[n][t][l] + active[n][t][l]

\* A slip: containers that expire straight from their use are not refunded.
ExpiringIdle(n) ==
  LET Of(t) == Size[t] * cache[n][t][1]
  IN  Of(1) + Of(2) + Of(3) + Of(4)

\* The memory of node n's containers with life l.
OfLife(n, l) ==
  LET Of(t) == Size[t] * Held(n, t, l)
  IN  Of(1) + Of(2) + Of(3) + Of(4)

\* The memory of those in their last slot.
Expiring(n) == OfLife(n, 1)

\* The slot ends: m_clock advances, and updateCache makes every container
\* idle, one slot older, and deletes those with no life left.
UpdateCache ==
  /\ pc = "next"
  /\ slot <= lastSlot
  /\ NoDemand(todo[slot])
  /\ slot' = slot + 1
  /\ cache' = [n \in Nodes |-> [t \in FuncTypes |-> [l \in Lives |->
                 IF l < LifeTime THEN Held(n, t, l + 1) ELSE 0]]]
  /\ active' = NoContainer
  /\ mem' = [n \in Nodes |-> mem[n] + Expiring(n)]
  /\ hosted' = NoContainer
  /\ UNCHANGED <<lastSlot, todo, control, coldStarts>>

Done == pc = "next" /\ slot = lastSlot + 1

\* deployRequests has returned.
Terminating == Done /\ UNCHANGED vars

\* One step of deployRequests.
Step ==
  \/ \E t \in FuncTypes, n \in Nodes :
       PlaceToCurrent(t, n) \/ ScanNeighbours(t, n)
  \/ \E n \in Nodes : PlaceToNeighbour(n) \/ SkipNeighbour(n)
  \/ ServedByNeighbour
  \/ NoNeighbour
  \/ CreateInFreeSpace
  \/ CreateInFreedSpace
  \/ \E t \in FuncTypes, l \in Lives : DeleteLowestPriority(t, l)
  \/ NothingToDelete
  \/ TriesExhausted
  \/ UpdateCache

Next == Step \/ Terminating

\* The scheduler is one thread that nothing blocks.
Spec == Init /\ [][Next]_vars /\ WF_vars(Step)

-----------------------------------------------------------------------------
(***************************************************************************)
(* Safety.                                                                 *)
(***************************************************************************)

\* The free memory never goes below zero, although createToCurrent takes the
\* size of the last evicted container, through evictions and expiries.
MemNeverNegative ==
  /\ \A n \in Nodes : mem[n] >= 0
  /\ pc = "create" /\ f # 0 => Size[f] <= mem[req.ingress]

\* No two requests of a slot share a container: each served request, and the
\* one being placed, has a busy one of its own on its deployNode, of its type
\* and with the life its function has.
Placed(n, t, l) ==
  IF req.host = n /\ req.type = t /\ req.life = l THEN 1 ELSE 0

OwnContainer ==
  \A n \in Nodes, t \in FuncTypes, l \in Lives :
    hosted[n][t][l] + Placed(n, t, l) <= active[n][t][l]

\* Every container goes back to a cold start of its own, LifeTime - l slots
\* ago: reuse never prolongs a life, and no container comes out of nothing.
FromColdStart ==
  \A n \in Nodes, t \in FuncTypes, l \in Lives :
    Held(n, t, l) > 0 =>
      LET born == slot - (LifeTime - l)
      IN  born \in Slots /\ Held(n, t, l) <= coldStarts[n][t][born]

\* The memory of the containers of node n.
Resident(n) ==
  LET Of == [l \in Lives |-> OfLife(n, l)]
      Upto[l \in 0..LifeTime] == IF l = 0 THEN 0 ELSE Upto[l - 1] + Of[l]
  IN  Upto[LifeTime]

\* Only a creation after evictions unbalances the books of memory: all other
\* steps, expiry among them, move as much memory as containers.
BooksBalance ==
  [][\A n \in Nodes :
       CreateInFreedSpace \/ mem'[n] + Resident(n)' = mem[n] + Resident(n)]_vars

(***************************************************************************)
(* Liveness.                                                               *)
(***************************************************************************)

\* deployRequests comes to its end.
Termination == <>Done

(***************************************************************************)
(* What a comment of the code says and the code does not do.               *)
(***************************************************************************)

\* placeToCurrent renews the life of the container it uses.
LifeRenewed ==
  \A n \in Nodes, t \in FuncTypes, l \in Lives :
    active[n][t][l] > 0 => l = LifeTime

=============================================================================
