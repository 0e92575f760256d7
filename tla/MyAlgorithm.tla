----------------------------- MODULE MyAlgorithm -----------------------------
(***************************************************************************)
(* The scheduler of myAlgorithm.cc.  It walks over the time slots and      *)
(* deploys the requests of each: to an idle container at the ingress node, *)
(* else to idle containers on other nodes that are near enough, else to a  *)
(* new container at the ingress node, evicting idle containers drawn at    *)
(* random when memory is short.  At the end of a slot every container      *)
(* becomes idle.                                                           *)
(*                                                                         *)
(* The containers of one type on one node differ in nothing this scheduler *)
(* reads, so the cache (m_cm) and the active functions (m_afs) are numbers *)
(* of containers.  The requests that have been deployed are kept only as   *)
(* far as printResult and the properties look at them.                     *)
(*                                                                         *)
(* An operator described as a slip is a spoilt form of the one after it.   *)
(* It is no part of Spec; putting it in place of that definition shows     *)
(* that a property tells the difference.                                   *)
(***************************************************************************)
EXTENDS EvictionDraw, Functions

CONSTANT
  MaxTries       \* the loop limit of createToCurrent, 1000 in the code

ASSUME MaxTriesAssumption == MaxTries \in Nat \ {0}

VARIABLES
  cache,         \* m_cm: cache[n][t], idle containers
  active,        \* m_afs: active[n][t], containers at work in this slot
  mem,           \* PhyNode.mem: free memory of a node
  freq,          \* PhyNode.funcFreq: freq[n][t], 0 when there is no entry
  recency,       \* PhyNode.recency, equal on all nodes; 0 for no entry
  slot,          \* m_clock, which the loop variable of deployRequests follows
  lastSlot,      \* m_request_map.size(), the bound of that loop
  todo,          \* todo[s][t][n]: requests of m_request_map not yet deployed
  pc,            \* where the deployment of a request stands
  req,           \* the request being deployed; host 0 until it is placed
  ds,            \* nodes deployToNeighbour has still to visit
  tries,         \* count in createToCurrent
  hosted,        \* served requests of this slot, by deployNode and type
  totalNum,      \* m_total_req_num
  servedNum,     \* requests with served set, m_served_req_num of printResult
  coldNum        \* those with isColdStart set, m_cold_req_num

resources == <<cache, active, mem, freq, recency>>
progress  == <<slot, lastSlot, todo>>
control   == <<pc, req, ds, tries>>
outcome   == <<hosted, totalNum, servedNum, coldNum>>
vars      == <<resources, progress, control, outcome>>

NoRequest == [type |-> 0, ingress |-> 0, host |-> 0]
Request   == [type : FuncTypes, ingress : Nodes, host : Nodes \cup {0}]

PerContainer == [Nodes -> [FuncTypes -> Nat]]
NoContainer  == [n \in Nodes |-> [t \in FuncTypes |-> 0]]

TypeOK ==
  /\ cache \in PerContainer
  /\ active \in PerContainer
  /\ mem \in [Nodes -> Int]
  /\ freq \in [Nodes -> [FuncTypes -> Int]]
  /\ recency \in [FuncTypes -> Nat]
  /\ slot \in Nat \ {0}
  /\ lastSlot \in 0..SlotNum
  /\ slot <= lastSlot + 1
  /\ todo \in [Slots -> [FuncTypes -> [Nodes -> Nat]]]
  /\ pc \in {"next", "neighbours", "create"}
  /\ req \in Request \cup {NoRequest}
  /\ pc = "next" <=> req = NoRequest
  /\ ds \in Seq(Nodes)
  /\ tries \in 0..MaxTries
  /\ hosted \in PerContainer
  /\ <<totalNum, servedNum, coldNum>> \in Nat \X Nat \X Nat

-----------------------------------------------------------------------------
\* The memory the containers of node n take.
Resident(n) ==
  LET Held(t) == Size[t] * (cache[n][t] + active[n][t])
  IN  Held(1) + Held(2) + Held(3) + Held(4)

\* getFreq and getRecency: a missing or non-positive entry counts as 1.
EffectiveFreq(n, t) == IF freq[n][t] > 0 THEN freq[n][t] ELSE 1
EffectiveRecency(t) == IF recency[t] > 0 THEN recency[t] ELSE 1

DrawBase(n) == [t \in FuncTypes |-> EffectiveFreq(n, t) + EffectiveRecency(t)]

\* Topology.update: the memory of a container of type t is taken from node n.
Charge(n, t) == mem' = [mem EXCEPT ![n] = @ - Size[t]]

\* A slip: nothing is given back.
RefundNothing(n, t) == UNCHANGED mem

\* A slip: the size of the request is given back, not that of the victim.
RefundRequest(n, t) == mem' = [mem EXCEPT ![n] = @ + Size[req.type]]

\* Topology.update: it is given back.
Refund(n, t) == mem' = [mem EXCEPT ![n] = @ + Size[t]]

\* A slip: addFreq makes no entry for a type that has none.
NoteKnownUse(t) ==
  /\ freq' = [n \in Nodes |-> [freq[n] EXCEPT ![t] = IF @ > 0 THEN @ + 1 ELSE 0]]
  /\ recency' = [recency EXCEPT ![t] = slot]

\* Every placement of a container of type t enters it on every node's books:
\* addFreqAll and setRecencyAll.
NoteUse(t) ==
  /\ freq' = [n \in Nodes |-> [freq[n] EXCEPT ![t] = @ + 1]]
  /\ recency' = [recency EXCEPT ![t] = slot]

\* A container leaves the cache of node n for the active functions.
Activate(n, t) ==
  /\ cache' = [cache EXCEPT ![n][t] = @ - 1]
  /\ active' = [active EXCEPT ![n][t] = @ + 1]
  /\ NoteUse(t)
  /\ UNCHANGED mem

\* A slip: cold starts are left out of the served requests.
ServeUncounted(n, t, cold) ==
  /\ hosted' = [hosted EXCEPT ![n][t] = @ + 1]
  /\ servedNum' = IF cold THEN servedNum ELSE servedNum + 1
  /\ coldNum' = IF cold THEN coldNum + 1 ELSE coldNum

\* The request of type t has been deployed on node n (Request.update).
Serve(n, t, cold) ==
  /\ hosted' = [hosted EXCEPT ![n][t] = @ + 1]
  /\ servedNum' = servedNum + 1
  /\ coldNum' = IF cold THEN coldNum + 1 ELSE coldNum

\* deployRequest returns.
Return ==
  /\ pc' = "next"
  /\ req' = NoRequest
  /\ ds' = <<>>
  /\ tries' = 0

-----------------------------------------------------------------------------
Init ==
  /\ cache = NoContainer
  /\ active = NoContainer
  /\ mem = [n \in Nodes |-> MemCap]
  /\ freq = NoContainer
  /\ recency = [t \in FuncTypes |-> 0]
  /\ slot = 1
  /\ todo \in Workloads
  /\ lastSlot = MapSize(todo)
  /\ pc = "next"
  /\ req = NoRequest
  /\ ds = <<>>
  /\ tries = 0
  /\ hosted = NoContainer
  /\ totalNum = 0 /\ servedNum = 0 /\ coldNum = 0

\* deployRequests turns to its next request, of type t at node n.
TakeRequest(t, n) ==
  /\ pc = "next"
  /\ slot <= lastSlot
  /\ FirstRequest(todo[slot], t, n)
  /\ todo' = [todo EXCEPT ![slot][t][n] = @ - 1]
  /\ totalNum' = totalNum + 1
  /\ UNCHANGED <<slot, lastSlot>>

\* A slip: the index of getIdleFunction is not looked at.
PlaceUnchecked(t, n) ==
  /\ TakeRequest(t, n)
  /\ Activate(n, t)
  /\ Serve(n, t, FALSE)
  /\ UNCHANGED control

\* deployRequest finds an idle container at the ingress node.
PlaceToCurrent(t, n) ==
  /\ TakeRequest(t, n)
  /\ cache[n][t] > 0
  /\ Activate(n, t)
  /\ Serve(n, t, FALSE)
  /\ UNCHANGED control

\* It finds none and turns to the other nodes.  The first node of the sorted
\* slice is passed over as the ingress node itself.
ScanNeighbours(t, n) ==
  /\ TakeRequest(t, n)
  /\ cache[n][t] = 0
  /\ \E slice \in SortedPhyNodes(n) : ds' = Tail(slice)
  /\ pc' = "neighbours"
  /\ req' = [type |-> t, ingress |-> n, host |-> 0]
  /\ UNCHANGED <<resources, tries, hosted, servedNum, coldNum>>

-----------------------------------------------------------------------------
\* A slip: the loop does not get on to the next node.
VisitAgain(n) ==
  /\ pc = "neighbours"
  /\ ds # <<>>
  /\ n = Head(ds)
  /\ UNCHANGED <<ds, pc, tries, progress, outcome>>

\* deployToNeighbour visits node n, the nearest of those left.
Visit(n) ==
  /\ pc = "neighbours"
  /\ ds # <<>>
  /\ n = Head(ds)
  /\ ds' = Tail(ds)
  /\ UNCHANGED <<pc, tries, progress, outcome>>

Usable(n) == Worthwhile(req.ingress, n, req.type) /\ cache[n][req.type] > 0

\* An idle container on a node near enough is used.  The loop goes on to the
\* nodes left, and a later placement overwrites this one in the request.
PlaceToNeighbour(n) ==
  /\ Visit(n)
  /\ Usable(n)
  /\ Activate(n, req.type)
  /\ req' = [req EXCEPT !.host = n]

SkipNeighbour(n) ==
  /\ Visit(n)
  /\ ~ Usable(n)
  /\ UNCHANGED <<resources, req>>

\* A slip: the request keeps its ingress node as deployNode.
ServedAtIngress ==
  /\ pc = "neighbours"
  /\ ds = <<>>
  /\ req.host # 0
  /\ Serve(req.ingress, req.type, FALSE)
  /\ Return
  /\ UNCHANGED <<resources, progress, totalNum>>

\* deployToNeighbour returns true: some node took the request.
ServedByNeighbour ==
  /\ pc = "neighbours"
  /\ ds = <<>>
  /\ req.host # 0
  /\ Serve(req.host, req.type, FALSE)
  /\ Return
  /\ UNCHANGED <<resources, progress, totalNum>>

\* It returns false, and deployRequest calls createToCurrent.
NoNeighbour ==
  /\ pc = "neighbours"
  /\ ds = <<>>
  /\ req.host = 0
  /\ pc' = "create"
  /\ UNCHANGED <<resources, progress, req, ds, tries, outcome>>

-----------------------------------------------------------------------------
\* createToCurrent: the container fits, at once or after evictions.
CreateToCurrent ==
  /\ pc = "create"
  /\ Size[req.type] <= mem[req.ingress]
  /\ active' = [active EXCEPT ![req.ingress][req.type] = @ + 1]
  /\ NoteUse(req.type)
  /\ Charge(req.ingress, req.type)
  /\ Serve(req.ingress, req.type, TRUE)
  /\ Return
  /\ UNCHANGED <<cache, progress, totalNum>>

\* Another round of its loop draws type t.
Draw(t) ==
  /\ pc = "create"
  /\ Size[req.type] > mem[req.ingress]
  /\ tries < MaxTries
  /\ t \in Drawable(DrawBase(req.ingress))

\* A slip: deleteProb does not lower the type's entry in the frequencies.
EvictKeepingFreq(t) ==
  /\ Draw(t)
  /\ t # req.type
  /\ cache[req.ingress][t] > 0
  /\ cache' = [cache EXCEPT ![req.ingress][t] = @ - 1]
  /\ Refund(req.ingress, t)
  /\ tries' = tries + 1
  /\ UNCHANGED <<active, freq, recency, progress, pc, req, ds, outcome>>

\* deleteProb: an idle container of the drawn type goes, and its memory and
\* its entry in the node's frequencies with it.
Evict(t) ==
  /\ Draw(t)
  /\ t # req.type
  /\ cache[req.ingress][t] > 0
  /\ cache' = [cache EXCEPT ![req.ingress][t] = @ - 1]
  /\ freq' = [freq EXCEPT ![req.ingress][t] = @ - 1]
  /\ Refund(req.ingress, t)
  /\ tries' = tries + 1
  /\ UNCHANGED <<active, recency, progress, pc, req, ds, outcome>>

\* createToCurrent returns without a container; the request stays unserved,
\* and what was evicted for it stays evicted.
Unserved ==
  /\ Return
  /\ UNCHANGED <<resources, progress, outcome>>

\* The drawn type is the request's own.
DrewOwnType ==
  /\ Draw(req.type)
  /\ Unserved

\* The drawn type has no idle container at the node.
NothingToDelete(t) ==
  /\ Draw(t)
  /\ t # req.type
  /\ cache[req.ingress][t] = 0
  /\ Unserved

\* The loop ends by its count.
TriesExhausted ==
  /\ pc = "create"
  /\ Size[req.type] > mem[req.ingress]
  /\ tries = MaxTries
  /\ Unserved

-----------------------------------------------------------------------------
\* A slip: m_afs is not cleared.
UpdateCacheUncleared ==
  /\ pc = "next"
  /\ slot <= lastSlot
  /\ NoDemand(todo[slot])
  /\ slot' = slot + 1
  /\ cache' = [n \in Nodes |-> [t \in FuncTypes |-> cache[n][t] + active[n][t]]]
  /\ hosted' = NoContainer
  /\ UNCHANGED <<active, mem, freq, recency, lastSlot, todo, control,
                 totalNum, servedNum, coldNum>>

\* The slot ends: m_clock advances and updateCache makes every container idle.
UpdateCache ==
  /\ pc = "next"
  /\ slot <= lastSlot
  /\ NoDemand(todo[slot])
  /\ slot' = slot + 1
  /\ cache' = [n \in Nodes |-> [t \in FuncTypes |-> cache[n][t] + active[n][t]]]
  /\ active' = NoContainer
  /\ hosted' = NoContainer
  /\ UNCHANGED <<mem, freq, recency, lastSlot, todo, control,
                 totalNum, servedNum, coldNum>>

Done == pc = "next" /\ slot = lastSlot + 1

\* deployRequests has returned.
Terminating == Done /\ UNCHANGED vars

\* One step of deployRequests.
Step ==
  \/ \E t \in FuncTypes, n \in Nodes : PlaceToCurrent(t, n) \/ ScanNeighbours(t, n)
  \/ \E n \in Nodes : PlaceToNeighbour(n) \/ SkipNeighbour(n)
  \/ ServedByNeighbour
  \/ NoNeighbour
  \/ CreateToCurrent
  \/ \E t \in FuncTypes : Evict(t) \/ NothingToDelete(t)
  \/ DrewOwnType
  \/ TriesExhausted
  \/ UpdateCache

Next == Step \/ Terminating

\* The scheduler is one thread that nothing blocks.
Spec == Init /\ [][Next]_vars /\ WF_vars(Step)

-----------------------------------------------------------------------------
(***************************************************************************)
(* Safety.                                                                 *)
(***************************************************************************)

\* No memory is lost or given out twice: on every node the free memory and
\* the containers, idle and busy, make up MemCap, through creations, refunds
\* of evicted containers and the move back to the cache ("since it can be
\* created, memory is enough", the comment at the head of myAlgorithm.cc).
MemoryConserved ==
  \A n \in Nodes : mem[n] >= 0 /\ mem[n] + Resident(n) = MemCap

\* The frequency of a type at a node is never below the number of its
\* containers there: placements count it up on all nodes, evictions down on
\* one, so the fallback of getFreq to 1 never weighs a type that is resident.
FreqCoversContainers ==
  \A n \in Nodes, t \in FuncTypes : cache[n][t] + active[n][t] <= freq[n][t]

\* No two requests of a slot share a container: each served request, and the
\* one being placed, has a busy one of its own type on its deployNode, although
\* the neighbour loop rewrites deployNode and createToCurrent may evict.
Placed(n, t) == IF req.host = n /\ req.type = t THEN 1 ELSE 0

OwnContainer ==
  \A n \in Nodes, t \in FuncTypes : hosted[n][t] + Placed(n, t) <= active[n][t]

\* The loop of createToCurrent frees at least the smallest container in every
\* round, so it ends long before its count does.
SmallestSize == CHOOSE s \in {Size[t] : t \in FuncTypes} :
                  \A t \in FuncTypes : s <= Size[t]

EvictionsPayOff ==
  pc = "create" => tries * SmallestSize <= mem[req.ingress]

\* The counters of different parts of the code agree.  What was created and is
\* no longer held was evicted (printResult's cold starts against m_cm and
\* m_afs), and an eviction takes one use off the books of one node, a placement
\* enters one in those of every node (delFreq, addFreqAll): with the evictions
\* added, the frequencies show the same number of uses for all nodes, at least
\* one for every request that is served or placed.
ContainersOn(n) ==
  LET Of(t) == cache[n][t] + active[n][t] IN Of(1) + Of(2) + Of(3) + Of(4)

UsesOn(n) == freq[n][1] + freq[n][2] + freq[n][3] + freq[n][4]

Containers  == SumFunctionOnSet([n \in Nodes |-> ContainersOn(n)], Nodes)
Frequencies == SumFunctionOnSet([n \in Nodes |-> UsesOn(n)], Nodes)
Evicted     == coldNum - Containers
Pending     == IF req.host # 0 THEN 1 ELSE 0

CountersBalance ==
  /\ Evicted >= 0
  /\ \E uses \in (servedNum + Pending)..(Frequencies + Evicted) :
       NodeNum * uses = Frequencies + Evicted

\* Where every type fits an empty node, some request is served once one has
\* been deployed: printResult, which divides by the number of served requests
\* and counts cold starts among them, divides by zero only without requests.
RatesDefined ==
  (\A t \in FuncTypes : Size[t] <= MemCap) /\ Done /\ totalNum > 0
    => 0 < coldNum /\ coldNum <= servedNum /\ servedNum <= totalNum

\* No container on node n is warm for the request and near enough to be used.
\* Nodes at the place of the ingress node are let off: one of them may take
\* its first place in the sorted slice, which deployToNeighbour passes over.
NoWarm(n) ==
  \/ cache[n][req.type] = 0
  \/ n # req.ingress /\ Dist[req.ingress][n] = 0
  \/ n # req.ingress /\ ~ Worthwhile(req.ingress, n, req.type)

\* A cold start is the last resort of deployRequest: no container is created
\* while a warm one could have been used.
ColdOnlyWithoutWarm ==
  [][coldNum' > coldNum => \A n \in Nodes : NoWarm(n)]_vars

\* The scheduler treats the containers as ContainerPool promises.
Pool     == INSTANCE ContainerPool WITH idle <- cache, busy <- active
PoolSpec == Pool!Spec

(***************************************************************************)
(* Liveness.                                                               *)
(***************************************************************************)

\* deployRequests comes to its end, the draws of createToCurrent included.
Termination == <>Done

\* No container stays busy: "we assume every container finish in one slot"
\* (updateCache).
ContainersDrain ==
  \A n \in Nodes, t \in FuncTypes : active[n][t] > 0 ~> active[n][t] = 0

(***************************************************************************)
(* What comments of the code say and the code does not do.                 *)
(***************************************************************************)

\* Every request of m_request_map is deployed, over all time slots.
EveryRequestDeployed == Done => \A s \in Slots : NoDemand(todo[s])

\* A request goes to one container: between two requests the busy containers
\* are those of the slot's served requests.
OneContainerPerRequest ==
  pc = "next" => \A n \in Nodes, t \in FuncTypes : active[n][t] = hosted[n][t]

=============================================================================
