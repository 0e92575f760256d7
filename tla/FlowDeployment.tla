--------------------------- MODULE FlowDeployment ---------------------------
(***************************************************************************)
(* Dis_application (dis_application.cc), with the instance maps and flows  *)
(* of sfc.h and the resources of myGraph.cc.  A request is a chain of      *)
(* network functions between two nodes and a set of flows through it.  Its *)
(* caller, which this repository does not hold, goes through the slots and *)
(* in every slot through the requests, and hands each to main: flows that  *)
(* end give back what they use, instances for flows that start are placed  *)
(* along a path, and the flows are steered through them.  The work is done *)
(* on copies, which save writes back when all of it has succeeded.         *)
(***************************************************************************)
EXTENDS SfcSetup, GraphPaths

CONSTANT
  LastSlot        \* the last slot the caller goes to

\* A path of yen_ksp leads from one end to the other over links of the graph
\* and comes to no node twice.
IsPath(path, ends) ==
  /\ path \in Seq(Links) /\ path # <<>>
  /\ path[1][1] = ends[1] /\ path[Len(path)][2] = ends[2]
  /\ \A i \in 1..Len(path) - 1 : path[i][2] = path[i + 1][1]
  /\ \A i, j \in 1..Len(path) :
       /\ path[i][1] # path[j][2] \/ i = j + 1
       /\ path[i][2] = path[j][2] => i = j

ASSUME FlowAssumption ==
  /\ LastSlot \in Nat
  /\ DOMAIN YenPaths = Nodes \X Nodes
  /\ \A ends \in Nodes \X Nodes :
       /\ YenPaths[ends] \in Seq(Seq(Links))
       /\ ends[1] # ends[2] =>
            \A i \in 1..Len(YenPaths[ends]) : IsPath(YenPaths[ends][i], ends)

VARIABLES
  offline,        \* whether the caller calls main_offline; not in the code
  time, cur,      \* slot and request the caller is at
  pc,             \* what main does next
  graph,          \* g of main: free capacity of nodes and links
  succ,           \* m_succ of each request
  instances,      \* m_map of each request: per function, id -> instance
  deployed,       \* m_flows of each request that are m_is_deployed: id -> flow
  toRelease,      \* m_flows_to_release, the ids of those still to do
  toDeploy,       \* m_flows_to_deploy, the ids of those still to steer
  steered,        \* m_flows_to_deploy, those steered: id -> flow
  mGraph,         \* m_graph
  mInstances,     \* m_request_instance_map
  tmpGraph,       \* m_tmp_graph
  tmpInstances,   \* m_tmp_request_instance_map
  slotIds,        \* m_slot_instance_map: the ids per function
  saved           \* last slot whose work on a request was saved; not in the code

callerVars == <<setupVars, offline, time, cur>>
resultVars == <<graph, succ, instances, deployed, saved>>
flowVars == <<toRelease, toDeploy, steered>>
workVars == <<mGraph, mInstances, tmpGraph, tmpInstances, slotIds>>
vars == <<callerVars, pc, resultVars, flowVars, workVars>>

Chain(r) == requests[r].chain
Flow(r, i) == requests[r].flows[i]
FlowIds(r) == 1..Len(requests[r].flows)
NoInstances(r) == [k \in 1..Len(Chain(r)) |-> <<>>]

-----------------------------------------------------------------------------
(***************************************************************************)
(* Resources: myGraph.cc.                                                  *)
(***************************************************************************)
EdgesOf(path) == {<<path[i], path[i + 1]>> : i \in 1..Len(path) - 1}

\* A path of get_path may take an edge twice.
Times(path, e) ==
  Cardinality({i \in 1..Len(path) - 1 : <<path[i], path[i + 1]>> = e})

CheckPathBw(g, path, rate) == \A e \in EdgesOf(path) : g.link[e] >= rate

MinusPathBw(g, path, rate) ==
  [g EXCEPT !.link = [e \in DOMAIN @ |-> @[e] - rate * Times(path, e)]]

ReleasePathBw(g, path, rate) ==
  [g EXCEPT !.link = [e \in DOMAIN @ |-> @[e] + rate * Times(path, e)]]

MinusNodeCap(g, n, cap) == [g EXCEPT !.node[n] = @ - cap]
ReleaseNodeCap(g, n, cap) == [g EXCEPT !.node[n] = @ + cap]

-----------------------------------------------------------------------------
(***************************************************************************)
(* Traffic: a function passes on a percentage of it.  get_change_factor    *)
(* starts at m_chain.at(1), so the factor of the first function never      *)
(* counts and that of the function itself does.                            *)
(***************************************************************************)
Product(factors, n) ==
  LET product[i \in 0..n] == IF i = 0 THEN 1 ELSE product[i - 1] * factors[i]
  IN  product[n]
Percents(chain, k) == Product([i \in 1..k - 1 |-> chain[i + 1].factor], k - 1)
Hundreds(k) == Product([i \in 1..k - 1 |-> 100], k - 1)

\* What a flow takes of the k-th function, in parts of 1 / Hundreds(k).
Part(chain, k, rate) == rate * Percents(chain, k)

\* m_used_capacity is an int: what is added or taken is cut to a whole.
Added(used, chain, k, rate) ==
  (used * Hundreds(k) + Part(chain, k, rate)) \div Hundreds(k)
Taken(used, chain, k, rate) ==
  LET left == used * Hundreds(k) - Part(chain, k, rate)
  IN  IF left >= 0 THEN left \div Hundreds(k) ELSE -((-left) \div Hundreds(k))

-----------------------------------------------------------------------------
Init ==
  /\ SetupInit
  /\ pc = "setup" /\ offline = FALSE /\ time = 0 /\ cur = 1
  /\ graph = <<>> /\ succ = <<>> /\ instances = <<>> /\ deployed = <<>>
  /\ saved = <<>>
  /\ toRelease = {} /\ toDeploy = {} /\ steered = <<>>
  /\ mGraph = <<>> /\ tmpGraph = <<>>
  /\ mInstances = <<>> /\ tmpInstances = <<>> /\ slotIds = <<>>

Prepare ==
  /\ pc = "setup" /\ Setup
  /\ UNCHANGED <<offline, time, cur, pc, resultVars, flowVars, workVars>>

\* The caller has requests and graph, and chooses between main and
\* main_offline.
Begin ==
  /\ pc = "setup" /\ phase = "loaded"
  /\ pc' = "call" /\ offline' \in BOOLEAN
  /\ graph' = FullGraph
  /\ succ' = [r \in DOMAIN requests |-> TRUE]
  /\ instances' = [r \in DOMAIN requests |-> NoInstances(r)]
  /\ deployed' = [r \in DOMAIN requests |-> <<>>]
  /\ saved' = [r \in DOMAIN requests |-> -1]
  /\ UNCHANGED <<setupVars, time, cur, flowVars, workVars>>

\* check_flow.
NeedRelease(r, i) == Flow(r, i).end = time /\ i \in DOMAIN deployed[r]
NeedDeploy(r, i) == ~NeedRelease(r, i) /\ Flow(r, i).start = time

\* check_flows: their ids, which are handled in the order of m_flows.
ToRelease(r) == {i \in FlowIds(r) : NeedRelease(r, i)}
ToDeploy(r) == {i \in FlowIds(r) : NeedDeploy(r, i)}

Called == pc = "call" /\ cur <= Len(requests)

\* main has nothing to do, or the request has failed before.
ReturnNone ==
  /\ Called /\ ~offline
  /\ \/ ~succ[cur]
     \/ ToRelease(cur) = {} /\ ToDeploy(cur) = {}
  /\ cur' = cur + 1
  /\ saved' = [saved EXCEPT ![cur] = IF succ[cur] THEN time ELSE @]
  /\ UNCHANGED <<setupVars, offline, time, pc, graph, succ, instances, deployed,
                 flowVars, workVars>>

CheckFlows ==
  /\ Called /\ ~offline /\ succ[cur]
  /\ ToRelease(cur) # {} \/ ToDeploy(cur) # {}
  /\ toRelease' = ToRelease(cur)
  /\ toDeploy' = ToDeploy(cur)
  /\ steered' = <<>>
  /\ mGraph' = graph /\ mInstances' = instances[cur]
  /\ pc' = "release"
  /\ UNCHANGED <<callerVars, resultVars, tmpGraph, tmpInstances, slotIds>>

\* main_offline: every flow is to be deployed, whenever it starts, and none
\* is ever released.
CheckOffline ==
  /\ Called /\ offline
  /\ toRelease' = {} /\ toDeploy' = FlowIds(cur)
  /\ steered' = <<>>
  /\ mGraph' = graph /\ mInstances' = instances[cur]
  /\ pc' = "release"
  /\ UNCHANGED <<callerVars, resultVars, tmpGraph, tmpInstances, slotIds>>

NextSlot ==
  /\ pc = "call" /\ ~offline /\ cur > Len(requests) /\ time < LastSlot
  /\ time' = time + 1 /\ cur' = 1
  /\ UNCHANGED <<setupVars, offline, pc, resultVars, flowVars, workVars>>

-----------------------------------------------------------------------------
(***************************************************************************)
(* Release.                                                                *)
(***************************************************************************)
\* What counts as no use, because of the rests the cutting leaves.
Threshold == 10

Without(m, id) == [j \in DOMAIN m \ {id} |-> m[j]]
With(m, id, x) ==
  [j \in DOMAIN m \cup {id} |-> IF j = id THEN x ELSE m[j]]

\* release_node and release_instance.
GiveUp(st, k, id) ==
  LET sf == st.ins[k][id]
  IN  [g |-> ReleaseNodeCap(st.g, sf.node, sf.cap),
       ins |-> [st.ins EXCEPT ![k] = Without(@, id)]]

\* A slip: the node gets its capacity back with every flow.
ReleaseEveryTime(st, r, i, k) ==
  LET id == deployed[r][i].hosts[k]
      sf == st.ins[k][id]
      used == Taken(sf.used, Chain(r), k, Flow(r, i).rate)
  IN  IF used < Threshold THEN GiveUp(st, k, id)
      ELSE [st EXCEPT !.ins[k][id].used = used,
                      !.g = ReleaseNodeCap(@, sf.node, sf.cap)]

\* A slip: the flow's whole rate is taken from every function.
ReleaseRate(st, r, i, k) ==
  LET id == deployed[r][i].hosts[k]
      used == st.ins[k][id].used - Flow(r, i).rate
  IN  IF used < Threshold THEN GiveUp(st, k, id)
                          ELSE [st EXCEPT !.ins[k][id].used = used]

\* A slip: the use before the flow went is compared.
ReleaseUnlessUsed(st, r, i, k) ==
  LET id == deployed[r][i].hosts[k]
      sf == st.ins[k][id]
      used == Taken(sf.used, Chain(r), k, Flow(r, i).rate)
  IN  IF sf.used < Threshold THEN GiveUp(st, k, id)
                             ELSE [st EXCEPT !.ins[k][id].used = used]

\* modify_instance.
WithUse(st, k, id, used) == [st EXCEPT !.ins[k][id].used = used]

\* release_flow_instance.
ReleaseFlowInstance(st, r, i, k) ==
  LET id == deployed[r][i].hosts[k]
      used == Taken(st.ins[k][id].used, Chain(r), k, Flow(r, i).rate)
  IN  IF used < Threshold THEN GiveUp(st, k, id) ELSE WithUse(st, k, id, used)

InstancesThere(r, i) ==
  \A k \in 1..Len(Chain(r)) : deployed[r][i].hosts[k] \in DOMAIN mInstances[k]

\* The flow leaves one function after the other.
ReleaseChain(i) ==
  LET st[k \in 0..Len(Chain(cur))] ==
        IF k = 0 THEN [g |-> mGraph, ins |-> mInstances]
        ELSE ReleaseFlowInstance(st[k - 1], cur, i, k)
  IN  st[Len(Chain(cur))]

\* release_flow.  m_is_gone is set on a copy and stays unknown to the request.
ReleaseFlow ==
  /\ pc = "release" /\ toRelease # {}
  /\ LET i == Min(toRelease)
         st == ReleaseChain(i)
     IN  /\ InstancesThere(cur, i)
         /\ mGraph' = ReleasePathBw(st.g, deployed[cur][i].path,
                                    Flow(cur, i).rate)
         /\ mInstances' = st.ins
  /\ toRelease' = toRelease \ {Min(toRelease)}
  /\ UNCHANGED <<callerVars, pc, resultVars, toDeploy, steered, tmpGraph,
                 tmpInstances, slotIds>>

\* get_instance of an instance that is not there returns nothing it was asked
\* for: from here on everything is undefined.
ReleaseMissing ==
  /\ pc = "release" /\ toRelease # {}
  /\ ~InstancesThere(cur, Min(toRelease))
  /\ pc' = "undefined"
  /\ UNCHANGED <<callerVars, resultVars, flowVars, workVars>>

Released ==
  /\ pc = "release" /\ toRelease = {}
  /\ tmpGraph' = mGraph /\ tmpInstances' = mInstances
  /\ slotIds' = [k \in 1..Len(Chain(cur)) |-> {}]
  /\ pc' = IF toDeploy = {} THEN "save" ELSE "place"
  /\ UNCHANGED <<callerVars, resultVars, flowVars, mGraph, mInstances>>

-----------------------------------------------------------------------------
(***************************************************************************)
(* Placement.                                                              *)
(***************************************************************************)
TotalTraffic == SumFunction([i \in toDeploy |-> Flow(cur, i).rate])

\* A slip: the id after the number of instances.
InsertBySize(st, k, n, cap) ==
  LET id == Cardinality(DOMAIN st.ins[k]) + 1
      sf == [node |-> n, cap |-> cap, used |-> 0]
  IN  [st EXCEPT !.ins[k] = With(@, id, sf), !.ids[k] = @ \cup {id},
                 !.g = MinusNodeCap(@, n, cap)]

\* The id after the biggest key.
NewId(m) == IF DOMAIN m = {} THEN 1 ELSE Max(DOMAIN m) + 1

\* insert_instance and insert_instance_slot, and minus_node_cap.
Insert(st, k, n, cap) ==
  LET id == NewId(st.ins[k])
      sf == [node |-> n, cap |-> cap, used |-> 0]
  IN  [st EXCEPT !.ins[k] = With(@, id, sf), !.ids[k] = @ \cup {id},
                 !.g = MinusNodeCap(@, n, cap)]

\* scale_up: one instance for all, on the first node that has room for it.
CanScaleUp(st, path) ==
  \E i \in 1..Len(path) : TotalTraffic <= st.g.node[path[i]]
ScaleUp(st, path, k) ==
  LET i == Min({j \in 1..Len(path) : TotalTraffic <= st.g.node[path[j]]})
  IN  Insert(st, k, path[i], TotalTraffic)

\* scale_out: at most one instance on each node, one for each flow or more.
\* Those that were placed stay when there are too few.
Wanted(vnf) ==
  Max({(TotalTraffic + vnf.cap - 1) \div vnf.cap, Cardinality(toDeploy)})
ScaleOut(st, path, k, vnf) ==
  LET placed[i \in 0..Len(path)] ==
        IF i = 0 THEN st
        ELSE IF /\ Cardinality(placed[i - 1].ids[k]) < Wanted(vnf)
                /\ vnf.cap <= placed[i - 1].g.node[path[i]]
          THEN Insert(placed[i - 1], k, path[i], vnf.cap) ELSE placed[i - 1]
      all == placed[Len(path)]
  IN  [all EXCEPT !.ok = Cardinality(all.ids[k]) >= Wanted(vnf)]

\* place.
Place(st, path, k, vnf) ==
  IF ~vnf.io /\ CanScaleUp(st, path) THEN ScaleUp(st, path, k)
                                     ELSE ScaleOut(st, path, k, vnf)

\* The functions in the order of the chain, up to one that cannot be placed.
PlaceChain(path) ==
  LET st[k \in 0..Len(Chain(cur))] ==
        IF k = 0
          THEN [ins |-> mInstances, ids |-> slotIds, g |-> mGraph, ok |-> TRUE]
        ELSE IF st[k - 1].ok THEN Place(st[k - 1], path, k, Chain(cur)[k])
        ELSE st[k - 1]
  IN  st[Len(Chain(cur))]

\* path_set of the request.
PathSet(r) == Ksp[<<requests[r].source, requests[r].target>>]

\* deploy_functions: all_vnf_placed is compared with false where it should be
\* set, so that the first path is taken whatever could be placed on it.
DeployFunctions ==
  /\ pc = "place"
  /\ LET paths == PathSet(cur)
         st == PlaceChain(Head(paths))
     IN  /\ paths # <<>>
         /\ tmpInstances' = st.ins /\ slotIds' = st.ids /\ tmpGraph' = st.g
  /\ pc' = "steer"
  /\ UNCHANGED <<callerVars, resultVars, flowVars, mGraph, mInstances>>

\* An error: only m_succ is written back.
Fail ==
  /\ succ' = [succ EXCEPT ![cur] = FALSE]
  /\ cur' = cur + 1 /\ pc' = "call"
  /\ UNCHANGED <<setupVars, offline, time, graph, instances, deployed, saved,
                 flowVars, workVars>>

NoPath ==
  /\ pc = "place" /\ PathSet(cur) = <<>>
  /\ Fail

-----------------------------------------------------------------------------
(***************************************************************************)
(* Steering.                                                               *)
(***************************************************************************)
\* get_least_used_instance: the last of those with the lowest usage rate, and
\* 1 for a function without an instance of this slot.  The instances of one
\* function and slot have the same capacity; without any, the rate is not a
\* number, and never the lowest.
LeastUsed(k) ==
  LET used(id) == tmpInstances[k][id].used
      rated == {id \in slotIds[k] : tmpInstances[k][id].cap > 0}
      lowest == Min({used(id) : id \in rated})
  IN  IF rated = {} THEN 1 ELSE Max({id \in rated : used(id) = lowest})

\* select_flow_path: the first path with the bandwidth, <<>> without one.
Route(g, u, w, rate) ==
  LET paths == Ksp[<<u, w>>]
      wide == {i \in 1..Len(paths) : CheckPathBw(g, paths[i], rate)}
  IN  IF u = w THEN <<u>>
      ELSE IF wide = {} THEN <<>> ELSE paths[Min(wide)]

\* create_result_path: the segments in a row, neighbours that are the same
\* node once.
Joined(path, segment) ==
  IF path # <<>> /\ Last(path) = Head(segment)
    THEN path \o Tail(segment) ELSE path \o segment

\* A flow's state while it is steered.
Segment(s, u, w, rate) ==
  LET route == Route(s.g, u, w, rate)
  IN  IF s.ret # "ok" THEN s
      ELSE IF route = <<>> THEN [s EXCEPT !.ret = "fail"]
      ELSE [s EXCEPT !.g = MinusPathBw(@, route, rate),
                     !.path = Joined(@, route)]

\* get_pair_instance: where a flow comes from to its k-th function.
Previous(s, hosts, k) ==
  IF k = 1 THEN requests[cur].source ELSE s.ins[k - 1][hosts[k - 1]].node

SteerThrough(s, i, hosts, k) ==
  LET chain == Chain(cur)
      rate == Flow(cur, i).rate
      sf == s.ins[k][hosts[k]]
      room == (sf.cap - sf.used) * Hundreds(k)
      charged == WithUse(s, k, hosts[k], Added(sf.used, chain, k, rate))
      reached == Segment(charged, Previous(s, hosts, k), sf.node, rate)
  IN  IF s.ret # "ok" THEN s
      ELSE IF hosts[k] \notin DOMAIN s.ins[k]
             THEN [s EXCEPT !.ret = "undefined"]
      ELSE IF Part(chain, k, rate) > room THEN [s EXCEPT !.ret = "fail"]
      ELSE IF k < Len(chain) THEN reached
      ELSE Segment(reached, sf.node, requests[cur].target, rate)

\* steer_traffic_one_flow.
Steered(i) ==
  LET hosts == [k \in 1..Len(Chain(cur)) |-> LeastUsed(k)]
      st[k \in 0..Len(Chain(cur))] ==
        IF k = 0
          THEN [ins |-> tmpInstances, g |-> tmpGraph, path |-> <<>>, ret |-> "ok"]
        ELSE SteerThrough(st[k - 1], i, hosts, k)
      s == st[Len(Chain(cur))]
  IN  [s EXCEPT !.path = IF s.ret = "ok" THEN [hosts |-> hosts, path |-> @]
                                          ELSE <<>>]

\* insert_flow.
WithFlow(i, path) == With(steered, i, path)

SteerFlow ==
  /\ pc = "steer" /\ toDeploy # {}
  /\ LET s == Steered(Min(toDeploy))
     IN  /\ s.ret = "ok"
         /\ tmpInstances' = s.ins /\ tmpGraph' = s.g
         /\ steered' = WithFlow(Min(toDeploy), s.path)
  /\ toDeploy' = toDeploy \ {Min(toDeploy)}
  /\ UNCHANGED <<callerVars, pc, resultVars, toRelease, mGraph, mInstances,
                 slotIds>>

\* One flow that cannot be steered fails the request, with the flows before it
\* and with what was released in this slot.
SteerFails ==
  /\ pc = "steer" /\ toDeploy # {}
  /\ Steered(Min(toDeploy)).ret = "fail"
  /\ Fail

SteerMissing ==
  /\ pc = "steer" /\ toDeploy # {}
  /\ Steered(Min(toDeploy)).ret = "undefined"
  /\ pc' = "undefined"
  /\ UNCHANGED <<callerVars, resultVars, flowVars, workVars>>

SteerDone ==
  /\ pc = "steer" /\ toDeploy = {}
  /\ pc' = "save"
  /\ UNCHANGED <<callerVars, resultVars, flowVars, workVars>>

-----------------------------------------------------------------------------
\* modify_flows: the flows that were steered replace those of the request.
Modified(flows) ==
  [i \in DOMAIN flows \cup DOMAIN steered |->
     IF i \in DOMAIN steered THEN steered[i] ELSE flows[i]]

\* The copies become m_graph and m_request_instance_map, and save writes them
\* and the flows back.
Save ==
  /\ pc = "save"
  /\ graph' = tmpGraph
  /\ instances' = [instances EXCEPT ![cur] = tmpInstances]
  /\ deployed' = [deployed EXCEPT ![cur] = Modified(@)]
  /\ saved' = [saved EXCEPT ![cur] = time]
  /\ cur' = cur + 1 /\ pc' = "call"
  /\ UNCHANGED <<setupVars, offline, time, succ, flowVars, workVars>>

Next ==
  \/ Prepare \/ Begin
  \/ ReturnNone \/ CheckFlows \/ CheckOffline \/ NextSlot
  \/ ReleaseFlow \/ ReleaseMissing \/ Released
  \/ DeployFunctions \/ NoPath
  \/ SteerFlow \/ SteerFails \/ SteerMissing \/ SteerDone
  \/ Save

Spec == Init /\ [][Next]_vars

-----------------------------------------------------------------------------
(***************************************************************************)
(* The flows that hold what they were given: those whose end has not come, *)
(* and, of a request that has failed, those that had not been released in  *)
(* a slot before the one it failed in.                                     *)
(***************************************************************************)
Holding(r) == {i \in DOMAIN deployed[r] : Flow(r, i).end > saved[r]}

Rs == DOMAIN requests
Ids(r, k) == DOMAIN instances[r][k]

Hosted(r, k, id) == {i \in Holding(r) : deployed[r][i].hosts[k] = id}

(***************************************************************************)
(* Between two calls of main no capacity is lost, invented or given twice, *)
(* whichever requests have failed half way (dis_application.cc:1066): what *)
(* is free on a node and the capacities of the instances on it make its    *)
(* capacity, what is free on a link and the rates of the flows on it its   *)
(* bandwidth.                                                              *)
(***************************************************************************)
\* The places of instances: request, function and id.
Places(ins) ==
  UNION {UNION {{r} \X {k} \X DOMAIN ins[r][k] : k \in DOMAIN ins[r]} :
           r \in DOMAIN ins}
PlacedOn(ins, n) == {p \in Places(ins) : ins[p[1]][p[2]][p[3]].node = n}
OnNode(n) ==
  SumFunction([p \in PlacedOn(instances, n) |-> instances[p[1]][p[2]][p[3]].cap])

\* The flows that hold something: request and id.
Held == UNION {{r} \X Holding(r) : r \in Rs}
OnLink(e) ==
  SumFunction([h \in Held |-> Flow(h[1], h[2]).rate
                                 * Times(deployed[h[1]][h[2]].path, e)])

BooksBalance ==
  pc = "call" =>
    /\ \A n \in Nodes : graph.node[n] + OnNode(n) = cfg.processing_cap
    /\ \A e \in Links : graph.link[e] + OnLink(e) = LinkBw(e)
    /\ \A n \in Nodes : graph.node[n] >= 0
    /\ \A e \in Links : graph.link[e] >= 0

(***************************************************************************)
(* m_used_capacity follows the flows an instance holds.  Cutting to whole  *)
(* numbers (dis_application.cc:604, 733) loses less than one for each time *)
(* a flow is added or taken.  And when an instance is given up under flows *)
(* too small to be seen and its id is given again (sfc.h:46), they count   *)
(* as flows of the new one, which knows nothing of them: what is lost then *)
(* is below the threshold for each flow that has ended.  Never is there    *)
(* more in use than flows account for.                                     *)
(***************************************************************************)
Ended(r) == {i \in DOMAIN deployed[r] : Flow(r, i).end <= time}
Rest(r) ==
  Cardinality(DOMAIN deployed[r]) + (Threshold + 1) * Cardinality(Ended(r))

UseTracksFlows ==
  pc = "call" =>
    \A r \in Rs : \A k \in 1..Len(Chain(r)) : \A id \in Ids(r, k) :
      LET use == SumFunction([i \in Hosted(r, k, id) |->
                                Part(Chain(r), k, Flow(r, i).rate)])
          sf == instances[r][k][id]
      IN  /\ sf.used * Hundreds(k) <= use
          /\ use <= (sf.used + Rest(r)) * Hundreds(k)
          /\ sf.used <= sf.cap

(***************************************************************************)
(* Instances and flows belong together.  An instance is given up under a   *)
(* flow only if that flow uses so little of it that the threshold of       *)
(* dis_application.cc:742 cannot see it.  An instance without a flow was   *)
(* never used: scale_out had counted on more instances than there are      *)
(* flows (dis_application.cc:269), or a flow whose rate is cut to nothing  *)
(* shared the instance of the next; and nothing ever releases it.  An      *)
(* instance that is asked for and missing went that way, or belongs to a   *)
(* function for which nothing, or nothing with a capacity, was placed in   *)
(* this slot, which deploy_functions does not notice                       *)
(* (dis_application.cc:403).                                               *)
(***************************************************************************)
Unseen(r, i, k) ==
  Part(Chain(r), k, Flow(r, i).rate) < (Threshold + Rest(r)) * Hundreds(k)

InstancesServe ==
  /\ pc = "call" =>
       \A r \in Rs : \A k \in 1..Len(Chain(r)) :
         /\ \A i \in Holding(r) :
              deployed[r][i].hosts[k] \notin Ids(r, k) => Unseen(r, i, k)
         /\ \A id \in Ids(r, k) :
              Hosted(r, k, id) = {} =>
                \E i \in FlowIds(r) :
                  \/ Flow(r, i).rate > Chain(r)[k].cap
                  \/ Part(Chain(r), k, Flow(r, i).rate) < Hundreds(k)
  /\ pc = "undefined" =>
       \/ /\ toRelease = {}
          /\ \E k \in DOMAIN slotIds : \A id \in slotIds[k] :
               tmpInstances[k][id].cap = 0
       \/ \E k \in 1..Len(Chain(cur)) : Unseen(cur, Min(toRelease), k)

TypeOK ==
  /\ time \in 0..LastSlot /\ cur \in 1..Len(requests) + 1
  /\ phase \in {"start", "random", "csv", "poisson", "written", "loaded",
                "aborted", "endless", "undefined"}
  /\ pc \in {"setup", "call", "release", "place", "steer", "save", "undefined"}
  /\ \A g \in {graph, mGraph, tmpGraph} \ {<<>>} :
       /\ g.node \in [Nodes -> 0..cfg.processing_cap]
       /\ g.link \in [Links -> 0..Max({cfg.intra_bw, cfg.inter_bw})]
  /\ pc # "setup" => succ \in [Rs -> BOOLEAN] /\ Rs = DOMAIN instances
  /\ \A r \in DOMAIN deployed : DOMAIN deployed[r] \subseteq FlowIds(r)
  /\ \A r \in DOMAIN instances : \A k \in DOMAIN instances[r] : \A id \in Ids(r, k) :
       instances[r][k][id] \in [node : Nodes, cap : Nat, used : Nat]

=============================================================================
