------------------------------ MODULE Annealing ------------------------------
(***************************************************************************)
(* SA_application (sa_application.cc): main_online collects in every slot  *)
(* the requests that start and has main place them all at once, by         *)
(* simulated annealing.  A solution gives every function of every flow a   *)
(* node, and flows are routed along shortest paths between those.  The     *)
(* requests that do not fit the links are overloaded; a move puts one      *)
(* request's functions along one of its shortest paths, and is accepted    *)
(* by the average delay of the flows that are not overloaded.              *)
(*                                                                         *)
(* The checks of node capacity are commented out, but for one that draws   *)
(* up to a hundred times again, which leaves any node possible: nodes have *)
(* no capacity here.  Average delays are fractions, so that EPISON is 0.   *)
(***************************************************************************)
EXTENDS Integers, GraphPaths, FiniteSetsExt

CONSTANTS
  MaxNode,        \* get_max_node: nodes are 0..MaxNode
  Links,          \* of the graph, in both directions
  Bandwidth,      \* of each link
  Latency,        \* of each link
  PredMap,        \* what dijkstra_shortest_paths finds from a node: the node
                  \* before another one
  RequestLists,   \* possible values of m_request_v_all
  LastSlot,       \* the last slot main_online is called for
  Rounds,         \* rounds until temp is at most 1
  NoImLimit       \* rounds without improvement that end the loop; 50

Nodes == 0..MaxNode

Flow == [rate : Nat, start : Nat]
Request == [source : Nodes, target : Nodes, chain : Nat, work : Nat,
            flows : Seq(Flow)]

\* Every node can be reached from every other one, and one that is settled
\* later has its predecessor among those settled before.
ASSUME AnnealingAssumption ==
  /\ MaxNode \in Nat \ {0} /\ LastSlot \in Nat
  /\ Rounds \in Nat \ {0} /\ NoImLimit \in Nat \ {0}
  /\ Links \subseteq Nodes \X Nodes
  /\ Bandwidth \in [Links -> Nat] /\ Latency \in [Links -> Nat]
  /\ RequestLists \subseteq Seq(Request)
  /\ YenPaths \in [Nodes \X Nodes -> Seq(Seq(Links))]
  /\ \A u \in Nodes : \E settled \in [Nodes -> Nodes] : \A w \in Nodes \ {u} :
       /\ <<PredMap[<<u, w>>], w>> \in Links
       /\ settled[PredMap[<<u, w>>]] < settled[w]

VARIABLES
  all,            \* m_request_v_all, which nothing changes
  time,           \* slot main_online is called for
  pc,             \* where main is
  graph,          \* m_graph: the free bandwidth of each link
  batch,          \* m_request_v
  sol,            \* m_sa_result: per request, flow and function a node
  minGraph, minOver, fmin,  \* m_min_graph, m_min_overloaded_r, m_Fmin of sol
  tmpSol,         \* m_tmp_sa_result
  tmpGraph, over, \* m_tmp_graph, m_overloaded_r of tmpSol
  best, fbest,    \* best_sa_result, Fbest
  temp,           \* rounds temp still lasts
  noIm,           \* no_im_count
  loopCount,      \* m_loop_count, as far as the number of requests
  report,         \* m_result_request_v: per request success and routes
  next            \* iterator of move_overloaded_requests

slotVars == <<all, time, report>>
minVars == <<sol, minGraph, minOver, fmin>>
tmpVars == <<tmpSol, tmpGraph, over>>
bestVars == <<best, fbest>>
loopVars == <<temp, noIm, loopCount>>
vars == <<slotVars, pc, graph, batch, minVars, tmpVars, bestVars, loopVars, next>>

\* push_back of the elements of seq that are in set, one after the other.
Kept(seq, set) ==
  LET kept[i \in 0..Len(seq)] ==
        IF i = 0 THEN <<>>
        ELSE IF seq[i] \in set THEN Append(kept[i - 1], seq[i])
        ELSE kept[i - 1]
  IN  kept[Len(seq)]

Ids == 1..Len(batch)
FlowIds(r) == 1..Len(batch[r].flows)
Rate(r, f) == batch[r].flows[f].rate

-----------------------------------------------------------------------------
(***************************************************************************)
(* Routes, bandwidth and delay of a solution.                              *)
(***************************************************************************)
Hops(path) == [i \in 1..Len(path) - 1 |-> <<path[i], path[i + 1]>>]
Times(hops, e) == Cardinality({i \in DOMAIN hops : hops[i] = e})

\* get_short_path: from the target back over the predecessors, reversed.
ShortPath ==
  [u \in Nodes |->
     LET back[w \in Nodes] == IF w = u THEN <<u>>
                              ELSE Append(back[PredMap[<<u, w>>]], w)
     IN  back]

\* What the shortest path between two nodes takes of a link, and its delay.
Uses ==
  [ends \in Nodes \X Nodes |->
     [e \in Links |-> Times(Hops(ShortPath[ends[1]][ends[2]]), e)]]
ShortPathDelay ==
  [ends \in Nodes \X Nodes |->
     LET hops == Hops(ShortPath[ends[1]][ends[2]])
     IN  SumFunction([i \in DOMAIN hops |-> Latency[hops[i]]])]

\* get_path: the shortest paths from the source over the hosts to the target.
Stops(r, hosts) == <<batch[r].source>> \o hosts \o <<batch[r].target>>
Legs(r, hosts) ==
  [i \in 1..Len(hosts) + 1 |-> <<Stops(r, hosts)[i], Stops(r, hosts)[i + 1]>>]

\* What a request placed as p takes of a link.
Crossings(r, hosts, e) ==
  SumFunction([i \in DOMAIN Legs(r, hosts) |-> Uses[Legs(r, hosts)[i]][e]])
Load(r, p, e) ==
  SumFunction([f \in FlowIds(r) |-> Rate(r, f) * Crossings(r, p[f], e)])

HasBw(g, r, f, hosts) ==
  \A e \in Links : Crossings(r, hosts, e) > 0 => g[e] >= Rate(r, f)

\* A slip: each flow fits by itself, as for check_request_resource.
FitsEach(g, r, p) == \A f \in FlowIds(r) : HasBw(g, r, f, p[f])

\* check_request_resource and minus_request_resource: what the first finds
\* missing is missing for the second too, and both have the same effect.
Fits(g, r, p) == \A e \in Links : Load(r, p, e) <= g[e]

\* get_flow_link_delay and get_flow_function_delay.
FlowDelay(r, hosts) ==
  batch[r].work + SumFunction([i \in DOMAIN Legs(r, hosts) |->
                                 ShortPathDelay[Legs(r, hosts)[i]]])

\* get_average_delay, as a fraction: over 0 it is not a number.
AverageDelay(s, overloaded) ==
  LET counted == {r \in Ids : ~Contains(overloaded, r)}
  IN  [sum |-> SumFunction([r \in counted |->
                 SumFunction([f \in FlowIds(r) |-> FlowDelay(r, s[r][f])])]),
       num |-> SumFunction([r \in counted |-> Len(batch[r].flows)])]
Less(d1, d2) == d1.sum * d2.num < d2.sum * d1.num
IsNan(d) == d.num = 0

\* check_solution: in their order, the requests that fit beside those before
\* them take their bandwidth; the others are overloaded.
Left(s, rs) ==
  [e \in Links |-> graph[e] - SumFunction([r \in rs |-> Load(r, s[r], e)])]
Checked(s, rs) ==
  \A r \in Ids : r \in rs <=> Fits(Left(s, {q \in rs : q < r}), r, s[r])
Overloaded(rs) == Kept([r \in Ids |-> r], Ids \ rs)

-----------------------------------------------------------------------------
(***************************************************************************)
(* Moves.                                                                  *)
(***************************************************************************)
\* move_flow_to_path: the first nodes of a path that is long enough.
Hosts(r, path) == SubSeq(path, 1, batch[r].chain)
Movable(r) ==
  LET paths == Ksp[<<batch[r].source, batch[r].target>>]
  IN  IF batch[r].chain = 0 THEN <<>>
      ELSE Kept(paths, {path \in ToSet(paths) : Len(path) >= batch[r].chain})

\* The loop of move_flow_map: a flow goes to the first path with bandwidth,
\* while its old route still counts, and to the last path without one.
Along(g, r, old) ==
  [f \in FlowIds(r) |->
     LET tried == [i \in DOMAIN Movable(r) |-> Hosts(r, Movable(r)[i])]
         wide == Kept(tried, {hosts \in ToSet(tried) : HasBw(g, r, f, hosts)})
     IN  IF tried = <<>> THEN old[f]
         ELSE IF wide = <<>> THEN Last(tried) ELSE Head(wide)]

CanMove(g, s, r) == Fits(g, r, Along(g, r, s[r]))

\* A slip: the old bandwidth is released whether it was taken or not.
ExchangedAnyway(g, r, old, new, overloaded) ==
  [e \in Links |-> g[e] - Load(r, new, e) + Load(r, old, e)]

\* The end of move_flow_map: an overloaded request has nothing to release.
Exchanged(g, r, old, new, overloaded) ==
  [e \in Links |-> g[e] - Load(r, new, e)
                        + IF Contains(overloaded, r) THEN 0 ELSE Load(r, old, e)]

Route(r, hosts) ==
  FlattenSeq([i \in DOMAIN Legs(r, hosts) |->
                LET leg == Legs(r, hosts)[i]
                IN  Hops(ShortPath[leg[1]][leg[2]])])

\* update_request_succ.
Succeeds(r, overloaded) == ~Contains(overloaded, r)

\* get_all_result, behind it: all requests have their routes.
Reported(s, overloaded) ==
  [r \in Ids |->
     [succ |-> Succeeds(r, overloaded),
      routes |-> [f \in FlowIds(r) |-> Route(r, s[r][f])]]]

-----------------------------------------------------------------------------
\* check_if_deploy.
StartsNow(r) == \E f \in DOMAIN r.flows : r.flows[f].start = time

\* check_requests.  Nothing sets m_is_deployed, m_succ or m_finish of these
\* requests, so that none is ever released or skipped.
CheckRequests == Kept(all, {r \in ToSet(all) : StartsNow(r)})

Init ==
  /\ all \in RequestLists
  /\ time = 0 /\ pc = "check"
  /\ graph = Bandwidth
  /\ batch = <<>> /\ sol = <<>> /\ tmpSol = <<>> /\ best = <<>>
  /\ minGraph = graph /\ tmpGraph = graph /\ minOver = <<>> /\ over = <<>>
  /\ fmin = [sum |-> 0, num |-> 0] /\ fbest = fmin
  /\ temp = 0 /\ noIm = 0 /\ loopCount = 0 /\ report = <<>> /\ next = 1

\* main_online.
Check ==
  /\ pc = "check" /\ time <= LastSlot
  /\ batch' = CheckRequests
  /\ IF batch' = <<>> THEN time' = time + 1 /\ pc' = pc
                      ELSE time' = time /\ pc' = "create"
  /\ UNCHANGED <<all, report, graph, minVars, tmpVars, bestVars, loopVars, next>>

\* create_init_solution and create_flows_placement, then the first check of
\* main.  Node 0 is never drawn.
Spots == UNION {{r} \X FlowIds(r) \X (1..batch[r].chain) : r \in Ids}
Placed(host) ==
  [r \in Ids |-> [f \in FlowIds(r) |->
                    [k \in 1..batch[r].chain |-> host[<<r, f, k>>]]]]

CreateInitSolution ==
  /\ pc = "create"
  /\ \E host \in [Spots -> 1..MaxNode] : sol' = Placed(host)
  /\ \E rs \in SUBSET Ids :
       /\ Checked(sol', rs)
       /\ minGraph' = Left(sol', rs) /\ minOver' = Overloaded(rs)
  /\ fmin' = AverageDelay(sol', minOver')
  /\ best' = sol' /\ fbest' = fmin'
  /\ tmpSol' = sol' /\ tmpGraph' = minGraph' /\ over' = minOver'
  /\ temp' = Rounds /\ noIm' = 0 /\ loopCount' = 0
  /\ pc' = "loop"
  /\ UNCHANGED <<slotVars, graph, batch, next>>

\* No request is left to take an average over: main returns, and what it had
\* stored before the loop, with no request failed, is the result.
ReturnNan ==
  /\ pc = "loop" /\ IsNan(fmin)
  /\ report' = Reported(sol, <<>>)
  /\ time' = time + 1 /\ pc' = "check"
  /\ UNCHANGED <<all, graph, batch, minVars, tmpVars, bestVars, loopVars, next>>

\* A slip: once every request has had its turn, the last one has.
TurnsOnly == {Min({loopCount + 1, Len(batch)})}

\* move_request_to_path: each request once, then a random one.
Turns == IF loopCount < Len(batch) THEN {loopCount + 1} ELSE Ids

MoveRequest ==
  /\ pc = "loop" /\ ~IsNan(fmin)
  /\ \E r \in Turns :
       /\ tmpSol' = [sol EXCEPT ![r] = Along(minGraph, r, @)]
       /\ Fits(minGraph, r, tmpSol'[r])
       /\ tmpGraph' = Exchanged(minGraph, r, sol[r], tmpSol'[r], minOver)
       /\ over' = Kept(minOver, Ids \ {r})
  /\ loopCount' = Min({loopCount + 1, Len(batch)})
  /\ pc' = "judge"
  /\ UNCHANGED <<slotVars, graph, batch, minVars, bestVars, temp, noIm, next>>

\* The loop goes on with the solution it had: no cooling, no count.
MoveFails ==
  /\ pc = "loop" /\ ~IsNan(fmin)
  /\ \E r \in Turns : ~CanMove(minGraph, sol, r)
  /\ loopCount' = Min({loopCount + 1, Len(batch)})
  /\ UNCHANGED <<slotVars, pc, graph, batch, minVars, tmpVars, bestVars, temp,
                 noIm, next>>

NewDelay == AverageDelay(tmpSol, over)
NoIm == IF Less(NewDelay, fmin) THEN 0 ELSE noIm + 1

\* no_im_count has come to its limit.
BreakLoop ==
  /\ pc = "judge" /\ NoIm >= NoImLimit
  /\ noIm' = NoIm /\ pc' = "ended"
  /\ UNCHANGED <<slotVars, graph, batch, minVars, tmpVars, bestVars, temp,
                 loopCount, next>>

Cool ==
  /\ noIm' = NoIm
  /\ temp' = temp - 1
  /\ pc' = IF temp = 1 THEN "ended" ELSE "loop"
  /\ UNCHANGED <<slotVars, graph, batch, tmpVars, loopCount, next>>

\* A smaller delay or the same is always accepted, a larger one by chance.
Accept ==
  /\ pc = "judge" /\ NoIm < NoImLimit
  /\ sol' = tmpSol /\ minGraph' = tmpGraph /\ minOver' = over
  /\ fmin' = NewDelay
  /\ IF Less(fmin', fbest) THEN best' = sol' /\ fbest' = fmin'
                           ELSE UNCHANGED bestVars
  /\ Cool

Reject ==
  /\ pc = "judge" /\ NoIm < NoImLimit
  /\ Less(fmin, NewDelay)
  /\ UNCHANGED <<minVars, bestVars>>
  /\ Cool

\* Behind the loop: the best solution is taken, and checked again.
RollBack ==
  /\ pc = "ended"
  /\ IF Less(fbest, fmin) THEN sol' = best /\ fmin' = fbest
                          ELSE UNCHANGED <<sol, fmin>>
  /\ \E rs \in SUBSET Ids :
       /\ Checked(sol', rs)
       /\ tmpGraph' = Left(sol', rs) /\ over' = Overloaded(rs)
  /\ next' = 1 /\ pc' = "overloaded"
  /\ UNCHANGED <<slotVars, graph, batch, minGraph, minOver, tmpSol, bestVars,
                 loopVars>>

\* move_overloaded_requests moves them in m_tmp_sa_result, which is not the
\* solution that was checked and is not looked at again.  A request that was
\* moved is erased, and the iterator goes past the one behind it.
MoveOverloaded ==
  /\ pc = "overloaded" /\ next <= Len(over)
  /\ LET r == over[next]
     IN  IF CanMove(tmpGraph, tmpSol, r)
           THEN /\ tmpSol' = [tmpSol EXCEPT ![r] = Along(tmpGraph, r, @)]
                /\ tmpGraph' = Exchanged(tmpGraph, r, tmpSol[r], tmpSol'[r], over)
                /\ over' = Kept(over, Ids \ {r})
           ELSE UNCHANGED tmpVars
  /\ next' = next + 1
  \* Past the end of the vector the loop does not stop.
  /\ pc' = IF next' > Len(over') + 1 THEN "undefined" ELSE pc
  /\ UNCHANGED <<slotVars, graph, batch, minVars, bestVars, loopVars>>

\* The second check_solution, of the same solution, and the result.
CheckAgain ==
  /\ pc = "overloaded" /\ next > Len(over)
  /\ \E rs \in SUBSET Ids :
       /\ Checked(sol, rs)
       /\ tmpGraph' = Left(sol, rs) /\ over' = Overloaded(rs)
  /\ report' = Reported(sol, over')
  /\ next' = 1 /\ pc' = "update"
  /\ UNCHANGED <<all, time, graph, batch, minVars, tmpSol, bestVars, loopVars>>

\* minus_path_bw stops at the first link of the route that has too little.
StopsAfter(g, route, rate, i) ==
  LET enough(j) == g[route[j]] >= rate * Times(SubSeq(route, 1, j), route[j])
  IN  /\ \A j \in 1..i : enough(j)
      /\ i < Len(route) => ~enough(i + 1)

AllFlows ==
  FlattenSeq([r \in Ids |-> [f \in FlowIds(r) |-> <<r, f>>]])

\* update_graph, one flow of m_result_request_v after the other: the
\* overloaded ones take bandwidth too.
UpdateGraph ==
  /\ pc = "update" /\ next <= Len(AllFlows)
  /\ LET r == AllFlows[next][1]
         f == AllFlows[next][2]
         route == report[r].routes[f]
     IN  \E i \in 0..Len(route) :
           /\ StopsAfter(graph, route, Rate(r, f), i)
           /\ graph' = [e \in Links |->
                graph[e] - Rate(r, f) * Times(SubSeq(route, 1, i), e)]
  /\ next' = next + 1
  /\ UNCHANGED <<slotVars, pc, batch, minVars, tmpVars, bestVars, loopVars>>

Finish ==
  /\ pc = "update" /\ next > Len(AllFlows)
  /\ time' = time + 1 /\ pc' = "check"
  /\ UNCHANGED <<all, report, graph, batch, minVars, tmpVars, bestVars, loopVars,
                 next>>

Next ==
  \/ Check \/ CreateInitSolution \/ ReturnNan
  \/ MoveRequest \/ MoveFails \/ BreakLoop \/ Accept \/ Reject
  \/ RollBack \/ MoveOverloaded \/ CheckAgain \/ UpdateGraph \/ Finish

\* No step changes anything.
Idle ==
  \/ time > LastSlot
  \/ pc = "undefined"
  \/ /\ pc = "loop" /\ ~IsNan(fmin) /\ loopCount = Len(batch)
     /\ \A r \in Turns : ~CanMove(minGraph, sol, r)

(***************************************************************************)
(* The program goes on, and rand() does not avoid a request for ever.      *)
(* This is WF_vars(Next), with Idle written out for ~ENABLED <<Next>>_vars *)
(* because TLC is slow to find that by itself.                             *)
(***************************************************************************)
Fairness == []<>Idle \/ []<><<Next>>_vars

Spec == Init /\ [][Next]_vars /\ Fairness

-----------------------------------------------------------------------------
Taken(s, overloaded, e) ==
  SumFunction([r \in {q \in Ids : ~Contains(overloaded, q)} |-> Load(r, s[r], e)])

\* What the reported routes of the successful requests take of a link.
Crossed(e) ==
  SumFunction([r \in {q \in Ids : report[q].succ} |->
    SumFunction([f \in FlowIds(r) |-> Rate(r, f) * Times(report[r].routes[f], e)])])

JustChecked == pc = "update" /\ next = 1

(***************************************************************************)
(* m_sa_result, m_min_graph, m_min_overloaded_r and m_Fmin are four        *)
(* records of one thing, and so are the temporary ones; moves change them  *)
(* piece by piece, and acceptance copies them one by one                   *)
(* (sa_application.cc:1836-1861).  What is free and what the requests that *)
(* are not overloaded take is the bandwidth, the delay is theirs, and the  *)
(* best delay is of the best solution for some choice of overloaded ones.  *)
(* In the result the routes of the requests that count as successful take  *)
(* what the check took for them, and no other request fits beside them.    *)
(***************************************************************************)
StatusConsistent ==
  /\ pc \in {"loop", "judge"} =>
       /\ \A e \in Links : minGraph[e] + Taken(sol, minOver, e) = graph[e]
       /\ fmin = AverageDelay(sol, minOver)
       /\ ~Less(fmin, fbest)
  /\ pc = "judge" =>
       \A e \in Links : tmpGraph[e] + Taken(tmpSol, over, e) = graph[e]
  /\ JustChecked =>
       /\ \A e \in Links : tmpGraph[e] + Crossed(e) = graph[e]
       /\ \A r \in Ids : ~report[r].succ => ~Fits(tmpGraph, r, sol[r])

\* No request can move, and none is left to take its first turn.
Stuck ==
  /\ pc = "loop" /\ ~IsNan(fmin) /\ loopCount = Len(batch)
  /\ \A r \in Ids : ~CanMove(minGraph, sol, r)

Halted == time > LastSlot \/ pc = "undefined" \/ Stuck

(***************************************************************************)
(* main_online comes to its last slot, runs past the end of the vector of  *)
(* overloaded requests, or is stuck: a move that fails neither cools nor   *)
(* counts as no improvement (sa_application.cc:1796), so when no request   *)
(* can move the loop never ends.  As long as one can move it does not go   *)
(* on for ever.                                                            *)
(***************************************************************************)
EndsUnlessStuck == <>Halted

TypeOK ==
  /\ time \in 0..LastSlot + 1
  /\ pc \in {"check", "create", "loop", "judge", "ended", "overloaded",
             "update", "undefined"}
  /\ \A g \in {graph, minGraph, tmpGraph} :
       /\ DOMAIN g = Links
       /\ \A e \in Links : g[e] \in 0..Bandwidth[e]
  /\ pc \notin {"check", "create"} =>
       DOMAIN sol = Ids /\ DOMAIN tmpSol = Ids /\ loopCount \in 0..Len(batch)
  /\ \A o \in {minOver, over} : IsInjective(o)
  /\ temp \in 0..Rounds /\ noIm \in 0..NoImLimit

=============================================================================
