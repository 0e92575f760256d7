# A TLA+ model of serverless-cost-ns3

The repository simulates the placement of serverless containers on edge nodes.
A scheduler walks over the time slots of a request file, gives every request a
container on some node, and prints the costs; an ns-3 simulation can then send
one packet stream per served request.  This directory holds TLA+ modules
translated from the code, TLC configurations that check them on small
instances, and theorems checked by TLAPS.  Paths below are relative to
`src/mygraph/model/` of the repository unless they name another directory.

## 1. Inventory

What `src/mygraph/wscript` builds:

| Part | State | Operations | What makes it correct |
|---|---|---|---|
| Tables of `type.h` | nodes with free memory, frequencies, recencies; requests by slot; containers idle (`CacheMap`) and busy (`ActiveFunctions`) | `update`, `addFreqAll`, `add`, `remove`, `find`, the sorts | entries are found again, counts follow the containers |
| Four schedulers: `myAlgorithm.cc`, `lru.cc`, `hist.cc`, `fixedcaching.cc` | the tables, `m_clock`, request counters | `deployRequests` → `deployRequest` → `placeToCurrent`, `deployToNeighbour`, `createToCurrent`; `updateCache`; `printResult` | memory is neither lost nor overcommitted, no two requests of a slot share a container, a cold start is the last resort, the walk reaches every request and ends |
| Request generation: `zipf.cc`, `scratch/create_requests.cc`, `readRequests`, `createRequests` | the request file; numbers by type, slot and node; `m_req_count` | draw numbers and append them to the file; read it, divide by `ReduFactor`, number the requests | what is loaded is what was drawn; every request has a valid type, node and its own id |
| Configuration: `loadConfig`, `loadTopo`, `operation.cc` | `m_cfg`, `m_map`, `m_topo` | parse text, compute distances, write results | a program does not run on values nobody has set |
| `network_controller.cc` | nodes, link devices and addresses by pair of node ids, applications | ring of links, addresses, one traffic application per served request, a sink per node | each served request gets a stream to its `deployNode` |
| `traffic_gen_application.cc` | socket, connected flag, timers, bytes sent | start, connect, on/off periods, send, stop | sends only while running, and does send |
| `sfc_sink.cc`, `sfc_tag.cc` | sockets, bytes received, result requests | accept, read, look up the request in the packet's tag | a packet is credited to the request it was sent for |
| `serverlessServer.cc` | socket, counters | UDP echo; no program of the repository installs it | – |

The schedulers are four copies of one program that differ in what a container
remembers (`priority`, `lastUseTime`, `lifeTime`), in the choice of the victim
of an eviction, and in what `updateCache` does at the end of a slot.  They call
each other's tables directly, in one thread; nothing is persistent.

Not built (what an earlier project on service function chains left; no file of
it is in the `wscript`):

| Part | State | Operations | What makes it correct |
|---|---|---|---|
| `myGraph.cc` | free memory of nodes, free bandwidth of links | read a `.gml` file, take and release, k shortest paths | books of both |
| `sfc.cc`, `sfc.h` | requests with flows and a chain of functions; instances by function and id | write a request file in three ways, read it with duplicates; insert, modify, remove instances | files say what was made, within the functions' capacities |
| `scaling.cc` | configuration, graph, requests | read all of them | – |
| `dis_application.cc` | copies of graph, instances and flows of one request | per slot: release flows that end, place functions for those that start, steer them, write all back or nothing | books balance whichever requests fail half way; instances live as long as their flows |
| `sa_application.cc` | a solution, its free bandwidth, overloaded requests and delay, each also as temporary, best and result | per slot: random placement, simulated annealing, report, update of the graph | the copies speak of one solution; the loop ends |
| `app-client.cc`, `sfc_routing.cc` | – | edited copies of ns-3's HTTP client and static routing | – |

The only test suite of the module has an empty test.

What is hard here is not concurrency inside a scheduler but long sequences of
legal steps over tables that several functions keep in step by hand: memory
taken and given back in different functions, frequencies counted up everywhere
and down in one place, containers copied from one table and removed from
another by an index, a loop that evicts at random until something fits, and
loops bounded by the size of a map with gaps.  Between the programs there are
files: appended to, cut short, or read with a key missing, and nobody looks at
what the readers return.  In the simulated network the usual matters come in:
connections that outlive their application, tags with one byte per number.  In
the remains it is the copies: a slot's work is done on copies of graph and
instances that are written back, or not.  `PROJECT.json` lists the hazards at
their lines.

## 2. Modules

| Module | Models | Remarks |
|---|---|---|
| `EdgeCloud` | what the schedulers share: nodes, distances, sizes, the workload, the order of requests, `sortPhyNodes`, the price comparison of `deployToNeighbour` | constants and their assumptions |
| `EvictionDraw` | `getProb` and `getEvictedContainer` of `myAlgorithm.cc` | the set of types some draw may return |
| `DrawLoop` | the loop of `getEvictedContainer`, step by step | what `EvictionDraw` is compared with |
| `MCDrawLoop` | constants for TLC | |
| `DrawLoop_proofs` | theorems about `DrawLoop` | |
| `ContainerPool` | the promise of a scheduler: containers are idle or busy, created where they fit, reused or evicted only when idle, recycled together | abstract specification |
| `MyAlgorithm` | `deployRequests` of `myAlgorithm.cc` and all it calls, the counts of `printResult` | |
| `MCMyAlgorithm` | constants for TLC | |
| `NatSums` | lemmas: induction over the natural numbers and over finite sets, sums over intervals and over sets, recursive functions, tables of numbers of which one changes | for the other modules of proofs |
| `MyAlgorithm_proofs` | theorems about `MyAlgorithm` | |
| `Lru` | `deployRequests` of `lru.cc` and all it calls | |
| `MCLru` | constants for TLC | |
| `Lru_proofs` | theorems about `Lru` | |
| `LifeTimeCaching` | `deployRequests` of `hist.cc` and all it calls | and of `fixedcaching.cc`, which differs in names and in `lifeTime` only |
| `MCLifeTime` | constants for TLC | |
| `LifeTimeCaching_proofs` | theorems about `LifeTimeCaching` | |
| `ZipfDraw` | the generator of `zipf.cc` and its binary search | pure operators |
| `RequestFile` | `loadConfig` of both programs, `create_requests`, `readRequests`, `createRequests` | extends `ZipfDraw` |
| `RequestTag` | bytes of `sfc_tag.cc`, `RequestsMap::find` | pure operators |
| `EdgeSimulation` | a run of `test-my` with `-simu`: requests loaded (`RequestFile`), deployed, `genTraffic`, the applications and sinks under the simulator's clock | composes `RequestFile` and `RequestTag` |
| `MCSimulation` | constants for TLC | |
| `EdgeSimulation_proofs` | theorems about `EdgeSimulation`, with those about its draws and its file | |
| `GraphPaths` | `MyGraph::ksp`; Yen's algorithm is a library | |
| `SfcSetup` | files of flows and requests (`sfc.cc`), the graph (`myGraph.cc`), `Scaling::init` | |
| `FlowDeployment` | `Dis_application::main` and `main_offline`, all they call, and the instance maps of `sfc.h` | extends `SfcSetup` and `GraphPaths` |
| `MCFlows` | constants for TLC | |
| `FlowDeployment_proofs` | theorems about `FlowDeployment` and `SfcSetup` | |
| `Annealing` | `main_online` of `sa_application.cc` and all it calls | extends `GraphPaths` |
| `MCAnnealing` | constants for TLC | |
| `Annealing_proofs` | theorems about `Annealing` | |

### From code to model

The schedulers' modules have one step per request where the request is served
at its ingress node (`PlaceToCurrent`), and one step per visited node and per
eviction where it is not.  The code's loops over nodes (`deployToNeighbour`)
and evictions (`createToCurrent`) are kept as control states `neighbours` and
`create`, with `ds` the nodes still to visit and `tries` the loop's count, so
that invariants are checked inside the loops too.

* **Containers.** `cache` is `m_cm`, `active` is `m_afs`.  Containers of one
  type on one node that agree in what the scheduler reads are counted, not
  listed: MyAlgorithm reads nothing else, Lru reads
  `lastUseTime`, Hist and FixedCaching read `lifeTime`.  The index
  that `getIdleFunction` returns and `remove` takes becomes a decrement of the
  count it points at.
* **Requests.** `todo[s][t][n]` counts those still to be deployed; requests of
  equal slot, type and node differ only in their ids, which the schedulers do
  not read.  `FirstRequest` gives the order in which `createRequests` stored
  them.  `hosted` counts the served ones of the slot by `deployNode`.
* **The walk over the slots.** `lastSlot` is `m_request_map.size()`, the number
  of slots that have a request, because the code uses it as the last slot.
* **Neighbours.** `SortedPhyNodes` allows every arrangement `std::sort` may
  leave of equal distances.  The first node is dropped, as the code does, even
  if it is not the ingress node.
* **Random eviction.** The weight of a type is size / (freq + recency).
  `Drawable` is the set of types for which some whole number of percent falls
  into the type's interval.  The model works with exact fractions; single
  precision may move the end of an interval by a rounding error, which can
  add or remove a draw exactly on the boundary.
* **Books.** `NoteUse` is `addFreqAll` with `setRecencyAll`; `Charge` and
  `Refund` are the two forms of `Topology.update`.  `m_functionfreq` is left
  out: it is passed by value where it would be decremented and read nowhere.
* **Lru's last victim.** `f` of `createToCurrent` is kept, because the code
  takes `f.size` from the free memory (`lru.cc:669`, `hist.cc:670`).
* **Lives.** A container counts under the life it has left, which is what
  `minusLife` lowers for all of them once a slot, those that just came from
  `m_afs` included.  A request has its container's life too, because
  `Request.update` gives it the function.  `coldStarts` counts the requests
  with `isColdStart` in `m_request_map`, by slot, node and type; no step reads
  it.

* **Files and keys.** A line of a file is what its reader makes of it: the key
  of a configuration line, a title or a row of a request file.  A line without
  "=" (`NoEquals`) ends `loadConfig` before anything is assigned; a key that is
  not read leaves its member unset.  `config.txt` ends in empty lines, which
  only the `break` at `cpuFreq` keeps harmless.  The values of keys are
  abstracted, and a scheduler is assumed to run with the beta its request file
  was made for.
* **Draws.** The generator of `zipf.cc` is modelled with its integer steps;
  powers of the rank are scaled integers (the constant `Power`).
* **Time.** `clock` counts ticks, and what is due at one moment happens in the
  order ns-3 keeps: the simulator's stop, scheduled first, then the starts and
  stops of applications, then packets.  That makes the last slot silent.
* **The network.** ns-3 is external.  A node has routes to its own links only,
  for `create_routing_protocol` is commented out (`network_controller.cc:211`).
  A connection may take any number of ticks; a socket takes `SendBuffer` packets
  before the first is delivered.  The link rates and on times are those the
  controller sets (the rate of `set_map` is read by nobody), with which
  `MaxBytes` and the off period are never reached.
* **Instances.** `instances[r][k]` maps the ids of the k-th function of request
  r to a node, a capacity and a use.  `slotIds` has the ids of
  `m_slot_instance_map`, whose instances agree with those of
  `m_tmp_request_instance_map`.  Change factors are whole percents, so parts of
  a rate are exact fractions, cut where the code assigns to an `int`.
* **Copies.** `m_graph`, `m_tmp_graph` and the three instance maps are separate
  variables, written where the code writes them; `Fail` writes back `m_succ`
  only.  Access outside a map or vector, and values nobody has set, end in
  `pc = "undefined"` or the phase of that name; an exception nobody catches in
  "aborted".
* **Annealing.** Functions may be drawn for any node but 0: the one check of
  node capacity draws up to a hundred times again and then takes what it has.
  Delays are fractions, on which the code's `EPISON` is 0.  Cooling is a number
  of rounds.  A worse solution may always be accepted: `exp` against `rand`.

Operators commented as a slip are spoilt forms of the definition after them.
They are in no specification; `PROJECT.json` pairs each with a property that
fails when it takes that definition's place.

## 3. Runs

Sizes are those of `initFuncMap` (55, 158, 332 and 92).

| Run | Instance | Shows |
|---|---|---|
| `pressure` | 2 nodes at 20, `MemCap` 400, 3 slots, every workload of at most 2 requests per slot of types 1, 3, 4 | books of memory, frequency and requests agree through reuse, neighbours, creation and eviction; `CountersBalance`: cold starts, containers held, frequencies of all nodes and served requests account for one another |
| `neighbours` | 3 nodes, two at one place, 2 slots, types 1 and 3, `MaxTries` 1 | cold starts are the last resort; refinement of `ContainerPool`; termination; containers drain |
| `draws` | the 100 draws at 118 combinations of freq + recency, with equal weights and with two types below one percent together | the loop of `getEvictedContainer` returns exactly the types of `Drawable`, and always one |
| `lru` | as `pressure`, `MaxTries` 2 | Lru's memory counter stays at or above zero; requests do not share containers; the order of eviction is that of use; termination |
| `lifetime` | 2 nodes as in `pressure`, 4 slots with at most 2 requests in the odd and 1 in the even ones, `LifeTime` 3, `MaxTries` 2 | every container goes back to a cold start of its own, as many slots ago as its life says; only the wrong size after evictions unbalances the books of memory, which stay at or above zero; requests do not share containers; termination |
| `simulation` | 3 nodes, 2 types, 3 slots, `ReduFactor` 2, totals of 2 to 60 in five files, six configurations that may change between programs, `create_requests` run once or twice, two to four requests served, bytes of 8 values | the rows of the file are the draws of `zipf.cc`; what is loaded is what was written, as often as it was; applications send to the node that serves; who sends nothing is known; no packet is taken for another request's; termination |
| `flows` | a triangle and a node apart; pairs of requests with 1 to 3 flows through 1 or 2 functions, given in a file, or generated in each of the three ways; 4 slots, or `main_offline` | books of nodes and links between any two calls, uses of instances, instances with their flows, the files of `sfc.cc` |
| `annealing` | a triangle with one slow side, 3 requests of 1 to 3 functions that start in 2 slots, at most 4 rounds | the copies of a solution agree, bandwidth stays at or above zero, the loop ends unless no request can move |
| `sparse` (violation) | 2 slots, at most 1 request each | an empty slot leaves the last slot undeployed |
| `crowded` (violation) | 3 nodes, type 2 | one request takes a container on each near node |
| `lru_fits` (violation) | 2 slots of `pressure` | containers of a node exceed its memory |
| `life_renewed` (violation) | 2 slots, at most 1 request each, `LifeTime` 3 | a reused container does not get its life back |

Why the bounds are enough.  `MemCap` 400 holds one container of type 3 with one
of type 1, or up to seven of type 1: a request may fit at once, after one
eviction, after several, or never.  Three slots let a container be created,
reused, and evicted after reuse; two requests per slot let one find the other's
container busy.  Distance 20 with `cpuFreq` 3 is near enough for types 2 to 4
and not for type 1, so both outcomes of the price test occur; distance 0 of the
co-located nodes gives the tie in `sortPhyNodes` and a neighbour that is near
enough for all types.  `MaxTries` is 1000 in the code.  No run could reach that
number (the theorem `CountNeverEndsTheLoop` says why), so the runs `neighbours`,
`lru` and `lifetime` lower it to reach the exit by count.  A `LifeTime` of 3 in
4 slots gives caches with containers of two ages when one must go, a container
that expires in use and one that expires idle, and a slot after the expiry that
uses the memory given back; 10 and 29 slots repeat these cases.  The even slots
have one request to keep the run small.

In `simulation` one total is below a row's share of a node, where the generator
aborts, one row is short, one file has an empty slot in the middle and one at
the start; nine requests go beyond the eight values of a byte, so that ids
repeat and one is the padding (255 in the code).  A connection may come before
the first packet, between two, or never.  In `flows` a capacity of 150 or 200
stands beside rates of 5 and 9 (below the release threshold of 10), 18, 30, 111
and 160 (above one function), so that a placement scales up, scales out, or
stops half way, a flow loses its instance, an id is given again, and one request
fails in the slot in which another has released; 460 units of a node hold two to
four instances.  A flow of rate 0 comes when the first instance is gone.  The
generators draw the first or last third of what `rand` gives, which includes a
request from a node to itself.  In `annealing` the limit of rounds without an
improvement is 3 instead of 50 and cooling takes 4 rounds: both ends of the
loop, acceptance, rejection, roll-back and a moved overloaded request occur.
Paths over the corner use a link twice, which is where a check per flow and a
check of all differ.

Fairness.  `Spec` has weak fairness on `Step`, any step of `deployRequests`: it
is a plain function on one thread and nothing it calls waits.  No fairness is
put on the outcome of a draw.  `Done` states stutter through `Terminating`, so
deadlock is checked in all runs of the schedulers and of `draws`.  The
programs of `simulation`, `flows` and `annealing` really stop, aborted or at
their end, so there it is not.  `EdgeSimulation` has weak fairness on `Next`: the
two programs are sequential, and the simulator goes from event to event until
it is stopped.  That puts none on a connection or a delivery, which may never
come.  `Annealing` has weak fairness on `Next` too, with the states in which
nothing can change written out (`Idle`), because TLC is slow to compute
`ENABLED` there.  It says that `rand()` does not draw for ever a request that
cannot move while another could; the loop itself does not promise more.  The
safety of `FlowDeployment` needs no fairness, and none is assumed.

### What disagrees with the code's own words

* `sparse`: `deployRequests` (`myAlgorithm.cc:958`), like `printResult` and
  `genTraffic`, walks from 1 to the *number* of slots with requests.  The
  request files in `config/` have requests in every slot at the factors the
  scripts divide by, so the experiments shipped are not affected; a file with
  an empty slot, or a `ReduFactor` that empties one, is.  The theorem
  `GapsLeaveSlotsOut` says how much of any file is left undeployed.
* `crowded`: the loop of `deployToNeighbour` has no `break`
  (`myAlgorithm.cc:617`).  The farthest usable node wins, and the containers
  taken before stay busy until the end of the slot, for no request.
* `lru_fits`: `lru.cc:669` takes the size of the last victim.  `hist.cc:670` and
  `fixedcaching.cc` have the same line.
* `life_renewed`: the comment at `hist.cc:703` announces that `placeToCurrent`
  renews the life of the container; the call below it is commented out, there
  and in `placeToNeighbour`.  A container in constant use expires like an idle
  one, `lifeTime` slots after its cold start.

Disagreements that no run of its own shows, because nothing in the repository
promises the opposite.  The models take them as they are:

* `all_vnf_placed == false;` (`dis_application.cc:403`) compares.  The first
  path is taken whatever could be placed on it, and steering asks for instances
  that are not there.  `InstancesServe` says when: an
  instance given up under the threshold, or a flow of rate 0, for which
  `get_least_used_instance` (`dis_application.cc:424`) finds only instances of no
  capacity.
* `get_change_factor` (`sfc.h:459`) starts at the second function; a flow below
  the threshold of `dis_application.cc:742` loses its instance; an instance that
  `scale_out` counted on and no flow uses is never released; `m_is_gone` is set
  on a copy.
* A move that fails neither cools nor counts (`sa_application.cc:1796`);
  `move_overloaded_requests` erases from the vector it walks over, and what it
  moves is not looked at again; a slot in which all are overloaded is reported
  as if all had succeeded; `update_graph` takes bandwidth for requests that are
  overloaded, up to the first link that has too little; nothing is ever released.
* Node 1 has no address under which `create_traffic` looks
  (`FirstNodeUnreachable`), and requests of the last slot send nothing.
* `create_requests` and `create_one_slot_requests` append to files that readers
  read from the start; `loadConfig`, `read_config` and `load_graph_map` return
  results that are ignored; `read_file` finds "domain" in "interdomain";
  `0 < size < 120` is always true.

## 4. Proofs

For every number of nodes and slots, all sizes, distances, memory and
workloads that satisfy the assumptions of `EdgeCloud` (sizes are positive, the
rest is not negative, and a node is at no distance from itself, which is what
`CalcGPSDistance` returns for equal coordinates):

| Theorem | Argument |
|---|---|
| `TypeCorrect` | inductive by itself; one step per action, with lemmas for `NoteUse`, `Serve`, `Return` |
| `MemoryIsConserved` | inductive with `TypeOK`; `ResidentChange` and `BalanceKept` say how the containers' memory follows one container coming or going |
| `FreqCovers` | inductive with `TypeOK` |
| `OwnContainers` | inductive with `TypeOK`; `Placed` carries the promise through the neighbour loop, which is why it is part of the property |
| `EvictionLoopPaysOff` | needs that `tries` is 0 outside `create` and the ingress node's memory is not negative when the loop starts |
| `CountNeverEndsTheLoop` | from the former: after `MaxTries` rounds any container would fit |
| `Rates` | inductive with `TypeOK` and two strengthenings: a request being deployed is counted but not yet served, and before the first cold start there is no container anywhere, so that the first request must be that cold start |
| `ColdIsLastResort` | `PassedNoWarm`: as long as no node has taken the request, the nodes passed have no warm container for it; that the sorted slice has every node, and a first one at no distance, is a counting argument (`RowCovers`) |
| `CountersAlwaysBalance` | the totals over all nodes as sums: `ContainersChange`, `UsesChange` and `UsesRise` say how a step moves them (`SumOneChange`, `SumAllUp`); `Balanced` counts the placements, one use on every node each, and an eviction moves one use from the frequencies to the evicted |
| `GapsLeaveSlotsOut` | for a given request file `w`: `Walked` says that the slots to come are untouched and the loop bound is `MapSize(w)`; at the end the slots left out are those with requests behind `MapSize(w)`, as many as there are empty ones before (`SameSizeDifference`).  Without a gap nothing is left out |
| `ImplementsPool` | each step maps to a step of `ContainerPool` or a stutter; that a creation fits follows from `MemoryConserved` |
| `StepsAreBounded` (all three schedulers) | the rank `StepsLeft`: `Round` for every request and slot to come, and what the two loops of the request being deployed may still take; a request taken up is one summand less of a sum over a table (`TotalDrops`), and any rest of a request is less than a `Round` (`RoundEnds`) |
| `Lru_proofs`: `TypeCorrect` | with `InSlot` (a request is only deployed in a slot that has one, so the time of last use is one the tables have) and `NoneEvicted` (`f` is 0 outside `create`); the lemmas about `Put` say what changing one number of a table does |
| `MemoryStaysFree` | inductive with those; the second conjunct of `MemNeverNegative` is the strengthening, what the loop gave back bounds what the code takes |
| `EvictionOrder` | inductive with those; only `UpdateCache` puts containers in a cache, and it moves the clock in the same step |
| `Lru_proofs`: `OwnContainers` | as in `MyAlgorithm`, with the clock: the container that serves a request was last used in this slot |
| `ColdIsLastResort` of `Lru_proofs` and `LifeTimeCaching_proofs` | `PassedNoWarm` as in `MyAlgorithm`; no run checks it here.  Eviction may take any type, and only takes containers away |
| `LifeTimeCaching_proofs`: `TypeCorrect` | with `InSlot`, `NoneEvicted` and `FullLife` (a request without a container still has its full life) |
| `LifeTimeCaching_proofs`: `MemoryStaysFree` | as for Lru; expiry only adds memory |
| `LivesCountFromColdStart` | inductive with those: one step of life is one step of the clock, and a creation, always with full life by `FullLife`, has its cold start counted in the slot |
| `LifeTimeCaching_proofs`: `OwnContainers` | as in `MyAlgorithm`, with the life of the request's function |
| `BooksStayBalanced` | from `Basic`; the memory of a node's containers is a sum over their lives (`ResidentSum`): one container more or less changes one number of it (`SumIncrement`), the end of a slot moves all numbers down by one and loses the first, which is what expires (`SumShift`) |
| `LoopImplementsDraw` | invariant: `accum` is the weight of the types passed, and the draw lies beyond it; the types passed weigh no more than those to come, so they are a set `MayPrecede` knows, and a whole draw in an interval is matched by the least one not below it (`Ceiling`) |
| `DrawImplementsLoop` | the other direction: for each set `MayPrecede` allows, an arrangement of the map that puts exactly this set before the type and sorts by weight (`Arranged`): the types are ordered by a key made of the weight, the side of the type they belong to, and their number (`LeastKey`, `OrderByKey`); the draw that `EvictionDraw` names falls into the type's interval there (`FallsDraws`) |
| `NeverPastTheLast` | from the same invariant: the weights of all types add up to `Total`, which no draw of at most 99 % reaches |
| `AssertionMeetsSmallTotals` | the recursion of the search is defined (`SearchDefined`) and finds the share of a draw (`SearchFindsShare`), both by induction on the distance of its bounds, with the invariant that the draw lies between them; all draws are in 1..2^31 - 1 (`RandBounds`); with nothing to draw from it finds 0 (`SearchEmpty`) |
| `FileHoldsDraws` | inductive invariant `Written`: each line of the file is in its place (`InPlace`), a title or the row whose number follows from the titles before it, and between two steps of `create_requests` the cursor is where the last line leaves it, counted over all its runs |
| `FirstNodeUnreachable` | which pairs of numbers are keys of a ring's links; node 1 and no other looks for number 0 |
| `AddressesAreHosts` | addresses are given out once, by `GenTraffic`, and `OwnAddress` says whose they are |
| `AllDemandLoaded` | inductive invariant `Loads`: what is read are the rows that were written (`ReadOK`), and what is made of them so far is counted by sums over the rows before the cursor (`MakingOK`), node by node through the shares of a row (`CreatedIs`); at the end the sum over a type's rows is its demand in the file, less what `readRequests` has left out (`AllMade`, `LostIs`) |
| `NoneMistaken` | a number below 256 survives `Serialize` and `Deserialize` (`FirstByteStays`); ids are given out once (`Numbered`, `Alone`), so `find` returns the request it was asked for or, if its slot is not searched, none (`Found`) |
| `WellTyped` | from the invariants of the readers and of the network, with `Bounded` for the clock, the next packets and the send buffers |
| `SilenceIsExplained` | inductive invariant `Inv`: no time passes before `GenTraffic`; every host is a node, and requests with a host arrive in a slot (`SlotIs`), which the walk came to, and all get their application unless the host has no address; an application that has started has its next packet at its start or has sent one, and one with a route is not stopped without having sent, since its first packet comes within the slot (`PacketTicks < SlotTicks`) and the socket takes it connected or not |
| `ReadAsWritten` | what `read_sfc` parses is what the three writers wrote: a row's flows, chain and times are taken apart and put together again, row by row of a recursion (`Unrolls`, `StepsKeep`), and `duplicate_sfc` copies rows that satisfy the same |
| `FlowsTyped` | inductive, with the shape of paths, of the three copies of the instance maps, and of the values a flow may have while it is placed (`LoadTyped`, `StepTypes`) |
| `CapacityIsKept` | invariant `BooksInv`: the balance of the books is stated for all three copies and for the point in the middle of a request at which they are (`MidDeployed`, `MidIds`); sums over sets of flows and paths change by one summand (`SumInsert`, `SumRemove`) |
| `UseFollowsFlows` | invariant `UsesInv`: what an instance has in use is what the flows that run through it have, those counted out that have lost it (`Lost`), also while a flow is being steered or released |
| `InstancesAreServing` | from `UsesInv`: the flows with no instance to steer to or to release from are exactly those whose instance was given up, or that have no rate |
| `FailedForGood` | `main` looks at `m_succ` first; `main_offline` does not, and needs `OfflineFresh`: it comes to each request once.  With `Working`, a request that is being placed, steered or saved has not failed |
| `Annealing_proofs`: `WellTyped` | inductive invariant `Inv`: solutions give every flow of the batch its hosts, in paths of links (`ShortPathIs`, `MovableType`), and requests are overloaded once (`KeptHas`); a check leaves no link below nothing, by induction over the requests it looks at (`CheckedLeft`), nor does a move that fits (`MoveTakes`), nor `minus_path_bw`, which is last stopped where a route comes to a link last (`LastPassage`, `StopsInTime`) |
| `RecordsAgree` | the same invariant, whose part `Books` says it of the accepted solution, of the moved one between the move and its judgement (`TmpBooks`), and of the result when it is stored: what is free after a check is what the requests not overloaded leave (`CheckedBooks`), a move exchanges one summand (`MoveTakes`), and the routes `get_all_result` writes cross a link as often as the check counted (`RouteIs`, `ReportTakes`) |
| `SlotsEnd` | from `Inv`: a slot has six parts and no way back (`Stage`); within one, `PartLeft` falls: of the rounds left, each with a move and its judgement, and the requests that have had no turn; of the overloaded requests, which are no more than the requests (`OverloadedFew`); of the flows to deploy |

The theorems about `EdgeSimulation` hold for every number of nodes and types,
every content of the files and any time ns-3 takes (`LoadAssumption`
only asks that a weight is given for each value that may be drawn), for slots
longer than the interval between two packets, fewer slots than a byte can number
(`SimulationAssumption`) and
tags at least as long as the fields of one (`TagAssumption`); those about
`FlowDeployment` for every graph, file and functions (`FlowAssumption`: Yen's
algorithm returns paths of the graph, a part of a rate fits one function, as the
cap of `InstanceThreshold` has it), those about
`Annealing` for every graph in which each node reaches each other one, however
`dijkstra_shortest_paths` breaks ties between paths of equal length, any paths
that consist of its links, and all lists of requests, rounds and limits
(`AnnealingAssumption`: a node's predecessor is settled before it), those about
`DrawLoop` for all sizes and all positive sums of frequency and recency.

The theorems of the library that state induction for a predicate are not for
these provers.  `NatSums` states it for sets instead: a set of numbers with 0
that has each next number is the set of all, from the well-foundedness of strict
inclusion between finite sets.  So the few recursive functions the proofs need
(sums, the draws of a row, the search) are shown to exist and to compute what
they should.

Only model-checked: liveness (`Termination`, `ContainersDrain`,
`EndsUnlessStuck`, `AlwaysDraws`), which these provers cannot do, and the
violations.  Of `Termination` and `EndsUnlessStuck` the part that needs no
fairness is proved: `StepsAreBounded` and `SlotsEnd` leave no endless sequence
of steps that change something.  That a step can be taken until the end, which
is ENABLED, and that it is, which is fairness, stay with TLC.

## 5. Plan

Done: the schedulers with their proofs; the way of the requests from the
generator to the network; the setup, the placement and the annealing of the
earlier project.  Left, in the order of what it would add:

1. An abstract specification of reservations, free and taken per node and link,
   that `FlowDeployment` and `Annealing` implement between two calls.
2. `create_test`, `optimal_solution` and `move_to_neighbour` of
   `sa_application.cc`.

## 6. Not modelled

* Costs and their averages in `printResult` (floating-point sums), the writers
  of `operation.cc`, logging, the distances of `CalcGPSDistance`.
* `serverlessServer.cc`, an edited UDP echo server that nothing installs;
  `app-client.cc` and `sfc_routing.cc`, ns-3's HTTP client and static routing
  with small edits, which no program builds.
* `MaxBytes`, the off period and failed connections of
  `traffic_gen_application.cc`, which the controller's settings do not reach;
  byte counters and trace sources of `sfc_sink.cc`.
* The statistics of `dis_application.cc` and `sa_application.cc`, and of the
  latter the functions of plan item 2.
* External, modelled from how the code uses them: ns-3, Boost's Dijkstra
  (`PredMap`) and Yen's algorithm (`YenPaths`), the callers of `Sfc_vec`,
  `Dis_application` and `SA_application`, which the repository does not have, and
  what writes `poisson-2.csv` (`possion_process` writes `poisson-1.csv`).
* Assumed of those callers: node ids 0..n-1, a `flow_size.csv` with a line, at
  least one flow per request, a factor of `read_sfc` over 1 if and only if it
  asks for more requests than `RequestNum`; the cap of 10000 of `duplicate_sfc`
  is not reached.
