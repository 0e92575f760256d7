--------------------------- MODULE EdgeSimulation ---------------------------
(***************************************************************************)
(* A run of scratch/test-my.cc with -simu: the requests are loaded         *)
(* (RequestFile) and deployed, genTraffic builds a ring of nodes           *)
(* (Network_controller), puts a sink on every node and a traffic           *)
(* application per served request on its ingress node, and the simulator   *)
(* runs.  The scheduler is reduced to what the network sees of it, a host  *)
(* or none for each request.                                               *)
(*                                                                         *)
(* ns-3 is external.  Its TCP may connect and deliver as late as it likes; *)
(* a node has routes to its own links only, since no routing protocol is   *)
(* created.  Simultaneous events run in the order they were scheduled: the *)
(* simulator's own stop first, then starts and stops of applications, then *)
(* what the applications schedule.                                         *)
(***************************************************************************)
EXTENDS RequestFile, RequestTag

CONSTANTS
  SlotTicks,     \* m_time_slot_length
  PacketTicks,   \* time an application needs for a packet at its rate
  SendBuffer,    \* packets a socket takes before the first is delivered
  Hosts(_)       \* nodes the scheduler may serve a request on

ASSUME SimulationAssumption ==
  /\ SlotTicks \in Nat \ {0} /\ PacketTicks \in Nat \ {0}
  /\ SendBuffer \in Nat \ {0}
  /\ PacketTicks < SlotTicks
  /\ SlotNum < Byte - 1

VARIABLES
  host,          \* deployNode of request 0, 1, ..., 0 when it is not served
  peer,          \* address an application sends to, NoAddress without one
  clock,         \* ticks of Simulator::Now
  app,           \* "none", "installed", "started" or "stopped"
  nextTx,        \* when m_sendEvent fires
  unsent,        \* m_unsentPacket is set
  sent,          \* packets Send has taken, m_totBytes / m_pktSize
  socket,        \* "closed", "connecting" or "connected"
  got,           \* packets HandleRead has taken from the connection
  named          \* what HandleRead finds for the tag of the request's packets

simVars == <<host, peer, clock, app, nextTx, unsent, sent, socket, got, named>>
appVars == <<app, nextTx, unsent, sent, socket, got, named>>
vars == <<loadVars, simVars>>

Ids == 0..reqCount - 1
Host(id) == host[id + 1]
Never == -1
Unread == -2

\* The request with this id.
Req(id) ==
  LET s == CHOOSE u \in Slots : \E i \in 1..Len(reqs[u]) : reqs[u][i].id = id
  IN  reqs[s][CHOOSE i \in 1..Len(reqs[s]) : reqs[s][i].id = id]

-----------------------------------------------------------------------------
(***************************************************************************)
(* Network_controller.                                                     *)
(***************************************************************************)
\* create_all_p2p_channel: each node with the next, the last with the first.
Links == {<<n, IF n = NodeNum THEN 1 ELSE n + 1>> : n \in Nodes}

NoAddress == <<>>

\* A slip: of the two ends of the link the wrong one is addressed.
AddressOfPredecessor(dst) ==
  IF <<dst - 1, dst>> \in Links THEN <<<<dst - 1, dst>>, 0>>
  ELSE IF <<dst, dst - 1>> \in Links THEN <<<<dst, dst - 1>>, 0>>
  ELSE NoAddress

\* create_traffic looks for the link of the destination with the node before
\* it in number, in both directions.
AddressOf(dst) ==
  IF <<dst - 1, dst>> \in Links THEN <<<<dst - 1, dst>>, 1>>
  ELSE IF <<dst, dst - 1>> \in Links THEN <<<<dst, dst - 1>>, 0>>
  ELSE NoAddress

\* create_traffic makes an application for an address it has found, and
\* returns without one otherwise.
Installed(addr) == IF addr = NoAddress THEN "none" ELSE "installed"

\* The node an address belongs to.
Owner(addr) == addr[1][addr[2] + 1]

\* ns-3's own routes: to the links of the node, and to itself.
Routed(src, addr) == src \in {addr[1][1], addr[1][2]}

-----------------------------------------------------------------------------
SimInit ==
  /\ host = <<>> /\ peer = <<>> /\ clock = 0
  /\ app = <<>> /\ nextTx = <<>> /\ unsent = <<>> /\ sent = <<>>
  /\ socket = <<>> /\ got = <<>> /\ named = <<>>

Init == LoadInit /\ SimInit

\* deployRequests, by any scheduler: it walks over as many slots as have
\* requests and gives each request of them a host or none.  What one request
\* gets says nothing of the next, so they are taken in the order of their ids.
DeployRequest ==
  /\ pc = "deploy" /\ Len(host) < reqCount
  /\ LET req == Req(Len(host))
     IN  \E n \in (Hosts(req) \cap Nodes) \cup {0} :
           /\ req.arriveTime > MapSize => n = 0
           /\ host' = Append(host, n)
  /\ UNCHANGED <<loadVars, peer, clock, appVars>>

\* genTraffic: applications for the served requests of the slots it walks
\* over whose destination has an address.
GenTraffic ==
  /\ pc = "deploy" /\ Len(host) = reqCount
  /\ LET to(id) == IF Host(id) # 0 /\ Req(id).arriveTime <= MapSize
                     THEN AddressOf(Host(id)) ELSE NoAddress
     IN  /\ peer' = [id \in Ids |-> to(id)]
         /\ app' = [id \in Ids |-> Installed(to(id))]
  /\ nextTx' = [id \in Ids |-> Never]
  /\ unsent' = [id \in Ids |-> FALSE]
  /\ sent' = [id \in Ids |-> 0]
  /\ socket' = [id \in Ids |-> "closed"]
  /\ got' = [id \in Ids |-> 0]
  /\ named' = [id \in Ids |-> Unread]
  /\ pc' = "run"
  /\ UNCHANGED <<inputs, runs, cursor, file, readVars, reqs, reqCount,
                 host, clock>>

-----------------------------------------------------------------------------
(***************************************************************************)
(* traffic_gen_application.                                                *)
(***************************************************************************)
StartTime(id) == Req(id).arriveTime * SlotTicks
StopTime(id) == (Req(id).arriveTime + 1) * SlotTicks
RunEnd == SlotNum * SlotTicks

Running == pc = "run" /\ clock < RunEnd

Starting(id) == app[id] = "installed" /\ clock = StartTime(id)
Stopping(id) == app[id] = "started" /\ clock = StopTime(id)
Sending(id) == nextTx[id] = clock

\* StartApplication connects, looks at no result, and with an OffTime of 0
\* StartSending schedules the first packet at the same moment.
StartApplication(id) ==
  /\ Running /\ Starting(id)
  /\ app' = [app EXCEPT ![id] = "started"]
  /\ socket' = [socket EXCEPT ![id] =
                  IF Routed(Req(id).ingress, peer[id])
                    THEN "connecting" ELSE "closed"]
  /\ nextTx' = [nextTx EXCEPT ![id] = clock + PacketTicks]
  /\ UNCHANGED <<loadVars, host, peer, clock, unsent, sent, got, named>>

\* A slip: nothing is sent before the connection has been made.
SendWhenConnected(id) ==
  /\ Running /\ Sending(id) /\ ~Stopping(id)
  /\ IF socket[id] = "connected" /\ sent[id] - got[id] < SendBuffer
       THEN /\ sent' = [sent EXCEPT ![id] = @ + 1]
            /\ unsent' = [unsent EXCEPT ![id] = FALSE]
       ELSE /\ unsent' = [unsent EXCEPT ![id] = TRUE]
            /\ UNCHANGED sent
  /\ nextTx' = [nextTx EXCEPT ![id] = clock + PacketTicks]
  /\ UNCHANGED <<loadVars, host, peer, clock, app, socket, got, named>>

\* A slip: the next packet is scheduled without its interval.
SendAtOnce(id) ==
  /\ Running /\ Sending(id) /\ ~Stopping(id)
  /\ IF socket[id] # "closed" /\ sent[id] - got[id] < SendBuffer
       THEN /\ sent' = [sent EXCEPT ![id] = @ + 1]
            /\ unsent' = [unsent EXCEPT ![id] = FALSE]
       ELSE /\ unsent' = [unsent EXCEPT ![id] = TRUE]
            /\ UNCHANGED sent
  /\ UNCHANGED <<loadVars, host, peer, clock, app, nextTx, socket, got, named>>

\* SendPacket: a socket that is connecting takes packets as well; a packet it
\* refuses is kept for the next attempt.
SendPacket(id) ==
  /\ Running /\ Sending(id) /\ ~Stopping(id)
  /\ IF socket[id] # "closed" /\ sent[id] - got[id] < SendBuffer
       THEN /\ sent' = [sent EXCEPT ![id] = @ + 1]
            /\ unsent' = [unsent EXCEPT ![id] = FALSE]
       ELSE /\ unsent' = [unsent EXCEPT ![id] = TRUE]
            /\ UNCHANGED sent
  /\ nextTx' = [nextTx EXCEPT ![id] = clock + PacketTicks]
  /\ UNCHANGED <<loadVars, host, peer, clock, app, socket, got, named>>

\* StopApplication cancels the events, drops a kept packet, and closes the
\* socket, which goes on until what it has taken is delivered.
StopApplication(id) ==
  /\ Running /\ Stopping(id)
  /\ app' = [app EXCEPT ![id] = "stopped"]
  /\ nextTx' = [nextTx EXCEPT ![id] = Never]
  /\ unsent' = [unsent EXCEPT ![id] = FALSE]
  /\ socket' = [socket EXCEPT ![id] =
                  IF sent[id] = got[id] THEN "closed" ELSE @]
  /\ UNCHANGED <<loadVars, host, peer, clock, sent, got, named>>

-----------------------------------------------------------------------------
(***************************************************************************)
(* Sfc_sink, and the network.                                              *)
(***************************************************************************)
\* The connection is made: HandleAccept at the sink, ConnectionSucceeded at
\* the application, whose m_connected nobody reads.
HandleAccept(id) ==
  /\ Running /\ socket[id] = "connecting"
  /\ socket' = [socket EXCEPT ![id] = "connected"]
  /\ UNCHANGED <<loadVars, host, peer, clock, app, nextTx, unsent, sent, got,
                 named>>

\* A slip: the end of the stream is counted as a packet.
HandleReadEnd(id) ==
  /\ Running /\ socket[id] = "connected" /\ got[id] <= sent[id]
  /\ got' = [got EXCEPT ![id] = @ + 1]
  /\ socket' = [socket EXCEPT ![id] = IF got[id] = sent[id] THEN "closed" ELSE @]
  /\ UNCHANGED <<loadVars, host, peer, clock, app, nextTx, unsent, sent, named>>

\* HandleRead: a packet arrives, and its tag is looked up among the requests.
HandleRead(id) ==
  /\ Running /\ socket[id] = "connected" /\ got[id] < sent[id]
  /\ got' = [got EXCEPT ![id] = @ + 1]
  /\ \E junk \in Bytes :
       named' = [named EXCEPT ![id] =
                   Find(reqs, Slots, ReadId(id, Req(id).arriveTime, junk))]
  /\ socket' = [socket EXCEPT ![id] =
                  IF app[id] = "stopped" /\ got'[id] = sent[id]
                    THEN "closed" ELSE @]
  /\ UNCHANGED <<loadVars, host, peer, clock, app, nextTx, unsent, sent>>

-----------------------------------------------------------------------------
\* Time passes when no application has an event left at this moment.
Tick ==
  /\ Running
  /\ \A id \in Ids : ~Starting(id) /\ ~Stopping(id) /\ ~Sending(id)
  /\ clock' = clock + 1
  /\ UNCHANGED <<loadVars, host, peer, appVars>>

\* Simulator::Stop at the end of the last slot was scheduled before all else.
SimulatorStop ==
  /\ pc = "run" /\ clock = RunEnd
  /\ pc' = "over"
  /\ UNCHANGED <<inputs, runs, cursor, file, readVars, reqs, reqCount,
                 host, peer, clock, appVars>>

Load == LoadNext /\ UNCHANGED simVars

Next ==
  \/ Load
  \/ DeployRequest
  \/ GenTraffic
  \/ \E id \in Ids : StartApplication(id)
  \/ \E id \in Ids : SendPacket(id)
  \/ \E id \in Ids : StopApplication(id)
  \/ \E id \in Ids : HandleAccept(id)
  \/ \E id \in Ids : HandleRead(id)
  \/ Tick
  \/ SimulatorStop

Spec == Init /\ [][Next]_vars /\ WF_vars(Next)

-----------------------------------------------------------------------------
TypeOK ==
  /\ pc \in {"generate", "unnamed", "aborted", "generated", "read", "create",
             "undefined", "deploy", "run", "over"}
  /\ runs \in 1..MaxRuns /\ funcType \in Nat /\ line \in 0..Len(file)
  /\ reqCount \in Nat /\ clock \in 0..RunEnd
  /\ pc \in {"run", "over"} =>
       /\ host \in Seq(Nodes \cup {0}) /\ Len(host) = reqCount
       /\ app \in [Ids -> {"none", "installed", "started", "stopped"}]
       /\ nextTx \in [Ids -> {Never} \cup clock..clock + PacketTicks]
       /\ unsent \in [Ids -> BOOLEAN]
       /\ socket \in [Ids -> {"closed", "connecting", "connected"}]
       /\ \A id \in Ids : got[id] \in 0..sent[id]
       /\ \A id \in Ids : sent[id] - got[id] \in 0..SendBuffer
       /\ named \in [Ids -> {Unread, NotFound} \cup Ids]

(***************************************************************************)
(* The assertion of zipf.cc:127 and what the search is for: every number   *)
(* in the file is the value whose share of the unit interval holds the     *)
(* draw of its node.  Lines are counted back to the title they follow.     *)
(***************************************************************************)
Titles(l) == Cardinality({k \in 1..l : file[k] = Title})

RowsAreDraws ==
  pc = "generate" =>
    \A l \in 1..Len(file) : file[l] # Title =>
      LET t == ((Titles(l) - 1) % NumTypes) + 1
          s == Cardinality({k \in 1..l : Titles(k) = Titles(l)}) - 1
      IN  \A n \in Nodes :
            IsZipf(sorted[t][s] \div NodeNum, Draws(NodeNum)[n], file[l][n])

\* What create_requests wrote for a type, slot and node, as it is taken.
Demand(t, s, n) ==
  IF s <= Len(sorted[t]) THEN Row(sorted[t][s])[n] \div ReduFactor ELSE 0

\* Requests of a slot in m_request_map that are among these.
InSlot(s, some) == Cardinality({i \in 1..Len(reqs[s]) : reqs[s][i] \in some})

\* Requests for a type and node that arrive in the slot.
For(t, s, n) == {Request(id, t, n, s) : id \in Ids}

SlotDemand(s) ==
  SumFunction([t \in Types |-> SumFunction([n \in Nodes |-> Demand(t, s, n)])])

\* How often the rows of all types are in the file.
Copies == Titles(Len(file)) \div NumTypes

\* Of these, the one whose titles createRequest knows as types: none without
\* a topology.
CopiesKnown == IF HasTopo /\ Copies > 0 THEN 1 ELSE 0

(***************************************************************************)
(* readRequests and createRequests lose, shift and invent nothing: for     *)
(* each type, slot and node there are as many requests as the ReduFactor-th*)
(* part of the number create_requests wrote, ids are given once, and       *)
(* requests nobody has initialised (myAlgorithm.cc:399) come only from     *)
(* further runs of create_requests, or are all there is, when the scheduler*)
(* did not learn the name of its topology (myAlgorithm.cc:1266); each run  *)
(* that has written its rows brings as many.                               *)
(***************************************************************************)
DemandLoaded ==
  pc \in {"deploy", "undefined"} =>
    /\ \A t \in Types, s \in Slots, n \in Nodes :
         InSlot(s, For(t, s, n)) = CopiesKnown * Demand(t, s, n)
    /\ \A s \in Slots :
         InSlot(s, {Uninitialised}) = (Copies - CopiesKnown) * SlotDemand(s)
    /\ \A s \in Slots : \A i \in 1..Len(reqs[s]) :
         \/ reqs[s][i] = Uninitialised
         \/ \E t \in Types, n \in Nodes : reqs[s][i] \in For(t, s, n)
    /\ \A id \in Ids : \E s \in Slots : \E i \in 1..Len(reqs[s]) :
         \A u \in Slots : \A j \in 1..Len(reqs[u]) :
           reqs[u][j].id = id <=> u = s /\ j = i

(***************************************************************************)
(* The address create_traffic finds for a request is one of its deployNode *)
(* (network_controller.cc:229), whichever end of which link it is.         *)
(***************************************************************************)
AddressedToHost ==
  pc \in {"run", "over"} =>
    \A id \in Ids : peer[id] # NoAddress => Owner(peer[id]) = Host(id)

(***************************************************************************)
(* An application whose slot is over has sent something, however long its  *)
(* connection took (network_controller.cc:271): the served requests that   *)
(* send nothing are those on node 1, whose link is stored under another    *)
(* key, those without a route, and those of the last slot, whose start     *)
(* falls on the end of the simulation.                                     *)
(***************************************************************************)
Silent(id) == (pc = "over" \/ clock >= StopTime(id)) /\ Host(id) # 0 /\ sent[id] = 0

Explained(id) ==
  \/ Host(id) = 1
  \/ ~Routed(Req(id).ingress, peer[id])
  \/ Req(id).arriveTime = SlotNum

SilentOnlyWhen ==
  pc \in {"run", "over"} =>
    \A id \in Ids : Silent(id) => Explained(id)

(***************************************************************************)
(* As long as ids stay below 0xFF the sink never takes a packet for that   *)
(* of another request (sfc_tag.cc:107, type.h:300): it finds the sender or *)
(* nothing, also when later ids share its byte.                            *)
(***************************************************************************)
NeverMistaken ==
  pc \in {"run", "over"} =>
    \A id \in Ids : id < Invalid => named[id] \in {Unread, NotFound, id}

(***************************************************************************)
(* The programs end: the readers at the end of the file, the simulation at *)
(* its last slot, with no application able to hold the clock.              *)
(***************************************************************************)
Termination == <>(pc \in {"over", "unnamed", "aborted", "undefined"})

=============================================================================
